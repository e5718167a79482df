----------------------------- MODULE JobOutcome -----------------------------
(***************************************************************************)
(* What the job store promises about the outcome of one job, whoever reads *)
(* it: a job is open until it is decided once and for all or abandoned by  *)
(* an operator; an outcome that the supervisor observed is announced by    *)
(* exactly one completion event, written first and never contradicted; and *)
(* nothing is announced for a job that was abandoned.                      *)
(***************************************************************************)
CONSTANT Outcome

VARIABLES verdict, event

vars == <<verdict, event>>

Init == verdict = "open" /\ event = "none"

Announce(o) == verdict = "open" /\ event = "none" /\ event' = o /\ UNCHANGED verdict
Decide(o)   == verdict = "open" /\ event = o /\ verdict' = o /\ UNCHANGED event

\* A launch or spawn that failed for certain: nothing ran, nothing to announce.
Fail    == verdict = "open" /\ event = "none" /\ verdict' = "failed" /\ UNCHANGED event
Abandon == verdict = "open" /\ verdict' = "abandoned" /\ UNCHANGED event

\* Only decided jobs are deleted, the record last.
Forget  == verdict \in Outcome /\ event' = "none" /\ verdict' \in {verdict, "deleted"}

Next == Fail \/ Abandon \/ Forget \/ \E o \in Outcome : Announce(o) \/ Decide(o)

Spec == Init /\ [][Next]_vars
=============================================================================
