--------------------------- MODULE WorkflowNodes ---------------------------
(* The node checkpoints of a workflow run and the rules of its scheduler:  *)
(* which node is ready, skipped, retried, tolerated or parked, what status *)
(* a scope ends with, and which checkpoints the store accepts when it      *)
(* reads a run back.  Constant-level: a definition d, the checkpoints cps  *)
(* and the decisions dec are parameters.                                   *)
(*                                                                         *)
(*   d    [type, deps, strict, tolerate, when, maxTry, deadline] : types,  *)
(*        dependencies, stopOnFailure, continueOnError, the nodes with a   *)
(*        condition, retry.max + 1, and whether the run has a deadline     *)
(*   cps  [Node -> [st, try, unsure]] : status, attempt, and whether the   *)
(*        recorded error says that the outcome is not known                *)
(*   dec  [Node -> "none" | "asked" | "approve" | "deny"] : the decision   *)
(*        of the node's gate or of its last interruption                   *)
EXTENDS Naturals, FiniteSets

CONSTANT Node

NodeStatus == {"pending", "running", "waiting_approval", "passed", "failed",
               "cancelled", "timed_out", "skipped"}

Definition == [type : [Node -> {"approval", "job", "agent", "tool"}],
               deps : [Node -> SUBSET Node], strict : BOOLEAN, deadline : BOOLEAN,
               tolerate : SUBSET Node, when : SUBSET Node, maxTry : [Node -> Nat \ {0}]]

\* Mutant: a parked gate counts as settled.
SettledOrParked == NodeStatus \ {"pending", "running"}

Settled == NodeStatus \ {"pending", "running", "waiting_approval"}

Broken == {"failed", "timed_out", "cancelled"}

Checkpoint == [st : NodeStatus, try : Nat \ {0}, unsure : BOOLEAN]

Fresh == [st |-> "pending", try |-> 1, unsure |-> FALSE]

\* Only a job can be found again by the runner that comes after.
Resumable(d, n) == d.type[n] = "job"

\* An agent or prompt node is simply dispatched again.
RetriesOnResume(d, n) == d.type[n] = "agent"

\* Running, but neither reattachable nor safe to repeat.
Uncertain(d, cps, n) ==
  cps[n].st = "running" /\ ~Resumable(d, n) /\ ~RetriesOnResume(d, n)

ToleratedFailure(d, cps, n) ==
  n \in d.tolerate /\ cps[n].st \in {"failed", "timed_out"} /\ ~cps[n].unsure

ReadyNodes(d, cps) ==
  {n \in Node : cps[n].st = "pending" /\ \A p \in d.deps[n] : cps[p].st \in Settled}

\* A dependency that failed, or was skipped, skips what depends on it.
Skipped(d, cps, n) ==
  \E p \in d.deps[n] :
    ~ToleratedFailure(d, cps, p) /\ cps[p].st \in Broken \cup {"skipped"}

\* A failure that ends scheduling under stopOnFailure.
FailureStops(d, cps) ==
  d.strict /\ \E n \in Node : cps[n].st = "failed" /\ ~ToleratedFailure(d, cps, n)

\* The same question asked before a node is picked and on entry, where every
\* broken status counts.
BrokenStops(d, cps) ==
  d.strict /\ \E n \in Node : cps[n].st \in Broken /\ ~ToleratedFailure(d, cps, n)

\* Mutant: one attempt too many.
MayRetryOnceMore(d, cps, n) ==
  cps[n].st \in {"failed", "timed_out"} /\ cps[n].try <= d.maxTry[n]

MayRetry(d, cps, n) ==
  /\ cps[n].st \in {"failed", "timed_out"}
  /\ cps[n].try < d.maxTry[n]
  /\ ~(d.type[n] = "job" /\ cps[n].unsure)

\* The status a scope ends with; abort is why it was cut short, if it was.
FinalStatus(d, cps, abort) ==
  LET all == {cps[n].st : n \in {m \in Node : ~ToleratedFailure(d, cps, m)}}
  IN CASE abort = "deadline" -> "timed_out"
       [] abort = "cancel" -> "cancelled"
       [] abort = "no" /\ ~d.strict /\ "waiting_approval" \in all -> "waiting_approval"
       [] OTHER -> IF "timed_out" \in all THEN "timed_out"
                   ELSE IF "failed" \in all THEN "failed"
                   ELSE IF "cancelled" \in all THEN "cancelled"
                   ELSE IF all \subseteq {"passed", "skipped"} THEN "passed"
                   ELSE "waiting_approval"

\* A decided node as the runner records it: a gate passes or fails, an
\* interrupted tool is dispatched again or marked failed.
Decided(d, cps, dec, n) ==
  IF dec[n] = "approve"
    THEN [cps[n] EXCEPT !.st = IF d.type[n] = "approval" THEN "passed" ELSE "pending"]
    ELSE [cps[n] EXCEPT !.st = "failed", !.unsure = d.type[n] # "approval"]

Unapplied(cps, dec) ==
  {n \in Node : cps[n].st = "waiting_approval" /\ dec[n] \in {"approve", "deny"}}

ApplyDecisions(d, cps, dec) ==
  [n \in Node |-> IF n \in Unapplied(cps, dec) THEN Decided(d, cps, dec, n) ELSE cps[n]]

\* What a new runner makes of the work it finds running: a job stays for the
\* reattach, an agent starts over, anything else waits for a decision.
Normalized(d, cps) ==
  [n \in Node |->
     IF cps[n].st # "running" \/ Resumable(d, n) THEN cps[n]
     ELSE IF RetriesOnResume(d, n) THEN [cps[n] EXCEPT !.st = "pending", !.unsure = FALSE]
     ELSE [cps[n] EXCEPT !.st = "waiting_approval"]]

\* Mutant: a node's interruptions share one decision.
AskOnce(d, cps, dec) ==
  [n \in Node |-> IF Uncertain(d, cps, n) /\ dec[n] = "none" THEN "asked" ELSE dec[n]]

\* The decisions after parking the uncertain nodes: each interruption asks anew.
AskUncertain(d, cps, dec) ==
  [n \in Node |-> IF Uncertain(d, cps, n) THEN "asked" ELSE dec[n]]

\* Which checkpoints can stand beside each other: nothing was dispatched
\* before its dependencies passed, nothing skipped before they settled.
NodesAccepted(d, cps) ==
  LET Seen(p) == IF ToleratedFailure(d, cps, p) THEN "passed" ELSE cps[p].st
      Behind(n) == {Seen(p) : p \in d.deps[n]}
  IN \A n \in Node :
       /\ d.type[n] = "approval" =>
            cps[n].st \in {"pending", "waiting_approval", "passed", "failed", "cancelled"}
       /\ d.type[n] = "job" => cps[n].st # "waiting_approval"
       /\ cps[n].try \in 1..d.maxTry[n]
       /\ cps[n].st = "skipped" =>
            Behind(n) \subseteq {"passed", "skipped"} \cup (IF d.strict THEN {} ELSE Broken)
       /\ cps[n].st \notin {"pending", "skipped"} => Behind(n) \subseteq {"passed"}

\* The store refuses to read anything else: a forged or impossible state.
ReadAccepts(d, status, cps) ==
  /\ NodesAccepted(d, cps)
  /\ Cardinality({n \in Node : cps[n].st = "running"}) <= 1
  /\ status = "pending" => \A n \in Node : cps[n].st = "pending"
  /\ status = "passed" =>
       \A n \in Node : cps[n].st \in {"passed", "skipped"} \/ ToleratedFailure(d, cps, n)

\* A closed set of nodes that are always dispatched: none has a condition, and
\* what they depend on is among them and ends the run when it breaks.
AlwaysReached(d, U) ==
  /\ U \cap d.when = {}
  /\ \A n \in U : d.deps[n] \subseteq U /\ (d.strict \/ d.deps[n] = {})

\* Every gate is always reached.
GatesAreReached(d) ==
  \E U \in SUBSET Node :
    (\A n \in Node : d.type[n] = "approval" => n \in U) /\ AlwaysReached(d, U)
=============================================================================
