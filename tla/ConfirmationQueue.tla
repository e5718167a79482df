-------------------------- MODULE ConfirmationQueue --------------------------
(* The queue through which every agent of a session asks the user: one      *)
(* prompt is active and handed to the display, the others wait behind it.   *)
(* The operators are the methods of the class; AgentTurn takes them as the  *)
(* parts of its steps.  A prompt is known by the agent that asks and by     *)
(* what is asked: a tool call of its loop, the launch of a background job,  *)
(* or the use of another model.  An "orphan" is a job prompt whose asker    *)
(* has stopped listening.                                                   *)
EXTENDS Naturals, FiniteSets, Sequences, SequencesExt

CONSTANTS Agent, Main

ASSUME MainAssumption == Main \in Agent

VARIABLES
  active,      \* activeItem
  queue,       \* the entries behind it
  pending,     \* what setPending last gave the display
  autoAccept,  \* a blanket approval is in force
  answer,      \* agent -> the choice its prompt was resolved with
  floor        \* the organisation's permission floor, "none" or "ask"

queueVars == <<active, queue, pending, autoAccept, answer>>

Prompt == [who : Agent, what : {"tool", "job", "model", "orphan"}]
None == [who |-> Main, what |-> "none"]

\* What a blanket approval covers: not a job, nor an explicit approval.
Blanket(p) == p.what = "tool"

Entries == (ToSet(queue) \cup {active}) \ {None}

Reply(ps, choice) ==
  answer' = [a \in Agent |-> IF \E p \in ps : p.who = a /\ p.what # "orphan"
                             THEN choice ELSE answer[a]]

\* What filter leaves of a queue: all but the entries in S, in their order.
Without(q, S) ==
  LET kept == {i \in 1..Len(q) : q[i] \notin S}
      rank(i) == Cardinality({j \in kept : j <= i})
  IN [k \in 1..Cardinality(kept) |-> q[CHOOSE i \in kept : rank(i) = k]]

Show(p) == active' = p /\ pending' = p

\* Mutant: the next entry is not taken up.
ShowNothing(rest) == Show(None) /\ queue' = rest

\* dequeue: the next entry becomes the active one.
Dequeue(rest) ==
  IF rest = <<>> THEN Show(None) /\ queue' = <<>>
                 ELSE Show(Head(rest)) /\ queue' = Tail(rest)

Enqueue(p) ==
  /\ UNCHANGED autoAccept
  /\ IF autoAccept /\ Blanket(p)
     THEN Reply({p}, "always") /\ UNCHANGED <<active, queue, pending>>
     ELSE /\ UNCHANGED answer
          /\ IF active = None THEN Show(p) /\ UNCHANGED queue
             ELSE queue' = Append(queue, p) /\ UNCHANGED <<active, pending>>

\* A prompt given a signal is refused at once when that is aborted already.
EnqueueUnless(aborted, p) ==
  IF aborted THEN Reply({p}, "no") /\ UNCHANGED <<active, queue, pending, autoAccept>>
  ELSE Enqueue(p)

\* An "always" does not widen an approval that must be explicit, nor one the
\* floor forbids to widen, nor a job's.
Effective(choice) ==
  IF choice = "always" /\ active.what = "model" THEN "no"
  ELSE IF choice = "always" /\ (floor = "ask" \/ ~Blanket(active)) THEN "yes"
  ELSE choice

\* Mutant: the answer goes to whatever prompt is active by now.
ResolveActive(choice, expected) ==
  /\ active # None
  /\ answer' = [answer EXCEPT ![active.who] = Effective(choice)]
  /\ Dequeue(queue) /\ autoAccept' = (autoAccept \/ Effective(choice) = "always")

\* resolve: only the prompt that was answered, while it is still the active one.
Resolve(choice, expected) ==
  /\ active # None /\ expected = active
  /\ LET all == Effective(choice) = "always"
         flushed == {p \in ToSet(queue) : all /\ Blanket(p)}
     IN /\ answer' = [a \in Agent |->
                        IF a = active.who /\ active.what # "orphan" THEN Effective(choice)
                        ELSE IF \E p \in flushed : p.who = a /\ p.what # "orphan" THEN "always"
                        ELSE answer[a]]
        /\ autoAccept' = (autoAccept \/ all)
        /\ Dequeue(Without(queue, flushed))

\* Mutant: the prompts behind a rejected one are not taken up.
RejectAndStop(a) ==
  LET p == [who |-> a, what |-> "tool"]
      rest == Without(queue, {p})
  IN /\ IF p \in Entries THEN Reply({p}, "no") ELSE UNCHANGED answer
     /\ IF active = p THEN Show(None) ELSE UNCHANGED <<active, pending>>
     /\ queue' = rest /\ UNCHANGED autoAccept

\* rejectBySubagentId: the tool prompts of one subagent; a model prompt has none.
RejectBySubagent(a) ==
  LET p == [who |-> a, what |-> "tool"]
      rest == Without(queue, {p})
  IN /\ UNCHANGED autoAccept
     /\ IF p \in Entries THEN Reply({p}, "no") ELSE UNCHANGED answer
     /\ IF active = p THEN Dequeue(rest)
        ELSE queue' = rest /\ UNCHANGED <<active, pending>>

\* Mutant: only the displayed prompt is answered.
ClearActive ==
  Reply({active} \ {None}, "no") /\ Show(None) /\ queue' = <<>> /\ autoAccept' = FALSE

\* clear: everyone who waits hears "no", and the blanket approval is over.
Clear == Reply(Entries, "no") /\ Show(None) /\ queue' = <<>> /\ autoAccept' = FALSE
=============================================================================
