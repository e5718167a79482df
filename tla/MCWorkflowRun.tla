--------------------------- MODULE MCWorkflowRun ---------------------------
(* Workflow definitions for the runs of WorkflowRun: two nodes, the second  *)
(* with or without a dependency on the first.                               *)
EXTENDS WorkflowRun, TLC

CONSTANTS first, second

TwoNodes == {first, second}
Symmetry == Permutations(Session)

Plain(t1, t2) ==
  [type |-> first :> t1 @@ second :> t2, deps |-> first :> {} @@ second :> {},
   strict |-> TRUE, deadline |-> FALSE, tolerate |-> {}, when |-> {},
   maxTry |-> [n \in TwoNodes |-> 1]]

Chain(t1, t2) == [Plain(t1, t2) EXCEPT !.deps[second] = {first}]

GateThenTool == Chain("approval", "tool")
\* A gate beside a job that may be tried twice.
GateAndJob == [Plain("approval", "job") EXCEPT !.maxTry[second] = 2]
\* An agent whose failure is tolerated, before a tool, against a deadline.
AgentThenTool == [Chain("agent", "tool") EXCEPT
                    !.strict = FALSE, !.tolerate = {first}, !.deadline = TRUE]
\* A tool, and an agent whose condition is false.
ToolThenNothing == [Chain("tool", "agent") EXCEPT !.when = {second}]

Readable == {GateThenTool, GateAndJob, AgentThenTool, ToolThenNothing}
\* The same, tried once and without a deadline: for two sessions.
Simple == {[d EXCEPT !.deadline = FALSE, !.maxTry[second] = 1] : d \in Readable}

\* A gate whose condition is false.
GateBehindCondition == {[Chain("tool", "approval") EXCEPT !.when = {second}]}

\* The hypothesis of the theorem about CheckpointReadable tells them apart.
ASSUME GatesInReach ==
  /\ \A d \in Readable \cup Simple : GatesAreReached(d)
  /\ \A d \in GateBehindCondition : ~GatesAreReached(d)
=============================================================================
