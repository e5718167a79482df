------------------------- MODULE WorkflowRunProofs -------------------------
(***************************************************************************)
(* The promises of a background workflow run, for any definitions, any     *)
(* number of nodes, sessions, attempts and faults.                         *)
(*                                                                         *)
(* The argument: a new attempt is opened only when the job of the last one *)
(* has ended, so that the current attempt is the only one alive            *)
(* (AttemptInv, ProcessInv), and what a session believes from an unlocked  *)
(* read is so phrased that it stays true (SessionInv).  The place of the   *)
(* lock holder tells which nodes run (LockInv, WorkInv), and a gate or a   *)
(* tool that was cut off moves on only by a decision (GateInv, ChoiceInv,  *)
(* CutOffInv).  That the checkpoint can be read back rests on the order in *)
(* which nodes move (NodeInv, in a section of its own).                    *)
(***************************************************************************)
EXTENDS WorkflowRun, FiniteSetTheorems, TLAPS

\* The parts of the type invariant.
RunOK == run \in Run /\ \A n \in Node : run.cps[n].try <= def.maxTry[n]

Place == {"none", "boot", "entered", "ending", "pick", "next", "park", "exec", "after", "retry",
          "end", "recheck", "gone"}

RestOK ==
  /\ def \in Definitions
  /\ dec \in [Node -> {"none", "asked", "approve", "deny"}]
  /\ cancelRequested \in BOOLEAN /\ late \in BOOLEAN
  /\ lockedBy \in 0..MaxAttempts
  /\ job \in [Attempt -> {"none", "live", "uncertain", "terminal"}]
  /\ runner \in [Attempt -> Place]
  /\ busy \in Node /\ abort \in {"no", "cancel", "deadline"}
  /\ faults \in 0..MaxFaults
  /\ interrupted \in [Node -> BOOLEAN]

\* Attempts follow one another: below the run's attempt every job has ended,
\* above it none was started.
AttemptInv ==
  /\ \A a \in Attempt :
       /\ a < run.attempt => job[a] = "terminal"
       /\ a > run.attempt => job[a] = "none"
  /\ run.status = "running" => run.attempt \in Attempt /\ job[run.attempt] # "none"

\* A job was started exactly when its process was; it ends after it.
ProcessInv ==
  \A a \in Attempt :
    /\ job[a] = "none" <=> runner[a] = "none"
    /\ job[a] = "terminal" => runner[a] = "gone"

\* What a session may still believe of what it read.
SessionInv ==
  \A s \in Session :
    /\ ses[s].pc = "judge" =>
         /\ ses[s].att \in Attempt /\ ses[s].st \in {"running", "queued", "waiting_approval"}
         /\ ses[s].st = "running" => job[ses[s].att] # "none"
    /\ ses[s].pc = "dead" => ses[s].att \in Attempt /\ job[ses[s].att] = "terminal"
    /\ ses[s].pc = "intent" /\ ses[s].att # 0 =>
         ses[s].att - 1 \in Attempt /\ job[ses[s].att - 1] = "terminal"
    /\ ses[s].pc = "start" => ses[s].att \in Attempt /\ ses[s].att <= run.attempt

\* The runner that is past its entrance has the lock.
Locking == {"entered", "ending", "pick", "next", "park", "exec", "after", "retry", "end",
            "recheck"}

LockInv ==
  /\ lockedBy # 0 => runner[lockedBy] \in Locking
  /\ \A a \in Attempt : runner[a] \in Locking => lockedBy = a

Held(where) == lockedBy # 0 /\ runner[lockedBy] \in where

\* What the recorded status and the place of the lock holder say of the nodes.
WorkInv ==
  /\ \A m, n \in Running : m = n
  /\ lockedBy # 0 => run.status \notin TerminalRun
  /\ run.status \in TerminalRun \cup {"waiting_approval"} => Running = {}
  /\ Held({"ending", "pick", "next", "park", "after", "retry", "end", "recheck"}) =>
       Running = {}
  /\ Held({"exec"}) => Running = {busy}
  /\ Held({"ending"}) => run.cps[busy].st \in Broken
  /\ Held({"pick", "next", "park", "exec", "after", "retry", "end"}) => run.status = "running"

GateInv ==
  \A n \in Node : def.type[n] = "approval" =>
    /\ run.cps[n].st # "running"
    /\ run.cps[n].st = "passed" => dec[n] = "approve"
    /\ run.cps[n].st = "failed" => dec[n] = "deny"

\* The lock holder works on a node that is no gate.
ChoiceInv == Held({"exec", "after", "retry"}) => def.type[busy] # "approval"

\* Where a tool that was cut off may be, until its interruption is approved.
Working == {"park", "exec", "after", "retry"}

CutOffInv ==
  \A n \in Node : interrupted[n] =>
    /\ def.type[n] = "tool" /\ run.cps[n].st \in {"running", "waiting_approval", "failed"}
    /\ run.cps[n].st = "waiting_approval" => dec[n] \in {"asked", "deny"}
    /\ run.cps[n].st = "running" => lockedBy = 0
    /\ Held(Working) => busy # n

IInv == TypeOK /\ AttemptInv /\ ProcessInv /\ SessionInv /\ LockInv
        /\ WorkInv /\ GateInv /\ ChoiceInv /\ CutOffInv

-----------------------------------------------------------------------------
(* The record of the run, field by field.                                  *)

\* The fields of the record that a step leaves, and what is saved of the nodes.
SameStatus   == run'.status = run.status
SameAttempt  == run'.attempt = run.attempt
SameNodes    == run'.cps = run.cps
Tries        == \A n \in Node : run'.cps[n].try <= def.maxTry[n]
OnlyNode(n)  == \A m \in Node \ {n} : run'.cps[m] = run.cps[m]

\* The components of a well-typed record of the run.
LEMMA Fields ==
  ASSUME TypeOK
  PROVE  /\ run.status \in RunStatus /\ run.attempt \in 0..MaxAttempts
         /\ run.relaunches \in 0..MaxRelaunches /\ run.cps \in [Node -> Checkpoint]
         /\ def \in Definition /\ def.maxTry \in [Node -> Nat \ {0}]
         /\ \A n \in Node : run.cps[n].try <= def.maxTry[n]
  BY WorkflowAssumption DEF TypeOK, Run, Definition

\* What is left of the record when its checkpoints are saved.
LEMMA Saving ==
  ASSUME TypeOK, NEW cps \in [Node -> Checkpoint], SaveNodes(cps)
  PROVE  run' \in Run /\ run'.cps = cps /\ SameStatus /\ SameAttempt
  BY DEF SaveNodes, TypeOK, Run, SameStatus, SameAttempt

\* What is left of the record when its status is set.
LEMMA SettingStatus ==
  ASSUME TypeOK, NEW st \in RunStatus, run' = [run EXCEPT !.status = st]
  PROVE  run' \in Run /\ run'.status = st /\ SameAttempt /\ SameNodes
  BY DEF TypeOK, Run, SameNodes, SameAttempt

\* What is left of the record when one checkpoint is set.
LEMMA SettingNode ==
  ASSUME TypeOK, NEW n \in Node, NEW cp \in Checkpoint, SetNode(n, cp)
  PROVE  run' \in Run /\ run'.cps[n] = cp /\ OnlyNode(n) /\ SameStatus /\ SameAttempt
  <1>1. [run.cps EXCEPT ![n] = cp] \in [Node -> Checkpoint]
    BY Fields
  <1>2. run' \in Run /\ run'.cps = [run.cps EXCEPT ![n] = cp] /\ SameStatus /\ SameAttempt
    BY <1>1, Saving DEF SetNode
  <1>. QED BY <1>2, Fields DEF OnlyNode

\* A checkpoint that is given another status remains one.
LEMMA Moving ==
  ASSUME NEW cp \in Checkpoint, NEW st \in NodeStatus
  PROVE  /\ [cp EXCEPT !.st = st] \in Checkpoint
         /\ [cp EXCEPT !.st = st].st = st /\ [cp EXCEPT !.st = st].try = cp.try
  BY DEF Checkpoint

\* A step that gives one node another status.
LEMMA MovingNode ==
  ASSUME TypeOK, NEW n \in Node, NEW st \in NodeStatus,
         SetNode(n, [run.cps[n] EXCEPT !.st = st])
  PROVE  run' \in Run /\ run'.cps[n].st = st /\ Tries /\ OnlyNode(n) /\ SameStatus
         /\ SameAttempt
  <1>. DEFINE cp == [run.cps[n] EXCEPT !.st = st]
  <1>1. cp \in Checkpoint /\ cp.st = st /\ cp.try = run.cps[n].try
    BY Fields, Moving
  <1>2. run' \in Run /\ run'.cps[n] = cp /\ OnlyNode(n) /\ SameStatus /\ SameAttempt
    BY <1>1, SettingNode
  <1>. HIDE DEF cp
  <1>. QED BY <1>1, <1>2, Fields DEF Tries, OnlyNode

\* What becomes of a decided node.
DecidedStatus(n) == IF dec[n] = "deny" THEN "failed"
                    ELSE IF def.type[n] = "approval" THEN "passed" ELSE "pending"

\* Applying decisions changes the nodes with an unapplied decision and no other,
\* and counts no try.
LEMMA ApplyEffect ==
  ASSUME NEW d \in Definition, NEW cps \in [Node -> Checkpoint], NEW ds
  PROVE  /\ ApplyDecisions(d, cps, ds) \in [Node -> Checkpoint]
         /\ \A n \in Node :
              /\ ApplyDecisions(d, cps, ds)[n].try = cps[n].try
              /\ n \notin Unapplied(cps, ds) => ApplyDecisions(d, cps, ds)[n] = cps[n]
              /\ n \in Unapplied(cps, ds) =>
                   ApplyDecisions(d, cps, ds)[n].st =
                     IF ds[n] = "deny" THEN "failed"
                     ELSE IF d.type[n] = "approval" THEN "passed" ELSE "pending"
  <1>1. ASSUME NEW n \in Unapplied(cps, ds)
        PROVE  /\ Decided(d, cps, ds, n) \in Checkpoint
               /\ Decided(d, cps, ds, n).try = cps[n].try
               /\ Decided(d, cps, ds, n).st =
                    IF ds[n] = "deny" THEN "failed"
                    ELSE IF d.type[n] = "approval" THEN "passed" ELSE "pending"
    <2>1. cps[n] \in Checkpoint /\ ds[n] \in {"approve", "deny"}
      BY DEF Unapplied
    <2>2. CASE ds[n] = "approve"
      BY <2>1, <2>2 DEF Decided, Checkpoint, NodeStatus
    <2>3. CASE ds[n] = "deny"
      BY <2>1, <2>3 DEF Decided, Checkpoint, NodeStatus
    <2>. QED BY <2>1, <2>2, <2>3
  <1>. QED BY <1>1 DEF ApplyDecisions

\* Resuming changes the nodes that were running and are no jobs: an agent runs
\* again, the others wait for an approval.
LEMMA NormalizedEffect ==
  ASSUME NEW d \in Definition, NEW cps \in [Node -> Checkpoint]
  PROVE  /\ Normalized(d, cps) \in [Node -> Checkpoint]
         /\ \A n \in Node :
              /\ Normalized(d, cps)[n].try = cps[n].try
              /\ cps[n].st # "running" \/ d.type[n] = "job" => Normalized(d, cps)[n] = cps[n]
              /\ cps[n].st = "running" /\ d.type[n] # "job" =>
                   Normalized(d, cps)[n].st =
                     IF d.type[n] = "agent" THEN "pending" ELSE "waiting_approval"
  BY DEF Normalized, Resumable, RetriesOnResume, Checkpoint, NodeStatus, Definition

\* A run that ends is terminal or waits for an approval.
LEMMA FinalEffect ==
  ASSUME NEW d, NEW cps, NEW cut \in {"no", "cancel", "deadline"}
  PROVE  FinalStatus(d, cps, cut) \in TerminalRun \cup {"waiting_approval"}
  BY DEF FinalStatus, TerminalRun

-----------------------------------------------------------------------------
(* What each step does to the record.                                      *)

\* Decisions are applied to the nodes that wait for them, and to no others.
LEMMA ApplyStep ==
  ASSUME TypeOK, run' \in Run, run'.cps = ApplyDecisions(def, run.cps, dec)
  PROVE  /\ Tries
         /\ \A n \in Node : run'.cps[n].st =
              IF n \in Unapplied(run.cps, dec) THEN DecidedStatus(n) ELSE run.cps[n].st
  BY Fields, ApplyEffect DEF Tries, DecidedStatus

\* The resumption of a run: what it makes of each node, and of which it asks.
LEMMA EntersEffect ==
  ASSUME TypeOK, NEW a \in Attempt, RunnerEnters(a)
  PROVE  /\ run' \in Run /\ SameStatus /\ SameAttempt /\ Tries
         /\ \A n \in Node :
              IF run.cps[n].st = "running" /\ def.type[n] \notin {"job", "agent"}
                THEN run'.cps[n].st = "waiting_approval" /\ dec'[n] = "asked"
                ELSE /\ dec'[n] = dec[n]
                     /\ run'.cps[n].st =
                          IF run.cps[n].st = "running" /\ def.type[n] = "agent" THEN "pending"
                          ELSE IF n \in Unapplied(run.cps, dec) THEN DecidedStatus(n)
                          ELSE run.cps[n].st
  <1>. DEFINE mid == Normalized(def, run.cps)
              new == ApplyDecisions(def, mid, dec')
  <1>1. /\ mid \in [Node -> Checkpoint]
        /\ \A n \in Node :
             /\ mid[n].try = run.cps[n].try
             /\ run.cps[n].st # "running" \/ def.type[n] = "job" => mid[n] = run.cps[n]
             /\ run.cps[n].st = "running" /\ def.type[n] # "job" =>
                  mid[n].st = IF def.type[n] = "agent" THEN "pending" ELSE "waiting_approval"
    BY Fields, NormalizedEffect
  <1>2. /\ new \in [Node -> Checkpoint]
        /\ \A n \in Node :
             /\ new[n].try = mid[n].try
             /\ n \notin Unapplied(mid, dec') => new[n] = mid[n]
             /\ n \in Unapplied(mid, dec') =>
                  new[n].st = IF dec'[n] = "deny" THEN "failed"
                              ELSE IF def.type[n] = "approval" THEN "passed" ELSE "pending"
    BY <1>1, Fields, ApplyEffect
  <1>3. SaveNodes(new)
    BY DEF RunnerEnters
  <1>4. run' \in Run /\ run'.cps = new /\ SameStatus /\ SameAttempt
    BY <1>2, <1>3, Saving
  <1>5. \A n \in Node : dec'[n] =
          IF run.cps[n].st = "running" /\ def.type[n] \notin {"job", "agent"}
            THEN "asked" ELSE dec[n]
    BY DEF RunnerEnters, AskUncertain, Uncertain, Resumable, RetriesOnResume
  <1>. HIDE DEF mid, new
  <1>6. Tries
    BY <1>1, <1>2, <1>4, Fields DEF Tries
  <1>. QED BY <1>1, <1>2, <1>4, <1>5, <1>6 DEF Unapplied, DecidedStatus

\* A run that must stop ends its job node and its attempt, or dies of it.
LEMMA StopsJobEffect ==
  ASSUME TypeOK, NEW a \in Attempt, RunnerStopsJob(a)
  PROVE  /\ Holds(a, "entered") /\ Tries /\ SameStatus /\ SameAttempt /\ run' \in Run
         /\ \/ \E n \in Running, b \in BrokenNodes :
                 /\ run'.cps[n].st \in {"passed", "failed", "cancelled"} /\ OnlyNode(n)
                 /\ busy' = b /\ Goto(a, "ending") /\ UNCHANGED lockedBy
            \/ Leave(a) /\ SameNodes /\ UNCHANGED busy
  <1>1. Holds(a, "entered")
    BY DEF RunnerStopsJob
  <1>2. CASE Leave(a) /\ UNCHANGED <<run, busy>>
    BY <1>1, <1>2, Fields DEF Tries, SameStatus, SameAttempt, SameNodes, TypeOK
  <1>3. ASSUME NEW n \in Running, NEW b \in BrokenNodes,
               NEW out \in {"passed", "failed", "cancelled"},
               SetNode(n, [run.cps[n] EXCEPT !.st = out]),
               busy' = b, Goto(a, "ending"), UNCHANGED lockedBy
        PROVE  /\ run' \in Run /\ run'.cps[n].st \in {"passed", "failed", "cancelled"}
               /\ OnlyNode(n) /\ Tries /\ SameStatus /\ SameAttempt
    <2>. n \in Node /\ out \in NodeStatus
      BY DEF Running, NodeStatus
    <2>. QED BY <1>3, MovingNode
  <1>. QED BY <1>1, <1>2, <1>3 DEF RunnerStopsJob

\* A run with a broken node ends with its status.
LEMMA GivesUpEffect ==
  ASSUME TypeOK, WorkInv, NEW a \in Attempt, RunnerGivesUp(a)
  PROVE  /\ lockedBy = a /\ runner[a] \in {"entered", "ending"} /\ Leave(a) /\ Running = {}
         /\ run' \in Run /\ run'.status \in TerminalRun /\ SameNodes /\ SameAttempt
  <1>1. \E n \in Node :
          /\ lockedBy = a /\ runner[a] \in {"entered", "ending"} /\ Leave(a) /\ Running = {}
          /\ run.cps[n].st \in Broken /\ run' = [run EXCEPT !.status = run.cps[n].st]
    <2>1. CASE Holds(a, "entered") /\ Running = {} /\ \E n \in BrokenNodes : EndWith(a, n)
      BY <2>1 DEF BrokenNodes, Broken, EndWith, Holds
    <2>2. CASE Holds(a, "ending") /\ EndWith(a, busy)
      <3>1. a # 0 /\ busy \in Node
        BY DEF Attempt, TypeOK
      <3>. QED BY <2>2, <3>1 DEF EndWith, Holds, Held, WorkInv
    <2>. QED BY <2>1, <2>2 DEF RunnerGivesUp
  <1>2. \A st \in Broken : st \in TerminalRun /\ st \in RunStatus
    BY DEF Broken, TerminalRun, RunStatus
  <1>. QED BY <1>1, <1>2, SettingStatus

\* The runner that has entered runs the job that is still running, or picks.
LEMMA RunsEffect ==
  ASSUME TypeOK, NEW a \in Attempt, RunnerRuns(a)
  PROVE  /\ Holds(a, "entered") /\ UNCHANGED lockedBy
         /\ run' \in Run /\ run'.status = "running" /\ SameNodes /\ SameAttempt
         /\ \/ Running = {} /\ Goto(a, "pick") /\ UNCHANGED busy
            \/ busy' \in Running /\ Goto(a, "exec")
  BY SettingStatus DEF RunnerRuns, RunStatus

\* The runner applies the decisions that were made, or leaves the nodes alone.
LEMMA ChecksEffect ==
  ASSUME TypeOK, NEW a \in Attempt, RunnerChecks(a)
  PROVE  /\ Holds(a, "pick") /\ UNCHANGED lockedBy
         /\ run' \in Run /\ SameStatus /\ SameAttempt /\ Tries
         /\ Goto(a, "next") \/ Goto(a, "end")
         /\ \/ SameNodes
            \/ \A n \in Node : run'.cps[n].st =
                 IF n \in Unapplied(run.cps, dec) THEN DecidedStatus(n) ELSE run.cps[n].st
  <1>1. Holds(a, "pick") /\ UNCHANGED lockedBy /\ (Goto(a, "next") \/ Goto(a, "end"))
    BY DEF RunnerChecks
  <1>2. CASE UNCHANGED run
    BY <1>1, <1>2, Fields DEF Tries, SameStatus, SameAttempt, SameNodes, TypeOK
  <1>3. CASE SaveNodes(ApplyDecisions(def, run.cps, dec))
    <2>1. /\ run' \in Run /\ run'.cps = ApplyDecisions(def, run.cps, dec)
          /\ SameStatus /\ SameAttempt
      BY <1>3, Fields, ApplyEffect, Saving
    <2>. QED BY <1>1, <2>1, ApplyStep
  <1>. QED BY <1>2, <1>3 DEF RunnerChecks

\* A ready node whose condition fails is skipped.
LEMMA SkipsEffect ==
  ASSUME TypeOK, NEW a \in Attempt, RunnerSkips(a)
  PROVE  /\ Holds(a, "next") /\ UNCHANGED lockedBy /\ Goto(a, "pick")
         /\ run' \in Run /\ SameStatus /\ SameAttempt /\ Tries
         /\ \E n \in Node : /\ run.cps[n].st = "pending"
                            /\ run'.cps[n].st = "skipped" /\ OnlyNode(n)
  <1>. PICK n \in ReadyNodes(def, run.cps) : SetNode(n, [run.cps[n] EXCEPT !.st = "skipped"])
    BY DEF RunnerSkips
  <1>1. n \in Node /\ run.cps[n].st = "pending" /\ "skipped" \in NodeStatus
    BY DEF ReadyNodes, NodeStatus
  <1>. QED BY <1>1, MovingNode DEF RunnerSkips

\* A pending node becomes the busy one, and runs unless it is to be parked.
LEMMA DispatchesEffect ==
  ASSUME TypeOK, NEW a \in Attempt, RunnerDispatches(a)
  PROVE  /\ Holds(a, "next") /\ UNCHANGED lockedBy
         /\ busy' \in Node /\ run.cps[busy'].st = "pending"
         /\ run' \in Run /\ SameStatus /\ SameAttempt /\ Tries
         /\ \/ /\ def.type[busy'] = "approval" /\ Goto(a, "park") /\ SameNodes
               /\ dec' = [dec EXCEPT ![busy'] = IF @ = "none" THEN "asked" ELSE @]
            \/ /\ def.type[busy'] # "approval" /\ Goto(a, "exec") /\ UNCHANGED dec
               /\ run'.cps[busy'].st = "running" /\ OnlyNode(busy')
  <1>1. /\ Holds(a, "next") /\ UNCHANGED lockedBy
        /\ busy' \in Node /\ run.cps[busy'].st = "pending"
    BY DEF RunnerDispatches, ReadyNodes
  <1>2. CASE def.type[busy'] = "approval"
    <2>. UNCHANGED run /\ Goto(a, "park")
         /\ dec' = [dec EXCEPT ![busy'] = IF @ = "none" THEN "asked" ELSE @]
      BY <1>2 DEF RunnerDispatches
    <2>. QED BY <1>1, <1>2, Fields DEF Tries, SameStatus, SameAttempt, SameNodes, TypeOK
  <1>3. CASE def.type[busy'] # "approval"
    <2>1. /\ SetNode(busy', [run.cps[busy'] EXCEPT !.st = "running"])
          /\ Goto(a, "exec") /\ UNCHANGED dec
      BY <1>3 DEF RunnerDispatches
    <2>2. "running" \in NodeStatus
      BY DEF NodeStatus
    <2>. QED BY <1>1, <1>3, <2>1, <2>2, MovingNode
  <1>. QED BY <1>2, <1>3

\* The busy node is parked until an approval.
LEMMA ParksEffect ==
  ASSUME TypeOK, NEW a \in Attempt, RunnerParks(a)
  PROVE  /\ Holds(a, "park") /\ UNCHANGED lockedBy /\ Goto(a, "pick")
         /\ run' \in Run /\ SameStatus /\ SameAttempt /\ Tries
         /\ run'.cps[busy].st = "waiting_approval" /\ OnlyNode(busy)
  <1>. busy \in Node /\ "waiting_approval" \in NodeStatus
    BY DEF TypeOK, NodeStatus
  <1>. QED BY MovingNode DEF RunnerParks

\* The busy node gets its outcome.
LEMMA SettlesEffect ==
  ASSUME TypeOK, NEW a \in Attempt, RunnerSettlesNode(a)
  PROVE  /\ Holds(a, "exec") /\ UNCHANGED lockedBy /\ Goto(a, "after")
         /\ run' \in Run /\ SameStatus /\ SameAttempt /\ Tries
         /\ run'.cps[busy].st \in {"passed", "failed", "timed_out", "cancelled"}
         /\ OnlyNode(busy)
  <1>. PICK cp \in Outcomes(busy) : SetNode(busy, cp)
    BY DEF RunnerSettlesNode
  <1>1. busy \in Node /\ run.cps[busy] \in Checkpoint
    BY Fields DEF TypeOK
  <1>2. /\ cp \in Checkpoint /\ cp.try = run.cps[busy].try
        /\ cp.st \in {"passed", "failed", "timed_out", "cancelled"}
    BY <1>1 DEF Outcomes, Checkpoint, NodeStatus
  <1>3. run' \in Run /\ run'.cps[busy] = cp /\ OnlyNode(busy) /\ SameStatus /\ SameAttempt
    BY <1>1, <1>2, SettingNode
  <1>4. Tries
    BY <1>1, <1>2, <1>3, Fields DEF Tries, OnlyNode
  <1>. QED BY <1>2, <1>3, <1>4 DEF RunnerSettlesNode

\* After an outcome the node is tried again or the run goes on.
LEMMA GoesOnEffect ==
  ASSUME TypeOK, NEW a \in Attempt, RunnerGoesOn(a)
  PROVE  /\ Holds(a, "after") /\ UNCHANGED lockedBy
         /\ run' \in Run /\ SameStatus /\ SameAttempt /\ Tries
         /\ \/ Goto(a, "retry") /\ run'.cps[busy].st = "pending" /\ OnlyNode(busy)
            \/ (Goto(a, "end") \/ Goto(a, "pick")) /\ SameNodes
  <1>1. Holds(a, "after") /\ UNCHANGED lockedBy
    BY DEF RunnerGoesOn
  <1>2. CASE UNCHANGED run /\ (Goto(a, "end") \/ Goto(a, "pick"))
    BY <1>1, <1>2, Fields DEF Tries, SameStatus, SameAttempt, SameNodes, TypeOK
  <1>3. CASE /\ MayRetry(def, run.cps, busy) /\ Goto(a, "retry")
             /\ SetNode(busy, [Fresh EXCEPT !.try = run.cps[busy].try + 1])
    <2>. DEFINE cp == [Fresh EXCEPT !.try = run.cps[busy].try + 1]
    <2>1. busy \in Node /\ run.cps[busy].try \in Nat
      BY Fields DEF TypeOK, Checkpoint
    <2>2. /\ cp \in Checkpoint /\ cp.st = "pending"
          /\ cp.try = run.cps[busy].try + 1
      <3>1. Fresh \in Checkpoint /\ Fresh.st = "pending"
        BY DEF Fresh, Checkpoint, NodeStatus
      <3>2. run.cps[busy].try + 1 \in Nat \ {0}
        BY <2>1
      <3>. QED BY <3>1, <3>2 DEF Checkpoint
    <2>3. cp.try <= def.maxTry[busy]
      BY <1>3, <2>1, <2>2, Fields DEF MayRetry
    <2>. HIDE DEF cp
    <2>4. run' \in Run /\ run'.cps[busy] = cp /\ OnlyNode(busy) /\ SameStatus /\ SameAttempt
      BY <1>3, <2>1, <2>2, SettingNode DEF cp
    <2>5. Tries
      BY <2>3, <2>4, Fields DEF Tries, OnlyNode
    <2>. QED BY <1>1, <1>3, <2>2, <2>4, <2>5
  <1>. QED BY <1>2, <1>3 DEF RunnerGoesOn

\* The busy node runs again, or the run ends.
LEMMA RetriesEffect ==
  ASSUME TypeOK, NEW a \in Attempt, RunnerRetries(a)
  PROVE  /\ Holds(a, "retry") /\ UNCHANGED lockedBy
         /\ run' \in Run /\ SameStatus /\ SameAttempt /\ Tries
         /\ \/ Goto(a, "exec") /\ run'.cps[busy].st = "running" /\ OnlyNode(busy)
            \/ Goto(a, "end") /\ SameNodes
  <1>1. Holds(a, "retry") /\ UNCHANGED lockedBy
    BY DEF RunnerRetries
  <1>2. CASE UNCHANGED run /\ Goto(a, "end")
    BY <1>1, <1>2, Fields DEF Tries, SameStatus, SameAttempt, SameNodes, TypeOK
  <1>3. CASE SetNode(busy, [run.cps[busy] EXCEPT !.st = "running"]) /\ Goto(a, "exec")
    <2>. busy \in Node /\ "running" \in NodeStatus
      BY DEF TypeOK, NodeStatus
    <2>. QED BY <1>1, <1>3, MovingNode
  <1>. QED BY <1>2, <1>3 DEF RunnerRetries

\* The runner ends the run, or parks it and looks again.
LEMMA EndsEffect ==
  ASSUME TypeOK, NEW a \in Attempt, RunnerEnds(a)
  PROVE  /\ Holds(a, "end")
         /\ run' \in Run /\ SameNodes /\ SameAttempt
         /\ \/ run'.status = "waiting_approval" /\ Goto(a, "recheck") /\ UNCHANGED lockedBy
            \/ run'.status \in TerminalRun /\ Leave(a)
  <1>. DEFINE st == FinalStatus(def, run.cps, abort)
  <1>1. st \in TerminalRun \cup {"waiting_approval"}
    BY FinalEffect DEF TypeOK
  <1>2. /\ Holds(a, "end") /\ run' = [run EXCEPT !.status = st]
        /\ IF st = "waiting_approval" THEN Goto(a, "recheck") /\ UNCHANGED lockedBy
                                      ELSE Leave(a)
    BY DEF RunnerEnds
  <1>. HIDE DEF st
  <1>3. st \in RunStatus
    BY <1>1 DEF RunStatus
  <1>. QED BY <1>1, <1>2, <1>3, SettingStatus

\* Having parked the run, the runner leaves, ends it, or resumes it when a
\* decision has come in between.
LEMMA RechecksEffect ==
  ASSUME TypeOK, NEW a \in Attempt, RunnerRechecks(a)
  PROVE  /\ Holds(a, "recheck")
         /\ run' \in Run /\ SameAttempt /\ Tries
         /\ \/ SameNodes /\ SameStatus /\ Leave(a)
            \/ /\ \/ run'.status = "failed" /\ Leave(a)
                  \/ run'.status = "running" /\ Goto(a, "pick") /\ UNCHANGED lockedBy
               /\ \A n \in Node : run'.cps[n].st =
                    IF n \in Unapplied(run.cps, dec) THEN DecidedStatus(n)
                                                     ELSE run.cps[n].st
  <1>. DEFINE new == ApplyDecisions(def, run.cps, dec)
  <1>1. Holds(a, "recheck")
    BY DEF RunnerRechecks
  <1>2. CASE Leave(a) /\ UNCHANGED run
    BY <1>1, <1>2, Fields DEF Tries, SameStatus, SameAttempt, SameNodes, TypeOK
  <1>3. ASSUME NEW st \in {"failed", "running"},
               run' = [run EXCEPT !.cps = new, !.status = st]
        PROVE  /\ run' \in Run /\ SameAttempt /\ Tries /\ run'.status = st
               /\ \A n \in Node : run'.cps[n].st =
                    IF n \in Unapplied(run.cps, dec) THEN DecidedStatus(n)
                                                     ELSE run.cps[n].st
    <2>1. new \in [Node -> Checkpoint]
      BY Fields, ApplyEffect
    <2>. HIDE DEF new
    <2>2. run' \in Run /\ SameAttempt /\ run'.status = st /\ run'.cps = new
      BY <1>3, <2>1 DEF TypeOK, Run, RunStatus, TerminalRun, SameAttempt
    <2>. QED BY <2>2, ApplyStep DEF new
  <1>4. CASE Unapplied(run.cps, dec) # {}
    <2>1. CASE FailureStops(def, new)
      BY <1>1, <1>3, <1>4, <2>1 DEF RunnerRechecks
    <2>2. CASE ~FailureStops(def, new)
      BY <1>1, <1>3, <1>4, <2>2 DEF RunnerRechecks
    <2>. QED BY <2>1, <2>2
  <1>. QED BY <1>2, <1>4 DEF RunnerRechecks

\* A run whose job is of unknown state is interrupted.
LEMMA UnknownEffect ==
  ASSUME TypeOK, NEW s \in Session, ReconcileMarksUnknown(s)
  PROVE  run' \in Run /\ run'.status = "interrupted" /\ SameNodes /\ SameAttempt
  BY SettingStatus DEF ReconcileMarksUnknown, RunStatus

\* Reconciliation parks a run whose cut-off nodes may not be repeated.
LEMMA ReconcileParksEffect ==
  ASSUME TypeOK, NEW s \in Session, ReconcileParks(s)
  PROVE  /\ run' \in Run /\ run'.status = "waiting_approval" /\ SameAttempt /\ Tries
         /\ \E n \in Running : def.type[n] \notin {"job", "agent"}
         /\ \A n \in Node :
              IF run.cps[n].st = "running" /\ def.type[n] \notin {"job", "agent"}
                THEN run'.cps[n].st = "waiting_approval" /\ dec'[n] = "asked"
                ELSE run'.cps[n] = run.cps[n] /\ dec'[n] = dec[n]
  <1>. DEFINE unsure == {n \in Node : Uncertain(def, run.cps, n)}
              new == [n \in Node |-> IF n \in unsure
                        THEN [run.cps[n] EXCEPT !.st = "waiting_approval"] ELSE run.cps[n]]
  <1>1. \A n \in Node : n \in unsure <=>
          run.cps[n].st = "running" /\ def.type[n] \notin {"job", "agent"}
    BY DEF Uncertain, Resumable, RetriesOnResume
  <1>2. /\ unsure # {} /\ dec' = AskUncertain(def, run.cps, dec)
        /\ run' = [run EXCEPT !.status = "waiting_approval", !.cps = new]
    BY DEF ReconcileParks
  <1>3. \A n \in Node : dec'[n] = IF n \in unsure THEN "asked" ELSE dec[n]
    BY <1>2 DEF AskUncertain
  <1>4. \A n \in Node : new[n] \in Checkpoint /\ new[n].try = run.cps[n].try
          /\ (n \in unsure => new[n].st = "waiting_approval")
          /\ (n \notin unsure => new[n] = run.cps[n])
    <2>. SUFFICES ASSUME NEW n \in Node
                  PROVE  new[n] \in Checkpoint /\ new[n].try = run.cps[n].try
                         /\ (n \in unsure => new[n].st = "waiting_approval")
                         /\ (n \notin unsure => new[n] = run.cps[n])
      OBVIOUS
    <2>1. run.cps[n] \in Checkpoint /\ "waiting_approval" \in NodeStatus
      BY Fields DEF NodeStatus
    <2>. QED BY <2>1, Moving
  <1>5. new \in [Node -> Checkpoint]
    BY <1>4
  <1>. HIDE DEF new, unsure
  <1>6. run' \in Run /\ run'.status = "waiting_approval" /\ SameAttempt /\ run'.cps = new
    BY <1>2, <1>5 DEF TypeOK, Run, RunStatus, TerminalRun, SameAttempt
  <1>7. Tries
    BY <1>4, <1>6, Fields DEF Tries
  <1>8. unsure \subseteq Node
    BY DEF unsure
  <1>. QED BY <1>1, <1>2, <1>3, <1>4, <1>6, <1>7, <1>8 DEF Running

\* A run whose attempt died is interrupted, and perhaps given its next attempt.
LEMMA DeadEffect ==
  ASSUME TypeOK, NEW s \in Session, ReconcileMarksDead(s)
  PROVE  /\ run' \in Run /\ run'.status = "interrupted" /\ SameNodes
         /\ run'.attempt \in {run.attempt, run.attempt + 1} /\ run.attempt = ses[s].att
         /\ run.attempt < MaxAttempts /\ ses[s].pc = "dead" /\ lockedBy = 0
         /\ ses'[s].pc \in {"idle", "launch"} /\ \A t \in Session \ {s} : ses'[t] = ses[t]
         /\ run.status \notin TerminalRun
  <1>1. /\ run.attempt = ses[s].att /\ run.status \notin TerminalRun
        /\ run.attempt < MaxAttempts /\ ses[s].pc = "dead" /\ lockedBy = 0
    BY DEF ReconcileMarksDead, StillJudged, TerminalRun
  <1>2. To(s, "launch") \/ Done(s)
    BY DEF ReconcileMarksDead
  <1>3. ses'[s].pc \in {"idle", "launch"} /\ \A t \in Session \ {s} : ses'[t] = ses[t]
    BY <1>2 DEF To, Done, Idle, TypeOK
  <1>4. CASE run' = [run EXCEPT !.status = "interrupted"]
    BY <1>1, <1>3, <1>4, SettingStatus DEF RunStatus, SameAttempt
  <1>5. CASE /\ run.relaunches < MaxRelaunches
             /\ run' = [run EXCEPT !.status = "interrupted", !.attempt = @ + 1,
                                   !.relaunches = @ + 1]
    <2>1. run.attempt + 1 \in 0..MaxAttempts /\ run.relaunches + 1 \in 0..MaxRelaunches
      BY <1>1, <1>5, Fields, WorkflowAssumption
    <2>2. run' \in Run /\ run'.status = "interrupted" /\ SameNodes
          /\ run'.attempt = run.attempt + 1
      BY <1>5, <2>1 DEF TypeOK, Run, RunStatus, SameNodes
    <2>. QED BY <1>1, <1>3, <2>2
  <1>. QED BY <1>4, <1>5 DEF ReconcileMarksDead

\* A launch records the attempt that it intends: the present one, or the next.
LEMMA IntendsEffect ==
  ASSUME TypeOK, NEW s \in Session, LaunchIntends(s)
  PROVE  /\ run' \in Run /\ run'.status = "queued" /\ SameNodes /\ run'.attempt \in Attempt
         /\ \/ run'.attempt = run.attempt
            \/ (run.attempt = 0 /\ run'.attempt = 1)
            \/ /\ ses[s].att # 0 /\ run'.attempt = ses[s].att
               /\ run.attempt = ses[s].att - 1
         /\ ses[s].pc = "intent" /\ lockedBy = 0 /\ run.status \notin TerminalRun
         /\ ses'[s].pc = "start" /\ ses'[s].att = run'.attempt
         /\ \A t \in Session \ {s} : ses'[t] = ses[t]
  <1>. DEFINE next == IF ses[s].att # 0 /\ run.attempt = ses[s].att - 1 THEN ses[s].att
                      ELSE IF run.attempt = 0 THEN 1 ELSE run.attempt
  <1>1. /\ run' = [run EXCEPT !.status = "queued", !.attempt = next]
        /\ ses' = [ses EXCEPT ![s].pc = "start", ![s].att = next]
        /\ ses[s].pc = "intent" /\ lockedBy = 0 /\ run.status \notin TerminalRun
        /\ ses[s].att <= MaxAttempts
    BY DEF LaunchIntends, StillOpen
  <1>2. ses[s].att \in 0..(MaxAttempts + 1) /\ ses[s] \in View
    BY DEF TypeOK, View
  <1>3. next \in Attempt
    BY <1>1, <1>2, Fields, WorkflowAssumption DEF Attempt
  <1>4. \/ next = run.attempt
        \/ (run.attempt = 0 /\ next = 1)
        \/ (ses[s].att # 0 /\ next = ses[s].att /\ run.attempt = ses[s].att - 1)
    OBVIOUS
  <1>. HIDE DEF next
  <1>5. run' \in Run /\ run'.status = "queued" /\ SameNodes /\ run'.attempt = next
    <2>1. next \in 0..MaxAttempts /\ "queued" \in RunStatus
      BY <1>3, WorkflowAssumption DEF RunStatus, Attempt
    <2>2. run \in Run
      BY DEF TypeOK
    <2>. QED BY <1>1, <2>1, <2>2 DEF Run, SameNodes
  <1>6. ses'[s].pc = "start" /\ ses'[s].att = next /\ \A t \in Session \ {s} : ses'[t] = ses[t]
    BY <1>1, <1>2 DEF TypeOK, View
  <1>. QED BY <1>1, <1>3, <1>4, <1>5, <1>6

\* A cancellation ends what is parked or dead, its jobs included.
LEMMA CancelEffect ==
  ASSUME TypeOK, NEW s \in Session, CancelSettles(s)
  PROVE  /\ run' \in Run /\ SameAttempt /\ Tries /\ lockedBy = 0
         /\ \/ UNCHANGED run
            \/ /\ \A n \in Running : def.type[n] \in {"job", "agent"}
               /\ run'.status = IF run.status \in TerminalRun THEN run.status ELSE "cancelled"
               /\ \A n \in Node : IF n \in Running
                    THEN run'.cps[n].st \in {"passed", "failed", "cancelled"}
                    ELSE run'.cps[n] = run.cps[n]
               /\ Running = {} /\ run.status \in TerminalRun => run' = run
  <1>1. CASE UNCHANGED run
    BY <1>1, Fields DEF CancelSettles, SameAttempt, Tries, TypeOK
  <1>2. ASSUME NEW out \in {"passed", "failed", "cancelled"},
               \A n \in Running : ~Uncertain(def, run.cps, n),
               run' = [run EXCEPT
                 !.status = IF @ \in TerminalRun THEN @ ELSE "cancelled",
                 !.cps = [n \in Node |->
                    IF n \notin Running THEN run.cps[n]
                    ELSE [run.cps[n] EXCEPT !.st = IF def.type[n] = "job" THEN out
                                                   ELSE "cancelled"]]]
        PROVE  /\ run' \in Run /\ SameAttempt /\ Tries
               /\ \A n \in Running : def.type[n] \in {"job", "agent"}
               /\ run'.status = IF run.status \in TerminalRun THEN run.status ELSE "cancelled"
               /\ \A n \in Node : IF n \in Running
                    THEN run'.cps[n].st \in {"passed", "failed", "cancelled"}
                    ELSE run'.cps[n] = run.cps[n]
               /\ Running = {} /\ run.status \in TerminalRun => run' = run
    <2>. DEFINE st == IF run.status \in TerminalRun THEN run.status ELSE "cancelled"
                new == [n \in Node |->
                    IF n \notin Running THEN run.cps[n]
                    ELSE [run.cps[n] EXCEPT !.st = IF def.type[n] = "job" THEN out
                                                   ELSE "cancelled"]]
    <2>1. run' = [run EXCEPT !.status = st, !.cps = new]
      BY <1>2
    <2>2. \A n \in Node : /\ new[n] \in Checkpoint /\ new[n].try = run.cps[n].try
                          /\ n \notin Running => new[n] = run.cps[n]
                          /\ n \in Running => new[n].st \in {"passed", "failed", "cancelled"}
      <3>. SUFFICES ASSUME NEW n \in Node
                    PROVE  /\ new[n] \in Checkpoint /\ new[n].try = run.cps[n].try
                           /\ n \notin Running => new[n] = run.cps[n]
                           /\ n \in Running => new[n].st \in {"passed", "failed", "cancelled"}
        OBVIOUS
      <3>1. run.cps[n] \in Checkpoint /\ out \in NodeStatus /\ "cancelled" \in NodeStatus
        BY Fields DEF NodeStatus
      <3>. QED BY <3>1, Moving
    <2>3. st \in RunStatus /\ new \in [Node -> Checkpoint]
      BY <2>2, Fields DEF RunStatus, TerminalRun
    <2>4. Running = {} => new = run.cps
      BY Fields
    <2>. HIDE DEF new
    <2>5. run' \in Run /\ SameAttempt /\ run'.status = st /\ run'.cps = new
      BY <2>1, <2>3 DEF TypeOK, Run, SameAttempt
    <2>6. Tries
      BY <2>2, <2>5, Fields DEF Tries
    <2>7. \A n \in Running : def.type[n] \in {"job", "agent"}
      BY <1>2 DEF Uncertain, Resumable, RetriesOnResume, Running
    <2>8. Running = {} /\ run.status \in TerminalRun => run' = run
      <3>1. SUFFICES ASSUME Running = {}, run.status \in TerminalRun PROVE run' = run
        OBVIOUS
      <3>2. st = run.status /\ new = run.cps
        BY <2>4, <3>1
      <3>3. run' = [run EXCEPT !.status = run.status, !.cps = run.cps]
        BY <2>1, <3>2
      <3>. QED BY <3>3 DEF TypeOK, Run
    <2>. QED BY <2>2, <2>5, <2>6, <2>7, <2>8
  <1>. QED BY <1>1, <1>2 DEF CancelSettles

\* A deadline ends what is parked.
LEMMA ExpiryEffect ==
  ASSUME TypeOK, NEW s \in Session, TimesOutParked(s)
  PROVE  /\ run' \in Run /\ SameNodes /\ SameAttempt /\ lockedBy = 0
         /\ \/ run.status = "waiting_approval" /\ run'.status = "timed_out"
            \/ run' = run
  <1>. DEFINE st == IF run.status = "waiting_approval" THEN "timed_out" ELSE run.status
  <1>1. run' = [run EXCEPT !.status = st] /\ lockedBy = 0
    BY DEF TimesOutParked
  <1>2. st \in RunStatus
    BY Fields DEF RunStatus, TerminalRun
  <1>3. st = run.status => run' = run
    BY <1>1 DEF TypeOK, Run
  <1>4. run' \in Run /\ run'.status = st /\ SameAttempt /\ SameNodes
    BY <1>1, <1>2, SettingStatus
  <1>. QED BY <1>1, <1>3, <1>4

-----------------------------------------------------------------------------
(* Types.                                                                  *)

\* The checkpoint file stays well-formed.
LEMMA RunTyped ==
  ASSUME TypeOK, WorkInv, [Next]_vars
  PROVE  RunOK'
  <1>1. CASE UNCHANGED <<def, run>>
    BY <1>1 DEF RunOK, TypeOK
  <1>2. ASSUME NEW a \in Attempt, RunnerEnters(a) PROVE RunOK'
    BY <1>2, Fields, EntersEffect DEF RunnerEnters, RunOK, SameNodes, Tries, runnerVars
  <1>3. ASSUME NEW a \in Attempt, RunnerStopsJob(a) PROVE RunOK'
    BY <1>3, Fields, StopsJobEffect DEF RunnerStopsJob, RunOK, SameNodes, Tries, runnerVars
  <1>4. ASSUME NEW a \in Attempt, RunnerGivesUp(a) PROVE RunOK'
    BY <1>4, Fields, GivesUpEffect DEF RunnerGivesUp, RunOK, SameNodes, Tries, runnerVars
  <1>5. ASSUME NEW a \in Attempt, RunnerRuns(a) PROVE RunOK'
    BY <1>5, Fields, RunsEffect DEF RunnerRuns, RunOK, SameNodes, Tries, runnerVars
  <1>6. ASSUME NEW a \in Attempt, RunnerChecks(a) PROVE RunOK'
    BY <1>6, Fields, ChecksEffect DEF RunnerChecks, RunOK, SameNodes, Tries, runnerVars
  <1>7. ASSUME NEW a \in Attempt, RunnerSkips(a) PROVE RunOK'
    BY <1>7, Fields, SkipsEffect DEF RunnerSkips, RunOK, SameNodes, Tries, runnerVars
  <1>8. ASSUME NEW a \in Attempt, RunnerDispatches(a) PROVE RunOK'
    BY <1>8, Fields, DispatchesEffect DEF RunnerDispatches, RunOK, SameNodes, Tries,
       runnerVars
  <1>9. ASSUME NEW a \in Attempt, RunnerParks(a) PROVE RunOK'
    BY <1>9, Fields, ParksEffect DEF RunnerParks, RunOK, SameNodes, Tries, runnerVars
  <1>10. ASSUME NEW a \in Attempt, RunnerSettlesNode(a) PROVE RunOK'
    BY <1>10, Fields, SettlesEffect DEF RunnerSettlesNode, RunOK, SameNodes, Tries,
       runnerVars
  <1>11. ASSUME NEW a \in Attempt, RunnerGoesOn(a) PROVE RunOK'
    BY <1>11, Fields, GoesOnEffect DEF RunnerGoesOn, RunOK, SameNodes, Tries, runnerVars
  <1>12. ASSUME NEW a \in Attempt, RunnerRetries(a) PROVE RunOK'
    BY <1>12, Fields, RetriesEffect DEF RunnerRetries, RunOK, SameNodes, Tries, runnerVars
  <1>13. ASSUME NEW a \in Attempt, RunnerEnds(a) PROVE RunOK'
    BY <1>13, Fields, EndsEffect DEF RunnerEnds, RunOK, SameNodes, Tries, runnerVars
  <1>14. ASSUME NEW a \in Attempt, RunnerRechecks(a) PROVE RunOK'
    BY <1>14, Fields, RechecksEffect DEF RunnerRechecks, RunOK, SameNodes, Tries, runnerVars
  <1>15. ASSUME NEW s \in Session, ReconcileMarksUnknown(s) PROVE RunOK'
    BY <1>15, Fields, UnknownEffect DEF ReconcileMarksUnknown, RunOK, SameNodes, Tries,
       runnerVars
  <1>16. ASSUME NEW s \in Session, ReconcileParks(s) PROVE RunOK'
    BY <1>16, Fields, ReconcileParksEffect DEF ReconcileParks, RunOK, SameNodes, Tries,
       runnerVars
  <1>17. ASSUME NEW s \in Session, ReconcileMarksDead(s) PROVE RunOK'
    BY <1>17, Fields, DeadEffect DEF ReconcileMarksDead, RunOK, SameNodes, Tries, runnerVars
  <1>18. ASSUME NEW s \in Session, LaunchIntends(s) PROVE RunOK'
    BY <1>18, Fields, IntendsEffect DEF LaunchIntends, RunOK, SameNodes, Tries, runnerVars
  <1>19. ASSUME NEW s \in Session, CancelSettles(s) PROVE RunOK'
    BY <1>19, Fields, CancelEffect DEF CancelSettles, RunOK, SameNodes, Tries, runnerVars
  <1>20. ASSUME NEW s \in Session, TimesOutParked(s) PROVE RunOK'
    BY <1>20, Fields, ExpiryEffect DEF TimesOutParked, RunOK, SameNodes, Tries, runnerVars
  <1>21. ASSUME NEW a \in Attempt, RunnerTurnsAway(a) \/ RunnerAborts(a) \/
        RunnerFindsNone(a) \/ RunnerCannotStop(a) \/ RunnerDies(a) \/ JobEnds(a) \/
        JobLost(a) PROVE RunOK'
    BY <1>21, <1>1 DEF RunnerTurnsAway, RunnerAborts, RunnerFindsNone, RunnerCannotStop,
       RunnerDies, JobEnds, JobLost
  <1>22. ASSUME DeadlinePasses PROVE RunOK'
    BY <1>22, <1>1 DEF DeadlinePasses, runnerVars
  <1>23. ASSUME NEW s \in Session, ReconcileReads(s) \/ ReconcileSees(s) \/
        ReconcileMissed(s) \/ UserLaunches(s) \/ LaunchReads(s) \/ LaunchMissed(s) \/
        StartFails(s) \/ LaunchStarts(s) \/ Decides(s) \/ DeciderLooks(s) \/
        CancelMarks(s) \/ ExpiryReads(s) \/ SessionDies(s) PROVE RunOK'
    BY <1>23, <1>1 DEF ReconcileReads, ReconcileSees, ReconcileMissed, UserLaunches,
       LaunchReads, LaunchMissed, StartFails, LaunchStarts, Decides, DeciderLooks,
       CancelMarks, ExpiryReads, SessionDies, runnerVars, OnlySession, OnlyFault
  <1>. QED BY <1>1, <1>2, <1>3, <1>4, <1>5, <1>6, <1>7, <1>8, <1>9, <1>10, <1>11, <1>12,
       <1>13, <1>14, <1>15, <1>16, <1>17, <1>18, <1>19, <1>20, <1>21, <1>22, <1>23 DEF
       Next, RunnerStep, SessionStep, ReconcileStep, LaunchStep, vars, runnerVars

-----------------------------------------------------------------------------
(* What a session knows.                                                   *)

Resting == {"idle", "unknown", "outcome", "launch", "decided", "cancel", "expire"}

OthersStay(s) == \A t \in Session \ {s} : ses'[t] = ses[t]

\* What a session that has just moved goes by.
Believes(v) ==
  \/ v.pc \in Resting
  \/ /\ v.pc = "judge" /\ v.att \in Attempt /\ v.att = run.attempt
     /\ v.st = run.status /\ v.st \in {"running", "queued", "waiting_approval"}
  \/ v.pc = "dead" /\ v.att \in Attempt /\ job[v.att] = "terminal"
  \/ /\ v.pc = "intent"
     /\ v.att = 0 \/ (v.att - 1 \in Attempt /\ job[v.att - 1] = "terminal")
  \/ v.pc = "start" /\ v.att \in Attempt /\ v.att = run'.attempt

SesChange ==
  \/ ses' = ses
  \/ \E s \in Session : OthersStay(s) /\ Believes(ses'[s])

SesGoal == ses' \in [Session -> View] /\ SesChange

\* A session that has read something believes what it read.
LEMMA Viewing ==
  ASSUME TypeOK, NEW s \in Session, NEW v \in View, Believes(v), ses' = [ses EXCEPT ![s] = v]
  PROVE  SesGoal
  BY DEF TypeOK, SesGoal, SesChange, OthersStay

\* The views of a session, by its place.
LEMMA IdleView ==
  /\ Idle \in View /\ Idle.pc = "idle"
  /\ \A pc \in Resting \cup {"judge", "dead", "intent", "start"} :
       [Idle EXCEPT !.pc = pc] \in View /\ [Idle EXCEPT !.pc = pc].pc = pc
  /\ \A pc \in Resting \cup {"judge", "dead", "intent", "start"},
        att \in 0..(MaxAttempts + 1) :
         /\ [Idle EXCEPT !.pc = pc, !.att = att] \in View
         /\ [Idle EXCEPT !.pc = pc, !.att = att].pc = pc
         /\ [Idle EXCEPT !.pc = pc, !.att = att].att = att
  <1>. DEFINE all == Resting \cup {"judge", "dead", "intent", "start"}
  <1>1. /\ all = {"idle", "judge", "unknown", "outcome", "dead", "launch", "intent", "start",
                  "decided", "cancel", "expire"}
        /\ 0 \in 0..(MaxAttempts + 1) /\ "pending" \in RunStatus
    BY WorkflowAssumption DEF Resting, RunStatus
  <1>2. Idle \in View /\ Idle.pc = "idle"
    BY <1>1 DEF Idle, View
  <1>. HIDE DEF all
  <1>3. \A pc \in all : [Idle EXCEPT !.pc = pc] \in View /\ [Idle EXCEPT !.pc = pc].pc = pc
    BY <1>1, <1>2 DEF View
  <1>4. \A pc \in all, att \in 0..(MaxAttempts + 1) :
          /\ [Idle EXCEPT !.pc = pc, !.att = att] \in View
          /\ [Idle EXCEPT !.pc = pc, !.att = att].pc = pc
          /\ [Idle EXCEPT !.pc = pc, !.att = att].att = att
    BY <1>1, <1>2 DEF View
  <1>. QED BY <1>2, <1>3, <1>4 DEF all

\* A session that is done believes nothing.
LEMMA BeingDone ==
  ASSUME TypeOK, NEW s \in Session, Done(s)
  PROVE  SesGoal
  <1>1. Believes(Idle)
    BY IdleView DEF Believes, Resting
  <1>. QED BY <1>1, IdleView, Viewing DEF Done

\* A session that goes to a place of no belief.
LEMMA GoingTo ==
  ASSUME TypeOK, NEW s \in Session, NEW pc \in Resting, To(s, pc)
  PROVE  SesGoal
  <1>. DEFINE v == [Idle EXCEPT !.pc = pc]
  <1>1. v \in View /\ v.pc = pc
    BY IdleView
  <1>2. ses' = [ses EXCEPT ![s] = v]
    BY DEF To
  <1>. HIDE DEF v
  <1>3. Believes(v)
    BY <1>1 DEF Believes
  <1>. QED BY <1>1, <1>2, <1>3, Viewing

\* What reconciliation reads of the run is so when it is read.
LEMMA JudgeEffect ==
  ASSUME TypeOK, NEW s \in Session, ReconcileReads(s)
  PROVE  SesGoal
  <1>. DEFINE v == [pc |-> "judge", att |-> run.attempt, st |-> run.status,
                    unc |-> \E n \in Node : Uncertain(def, run.cps, n)]
  <1>1. /\ run.attempt \in 0..(MaxAttempts + 1) /\ run.attempt \in Attempt
        /\ run.status \in RunStatus
        /\ run.status \in {"running", "queued", "waiting_approval"}
    BY Fields, WorkflowAssumption DEF ReconcileReads, MayNeedRunner, Attempt
  <1>2. v \in View
    BY <1>1 DEF View
  <1>3. ses' = [ses EXCEPT ![s] = v]
    BY DEF ReconcileReads
  <1>4. v.pc = "judge" /\ v.att = run.attempt /\ v.st = run.status
    OBVIOUS
  <1>. HIDE DEF v
  <1>5. Believes(v)
    BY <1>1, <1>4 DEF Believes
  <1>. QED BY <1>2, <1>3, <1>5, Viewing

\* What reconciliation sees of the job is so when it is seen.
LEMMA SeesEffect ==
  ASSUME TypeOK, SessionInv, NEW s \in Session, ReconcileSees(s)
  PROVE  SesGoal
  <1>1. /\ ses[s].pc = "judge" /\ ses[s].att \in Attempt /\ ses[s].att # 0
        /\ ses[s].st \in {"running", "queued", "waiting_approval"}
        /\ ses[s].st = "running" => job[ses[s].att] # "none"
        /\ ses[s].att \in 0..(MaxAttempts + 1)
    BY WorkflowAssumption DEF ReconcileSees, SessionInv, Attempt
  <1>2. JobOf(ses[s].att) = job[ses[s].att]
        /\ job[ses[s].att] \in {"none", "live", "uncertain", "terminal"}
    BY <1>1 DEF JobOf, TypeOK
  <1>3. CASE Done(s)
    BY <1>3, BeingDone
  <1>4. CASE To(s, "launch")
    BY <1>4, GoingTo DEF Resting
  <1>5. ASSUME NEW pc \in {"unknown", "outcome", "dead"},
               pc = "dead" => job[ses[s].att] = "terminal",
               ses' = [ses EXCEPT ![s] = [Idle EXCEPT !.pc = pc, !.att = ses[s].att]]
        PROVE  SesGoal
    <2>. DEFINE v == [Idle EXCEPT !.pc = pc, !.att = ses[s].att]
    <2>1. v \in View /\ v.pc = pc /\ v.att = ses[s].att
      <3>1. pc \in Resting \cup {"judge", "dead", "intent", "start"}
        BY DEF Resting
      <3>. QED BY <1>1, <3>1, IdleView
    <2>2. ses' = [ses EXCEPT ![s] = v]
      BY <1>5
    <2>. HIDE DEF v
    <2>3. Believes(v)
      BY <1>1, <1>5, <2>1 DEF Believes, Resting
    <2>. QED BY <2>1, <2>2, <2>3, Viewing
  <1>6. \/ Done(s) \/ To(s, "launch")
        \/ \E pc \in {"unknown", "outcome", "dead"} :
             /\ pc = "dead" => job[ses[s].att] = "terminal"
             /\ ses' = [ses EXCEPT ![s] = [Idle EXCEPT !.pc = pc, !.att = ses[s].att]]
    <2>. DEFINE j == JobOf(ses[s].att)
                next == CASE j = "live" -> "idle"
                          [] ses[s].st = "waiting_approval" -> "launch"
                          [] ses[s].st = "queued" /\ j = "none" -> "launch"
                          [] ses[s].st \in {"running", "queued"} /\ j = "uncertain" -> "unknown"
                          [] OTHER -> IF ses[s].unc THEN "outcome" ELSE "dead"
    <2>1. next \in {"idle", "launch", "unknown", "outcome", "dead"}
      BY <1>1, <1>2
    <2>2. next = "dead" => job[ses[s].att] = "terminal"
      BY <1>1, <1>2
    <2>3. (CASE next = "idle" -> Done(s)
             [] next = "launch" -> To(s, "launch")
             [] OTHER -> ses' = [ses EXCEPT ![s] = [Idle EXCEPT !.pc = next,
                                                                !.att = ses[s].att]])
      BY DEF ReconcileSees
    <2>. HIDE DEF next
    <2>. QED BY <2>1, <2>2, <2>3
  <1>. QED BY <1>3, <1>4, <1>5, <1>6

\* What a launch reads of the run is so when it is read.
LEMMA ReadsEffect ==
  ASSUME TypeOK, NEW s \in Session, LaunchReads(s)
  PROVE  SesGoal
  <1>1. CASE Done(s)
    BY <1>1, BeingDone
  <1>2. ASSUME NEW att \in 0..(MaxAttempts + 1),
               att = 0 \/ (att - 1 \in Attempt /\ job[att - 1] = "terminal"),
               ses' = [ses EXCEPT ![s] = [Idle EXCEPT !.pc = "intent", !.att = att]]
        PROVE  SesGoal
    <2>. DEFINE v == [Idle EXCEPT !.pc = "intent", !.att = att]
    <2>1. v \in View /\ v.pc = "intent" /\ v.att = att
      BY IdleView
    <2>2. ses' = [ses EXCEPT ![s] = v]
      BY <1>2
    <2>. HIDE DEF v
    <2>3. Believes(v)
      BY <1>2, <2>1 DEF Believes
    <2>. QED BY <2>1, <2>2, <2>3, Viewing
  <1>3. ASSUME JobOf(run.attempt) = "none",
               ses' = [ses EXCEPT ![s] = [Idle EXCEPT !.pc = "intent", !.att = 0]]
        PROVE  SesGoal
    <2>1. 0 \in 0..(MaxAttempts + 1)
      BY WorkflowAssumption
    <2>. QED BY <1>3, <1>2, <2>1
  <1>4. ASSUME JobOf(run.attempt) = "terminal",
               ses' = [ses EXCEPT ![s] = [Idle EXCEPT !.pc = "intent", !.att = run.attempt + 1]]
        PROVE  SesGoal
    <2>1. /\ run.attempt + 1 \in 0..(MaxAttempts + 1) /\ (run.attempt + 1) - 1 = run.attempt
          /\ run.attempt \in Attempt /\ job[run.attempt] = "terminal"
      BY <1>4, Fields, WorkflowAssumption DEF JobOf, Attempt
    <2>. QED BY <1>2, <1>4, <2>1
  <1>5. \/ Done(s)
        \/ /\ JobOf(run.attempt) = "none"
           /\ ses' = [ses EXCEPT ![s] = [Idle EXCEPT !.pc = "intent", !.att = 0]]
        \/ /\ JobOf(run.attempt) \notin {"none", "live", "uncertain"}
           /\ ses' = [ses EXCEPT ![s] = [Idle EXCEPT !.pc = "intent", !.att = run.attempt + 1]]
    BY DEF LaunchReads, MayStillRun
  <1>6. JobOf(run.attempt) \in {"none", "live", "uncertain", "terminal"}
    BY Fields, WorkflowAssumption DEF JobOf, TypeOK, Attempt
  <1>. QED BY <1>1, <1>3, <1>4, <1>5, <1>6

\* A launch starts the attempt that it has recorded.
LEMMA StartEffect ==
  ASSUME TypeOK, NEW s \in Session, LaunchIntends(s)
  PROVE  SesGoal
  <1>. DEFINE v == [ses[s] EXCEPT !.pc = "start", !.att = run'.attempt]
  <1>1. run'.attempt \in Attempt /\ run'.attempt \in 0..(MaxAttempts + 1) /\ ses[s] \in View
    BY IntendsEffect, WorkflowAssumption DEF TypeOK, Attempt
  <1>2. v \in View /\ v.pc = "start" /\ v.att = run'.attempt
    BY <1>1 DEF View
  <1>3. ses' = [ses EXCEPT ![s] = v]
    <2>1. ses' = [ses EXCEPT ![s].pc = "start", ![s].att = ses'[s].att]
      BY DEF LaunchIntends, TypeOK, View
    <2>. QED BY <2>1, IntendsEffect DEF TypeOK, View
  <1>. HIDE DEF v
  <1>4. Believes(v)
    BY <1>1, <1>2 DEF Believes
  <1>. QED BY <1>2, <1>3, <1>4, Viewing

\* A session knows what it has just read.
LEMMA SesStep ==
  ASSUME TypeOK, SessionInv, [Next]_vars
  PROVE  SesGoal
  <1>1. CASE UNCHANGED <<ses>>
    BY <1>1 DEF TypeOK, SesGoal, SesChange
  <1>2. ASSUME NEW s \in Session, ReconcileReads(s) PROVE SesGoal
    BY <1>2, JudgeEffect
  <1>3. ASSUME NEW s \in Session, ReconcileSees(s) PROVE SesGoal
    BY <1>3, SeesEffect
  <1>4. ASSUME NEW s \in Session, ReconcileMissed(s) PROVE SesGoal
    BY <1>4, BeingDone DEF ReconcileMissed
  <1>5. ASSUME NEW s \in Session, ReconcileMarksUnknown(s) PROVE SesGoal
    BY <1>5, BeingDone DEF ReconcileMarksUnknown
  <1>6. ASSUME NEW s \in Session, ReconcileParks(s) PROVE SesGoal
    BY <1>6, BeingDone DEF ReconcileParks
  <1>7. ASSUME NEW s \in Session, ReconcileMarksDead(s) PROVE SesGoal
    BY <1>7, BeingDone, GoingTo DEF ReconcileMarksDead, Resting
  <1>8. ASSUME NEW s \in Session, UserLaunches(s) PROVE SesGoal
    BY <1>8, GoingTo DEF UserLaunches, Resting
  <1>9. ASSUME NEW s \in Session, LaunchReads(s) PROVE SesGoal
    BY <1>9, ReadsEffect
  <1>10. ASSUME NEW s \in Session, LaunchIntends(s) PROVE SesGoal
    BY <1>10, StartEffect
  <1>11. ASSUME NEW s \in Session, LaunchMissed(s) PROVE SesGoal
    BY <1>11, BeingDone DEF LaunchMissed
  <1>12. ASSUME NEW s \in Session, StartFails(s) PROVE SesGoal
    BY <1>12, BeingDone DEF StartFails
  <1>13. ASSUME NEW s \in Session, LaunchStarts(s) PROVE SesGoal
    BY <1>13, BeingDone DEF LaunchStarts
  <1>14. ASSUME NEW s \in Session, Decides(s) PROVE SesGoal
    BY <1>14, GoingTo DEF Decides, Resting
  <1>15. ASSUME NEW s \in Session, DeciderLooks(s) PROVE SesGoal
    BY <1>15, BeingDone, GoingTo DEF DeciderLooks, Resting
  <1>16. ASSUME NEW s \in Session, CancelMarks(s) PROVE SesGoal
    BY <1>16, GoingTo DEF CancelMarks, Resting
  <1>17. ASSUME NEW s \in Session, CancelSettles(s) PROVE SesGoal
    BY <1>17, BeingDone DEF CancelSettles
  <1>18. ASSUME NEW s \in Session, ExpiryReads(s) PROVE SesGoal
    BY <1>18, GoingTo DEF ExpiryReads, Resting
  <1>19. ASSUME NEW s \in Session, TimesOutParked(s) PROVE SesGoal
    BY <1>19, BeingDone DEF TimesOutParked
  <1>20. ASSUME NEW s \in Session, SessionDies(s) PROVE SesGoal
    BY <1>20, BeingDone DEF SessionDies
  <1>21. ASSUME NEW a \in Attempt, RunnerTurnsAway(a) \/ RunnerEnters(a) \/
        RunnerStopsJob(a) \/ RunnerGivesUp(a) \/ RunnerRuns(a) \/ RunnerAborts(a) \/
        RunnerChecks(a) \/ RunnerFindsNone(a) \/ RunnerSkips(a) \/ RunnerDispatches(a)
        \/ RunnerParks(a) \/ RunnerSettlesNode(a) \/ RunnerCannotStop(a) \/
        RunnerGoesOn(a) \/ RunnerRetries(a) \/ RunnerEnds(a) \/ RunnerRechecks(a) \/
        RunnerDies(a) \/ JobEnds(a) \/ JobLost(a) PROVE SesGoal
    BY <1>21, <1>1 DEF RunnerTurnsAway, RunnerEnters, RunnerStopsJob, RunnerGivesUp,
       RunnerRuns, RunnerAborts, RunnerChecks, RunnerFindsNone, RunnerSkips,
       RunnerDispatches, RunnerParks, RunnerSettlesNode, RunnerCannotStop, RunnerGoesOn,
       RunnerRetries, RunnerEnds, RunnerRechecks, RunnerDies, JobEnds, JobLost
  <1>22. ASSUME DeadlinePasses PROVE SesGoal
    BY <1>22, <1>1 DEF DeadlinePasses, runnerVars
  <1>. QED BY <1>1, <1>2, <1>3, <1>4, <1>5, <1>6, <1>7, <1>8, <1>9, <1>10, <1>11, <1>12,
       <1>13, <1>14, <1>15, <1>16, <1>17, <1>18, <1>19, <1>20, <1>21, <1>22 DEF Next,
       RunnerStep, SessionStep, ReconcileStep, LaunchStep, vars, runnerVars

\* An uncertain tool is asked about: the decisions remain well-typed.
LEMMA AskTyped ==
  ASSUME TypeOK, dec' = AskUncertain(def, run.cps, dec)
  PROVE  dec' \in [Node -> {"none", "asked", "approve", "deny"}]
  BY DEF TypeOK, AskUncertain

\* A runner that goes on is somewhere.
LEMMA GotoTyped ==
  ASSUME TypeOK, NEW a \in Attempt, NEW where \in Place, Goto(a, where)
  PROVE  runner' \in [Attempt -> Place]
  BY DEF TypeOK, Goto, Place

\* A runner that leaves lets go of the lock.
LEMMA LeaveTyped ==
  ASSUME TypeOK, NEW a \in Attempt, Leave(a)
  PROVE  lockedBy' \in 0..MaxAttempts /\ runner' \in [Attempt -> Place]
  <1>1. "gone" \in Place /\ 0 \in 0..MaxAttempts
    BY WorkflowAssumption DEF Place
  <1>. QED BY <1>1, GotoTyped DEF Leave

\* The rest of the state stays well-typed: RunnerEnters.
LEMMA RunnerEntersRest ==
  ASSUME TypeOK, NEW a \in Attempt, RunnerEnters(a)
  PROVE  RestOK'
  <1>1. dec' \in [Node -> {"none", "asked", "approve", "deny"}]
    BY AskTyped DEF RunnerEnters
  <1>2. "entered" \in Place /\ a \in 0..MaxAttempts
    BY WorkflowAssumption DEF Place, Attempt
  <1>3. runner' \in [Attempt -> Place]
    BY <1>2, GotoTyped DEF RunnerEnters
  <1>. QED BY <1>1, <1>2, <1>3 DEF RunnerEnters, TypeOK, RestOK

\* The rest of the state stays well-typed: RunnerStopsJob.
LEMMA RunnerStopsJobRest ==
  ASSUME TypeOK, NEW a \in Attempt, RunnerStopsJob(a)
  PROVE  RestOK'
  <1>1. CASE Leave(a) /\ UNCHANGED busy
    BY <1>1, LeaveTyped DEF RunnerStopsJob, TypeOK, RestOK
  <1>2. ASSUME NEW b \in BrokenNodes, busy' = b, Goto(a, "ending"), UNCHANGED lockedBy
        PROVE  RestOK'
    <2>1. "ending" \in Place /\ b \in Node
      BY DEF Place, BrokenNodes
    <2>. QED BY <1>2, <2>1, GotoTyped DEF RunnerStopsJob, TypeOK, RestOK
  <1>. QED BY <1>1, <1>2, StopsJobEffect

\* The rest of the state stays well-typed: RunnerGivesUp.
LEMMA RunnerGivesUpRest ==
  ASSUME TypeOK, WorkInv, NEW a \in Attempt, RunnerGivesUp(a)
  PROVE  RestOK'
  BY GivesUpEffect, LeaveTyped DEF RunnerGivesUp, TypeOK, RestOK

\* The rest of the state stays well-typed: RunnerRuns.
LEMMA RunnerRunsRest ==
  ASSUME TypeOK, NEW a \in Attempt, RunnerRuns(a)
  PROVE  RestOK'
  <1>1. "pick" \in Place /\ "exec" \in Place /\ busy' \in Node
    BY RunsEffect DEF Place, TypeOK, Running
  <1>2. runner' \in [Attempt -> Place]
    BY <1>1, RunsEffect, GotoTyped
  <1>. QED BY <1>1, <1>2, RunsEffect DEF RunnerRuns, TypeOK, RestOK

\* The rest of the state stays well-typed: RunnerDispatches.
LEMMA RunnerDispatchesRest ==
  ASSUME TypeOK, NEW a \in Attempt, RunnerDispatches(a)
  PROVE  RestOK'
  <1>1. "park" \in Place /\ "exec" \in Place /\ busy' \in Node
    BY DispatchesEffect DEF Place
  <1>2. runner' \in [Attempt -> Place]
    BY <1>1, DispatchesEffect, GotoTyped
  <1>3. dec' \in [Node -> {"none", "asked", "approve", "deny"}]
    BY DispatchesEffect DEF TypeOK
  <1>. QED BY <1>1, <1>2, <1>3, DispatchesEffect DEF RunnerDispatches, TypeOK, RestOK

\* The rest of the state stays well-typed: RunnerEnds.
LEMMA RunnerEndsRest ==
  ASSUME TypeOK, NEW a \in Attempt, RunnerEnds(a)
  PROVE  RestOK'
  <1>1. CASE Leave(a)
    BY <1>1, LeaveTyped DEF RunnerEnds, TypeOK, RestOK
  <1>2. CASE Goto(a, "recheck") /\ UNCHANGED lockedBy
    <2>1. "recheck" \in Place
      BY DEF Place
    <2>. QED BY <1>2, <2>1, GotoTyped DEF RunnerEnds, TypeOK, RestOK
  <1>. QED BY <1>1, <1>2, EndsEffect

\* The rest of the state stays well-typed: RunnerRechecks.
LEMMA RunnerRechecksRest ==
  ASSUME TypeOK, NEW a \in Attempt, RunnerRechecks(a)
  PROVE  RestOK'
  <1>1. CASE Leave(a)
    BY <1>1, LeaveTyped DEF RunnerRechecks, TypeOK, RestOK
  <1>2. CASE Goto(a, "pick") /\ UNCHANGED lockedBy
    <2>1. "pick" \in Place
      BY DEF Place
    <2>. QED BY <1>2, <2>1, GotoTyped DEF RunnerRechecks, TypeOK, RestOK
  <1>. QED BY <1>1, <1>2, RechecksEffect

\* The rest of the state stays well-typed: RunnerDies.
LEMMA RunnerDiesRest ==
  ASSUME TypeOK, NEW a \in Attempt, RunnerDies(a)
  PROVE  RestOK'
  <1>1. "gone" \in Place /\ 0 \in 0..MaxAttempts /\ faults' \in 0..MaxFaults
    BY WorkflowAssumption DEF Place, RunnerDies, Fault, TypeOK
  <1>2. runner' \in [Attempt -> Place]
    BY <1>1, GotoTyped DEF RunnerDies
  <1>3. interrupted' \in [Node -> BOOLEAN] /\ lockedBy' \in 0..MaxAttempts
    <2>1. CASE lockedBy = a
      <3>. DEFINE hit(n) == interrupted[n] \/ (def.type[n] = "tool" /\ run.cps[n].st = "running")
      <3>1. interrupted' = [n \in Node |-> hit(n)] /\ lockedBy' = 0
        BY <2>1 DEF RunnerDies
      <3>2. \A n \in Node : hit(n) \in BOOLEAN
        OBVIOUS
      <3>. HIDE DEF hit
      <3>. QED BY <1>1, <3>1, <3>2
    <2>2. CASE lockedBy # a
      BY <2>2 DEF RunnerDies, TypeOK
    <2>. QED BY <2>1, <2>2
  <1>. QED BY <1>1, <1>2, <1>3 DEF RunnerDies, TypeOK, RestOK

\* So does everything else.
LEMMA RestTyped ==
  ASSUME TypeOK, WorkInv, [Next]_vars
  PROVE  RestOK'
  <1>. USE WorkflowAssumption
  <1>1. CASE UNCHANGED <<def, dec, cancelRequested, late, lockedBy, job, runner, busy,
                         abort, faults, interrupted>>
    BY <1>1 DEF TypeOK, RestOK, Place, Attempt
  <1>2. ASSUME NEW a \in Attempt, RunnerTurnsAway(a) PROVE RestOK'
    BY <1>2 DEF RunnerTurnsAway, Goto, TypeOK, RestOK, Place, Attempt
  <1>3. ASSUME NEW a \in Attempt, RunnerEnters(a) PROVE RestOK'
    BY <1>3, RunnerEntersRest
  <1>4. ASSUME NEW a \in Attempt, RunnerStopsJob(a) PROVE RestOK'
    BY <1>4, RunnerStopsJobRest
  <1>5. ASSUME NEW a \in Attempt, RunnerGivesUp(a) PROVE RestOK'
    BY <1>5, RunnerGivesUpRest
  <1>6. ASSUME NEW a \in Attempt, RunnerRuns(a) PROVE RestOK'
    BY <1>6, RunnerRunsRest
  <1>7. ASSUME NEW a \in Attempt, RunnerAborts(a) PROVE RestOK'
    BY <1>7 DEF RunnerAborts, TypeOK, RestOK, Place, Attempt
  <1>8. ASSUME NEW a \in Attempt, RunnerChecks(a) PROVE RestOK'
    BY <1>8 DEF RunnerChecks, Holds, Goto, SaveNodes, TypeOK, RestOK, Place, Attempt
  <1>9. ASSUME NEW a \in Attempt, RunnerFindsNone(a) PROVE RestOK'
    BY <1>9 DEF RunnerFindsNone, Holds, Goto, TypeOK, RestOK, Place, Attempt
  <1>10. ASSUME NEW a \in Attempt, RunnerSkips(a) PROVE RestOK'
    BY <1>10 DEF RunnerSkips, Holds, Goto, SetNode, SaveNodes, TypeOK, RestOK, Place,
       Attempt
  <1>11. ASSUME NEW a \in Attempt, RunnerDispatches(a) PROVE RestOK'
    BY <1>11, RunnerDispatchesRest
  <1>12. ASSUME NEW a \in Attempt, RunnerParks(a) PROVE RestOK'
    BY <1>12 DEF RunnerParks, Holds, Goto, SetNode, SaveNodes, TypeOK, RestOK, Place,
       Attempt
  <1>13. ASSUME NEW a \in Attempt, RunnerSettlesNode(a) PROVE RestOK'
    BY <1>13 DEF RunnerSettlesNode, Holds, Goto, SetNode, SaveNodes, Outcomes, TypeOK,
       RestOK, Place, Attempt
  <1>14. ASSUME NEW a \in Attempt, RunnerCannotStop(a) PROVE RestOK'
    BY <1>14 DEF RunnerCannotStop, Holds, Leave, Goto, TypeOK, RestOK, Place, Attempt
  <1>15. ASSUME NEW a \in Attempt, RunnerGoesOn(a) PROVE RestOK'
    BY <1>15 DEF RunnerGoesOn, Holds, Goto, SetNode, SaveNodes, TypeOK, RestOK, Place,
       Attempt
  <1>16. ASSUME NEW a \in Attempt, RunnerRetries(a) PROVE RestOK'
    BY <1>16 DEF RunnerRetries, Holds, Goto, SetNode, SaveNodes, TypeOK, RestOK, Place,
       Attempt
  <1>17. ASSUME NEW a \in Attempt, RunnerEnds(a) PROVE RestOK'
    BY <1>17, RunnerEndsRest
  <1>18. ASSUME NEW a \in Attempt, RunnerRechecks(a) PROVE RestOK'
    BY <1>18, RunnerRechecksRest
  <1>19. ASSUME NEW a \in Attempt, RunnerDies(a) PROVE RestOK'
    BY <1>19, RunnerDiesRest
  <1>20. ASSUME NEW a \in Attempt, JobEnds(a) PROVE RestOK'
    BY <1>20 DEF JobEnds, TypeOK, RestOK, Place, Attempt
  <1>21. ASSUME NEW a \in Attempt, JobLost(a) PROVE RestOK'
    BY <1>21 DEF JobLost, TypeOK, RestOK, Place, Attempt
  <1>22. ASSUME DeadlinePasses PROVE RestOK'
    BY <1>22 DEF DeadlinePasses, runnerVars, TypeOK, RestOK, Place, Attempt
  <1>23. ASSUME NEW s \in Session, ReconcileParks(s) PROVE RestOK'
    BY <1>23, AskTyped DEF ReconcileParks, runnerVars, TypeOK, RestOK, Place
  <1>24. ASSUME NEW s \in Session, StartFails(s) PROVE RestOK'
    BY <1>24 DEF StartFails, Fault, Done, Idle, OnlyFault, TypeOK, RestOK, Place,
       Attempt
  <1>25. ASSUME NEW s \in Session, LaunchStarts(s) PROVE RestOK'
    BY <1>25 DEF LaunchStarts, Done, Idle, TypeOK, RestOK, Place, Attempt
  <1>26. ASSUME NEW s \in Session, Decides(s) PROVE RestOK'
    BY <1>26 DEF Decides, To, Idle, Undecided, TypeOK, RestOK, Place, Attempt
  <1>27. ASSUME NEW s \in Session, CancelMarks(s) PROVE RestOK'
    BY <1>27 DEF CancelMarks, To, Idle, runnerVars, TypeOK, RestOK, Place, Attempt
  <1>28. ASSUME NEW s \in Session, SessionDies(s) PROVE RestOK'
    BY <1>28 DEF SessionDies, Fault, Done, Idle, OnlyFault, TypeOK, RestOK, Place,
       Attempt
  <1>29. ASSUME NEW s \in Session, ReconcileReads(s) \/ ReconcileSees(s) \/
        ReconcileMissed(s) \/ ReconcileMarksUnknown(s) \/ ReconcileMarksDead(s) \/
        UserLaunches(s) \/ LaunchReads(s) \/ LaunchIntends(s) \/ LaunchMissed(s) \/
        DeciderLooks(s) \/ CancelSettles(s) \/ ExpiryReads(s) \/ TimesOutParked(s) PROVE
        RestOK'
    BY <1>29, <1>1 DEF ReconcileReads, ReconcileSees, ReconcileMissed,
       ReconcileMarksUnknown, ReconcileMarksDead, UserLaunches, LaunchReads,
       LaunchIntends, LaunchMissed, DeciderLooks, CancelSettles, ExpiryReads,
       TimesOutParked, runnerVars, OnlySession
  <1>. QED BY <1>1, <1>2, <1>3, <1>4, <1>5, <1>6, <1>7, <1>8, <1>9, <1>10, <1>11, <1>12,
       <1>13, <1>14, <1>15, <1>16, <1>17, <1>18, <1>19, <1>20, <1>21, <1>22, <1>23,
       <1>24, <1>25, <1>26, <1>27, <1>28, <1>29 DEF Next, RunnerStep, SessionStep,
       ReconcileStep, LaunchStep, vars, runnerVars

\* Every step preserves the type invariant.
LEMMA TypeStep ==
  ASSUME TypeOK, SessionInv, WorkInv, [Next]_vars
  PROVE  TypeOK'
  BY RunTyped, SesStep, RestTyped DEF SesGoal, RunOK, RestOK, Place, TypeOK

-----------------------------------------------------------------------------
(* Attempts, processes and the lock.                                       *)

\* An attempt under way is the run's attempt.
LEMMA AliveIsCurrent ==
  ASSUME TypeOK, AttemptInv, ProcessInv, NEW a \in Attempt, runner[a] \notin {"none", "gone"}
  PROVE  run.attempt = a /\ job[a] \in {"live", "uncertain"}
  BY Fields, WorkflowAssumption DEF TypeOK, AttemptInv, ProcessInv, Attempt

\* A runner that goes on moves no other.
LEMMA Going ==
  ASSUME TypeOK, NEW a \in Attempt, NEW where, Goto(a, where)
  PROVE  runner'[a] = where /\ \A b \in Attempt \ {a} : runner'[b] = runner[b]
  BY DEF TypeOK, Goto

\* Only the current attempt is ever started, and only once.
LEMMA StartsEffect ==
  ASSUME TypeOK, AttemptInv, SessionInv, NEW s \in Session, LaunchStarts(s)
  PROVE  \/ UNCHANGED <<job, runner>>
         \/ \E a \in Attempt :
              /\ run.attempt = a /\ job[a] = "none"
              /\ job' = [job EXCEPT ![a] = "live"] /\ Goto(a, "boot")
  <1>1. ses[s].att \in Attempt /\ ses[s].att <= run.attempt
    BY DEF LaunchStarts, SessionInv
  <1>2. job[ses[s].att] = "none" => run.attempt = ses[s].att
    BY <1>1, Fields DEF AttemptInv, Attempt
  <1>. QED BY <1>1, <1>2 DEF LaunchStarts, Goto

\* A process that is alive goes on, or ends.
LEMMA ProcessGoesOn ==
  ASSUME TypeOK, ProcessInv, NEW a \in Attempt, NEW where, where # "none", Goto(a, where),
         runner[a] \notin {"none", "gone"}, UNCHANGED job
  PROVE  ProcessInv'
  <1>1. runner'[a] = where /\ \A b \in Attempt \ {a} : runner'[b] = runner[b]
    BY Going
  <1>. QED BY <1>1 DEF ProcessInv

\* A job's process moves, dies, and then the job ends.
LEMMA ProcessStep ==
  ASSUME TypeOK, AttemptInv, ProcessInv, SessionInv, WorkInv, [Next]_vars
  PROVE  ProcessInv'
  <1>1. CASE UNCHANGED <<job, runner>>
    BY <1>1 DEF TypeOK, ProcessInv, Attempt
  <1>2. ASSUME NEW a \in Attempt, RunnerTurnsAway(a) PROVE ProcessInv'
    BY <1>2, ProcessGoesOn DEF RunnerTurnsAway, Holds, Leave
  <1>3. ASSUME NEW a \in Attempt, RunnerEnters(a) PROVE ProcessInv'
    BY <1>3, ProcessGoesOn DEF RunnerEnters, Holds, Leave
  <1>4. ASSUME NEW a \in Attempt, RunnerStopsJob(a) PROVE ProcessInv'
    BY <1>4, ProcessGoesOn, StopsJobEffect DEF RunnerStopsJob, Holds, Leave
  <1>5. ASSUME NEW a \in Attempt, RunnerGivesUp(a) PROVE ProcessInv'
    BY <1>5, ProcessGoesOn, GivesUpEffect DEF RunnerGivesUp, Holds, Leave
  <1>6. ASSUME NEW a \in Attempt, RunnerRuns(a) PROVE ProcessInv'
    BY <1>6, ProcessGoesOn, RunsEffect DEF RunnerRuns, Holds, Leave
  <1>7. ASSUME NEW a \in Attempt, RunnerChecks(a) PROVE ProcessInv'
    BY <1>7, ProcessGoesOn, ChecksEffect DEF RunnerChecks, Holds, Leave
  <1>8. ASSUME NEW a \in Attempt, RunnerFindsNone(a) PROVE ProcessInv'
    BY <1>8, ProcessGoesOn DEF RunnerFindsNone, Holds, Leave
  <1>9. ASSUME NEW a \in Attempt, RunnerSkips(a) PROVE ProcessInv'
    BY <1>9, ProcessGoesOn DEF RunnerSkips, Holds, Leave
  <1>10. ASSUME NEW a \in Attempt, RunnerDispatches(a) PROVE ProcessInv'
    BY <1>10, ProcessGoesOn, DispatchesEffect DEF RunnerDispatches, Holds, Leave
  <1>11. ASSUME NEW a \in Attempt, RunnerParks(a) PROVE ProcessInv'
    BY <1>11, ProcessGoesOn DEF RunnerParks, Holds, Leave
  <1>12. ASSUME NEW a \in Attempt, RunnerSettlesNode(a) PROVE ProcessInv'
    BY <1>12, ProcessGoesOn DEF RunnerSettlesNode, Holds, Leave
  <1>13. ASSUME NEW a \in Attempt, RunnerCannotStop(a) PROVE ProcessInv'
    BY <1>13, ProcessGoesOn DEF RunnerCannotStop, Holds, Leave
  <1>14. ASSUME NEW a \in Attempt, RunnerGoesOn(a) PROVE ProcessInv'
    BY <1>14, ProcessGoesOn, GoesOnEffect DEF RunnerGoesOn, Holds, Leave
  <1>15. ASSUME NEW a \in Attempt, RunnerRetries(a) PROVE ProcessInv'
    BY <1>15, ProcessGoesOn, RetriesEffect DEF RunnerRetries, Holds, Leave
  <1>16. ASSUME NEW a \in Attempt, RunnerEnds(a) PROVE ProcessInv'
    BY <1>16, ProcessGoesOn, EndsEffect DEF RunnerEnds, Holds, Leave
  <1>17. ASSUME NEW a \in Attempt, RunnerRechecks(a) PROVE ProcessInv'
    BY <1>17, ProcessGoesOn, RechecksEffect DEF RunnerRechecks, Holds, Leave
  <1>18. ASSUME NEW a \in Attempt, RunnerDies(a) PROVE ProcessInv'
    BY <1>18, ProcessGoesOn DEF RunnerDies, Holds, Leave
  <1>19. ASSUME NEW a \in Attempt, JobEnds(a) PROVE ProcessInv'
    BY <1>19 DEF JobEnds, TypeOK, ProcessInv, Attempt
  <1>20. ASSUME NEW a \in Attempt, JobLost(a) PROVE ProcessInv'
    BY <1>20 DEF JobLost, TypeOK, ProcessInv, Attempt
  <1>21. ASSUME NEW s \in Session, LaunchStarts(s) PROVE ProcessInv'
    <2>1. CASE UNCHANGED <<job, runner>>
      BY <2>1 DEF ProcessInv
    <2>2. ASSUME NEW a \in Attempt, job' = [job EXCEPT ![a] = "live"], Goto(a, "boot")
          PROVE  ProcessInv'
      BY <2>2, Going DEF TypeOK, ProcessInv
    <2>. QED BY <1>21, <2>1, <2>2, StartsEffect
  <1>22. ASSUME NEW a \in Attempt, RunnerAborts(a) PROVE ProcessInv'
    BY <1>22, <1>1 DEF RunnerAborts
  <1>23. ASSUME DeadlinePasses PROVE ProcessInv'
    BY <1>23, <1>1 DEF DeadlinePasses, runnerVars
  <1>24. ASSUME NEW s \in Session, ReconcileReads(s) \/ ReconcileSees(s) \/
        ReconcileMissed(s) \/ ReconcileMarksUnknown(s) \/ ReconcileParks(s) \/
        ReconcileMarksDead(s) \/ UserLaunches(s) \/ LaunchReads(s) \/ LaunchIntends(s)
        \/ LaunchMissed(s) \/ StartFails(s) \/ Decides(s) \/ DeciderLooks(s) \/
        CancelMarks(s) \/ CancelSettles(s) \/ ExpiryReads(s) \/ TimesOutParked(s) \/
        SessionDies(s) PROVE ProcessInv'
    BY <1>24, <1>1 DEF ReconcileReads, ReconcileSees, ReconcileMissed,
       ReconcileMarksUnknown, ReconcileParks, ReconcileMarksDead, UserLaunches,
       LaunchReads, LaunchIntends, LaunchMissed, StartFails, Decides, DeciderLooks,
       CancelMarks, CancelSettles, ExpiryReads, TimesOutParked, SessionDies, runnerVars,
       OnlySession, OnlyFault
  <1>. QED BY <1>1, <1>2, <1>3, <1>4, <1>5, <1>6, <1>7, <1>8, <1>9, <1>10, <1>11, <1>12,
       <1>13, <1>14, <1>15, <1>16, <1>17, <1>18, <1>19, <1>20, <1>21, <1>22, <1>23,
       <1>24 DEF Next, RunnerStep, SessionStep, ReconcileStep, LaunchStep, vars,
       runnerVars

\* A lock holder that goes on keeps the lock.
LEMMA GoingOn ==
  ASSUME TypeOK, LockInv, NEW a \in Attempt, NEW where \in Locking, lockedBy = a,
         Goto(a, where), UNCHANGED lockedBy
  PROVE  LockInv'
  BY Going DEF LockInv

\* A lock holder that leaves frees the lock.
LEMMA Leaving ==
  ASSUME TypeOK, LockInv, NEW a \in Attempt, lockedBy = a, Leave(a)
  PROVE  LockInv'
  <1>1. runner'[a] = "gone" /\ lockedBy' = 0 /\ \A b \in Attempt \ {a} : runner'[b] = runner[b]
    BY Going DEF Leave
  <1>. QED BY <1>1 DEF LockInv, Locking


\* Only a runner that holds the lock is past its entrance.
LEMMA LockStep ==
  ASSUME TypeOK, AttemptInv, ProcessInv, SessionInv, LockInv, WorkInv, [Next]_vars
  PROVE  LockInv'
  <1>1. CASE UNCHANGED <<lockedBy, runner>>
    BY <1>1 DEF TypeOK, LockInv, SessionInv, ProcessInv, Locking, Attempt
  <1>2. ASSUME NEW a \in Attempt, RunnerTurnsAway(a) PROVE LockInv'
    BY <1>2 DEF RunnerTurnsAway, Goto, TypeOK, LockInv, SessionInv, ProcessInv, Locking,
       Attempt
  <1>3. ASSUME NEW a \in Attempt, RunnerEnters(a) PROVE LockInv'
    BY <1>3 DEF RunnerEnters, Goto, SaveNodes, TypeOK, LockInv, SessionInv, ProcessInv,
       Locking, Attempt
  <1>4. ASSUME NEW a \in Attempt, RunnerStopsJob(a) PROVE LockInv'
    BY <1>4, GoingOn, Leaving, StopsJobEffect DEF Holds, Locking
  <1>5. ASSUME NEW a \in Attempt, RunnerGivesUp(a) PROVE LockInv'
    BY <1>5, GoingOn, Leaving, GivesUpEffect DEF Holds, Locking
  <1>6. ASSUME NEW a \in Attempt, RunnerRuns(a) PROVE LockInv'
    BY <1>6, GoingOn, Leaving, RunsEffect DEF Holds, Locking
  <1>7. ASSUME NEW a \in Attempt, RunnerChecks(a) PROVE LockInv'
    BY <1>7, GoingOn, Leaving, ChecksEffect DEF Holds, Locking
  <1>8. ASSUME NEW a \in Attempt, RunnerFindsNone(a) PROVE LockInv'
    BY <1>8, GoingOn, Leaving DEF RunnerFindsNone, Holds, Locking
  <1>9. ASSUME NEW a \in Attempt, RunnerSkips(a) PROVE LockInv'
    BY <1>9, GoingOn, Leaving DEF RunnerSkips, Holds, Locking
  <1>10. ASSUME NEW a \in Attempt, RunnerDispatches(a) PROVE LockInv'
    BY <1>10, GoingOn, Leaving, DispatchesEffect DEF Holds, Locking
  <1>11. ASSUME NEW a \in Attempt, RunnerParks(a) PROVE LockInv'
    BY <1>11, GoingOn, Leaving DEF RunnerParks, Holds, Locking
  <1>12. ASSUME NEW a \in Attempt, RunnerSettlesNode(a) PROVE LockInv'
    BY <1>12, GoingOn, Leaving DEF RunnerSettlesNode, Holds, Locking
  <1>13. ASSUME NEW a \in Attempt, RunnerCannotStop(a) PROVE LockInv'
    BY <1>13, GoingOn, Leaving DEF RunnerCannotStop, Holds, Locking
  <1>14. ASSUME NEW a \in Attempt, RunnerGoesOn(a) PROVE LockInv'
    BY <1>14, GoingOn, Leaving, GoesOnEffect DEF Holds, Locking
  <1>15. ASSUME NEW a \in Attempt, RunnerRetries(a) PROVE LockInv'
    BY <1>15, GoingOn, Leaving, RetriesEffect DEF Holds, Locking
  <1>16. ASSUME NEW a \in Attempt, RunnerEnds(a) PROVE LockInv'
    BY <1>16, GoingOn, Leaving, EndsEffect DEF Holds, Locking
  <1>17. ASSUME NEW a \in Attempt, RunnerRechecks(a) PROVE LockInv'
    BY <1>17, GoingOn, Leaving, RechecksEffect DEF Holds, Locking
  <1>18. ASSUME NEW a \in Attempt, RunnerDies(a) PROVE LockInv'
    BY <1>18 DEF RunnerDies, Goto, Fault, TypeOK, LockInv, SessionInv, ProcessInv,
       Locking, Attempt
  <1>19. ASSUME NEW s \in Session, LaunchStarts(s) PROVE LockInv'
    <2>1. UNCHANGED lockedBy
      BY <1>19 DEF LaunchStarts
    <2>2. CASE UNCHANGED runner
      BY <2>1, <2>2 DEF LockInv
    <2>3. ASSUME NEW a \in Attempt, job[a] = "none", Goto(a, "boot") PROVE LockInv'
      <3>1. runner[a] = "none"
        BY <2>3 DEF ProcessInv
      <3>. QED BY <2>1, <2>3, <3>1, Going DEF TypeOK, LockInv, Locking, Attempt
    <2>. QED BY <1>19, <2>2, <2>3, StartsEffect
  <1>20. ASSUME NEW a \in Attempt, RunnerAborts(a) \/ JobEnds(a) \/ JobLost(a) PROVE
        LockInv'
    BY <1>20, <1>1 DEF RunnerAborts, JobEnds, JobLost
  <1>21. ASSUME DeadlinePasses PROVE LockInv'
    BY <1>21, <1>1 DEF DeadlinePasses, runnerVars
  <1>22. ASSUME NEW s \in Session, ReconcileReads(s) \/ ReconcileSees(s) \/
        ReconcileMissed(s) \/ ReconcileMarksUnknown(s) \/ ReconcileParks(s) \/
        ReconcileMarksDead(s) \/ UserLaunches(s) \/ LaunchReads(s) \/ LaunchIntends(s)
        \/ LaunchMissed(s) \/ StartFails(s) \/ Decides(s) \/ DeciderLooks(s) \/
        CancelMarks(s) \/ CancelSettles(s) \/ ExpiryReads(s) \/ TimesOutParked(s) \/
        SessionDies(s) PROVE LockInv'
    BY <1>22, <1>1 DEF ReconcileReads, ReconcileSees, ReconcileMissed,
       ReconcileMarksUnknown, ReconcileParks, ReconcileMarksDead, UserLaunches,
       LaunchReads, LaunchIntends, LaunchMissed, StartFails, Decides, DeciderLooks,
       CancelMarks, CancelSettles, ExpiryReads, TimesOutParked, SessionDies, runnerVars,
       OnlySession, OnlyFault
  <1>. QED BY <1>1, <1>2, <1>3, <1>4, <1>5, <1>6, <1>7, <1>8, <1>9, <1>10, <1>11, <1>12,
       <1>13, <1>14, <1>15, <1>16, <1>17, <1>18, <1>19, <1>20, <1>21, <1>22 DEF Next,
       RunnerStep, SessionStep, ReconcileStep, LaunchStep, vars, runnerVars

\* A new attempt is opened only when the last one's job has ended.
LEMMA AttemptStep ==
  ASSUME TypeOK, AttemptInv, ProcessInv, SessionInv, WorkInv, [Next]_vars
  PROVE  AttemptInv'
  <1>. USE WorkflowAssumption
  <1>1. CASE UNCHANGED <<job, run>>
    BY <1>1 DEF TypeOK, AttemptInv, ProcessInv, SessionInv, Attempt
  <1>2. ASSUME NEW a \in Attempt, RunnerEnters(a) PROVE AttemptInv'
    BY <1>2, Fields, EntersEffect DEF RunnerEnters, SameStatus, SameAttempt, AttemptInv,
       Attempt, TerminalRun, runnerVars
  <1>3. ASSUME NEW a \in Attempt, RunnerStopsJob(a) PROVE AttemptInv'
    BY <1>3, Fields, StopsJobEffect DEF RunnerStopsJob, SameStatus, SameAttempt,
       AttemptInv, Attempt, TerminalRun, runnerVars
  <1>4. ASSUME NEW a \in Attempt, RunnerGivesUp(a) PROVE AttemptInv'
    BY <1>4, Fields, GivesUpEffect DEF RunnerGivesUp, SameStatus, SameAttempt, AttemptInv,
       Attempt, TerminalRun, runnerVars
  <1>5. ASSUME NEW a \in Attempt, RunnerRuns(a) PROVE AttemptInv'
    BY <1>5, AliveIsCurrent, RunsEffect DEF Holds, SameAttempt, RunnerRuns, AttemptInv
  <1>6. ASSUME NEW a \in Attempt, RunnerChecks(a) PROVE AttemptInv'
    BY <1>6, Fields, ChecksEffect DEF RunnerChecks, SameStatus, SameAttempt, AttemptInv,
       Attempt, TerminalRun, runnerVars
  <1>7. ASSUME NEW a \in Attempt, RunnerSkips(a) PROVE AttemptInv'
    BY <1>7, Fields, SkipsEffect DEF RunnerSkips, SameStatus, SameAttempt, AttemptInv,
       Attempt, TerminalRun, runnerVars
  <1>8. ASSUME NEW a \in Attempt, RunnerDispatches(a) PROVE AttemptInv'
    BY <1>8, Fields, DispatchesEffect DEF RunnerDispatches, SameStatus, SameAttempt,
       AttemptInv, Attempt, TerminalRun, runnerVars
  <1>9. ASSUME NEW a \in Attempt, RunnerParks(a) PROVE AttemptInv'
    BY <1>9, Fields, ParksEffect DEF RunnerParks, SameStatus, SameAttempt, AttemptInv,
       Attempt, TerminalRun, runnerVars
  <1>10. ASSUME NEW a \in Attempt, RunnerSettlesNode(a) PROVE AttemptInv'
    BY <1>10, Fields, SettlesEffect DEF RunnerSettlesNode, SameStatus, SameAttempt,
       AttemptInv, Attempt, TerminalRun, runnerVars
  <1>11. ASSUME NEW a \in Attempt, RunnerGoesOn(a) PROVE AttemptInv'
    BY <1>11, Fields, GoesOnEffect DEF RunnerGoesOn, SameStatus, SameAttempt, AttemptInv,
       Attempt, TerminalRun, runnerVars
  <1>12. ASSUME NEW a \in Attempt, RunnerRetries(a) PROVE AttemptInv'
    BY <1>12, Fields, RetriesEffect DEF RunnerRetries, SameStatus, SameAttempt, AttemptInv,
       Attempt, TerminalRun, runnerVars
  <1>13. ASSUME NEW a \in Attempt, RunnerEnds(a) PROVE AttemptInv'
    BY <1>13, Fields, EndsEffect DEF RunnerEnds, SameStatus, SameAttempt, AttemptInv,
       Attempt, TerminalRun, runnerVars
  <1>14. ASSUME NEW a \in Attempt, RunnerRechecks(a) PROVE AttemptInv'
    BY <1>14, AliveIsCurrent, RechecksEffect DEF Holds, RunnerRechecks, SameAttempt,
       SameStatus, AttemptInv
  <1>15. ASSUME NEW a \in Attempt, JobEnds(a) PROVE AttemptInv'
    BY <1>15 DEF JobEnds, TypeOK, AttemptInv, ProcessInv, SessionInv, Attempt
  <1>16. ASSUME NEW a \in Attempt, JobLost(a) PROVE AttemptInv'
    BY <1>16 DEF JobLost, TypeOK, AttemptInv, ProcessInv, SessionInv, Attempt
  <1>17. ASSUME NEW s \in Session, ReconcileMarksUnknown(s) PROVE AttemptInv'
    BY <1>17, Fields, UnknownEffect DEF ReconcileMarksUnknown, SameStatus, SameAttempt,
       AttemptInv, Attempt, TerminalRun, runnerVars
  <1>18. ASSUME NEW s \in Session, ReconcileParks(s) PROVE AttemptInv'
    BY <1>18, Fields, ReconcileParksEffect DEF ReconcileParks, SameStatus, SameAttempt,
       AttemptInv, Attempt, TerminalRun, runnerVars
  <1>19. ASSUME NEW s \in Session, ReconcileMarksDead(s) PROVE AttemptInv'
    <2>1. /\ run'.status = "interrupted" /\ UNCHANGED job
          /\ run'.attempt \in {run.attempt, run.attempt + 1} /\ run.attempt = ses[s].att
      BY <1>19, DeadEffect DEF ReconcileMarksDead, runnerVars
    <2>2. run.attempt \in Attempt /\ job[run.attempt] = "terminal"
      BY <1>19, <2>1, DeadEffect DEF SessionInv
    <2>. QED BY <2>1, <2>2 DEF AttemptInv, Attempt
  <1>20. ASSUME NEW s \in Session, LaunchIntends(s) PROVE AttemptInv'
    <2>1. /\ run'.status = "queued" /\ run'.attempt \in Attempt /\ UNCHANGED job
          /\ run.attempt \in 0..MaxAttempts
      BY <1>20, Fields, IntendsEffect DEF LaunchIntends, runnerVars
    <2>2. CASE run'.attempt = run.attempt
      BY <2>1, <2>2 DEF AttemptInv
    <2>3. CASE run.attempt = 0 /\ run'.attempt = 1
      BY <2>1, <2>3 DEF AttemptInv, Attempt
    <2>4. CASE /\ ses[s].att # 0 /\ run'.attempt = ses[s].att
               /\ run.attempt = ses[s].att - 1
      <3>1. run.attempt \in Attempt /\ job[run.attempt] = "terminal"
        BY <1>20, <2>4 DEF LaunchIntends, SessionInv
      <3>2. run'.attempt = run.attempt + 1
        BY <2>1, <2>4 DEF Attempt
      <3>. QED BY <2>1, <3>1, <3>2 DEF AttemptInv, Attempt
    <2>. QED BY <1>20, <2>2, <2>3, <2>4, IntendsEffect
  <1>21. ASSUME NEW s \in Session, LaunchStarts(s) PROVE AttemptInv'
    <2>1. UNCHANGED run
      BY <1>21 DEF LaunchStarts
    <2>. QED BY <1>21, <2>1, StartsEffect DEF TypeOK, AttemptInv, Attempt
  <1>22. ASSUME NEW s \in Session, CancelSettles(s) PROVE AttemptInv'
    BY <1>22, Fields, CancelEffect DEF CancelSettles, SameStatus, SameAttempt, AttemptInv,
       Attempt, TerminalRun, runnerVars
  <1>23. ASSUME NEW s \in Session, TimesOutParked(s) PROVE AttemptInv'
    BY <1>23, Fields, ExpiryEffect DEF TimesOutParked, SameStatus, SameAttempt, AttemptInv,
       Attempt, TerminalRun, runnerVars
  <1>24. ASSUME NEW a \in Attempt, RunnerTurnsAway(a) \/ RunnerAborts(a) \/
        RunnerFindsNone(a) \/ RunnerCannotStop(a) \/ RunnerDies(a) PROVE AttemptInv'
    BY <1>24, <1>1 DEF RunnerTurnsAway, RunnerAborts, RunnerFindsNone, RunnerCannotStop,
       RunnerDies
  <1>25. ASSUME DeadlinePasses PROVE AttemptInv'
    BY <1>25, <1>1 DEF DeadlinePasses, runnerVars
  <1>26. ASSUME NEW s \in Session, ReconcileReads(s) \/ ReconcileSees(s) \/
        ReconcileMissed(s) \/ UserLaunches(s) \/ LaunchReads(s) \/ LaunchMissed(s) \/
        StartFails(s) \/ Decides(s) \/ DeciderLooks(s) \/ CancelMarks(s) \/
        ExpiryReads(s) \/ SessionDies(s) PROVE AttemptInv'
    BY <1>26, <1>1 DEF ReconcileReads, ReconcileSees, ReconcileMissed, UserLaunches,
       LaunchReads, LaunchMissed, StartFails, Decides, DeciderLooks, CancelMarks,
       ExpiryReads, SessionDies, runnerVars, OnlySession, OnlyFault
  <1>. QED BY <1>1, <1>2, <1>3, <1>4, <1>5, <1>6, <1>7, <1>8, <1>9, <1>10, <1>11, <1>12,
       <1>13, <1>14, <1>15, <1>16, <1>17, <1>18, <1>19, <1>20, <1>21, <1>22, <1>23,
       <1>24, <1>25, <1>26 DEF Next, RunnerStep, SessionStep, ReconcileStep, LaunchStep,
       vars, runnerVars

JobKept ==
  \A a \in Attempt : /\ job[a] = "terminal" => job'[a] = "terminal"
                     /\ job[a] # "none" => job'[a] # "none"

\* An ended job stays ended, a started one started.
LEMMA JobStep ==
  ASSUME TypeOK, [Next]_vars
  PROVE  JobKept
  <1>1. CASE UNCHANGED <<job>>
    BY <1>1 DEF TypeOK, JobKept
  <1>2. ASSUME NEW a \in Attempt, JobEnds(a) PROVE JobKept
    BY <1>2 DEF JobEnds, TypeOK, JobKept
  <1>3. ASSUME NEW a \in Attempt, JobLost(a) PROVE JobKept
    BY <1>3 DEF JobLost, TypeOK, JobKept
  <1>4. ASSUME NEW s \in Session, LaunchStarts(s) PROVE JobKept
    BY <1>4 DEF LaunchStarts, Done, Idle, TypeOK, JobKept
  <1>5. ASSUME NEW a \in Attempt, RunnerTurnsAway(a) \/ RunnerEnters(a) \/
        RunnerStopsJob(a) \/ RunnerGivesUp(a) \/ RunnerRuns(a) \/ RunnerAborts(a) \/
        RunnerChecks(a) \/ RunnerFindsNone(a) \/ RunnerSkips(a) \/ RunnerDispatches(a)
        \/ RunnerParks(a) \/ RunnerSettlesNode(a) \/ RunnerCannotStop(a) \/
        RunnerGoesOn(a) \/ RunnerRetries(a) \/ RunnerEnds(a) \/ RunnerRechecks(a) \/
        RunnerDies(a) PROVE JobKept
    BY <1>5, <1>1 DEF RunnerTurnsAway, RunnerEnters, RunnerStopsJob, RunnerGivesUp,
       RunnerRuns, RunnerAborts, RunnerChecks, RunnerFindsNone, RunnerSkips,
       RunnerDispatches, RunnerParks, RunnerSettlesNode, RunnerCannotStop, RunnerGoesOn,
       RunnerRetries, RunnerEnds, RunnerRechecks, RunnerDies
  <1>6. ASSUME DeadlinePasses PROVE JobKept
    BY <1>6, <1>1 DEF DeadlinePasses, runnerVars
  <1>7. ASSUME NEW s \in Session, ReconcileReads(s) \/ ReconcileSees(s) \/
        ReconcileMissed(s) \/ ReconcileMarksUnknown(s) \/ ReconcileParks(s) \/
        ReconcileMarksDead(s) \/ UserLaunches(s) \/ LaunchReads(s) \/ LaunchIntends(s)
        \/ LaunchMissed(s) \/ StartFails(s) \/ Decides(s) \/ DeciderLooks(s) \/
        CancelMarks(s) \/ CancelSettles(s) \/ ExpiryReads(s) \/ TimesOutParked(s) \/
        SessionDies(s) PROVE JobKept
    BY <1>7, <1>1 DEF ReconcileReads, ReconcileSees, ReconcileMissed,
       ReconcileMarksUnknown, ReconcileParks, ReconcileMarksDead, UserLaunches,
       LaunchReads, LaunchIntends, LaunchMissed, StartFails, Decides, DeciderLooks,
       CancelMarks, CancelSettles, ExpiryReads, TimesOutParked, SessionDies, runnerVars,
       OnlySession, OnlyFault
  <1>. QED BY <1>1, <1>2, <1>3, <1>4, <1>5, <1>6, <1>7 DEF Next, RunnerStep,
       SessionStep, ReconcileStep, LaunchStep, vars, runnerVars

\* The attempt only grows.
LEMMA ForwardStep ==
  ASSUME TypeOK, WorkInv, [Next]_vars
  PROVE  run.attempt <= run'.attempt
  <1>. USE WorkflowAssumption
  <1>1. CASE UNCHANGED <<run>>
    BY <1>1 DEF TypeOK, Run
  <1>2. ASSUME NEW a \in Attempt, RunnerEnters(a) PROVE run.attempt <= run'.attempt
    BY <1>2, Fields, EntersEffect DEF SameAttempt, Attempt
  <1>3. ASSUME NEW a \in Attempt, RunnerStopsJob(a) PROVE run.attempt <= run'.attempt
    BY <1>3, Fields, StopsJobEffect DEF SameAttempt, Attempt
  <1>4. ASSUME NEW a \in Attempt, RunnerGivesUp(a) PROVE run.attempt <= run'.attempt
    BY <1>4, Fields, GivesUpEffect DEF SameAttempt, Attempt
  <1>5. ASSUME NEW a \in Attempt, RunnerRuns(a) PROVE run.attempt <= run'.attempt
    BY <1>5, Fields, RunsEffect DEF SameAttempt, Attempt
  <1>6. ASSUME NEW a \in Attempt, RunnerChecks(a) PROVE run.attempt <= run'.attempt
    BY <1>6, Fields, ChecksEffect DEF SameAttempt, Attempt
  <1>7. ASSUME NEW a \in Attempt, RunnerSkips(a) PROVE run.attempt <= run'.attempt
    BY <1>7, Fields, SkipsEffect DEF SameAttempt, Attempt
  <1>8. ASSUME NEW a \in Attempt, RunnerDispatches(a) PROVE run.attempt <= run'.attempt
    BY <1>8, Fields, DispatchesEffect DEF SameAttempt, Attempt
  <1>9. ASSUME NEW a \in Attempt, RunnerParks(a) PROVE run.attempt <= run'.attempt
    BY <1>9, Fields, ParksEffect DEF SameAttempt, Attempt
  <1>10. ASSUME NEW a \in Attempt, RunnerSettlesNode(a) PROVE run.attempt <=
        run'.attempt
    BY <1>10, Fields, SettlesEffect DEF SameAttempt, Attempt
  <1>11. ASSUME NEW a \in Attempt, RunnerGoesOn(a) PROVE run.attempt <= run'.attempt
    BY <1>11, Fields, GoesOnEffect DEF SameAttempt, Attempt
  <1>12. ASSUME NEW a \in Attempt, RunnerRetries(a) PROVE run.attempt <= run'.attempt
    BY <1>12, Fields, RetriesEffect DEF SameAttempt, Attempt
  <1>13. ASSUME NEW a \in Attempt, RunnerEnds(a) PROVE run.attempt <= run'.attempt
    BY <1>13, Fields, EndsEffect DEF SameAttempt, Attempt
  <1>14. ASSUME NEW a \in Attempt, RunnerRechecks(a) PROVE run.attempt <= run'.attempt
    BY <1>14, Fields, RechecksEffect DEF SameAttempt, Attempt
  <1>15. ASSUME NEW s \in Session, ReconcileMarksUnknown(s) PROVE run.attempt <=
        run'.attempt
    BY <1>15, Fields, UnknownEffect DEF SameAttempt, Attempt
  <1>16. ASSUME NEW s \in Session, ReconcileParks(s) PROVE run.attempt <= run'.attempt
    BY <1>16, Fields, ReconcileParksEffect DEF SameAttempt, Attempt
  <1>17. ASSUME NEW s \in Session, ReconcileMarksDead(s) PROVE run.attempt <=
        run'.attempt
    BY <1>17, Fields, DeadEffect DEF SameAttempt, Attempt
  <1>18. ASSUME NEW s \in Session, LaunchIntends(s) PROVE run.attempt <= run'.attempt
    BY <1>18, Fields, IntendsEffect DEF SameAttempt, Attempt
  <1>19. ASSUME NEW s \in Session, CancelSettles(s) PROVE run.attempt <= run'.attempt
    BY <1>19, Fields, CancelEffect DEF SameAttempt, Attempt
  <1>20. ASSUME NEW s \in Session, TimesOutParked(s) PROVE run.attempt <= run'.attempt
    BY <1>20, Fields, ExpiryEffect DEF SameAttempt, Attempt
  <1>21. ASSUME NEW a \in Attempt, RunnerTurnsAway(a) \/ RunnerAborts(a) \/
        RunnerFindsNone(a) \/ RunnerCannotStop(a) \/ RunnerDies(a) \/ JobEnds(a) \/
        JobLost(a) PROVE run.attempt <= run'.attempt
    BY <1>21, <1>1 DEF RunnerTurnsAway, RunnerAborts, RunnerFindsNone, RunnerCannotStop,
       RunnerDies, JobEnds, JobLost
  <1>22. ASSUME DeadlinePasses PROVE run.attempt <= run'.attempt
    BY <1>22, <1>1 DEF DeadlinePasses, runnerVars
  <1>23. ASSUME NEW s \in Session, ReconcileReads(s) \/ ReconcileSees(s) \/
        ReconcileMissed(s) \/ UserLaunches(s) \/ LaunchReads(s) \/ LaunchMissed(s) \/
        StartFails(s) \/ LaunchStarts(s) \/ Decides(s) \/ DeciderLooks(s) \/
        CancelMarks(s) \/ ExpiryReads(s) \/ SessionDies(s) PROVE run.attempt <=
        run'.attempt
    BY <1>23, <1>1 DEF ReconcileReads, ReconcileSees, ReconcileMissed, UserLaunches,
       LaunchReads, LaunchMissed, StartFails, LaunchStarts, Decides, DeciderLooks,
       CancelMarks, ExpiryReads, SessionDies, runnerVars, OnlySession, OnlyFault
  <1>. QED BY <1>1, <1>2, <1>3, <1>4, <1>5, <1>6, <1>7, <1>8, <1>9, <1>10, <1>11, <1>12,
       <1>13, <1>14, <1>15, <1>16, <1>17, <1>18, <1>19, <1>20, <1>21, <1>22, <1>23 DEF
       Next, RunnerStep, SessionStep, ReconcileStep, LaunchStep, vars, runnerVars

\* What a session believes stays true while others take steps: attempts only go
\* up, and a job that has ended stays ended.
LEMMA SessionStays ==
  ASSUME TypeOK, AttemptInv, SessionInv, SesGoal, JobKept, run.attempt <= run'.attempt,
         run'.attempt \in 0..MaxAttempts
  PROVE  SessionInv'
  <1>. USE WorkflowAssumption
  <1>. SUFFICES ASSUME NEW s \in Session
                PROVE  /\ ses'[s].pc = "judge" =>
                            /\ ses'[s].att \in Attempt
                            /\ ses'[s].st \in {"running", "queued", "waiting_approval"}
                            /\ ses'[s].st = "running" => job'[ses'[s].att] # "none"
                       /\ ses'[s].pc = "dead" =>
                            ses'[s].att \in Attempt /\ job'[ses'[s].att] = "terminal"
                       /\ ses'[s].pc = "intent" /\ ses'[s].att # 0 =>
                            ses'[s].att - 1 \in Attempt /\ job'[ses'[s].att - 1] = "terminal"
                       /\ ses'[s].pc = "start" =>
                            ses'[s].att \in Attempt /\ ses'[s].att <= run'.attempt
    BY DEF SessionInv
  <1>1. CASE ses'[s] = ses[s]
    BY <1>1, Fields DEF SessionInv, JobKept, Attempt
  <1>2. CASE Believes(ses'[s])
    BY <1>2 DEF Believes, Resting, JobKept, AttemptInv, Attempt
  <1>. QED BY <1>1, <1>2 DEF SesGoal, SesChange, OthersStay

-----------------------------------------------------------------------------
(* What runs, and where the lock holder is.                                *)

\* The lock holder is where it went.
LEMMA HeldAt ==
  ASSUME TypeOK, NEW a \in Attempt, NEW where, lockedBy' = a, Goto(a, where)
  PROVE  \A S : Held(S)' <=> where \in S
  <1>1. a # 0 /\ runner'[a] = where
    BY Going DEF Attempt
  <1>. QED BY <1>1 DEF Held

\* Nobody holds a free lock.
LEMMA HeldByNone ==
  ASSUME lockedBy' = 0
  PROVE  \A S : ~Held(S)'
  BY DEF Held

\* The lock holder is where it was.
LEMMA HeldSame ==
  ASSUME UNCHANGED lockedBy, lockedBy # 0 => runner'[lockedBy] = runner[lockedBy]
  PROVE  \A S : Held(S)' <=> Held(S)
  BY DEF Held

\* A process without the lock starts, moves or ends.
LEMMA HeldByOther ==
  ASSUME TypeOK, LockInv, NEW a \in Attempt, NEW where, runner[a] \notin Locking,
         Goto(a, where), UNCHANGED lockedBy
  PROVE  \A S : Held(S)' <=> Held(S)
  <1>1. lockedBy # 0 => lockedBy \in Attempt \ {a}
    BY DEF TypeOK, LockInv, Attempt
  <1>. QED BY <1>1, Going, HeldSame

\* Where no node changes the same ones run.
LEMMA RunningSame ==
  ASSUME SameNodes
  PROVE  Running' = Running
  BY DEF SameNodes, Running

\* A node that stops running is taken from the running ones.
LEMMA RunningLess ==
  ASSUME NEW n \in Node, OnlyNode(n), run'.cps[n].st # "running"
  PROVE  Running' = Running \ {n}
  BY DEF OnlyNode, Running

\* A node that starts running joins them.
LEMMA RunningMore ==
  ASSUME NEW n \in Node, OnlyNode(n), run'.cps[n].st = "running"
  PROVE  Running' = Running \cup {n}
  BY DEF OnlyNode, Running

\* Decisions stop and start no node.
LEMMA RunningDecided ==
  ASSUME \A n \in Node : run'.cps[n].st =
           IF n \in Unapplied(run.cps, dec) THEN DecidedStatus(n) ELSE run.cps[n].st
  PROVE  Running' = Running
  <1>1. \A n \in Node : (run'.cps[n].st = "running") <=> (run.cps[n].st = "running")
    BY DEF Unapplied, DecidedStatus
  <1>. QED BY <1>1 DEF Running

\* The lock holder is where it is: what WorkInv says of it.
LEMMA HolderIsAt ==
  ASSUME LockInv, WorkInv, NEW a \in Attempt, lockedBy = a
  PROVE  /\ run.status \notin TerminalRun
         /\ runner[a] \in {"ending", "pick", "next", "park", "after", "retry", "end", "recheck"}
              => Running = {}
         /\ runner[a] = "exec" => Running = {busy}
         /\ runner[a] \in {"pick", "next", "park", "exec", "after", "retry", "end"}
              => run.status = "running"
         /\ \A S : Held(S) <=> runner[a] \in S
  <1>1. a # 0
    BY DEF Attempt
  <1>2. \A S : Held(S) <=> runner[a] \in S
    BY <1>1 DEF Held
  <1>. QED BY <1>1, <1>2 DEF WorkInv

\* At most one node runs, and none when the lock holder does not wait for it,
\* or when the run is parked or has ended.
LEMMA WorkStep ==
  ASSUME TypeOK, AttemptInv, ProcessInv, SessionInv, LockInv, WorkInv, [Next]_vars
  PROVE  WorkInv'
  <1>1. CASE UNCHANGED <<run, lockedBy, runner, busy>>
    BY <1>1 DEF WorkInv, Running, Held
  <1>2. ASSUME NEW a \in Attempt, RunnerTurnsAway(a) PROVE WorkInv'
    BY <1>2, HeldByOther DEF RunnerTurnsAway, Locking, Running, WorkInv
  <1>3. ASSUME NEW a \in Attempt, RunnerEnters(a) PROVE WorkInv'
    <2>1. \A n \in Node : run'.cps[n].st = "running" => run.cps[n].st = "running"
      BY <1>3, EntersEffect DEF Unapplied, DecidedStatus
    <2>2. Running' \subseteq Running
      BY <2>1 DEF Running
    <2>3. SameStatus /\ run.status \notin TerminalRun /\ lockedBy' = a /\ Goto(a, "entered")
      BY <1>3, EntersEffect DEF RunnerEnters
    <2>4. \A S : Held(S)' <=> "entered" \in S
      BY <2>3, HeldAt
    <2>. QED BY <2>2, <2>3, <2>4 DEF WorkInv, SameStatus
  <1>4. ASSUME NEW a \in Attempt, RunnerStopsJob(a) PROVE WorkInv'
    <2>1. lockedBy = a /\ runner[a] = "entered" /\ SameStatus
      BY <1>4, StopsJobEffect DEF Holds
    <2>2. CASE Leave(a) /\ SameNodes
      <3>1. \A S : ~Held(S)'
        BY <2>2, HeldByNone DEF Leave
      <3>. QED BY <2>1, <2>2, <3>1, RunningSame DEF WorkInv, SameStatus, Leave
    <2>3. ASSUME NEW n \in Running, NEW b \in BrokenNodes,
                 run'.cps[n].st \in {"passed", "failed", "cancelled"}, OnlyNode(n),
                 busy' = b, Goto(a, "ending"), UNCHANGED lockedBy
          PROVE  WorkInv'
      <3>1. n \in Node /\ Running = {n} /\ Running' = {}
        <4>1. n \in Node /\ Running' = Running \ {n}
          BY <2>3, RunningLess DEF Running
        <4>. QED BY <4>1 DEF WorkInv
      <3>2. \A S : Held(S)' <=> "ending" \in S
        BY <2>1, <2>3, HeldAt
      <3>3. b \in Node /\ run.cps[b].st \in Broken /\ b # n
        BY DEF BrokenNodes, Broken, Running
      <3>4. run'.cps[busy'].st \in Broken
        BY <2>3, <3>3 DEF OnlyNode
      <3>. QED BY <2>1, <2>3, <3>1, <3>2, <3>4 DEF WorkInv, SameStatus
    <2>. QED BY <1>4, <2>2, <2>3, StopsJobEffect
  <1>5. ASSUME NEW a \in Attempt, RunnerGivesUp(a) PROVE WorkInv'
    <2>1. Running' = {} /\ lockedBy' = 0
      BY <1>5, GivesUpEffect, RunningSame DEF Leave
    <2>. QED BY <2>1, HeldByNone DEF WorkInv
  <1>6. ASSUME NEW a \in Attempt, RunnerRuns(a) PROVE WorkInv'
    <2>1. /\ lockedBy = a /\ run'.status = "running" /\ Running' = Running /\ lockedBy' = a
          /\ run'.status \notin TerminalRun \cup {"waiting_approval"}
      BY <1>6, RunsEffect, RunningSame DEF Holds, TerminalRun
    <2>2. CASE Running = {} /\ Goto(a, "pick")
      <3>1. \A S : Held(S)' <=> "pick" \in S
        BY <2>1, <2>2, HeldAt
      <3>. QED BY <2>1, <2>2, <3>1 DEF WorkInv
    <2>3. CASE busy' \in Running /\ Goto(a, "exec")
      <3>1. \A S : Held(S)' <=> "exec" \in S
        BY <2>1, <2>3, HeldAt
      <3>2. Running' = {busy'}
        BY <2>1, <2>3 DEF WorkInv
      <3>. QED BY <2>1, <3>1, <3>2 DEF WorkInv
    <2>. QED BY <1>6, <2>2, <2>3, RunsEffect
  <1>7. ASSUME NEW a \in Attempt, RunnerChecks(a) PROVE WorkInv'
    <2>1. lockedBy = a /\ runner[a] = "pick" /\ lockedBy' = a /\ SameStatus
      BY <1>7, ChecksEffect DEF Holds
    <2>2. Running = {} /\ run.status = "running"
      BY <2>1, HolderIsAt
    <2>3. Running' = {}
      BY <1>7, <2>2, ChecksEffect, RunningSame, RunningDecided
    <2>4. \E where \in {"next", "end"} : \A S : Held(S)' <=> where \in S
      BY <1>7, <2>1, ChecksEffect, HeldAt
    <2>. QED BY <2>1, <2>2, <2>3, <2>4 DEF WorkInv, SameStatus, TerminalRun
  <1>8. ASSUME NEW a \in Attempt, RunnerFindsNone(a) PROVE WorkInv'
    <2>1. lockedBy = a /\ runner[a] = "next" /\ lockedBy' = a /\ Goto(a, "end")
          /\ UNCHANGED run
      BY <1>8 DEF Holds, RunnerFindsNone
    <2>2. Running = {} /\ run.status = "running"
      BY <2>1, HolderIsAt
    <2>3. \A S : Held(S)' <=> "end" \in S
      BY <2>1, HeldAt
    <2>. QED BY <2>1, <2>2, <2>3 DEF WorkInv, Running, TerminalRun
  <1>9. ASSUME NEW a \in Attempt, RunnerSkips(a) PROVE WorkInv'
    <2>1. lockedBy = a /\ runner[a] = "next" /\ lockedBy' = a /\ SameStatus /\ Goto(a, "pick")
      BY <1>9, SkipsEffect DEF Holds
    <2>2. Running = {} /\ run.status = "running"
      BY <2>1, HolderIsAt
    <2>3. Running' = {}
      BY <1>9, <2>2, SkipsEffect, RunningLess
    <2>4. \A S : Held(S)' <=> "pick" \in S
      BY <2>1, HeldAt
    <2>. QED BY <2>1, <2>2, <2>3, <2>4 DEF WorkInv, SameStatus, TerminalRun
  <1>10. ASSUME NEW a \in Attempt, RunnerDispatches(a) PROVE WorkInv'
    <2>1. lockedBy = a /\ runner[a] = "next" /\ lockedBy' = a /\ SameStatus
      BY <1>10, DispatchesEffect DEF Holds
    <2>2. Running = {} /\ run.status = "running"
      BY <2>1, HolderIsAt
    <2>3. CASE Goto(a, "park") /\ SameNodes
      <3>1. Running' = {} /\ \A S : Held(S)' <=> "park" \in S
        BY <2>1, <2>2, <2>3, HeldAt, RunningSame
      <3>. QED BY <2>1, <2>2, <3>1 DEF WorkInv, SameStatus, TerminalRun
    <2>4. CASE Goto(a, "exec") /\ run'.cps[busy'].st = "running" /\ OnlyNode(busy')
      <3>1. Running' = {busy'}
        BY <1>10, <2>2, <2>4, RunningMore, DispatchesEffect
      <3>2. \A S : Held(S)' <=> "exec" \in S
        BY <2>1, <2>4, HeldAt
      <3>. QED BY <2>1, <2>2, <3>1, <3>2 DEF WorkInv, SameStatus, TerminalRun
    <2>. QED BY <1>10, <2>3, <2>4, DispatchesEffect
  <1>11. ASSUME NEW a \in Attempt, RunnerParks(a) PROVE WorkInv'
    <2>1. /\ lockedBy = a /\ runner[a] = "park" /\ lockedBy' = a /\ SameStatus
          /\ Goto(a, "pick") /\ busy \in Node /\ OnlyNode(busy) /\ run'.cps[busy].st # "running"
      BY <1>11, ParksEffect DEF Holds, TypeOK
    <2>2. Running = {} /\ run.status = "running"
      BY <2>1, HolderIsAt
    <2>3. Running' = {}
      BY <2>1, <2>2, RunningLess
    <2>4. \A S : Held(S)' <=> "pick" \in S
      BY <2>1, HeldAt
    <2>. QED BY <2>1, <2>2, <2>3, <2>4 DEF WorkInv, SameStatus, TerminalRun
  <1>12. ASSUME NEW a \in Attempt, RunnerSettlesNode(a) PROVE WorkInv'
    <2>1. /\ lockedBy = a /\ runner[a] = "exec" /\ lockedBy' = a /\ SameStatus
          /\ Goto(a, "after") /\ busy \in Node /\ OnlyNode(busy) /\ run'.cps[busy].st # "running"
      BY <1>12, SettlesEffect DEF Holds, TypeOK
    <2>2. Running = {busy} /\ run.status = "running"
      BY <2>1, HolderIsAt
    <2>3. Running' = {}
      BY <2>1, <2>2, RunningLess
    <2>4. \A S : Held(S)' <=> "after" \in S
      BY <2>1, HeldAt
    <2>. QED BY <2>1, <2>2, <2>3, <2>4 DEF WorkInv, SameStatus, TerminalRun
  <1>13. ASSUME NEW a \in Attempt, RunnerCannotStop(a) PROVE WorkInv'
    <2>1. lockedBy' = 0 /\ UNCHANGED run
      BY <1>13 DEF RunnerCannotStop, Leave
    <2>. QED BY <2>1, HeldByNone DEF WorkInv, Running
  <1>14. ASSUME NEW a \in Attempt, RunnerGoesOn(a) PROVE WorkInv'
    <2>1. lockedBy = a /\ runner[a] = "after" /\ lockedBy' = a /\ SameStatus
      BY <1>14, GoesOnEffect DEF Holds
    <2>2. Running = {} /\ run.status = "running"
      BY <2>1, HolderIsAt
    <2>3. Running' = {}
      BY <1>14, <2>2, GoesOnEffect, RunningSame, RunningLess DEF TypeOK
    <2>4. \E where \in {"retry", "end", "pick"} : \A S : Held(S)' <=> where \in S
      BY <1>14, <2>1, GoesOnEffect, HeldAt
    <2>. QED BY <2>1, <2>2, <2>3, <2>4 DEF WorkInv, SameStatus, TerminalRun
  <1>15. ASSUME NEW a \in Attempt, RunnerRetries(a) PROVE WorkInv'
    <2>1. lockedBy = a /\ runner[a] = "retry" /\ lockedBy' = a /\ SameStatus
      BY <1>15, RetriesEffect DEF Holds
    <2>2. Running = {} /\ run.status = "running"
      BY <2>1, HolderIsAt
    <2>3. CASE Goto(a, "end") /\ SameNodes
      <3>1. Running' = {} /\ \A S : Held(S)' <=> "end" \in S
        BY <2>1, <2>2, <2>3, HeldAt, RunningSame
      <3>. QED BY <2>1, <2>2, <3>1 DEF WorkInv, SameStatus, TerminalRun
    <2>4. CASE Goto(a, "exec") /\ run'.cps[busy].st = "running" /\ OnlyNode(busy)
      <3>1. busy' = busy /\ Running' = {busy'}
        BY <1>15, <2>2, <2>4, RunningMore DEF RunnerRetries, TypeOK
      <3>2. \A S : Held(S)' <=> "exec" \in S
        BY <2>1, <2>4, HeldAt
      <3>. QED BY <2>1, <2>2, <3>1, <3>2 DEF WorkInv, SameStatus, TerminalRun
    <2>. QED BY <1>15, <2>3, <2>4, RetriesEffect
  <1>16. ASSUME NEW a \in Attempt, RunnerEnds(a) PROVE WorkInv'
    <2>1. lockedBy = a /\ runner[a] = "end" /\ Running' = Running
      BY <1>16, EndsEffect, RunningSame DEF Holds
    <2>2. Running' = {}
      BY <2>1, HolderIsAt
    <2>3. CASE run'.status \in TerminalRun /\ Leave(a)
      <3>1. lockedBy' = 0 /\ \A S : ~Held(S)'
        BY <2>3, HeldByNone DEF Leave
      <3>. QED BY <2>2, <3>1 DEF WorkInv
    <2>4. CASE run'.status = "waiting_approval" /\ Goto(a, "recheck") /\ UNCHANGED lockedBy
      <3>1. \A S : Held(S)' <=> "recheck" \in S
        BY <2>1, <2>4, HeldAt
      <3>. QED BY <2>2, <2>4, <3>1 DEF WorkInv, TerminalRun
    <2>. QED BY <1>16, <2>3, <2>4, EndsEffect
  <1>17. ASSUME NEW a \in Attempt, RunnerRechecks(a) PROVE WorkInv'
    <2>1. lockedBy = a /\ runner[a] = "recheck"
      BY <1>17, RechecksEffect DEF Holds
    <2>2. Running = {}
      BY <2>1, HolderIsAt
    <2>3. Running' = {}
      BY <1>17, <2>2, RechecksEffect, RunningSame, RunningDecided
    <2>4. CASE Leave(a)
      <3>1. lockedBy' = 0 /\ \A S : ~Held(S)'
        BY <2>4, HeldByNone DEF Leave
      <3>. QED BY <2>3, <3>1 DEF WorkInv
    <2>5. CASE run'.status = "running" /\ Goto(a, "pick") /\ UNCHANGED lockedBy
      <3>1. \A S : Held(S)' <=> "pick" \in S
        BY <2>1, <2>5, HeldAt
      <3>. QED BY <2>3, <2>5, <3>1 DEF WorkInv, TerminalRun
    <2>. QED BY <1>17, <2>4, <2>5, RechecksEffect
  <1>18. ASSUME NEW a \in Attempt, RunnerDies(a) PROVE WorkInv'
    <2>1. UNCHANGED <<run, busy>> /\ Goto(a, "gone")
      BY <1>18 DEF RunnerDies
    <2>2. CASE lockedBy = a
      <3>1. lockedBy' = 0
        BY <1>18, <2>2 DEF RunnerDies
      <3>. QED BY <2>1, <3>1, HeldByNone DEF WorkInv, Running
    <2>3. CASE lockedBy # a
      <3>1. UNCHANGED lockedBy /\ runner[a] \notin Locking
        BY <1>18, <2>3 DEF RunnerDies, LockInv
      <3>. QED BY <2>1, <3>1, HeldByOther DEF WorkInv, Running
    <2>. QED BY <2>2, <2>3
  <1>19. ASSUME NEW s \in Session, ReconcileMarksUnknown(s) PROVE WorkInv'
    <2>1. lockedBy' = 0 /\ Running' = Running
          /\ run'.status \notin TerminalRun \cup {"waiting_approval"}
      BY <1>19, UnknownEffect, RunningSame DEF ReconcileMarksUnknown, StillOpen, TerminalRun,
         runnerVars
    <2>. QED BY <2>1, HeldByNone DEF WorkInv
  <1>20. ASSUME NEW s \in Session, ReconcileParks(s) PROVE WorkInv'
    <2>1. lockedBy' = 0
      BY <1>20 DEF ReconcileParks, runnerVars
    <2>2. PICK n \in Running : def.type[n] \notin {"job", "agent"}
      BY <1>20, ReconcileParksEffect
    <2>3. Running = {n}
      BY DEF WorkInv
    <2>4. Running' = {}
      BY <1>20, <2>2, <2>3, ReconcileParksEffect DEF Running
    <2>. QED BY <2>1, <2>4, HeldByNone DEF WorkInv
  <1>21. ASSUME NEW s \in Session, ReconcileMarksDead(s) PROVE WorkInv'
    <2>1. lockedBy' = 0 /\ Running' = Running
          /\ run'.status \notin TerminalRun \cup {"waiting_approval"}
      BY <1>21, DeadEffect, RunningSame DEF ReconcileMarksDead, StillOpen, TerminalRun,
         runnerVars
    <2>. QED BY <2>1, HeldByNone DEF WorkInv
  <1>22. ASSUME NEW s \in Session, LaunchIntends(s) PROVE WorkInv'
    <2>1. lockedBy' = 0 /\ Running' = Running
          /\ run'.status \notin TerminalRun \cup {"waiting_approval"}
      BY <1>22, IntendsEffect, RunningSame DEF LaunchIntends, StillOpen, TerminalRun,
         runnerVars
    <2>. QED BY <2>1, HeldByNone DEF WorkInv
  <1>23. ASSUME NEW s \in Session, LaunchStarts(s) PROVE WorkInv'
    <2>1. UNCHANGED <<run, busy, lockedBy>>
      BY <1>23 DEF LaunchStarts
    <2>2. CASE UNCHANGED runner
      BY <2>1, <2>2 DEF WorkInv, Running, Held
    <2>3. ASSUME NEW a \in Attempt, job[a] = "none", Goto(a, "boot") PROVE WorkInv'
      <3>1. runner[a] \notin Locking
        BY <2>3 DEF ProcessInv, Locking
      <3>. QED BY <2>1, <2>3, <3>1, HeldByOther DEF WorkInv, Running
    <2>. QED BY <1>23, <2>2, <2>3, StartsEffect
  <1>24. ASSUME NEW s \in Session, CancelSettles(s) PROVE WorkInv'
    <2>1. lockedBy' = 0
      BY <1>24 DEF CancelSettles, runnerVars
    <2>2. CASE UNCHANGED run
      BY <2>1, <2>2, HeldByNone DEF WorkInv, Running
    <2>3. CASE Running' = {}
      BY <2>1, <2>3, HeldByNone DEF WorkInv
    <2>4. CASE \A n \in Node : IF n \in Running
                 THEN run'.cps[n].st \in {"passed", "failed", "cancelled"}
                 ELSE run'.cps[n] = run.cps[n]
      <3>1. Running' = {}
        BY <2>4 DEF Running
      <3>. QED BY <2>3, <3>1
    <2>. QED BY <1>24, <2>2, <2>4, CancelEffect
  <1>25. ASSUME NEW s \in Session, TimesOutParked(s) PROVE WorkInv'
    <2>1. lockedBy' = 0 /\ Running' = Running
      BY <1>25, ExpiryEffect, RunningSame DEF TimesOutParked, runnerVars
    <2>2. run'.status \in TerminalRun \cup {"waiting_approval"} =>
            run.status \in TerminalRun \cup {"waiting_approval"}
      BY <1>25, ExpiryEffect DEF TerminalRun
    <2>. QED BY <2>1, <2>2, HeldByNone DEF WorkInv
  <1>26. ASSUME NEW a \in Attempt, RunnerAborts(a) \/ JobEnds(a) \/ JobLost(a) PROVE
        WorkInv'
    BY <1>26, <1>1 DEF RunnerAborts, JobEnds, JobLost
  <1>27. ASSUME DeadlinePasses PROVE WorkInv'
    BY <1>27, <1>1 DEF DeadlinePasses, runnerVars
  <1>28. ASSUME NEW s \in Session, ReconcileReads(s) \/ ReconcileSees(s) \/
        ReconcileMissed(s) \/ UserLaunches(s) \/ LaunchReads(s) \/ LaunchMissed(s) \/
        StartFails(s) \/ Decides(s) \/ DeciderLooks(s) \/ CancelMarks(s) \/
        ExpiryReads(s) \/ SessionDies(s) PROVE WorkInv'
    BY <1>28, <1>1 DEF ReconcileReads, ReconcileSees, ReconcileMissed, UserLaunches,
       LaunchReads, LaunchMissed, StartFails, Decides, DeciderLooks, CancelMarks,
       ExpiryReads, SessionDies, runnerVars, OnlySession, OnlyFault
  <1>. QED BY <1>1, <1>2, <1>3, <1>4, <1>5, <1>6, <1>7, <1>8, <1>9, <1>10, <1>11, <1>12,
       <1>13, <1>14, <1>15, <1>16, <1>17, <1>18, <1>19, <1>20, <1>21, <1>22, <1>23,
       <1>24, <1>25, <1>26, <1>27, <1>28 DEF Next, RunnerStep, SessionStep,
       ReconcileStep, LaunchStep, vars, runnerVars

-----------------------------------------------------------------------------
(* Gates, and tools that were cut off.                                     *)

\* A gate is decided by its decision file, which nothing touches afterwards.
LEMMA GateKept ==
  ASSUME GateInv, UNCHANGED def,
         \A n \in Node : def.type[n] = "approval" =>
           \/ run'.cps[n].st = run.cps[n].st /\ dec'[n] = dec[n]
           \/ run'.cps[n].st \notin {"running", "passed", "failed"}
           \/ dec[n] = "asked" /\ run'.cps[n].st = run.cps[n].st
           \/ /\ n \in Unapplied(run.cps, dec) /\ run'.cps[n].st = DecidedStatus(n)
              /\ dec'[n] = dec[n]
  PROVE  GateInv'
  BY DEF GateInv, Unapplied, DecidedStatus

\* A tool that was cut off stays as it is, fails, or waits for a new decision;
\* a decision that is applied is a denial.
LEMMA CutOffKept ==
  ASSUME CutOffInv, UNCHANGED <<def, interrupted>>,
         \A n \in Node : interrupted[n] =>
           /\ \/ run'.cps[n].st = run.cps[n].st /\ dec'[n] = dec[n]
              \/ run'.cps[n].st = "waiting_approval" /\ dec'[n] = "asked"
              \/ /\ n \in Unapplied(run.cps, dec) /\ run'.cps[n].st = DecidedStatus(n)
                 /\ dec'[n] = dec[n]
           /\ Held(Working)' => busy' # n
           /\ run'.cps[n].st = "running" => lockedBy' = 0
  PROVE  CutOffInv'
  BY DEF CutOffInv, Unapplied, DecidedStatus

\* Under the lock a tool that was cut off waits or has failed.
LEMMA CutOffRests ==
  ASSUME TypeOK, CutOffInv, NEW a \in Attempt, lockedBy = a, NEW n \in Node, interrupted[n]
  PROVE  /\ run.cps[n].st \in {"waiting_approval", "failed"} /\ n \notin Running
         /\ runner[a] \in Working => busy # n
  BY DEF CutOffInv, Running, Held, Attempt

\* A gate passes and fails by its decision only.
LEMMA GateStep ==
  ASSUME TypeOK, LockInv, WorkInv, GateInv, ChoiceInv, [Next]_vars
  PROVE  GateInv'
  <1>1. CASE UNCHANGED <<def, run, dec>>
    BY <1>1 DEF GateInv
  <1>2. ASSUME NEW a \in Attempt, RunnerEnters(a) PROVE GateInv'
    BY <1>2, GateKept, EntersEffect DEF RunnerEnters, SameNodes, OnlyNode, GateInv,
       Running, TypeOK, runnerVars
  <1>3. ASSUME NEW a \in Attempt, RunnerStopsJob(a) PROVE GateInv'
    <2>1. UNCHANGED <<def, dec>>
      BY <1>3 DEF RunnerStopsJob
    <2>2. CASE SameNodes
      BY <2>1, <2>2, GateKept DEF SameNodes
    <2>3. ASSUME NEW n \in Running, OnlyNode(n) PROVE GateInv'
      <3>1. def.type[n] # "approval"
        BY DEF Running, GateInv
      <3>. QED BY <2>1, <2>3, <3>1, GateKept DEF OnlyNode
    <2>. QED BY <1>3, <2>2, <2>3, StopsJobEffect
  <1>4. ASSUME NEW a \in Attempt, RunnerGivesUp(a) PROVE GateInv'
    BY <1>4, GateKept, GivesUpEffect DEF RunnerGivesUp, SameNodes, OnlyNode, GateInv,
       Running, TypeOK, runnerVars
  <1>5. ASSUME NEW a \in Attempt, RunnerRuns(a) PROVE GateInv'
    BY <1>5, GateKept, RunsEffect DEF RunnerRuns, SameNodes, OnlyNode, GateInv, Running,
       TypeOK, runnerVars
  <1>6. ASSUME NEW a \in Attempt, RunnerChecks(a) PROVE GateInv'
    BY <1>6, GateKept, ChecksEffect DEF RunnerChecks, SameNodes, OnlyNode, GateInv,
       Running, TypeOK, runnerVars
  <1>7. ASSUME NEW a \in Attempt, RunnerSkips(a) PROVE GateInv'
    BY <1>7, GateKept, SkipsEffect DEF RunnerSkips, SameNodes, OnlyNode, GateInv, Running,
       TypeOK, runnerVars
  <1>8. ASSUME NEW a \in Attempt, RunnerDispatches(a) PROVE GateInv'
    BY <1>8, GateKept, DispatchesEffect DEF RunnerDispatches, SameNodes, OnlyNode, GateInv,
       Running, TypeOK, runnerVars
  <1>9. ASSUME NEW a \in Attempt, RunnerParks(a) PROVE GateInv'
    BY <1>9, GateKept, ParksEffect DEF RunnerParks, SameNodes, OnlyNode, GateInv, Running,
       TypeOK, runnerVars
  <1>10. ASSUME NEW a \in Attempt, RunnerSettlesNode(a) PROVE GateInv'
    <2>1. UNCHANGED <<def, dec>> /\ busy \in Node /\ lockedBy = a /\ runner[a] = "exec"
      BY <1>10 DEF RunnerSettlesNode, Holds, TypeOK
    <2>2. def.type[busy] # "approval"
      BY <2>1, HolderIsAt DEF ChoiceInv
    <2>3. SameNodes \/ OnlyNode(busy)
      BY <1>10, SettlesEffect
    <2>. QED BY <2>1, <2>2, <2>3, GateKept DEF SameNodes, OnlyNode
  <1>11. ASSUME NEW a \in Attempt, RunnerGoesOn(a) PROVE GateInv'
    <2>1. UNCHANGED <<def, dec>> /\ busy \in Node /\ lockedBy = a /\ runner[a] = "after"
      BY <1>11 DEF RunnerGoesOn, Holds, TypeOK
    <2>2. def.type[busy] # "approval"
      BY <2>1, HolderIsAt DEF ChoiceInv
    <2>3. SameNodes \/ OnlyNode(busy)
      BY <1>11, GoesOnEffect
    <2>. QED BY <2>1, <2>2, <2>3, GateKept DEF SameNodes, OnlyNode
  <1>12. ASSUME NEW a \in Attempt, RunnerRetries(a) PROVE GateInv'
    <2>1. UNCHANGED <<def, dec>> /\ busy \in Node /\ lockedBy = a /\ runner[a] = "retry"
      BY <1>12 DEF RunnerRetries, Holds, TypeOK
    <2>2. def.type[busy] # "approval"
      BY <2>1, HolderIsAt DEF ChoiceInv
    <2>3. SameNodes \/ OnlyNode(busy)
      BY <1>12, RetriesEffect
    <2>. QED BY <2>1, <2>2, <2>3, GateKept DEF SameNodes, OnlyNode
  <1>13. ASSUME NEW a \in Attempt, RunnerEnds(a) PROVE GateInv'
    BY <1>13, GateKept, EndsEffect DEF RunnerEnds, SameNodes, OnlyNode, GateInv, Running,
       TypeOK, runnerVars
  <1>14. ASSUME NEW a \in Attempt, RunnerRechecks(a) PROVE GateInv'
    BY <1>14, GateKept, RechecksEffect DEF RunnerRechecks, SameNodes, OnlyNode, GateInv,
       Running, TypeOK, runnerVars
  <1>15. ASSUME NEW s \in Session, ReconcileMarksUnknown(s) PROVE GateInv'
    BY <1>15, GateKept, UnknownEffect DEF ReconcileMarksUnknown, SameNodes, OnlyNode,
       GateInv, Running, TypeOK, runnerVars
  <1>16. ASSUME NEW s \in Session, ReconcileParks(s) PROVE GateInv'
    BY <1>16, GateKept, ReconcileParksEffect DEF ReconcileParks, SameNodes, OnlyNode,
       GateInv, Running, TypeOK, runnerVars
  <1>17. ASSUME NEW s \in Session, ReconcileMarksDead(s) PROVE GateInv'
    BY <1>17, GateKept, DeadEffect DEF ReconcileMarksDead, SameNodes, OnlyNode, GateInv,
       Running, TypeOK, runnerVars
  <1>18. ASSUME NEW s \in Session, LaunchIntends(s) PROVE GateInv'
    BY <1>18, GateKept, IntendsEffect DEF LaunchIntends, SameNodes, OnlyNode, GateInv,
       Running, TypeOK, runnerVars
  <1>19. ASSUME NEW s \in Session, Decides(s) PROVE GateInv'
    BY <1>19 DEF Decides, To, Idle, Undecided, GateInv
  <1>20. ASSUME NEW s \in Session, CancelSettles(s) PROVE GateInv'
    BY <1>20, GateKept, CancelEffect DEF CancelSettles, SameNodes, OnlyNode, GateInv,
       Running, TypeOK, runnerVars
  <1>21. ASSUME NEW s \in Session, TimesOutParked(s) PROVE GateInv'
    BY <1>21, GateKept, ExpiryEffect DEF TimesOutParked, SameNodes, OnlyNode, GateInv,
       Running, TypeOK, runnerVars
  <1>22. ASSUME NEW a \in Attempt, RunnerTurnsAway(a) \/ RunnerAborts(a) \/
        RunnerFindsNone(a) \/ RunnerCannotStop(a) \/ RunnerDies(a) \/ JobEnds(a) \/
        JobLost(a) PROVE GateInv'
    BY <1>22, <1>1 DEF RunnerTurnsAway, RunnerAborts, RunnerFindsNone, RunnerCannotStop,
       RunnerDies, JobEnds, JobLost
  <1>23. ASSUME DeadlinePasses PROVE GateInv'
    BY <1>23, <1>1 DEF DeadlinePasses, runnerVars
  <1>24. ASSUME NEW s \in Session, ReconcileReads(s) \/ ReconcileSees(s) \/
        ReconcileMissed(s) \/ UserLaunches(s) \/ LaunchReads(s) \/ LaunchMissed(s) \/
        StartFails(s) \/ LaunchStarts(s) \/ DeciderLooks(s) \/ CancelMarks(s) \/
        ExpiryReads(s) \/ SessionDies(s) PROVE GateInv'
    BY <1>24, <1>1 DEF ReconcileReads, ReconcileSees, ReconcileMissed, UserLaunches,
       LaunchReads, LaunchMissed, StartFails, LaunchStarts, DeciderLooks, CancelMarks,
       ExpiryReads, SessionDies, runnerVars, OnlySession, OnlyFault
  <1>. QED BY <1>1, <1>2, <1>3, <1>4, <1>5, <1>6, <1>7, <1>8, <1>9, <1>10, <1>11, <1>12,
       <1>13, <1>14, <1>15, <1>16, <1>17, <1>18, <1>19, <1>20, <1>21, <1>22, <1>23,
       <1>24 DEF Next, RunnerStep, SessionStep, ReconcileStep, LaunchStep, vars,
       runnerVars

\* Gates are parked, never executed.
LEMMA ChoiceStep ==
  ASSUME TypeOK, AttemptInv, ProcessInv, SessionInv, LockInv, WorkInv, GateInv,
         ChoiceInv, [Next]_vars
  PROVE  ChoiceInv'
  <1>1. CASE UNCHANGED <<def, lockedBy, runner, busy>>
    BY <1>1 DEF ChoiceInv, Held
  <1>2. ASSUME NEW a \in Attempt, RunnerTurnsAway(a) PROVE ChoiceInv'
    BY <1>2, HeldByOther DEF RunnerTurnsAway, Locking, ChoiceInv
  <1>3. ASSUME NEW a \in Attempt, RunnerEnters(a) PROVE ChoiceInv'
    <2>1. lockedBy' = a /\ Goto(a, "entered")
      BY <1>3 DEF RunnerEnters, Holds
    <2>2. \A S : Held(S)' <=> "entered" \in S
      BY <2>1, HeldAt
    <2>. QED BY <2>2 DEF ChoiceInv
  <1>4. ASSUME NEW a \in Attempt, RunnerStopsJob(a) PROVE ChoiceInv'
    <2>1. lockedBy' = 0 \/ (lockedBy' = a /\ (Goto(a, "ending")))
      BY <1>4, StopsJobEffect DEF Holds, Leave
    <2>2. ~Held({"exec", "after", "retry"})'
      BY <2>1, HeldAt, HeldByNone
    <2>. QED BY <2>2 DEF ChoiceInv
  <1>5. ASSUME NEW a \in Attempt, RunnerGivesUp(a) PROVE ChoiceInv'
    BY <1>5, HeldByNone, GivesUpEffect DEF RunnerGivesUp, Leave, ChoiceInv
  <1>6. ASSUME NEW a \in Attempt, RunnerRuns(a) PROVE ChoiceInv'
    <2>1. lockedBy' = a /\ UNCHANGED def
      BY <1>6 DEF RunnerRuns, Holds
    <2>2. CASE Goto(a, "pick")
      BY <2>1, <2>2, HeldAt DEF ChoiceInv
    <2>3. CASE busy' \in Running
      BY <2>1, <2>3 DEF ChoiceInv, GateInv, Running
    <2>. QED BY <1>6, <2>2, <2>3, RunsEffect
  <1>7. ASSUME NEW a \in Attempt, RunnerChecks(a) PROVE ChoiceInv'
    <2>1. lockedBy' = 0 \/ (lockedBy' = a /\ (Goto(a, "next") \/ Goto(a, "end")))
      BY <1>7, ChecksEffect DEF Holds, Leave
    <2>2. ~Held({"exec", "after", "retry"})'
      BY <2>1, HeldAt, HeldByNone
    <2>. QED BY <2>2 DEF ChoiceInv
  <1>8. ASSUME NEW a \in Attempt, RunnerFindsNone(a) PROVE ChoiceInv'
    <2>1. lockedBy' = a /\ Goto(a, "end")
      BY <1>8 DEF RunnerFindsNone, Holds
    <2>2. \A S : Held(S)' <=> "end" \in S
      BY <2>1, HeldAt
    <2>. QED BY <2>2 DEF ChoiceInv
  <1>9. ASSUME NEW a \in Attempt, RunnerSkips(a) PROVE ChoiceInv'
    <2>1. lockedBy' = a /\ Goto(a, "pick")
      BY <1>9 DEF RunnerSkips, Holds
    <2>2. \A S : Held(S)' <=> "pick" \in S
      BY <2>1, HeldAt
    <2>. QED BY <2>2 DEF ChoiceInv
  <1>10. ASSUME NEW a \in Attempt, RunnerDispatches(a) PROVE ChoiceInv'
    <2>1. lockedBy' = a /\ UNCHANGED def
      BY <1>10 DEF RunnerDispatches, Holds
    <2>2. CASE Goto(a, "park")
      BY <2>1, <2>2, HeldAt DEF ChoiceInv
    <2>3. CASE def.type[busy'] # "approval"
      BY <2>1, <2>3 DEF ChoiceInv
    <2>. QED BY <1>10, <2>2, <2>3, DispatchesEffect
  <1>11. ASSUME NEW a \in Attempt, RunnerParks(a) PROVE ChoiceInv'
    <2>1. lockedBy' = a /\ Goto(a, "pick")
      BY <1>11 DEF RunnerParks, Holds
    <2>2. \A S : Held(S)' <=> "pick" \in S
      BY <2>1, HeldAt
    <2>. QED BY <2>2 DEF ChoiceInv
  <1>12. ASSUME NEW a \in Attempt, RunnerSettlesNode(a) PROVE ChoiceInv'
    <2>1. UNCHANGED <<def, busy>> /\ lockedBy = a /\ runner[a] = "exec"
      BY <1>12 DEF RunnerSettlesNode, Holds
    <2>. QED BY <2>1, HolderIsAt DEF ChoiceInv
  <1>13. ASSUME NEW a \in Attempt, RunnerCannotStop(a) PROVE ChoiceInv'
    BY <1>13, HeldByNone DEF RunnerCannotStop, Leave, ChoiceInv
  <1>14. ASSUME NEW a \in Attempt, RunnerGoesOn(a) PROVE ChoiceInv'
    <2>1. UNCHANGED <<def, busy>> /\ lockedBy = a /\ runner[a] = "after"
      BY <1>14 DEF RunnerGoesOn, Holds
    <2>. QED BY <2>1, HolderIsAt DEF ChoiceInv
  <1>15. ASSUME NEW a \in Attempt, RunnerRetries(a) PROVE ChoiceInv'
    <2>1. UNCHANGED <<def, busy>> /\ lockedBy = a /\ runner[a] = "retry"
      BY <1>15 DEF RunnerRetries, Holds
    <2>. QED BY <2>1, HolderIsAt DEF ChoiceInv
  <1>16. ASSUME NEW a \in Attempt, RunnerEnds(a) PROVE ChoiceInv'
    <2>1. lockedBy' = 0 \/ (lockedBy' = a /\ (Goto(a, "recheck")))
      BY <1>16, EndsEffect DEF Holds, Leave
    <2>2. ~Held({"exec", "after", "retry"})'
      BY <2>1, HeldAt, HeldByNone
    <2>. QED BY <2>2 DEF ChoiceInv
  <1>17. ASSUME NEW a \in Attempt, RunnerRechecks(a) PROVE ChoiceInv'
    <2>1. lockedBy' = 0 \/ (lockedBy' = a /\ (Goto(a, "pick")))
      BY <1>17, RechecksEffect DEF Holds, Leave
    <2>2. ~Held({"exec", "after", "retry"})'
      BY <2>1, HeldAt, HeldByNone
    <2>. QED BY <2>2 DEF ChoiceInv
  <1>18. ASSUME NEW a \in Attempt, RunnerDies(a) PROVE ChoiceInv'
    <2>1. UNCHANGED <<def, busy>> /\ Goto(a, "gone")
      BY <1>18 DEF RunnerDies
    <2>2. CASE lockedBy = a
      BY <1>18, <2>2, HeldByNone DEF RunnerDies, ChoiceInv
    <2>3. CASE lockedBy # a
      <3>1. UNCHANGED lockedBy /\ runner[a] \notin Locking
        BY <1>18, <2>3 DEF RunnerDies, LockInv
      <3>. QED BY <2>1, <3>1, HeldByOther DEF ChoiceInv
    <2>. QED BY <2>2, <2>3
  <1>19. ASSUME NEW s \in Session, LaunchStarts(s) PROVE ChoiceInv'
    <2>1. UNCHANGED <<def, busy, lockedBy>>
      BY <1>19 DEF LaunchStarts
    <2>2. CASE UNCHANGED runner
      BY <2>1, <2>2 DEF ChoiceInv, Held
    <2>3. ASSUME NEW a \in Attempt, job[a] = "none", Goto(a, "boot") PROVE ChoiceInv'
      <3>1. runner[a] \notin Locking
        BY <2>3 DEF ProcessInv, Locking
      <3>. QED BY <2>1, <2>3, <3>1, HeldByOther DEF ChoiceInv
    <2>. QED BY <1>19, <2>2, <2>3, StartsEffect
  <1>20. ASSUME NEW a \in Attempt, RunnerAborts(a) \/ JobEnds(a) \/ JobLost(a) PROVE
        ChoiceInv'
    BY <1>20, <1>1 DEF RunnerAborts, JobEnds, JobLost
  <1>21. ASSUME DeadlinePasses PROVE ChoiceInv'
    BY <1>21, <1>1 DEF DeadlinePasses, runnerVars
  <1>22. ASSUME NEW s \in Session, ReconcileReads(s) \/ ReconcileSees(s) \/
        ReconcileMissed(s) \/ ReconcileMarksUnknown(s) \/ ReconcileParks(s) \/
        ReconcileMarksDead(s) \/ UserLaunches(s) \/ LaunchReads(s) \/ LaunchIntends(s)
        \/ LaunchMissed(s) \/ StartFails(s) \/ Decides(s) \/ DeciderLooks(s) \/
        CancelMarks(s) \/ CancelSettles(s) \/ ExpiryReads(s) \/ TimesOutParked(s) \/
        SessionDies(s) PROVE ChoiceInv'
    BY <1>22, <1>1 DEF ReconcileReads, ReconcileSees, ReconcileMissed,
       ReconcileMarksUnknown, ReconcileParks, ReconcileMarksDead, UserLaunches,
       LaunchReads, LaunchIntends, LaunchMissed, StartFails, Decides, DeciderLooks,
       CancelMarks, CancelSettles, ExpiryReads, TimesOutParked, SessionDies, runnerVars,
       OnlySession, OnlyFault
  <1>. QED BY <1>1, <1>2, <1>3, <1>4, <1>5, <1>6, <1>7, <1>8, <1>9, <1>10, <1>11, <1>12,
       <1>13, <1>14, <1>15, <1>16, <1>17, <1>18, <1>19, <1>20, <1>21, <1>22 DEF Next,
       RunnerStep, SessionStep, ReconcileStep, LaunchStep, vars, runnerVars

\* A tool that was cut off waits for its own decision.
LEMMA CutOffStep ==
  ASSUME TypeOK, AttemptInv, ProcessInv, SessionInv, LockInv, WorkInv, GateInv,
         CutOffInv, [Next]_vars
  PROVE  CutOffInv'
  <1>1. CASE UNCHANGED <<def, run, dec, lockedBy, runner, busy, interrupted>>
    BY <1>1 DEF CutOffInv, Held
  <1>2. ASSUME NEW a \in Attempt, RunnerTurnsAway(a) PROVE CutOffInv'
    BY <1>2, HeldByOther, CutOffKept DEF RunnerTurnsAway, Locking, CutOffInv
  <1>3. ASSUME NEW a \in Attempt, RunnerEnters(a) PROVE CutOffInv'
    <2>1. /\ lockedBy' = a /\ Goto(a, "entered") /\ UNCHANGED <<def, interrupted>>
      BY <1>3 DEF RunnerEnters
    <2>2. ~Held(Working)'
      BY <2>1, HeldAt DEF Working
    <2>3. ASSUME NEW n \in Node, interrupted[n]
          PROVE  /\ \/ run'.cps[n].st = run.cps[n].st /\ dec'[n] = dec[n]
                    \/ run'.cps[n].st = "waiting_approval" /\ dec'[n] = "asked"
                    \/ /\ n \in Unapplied(run.cps, dec) /\ run'.cps[n].st = DecidedStatus(n)
                       /\ dec'[n] = dec[n]
                 /\ run'.cps[n].st # "running"
      <3>1. def.type[n] = "tool"
        BY <2>3 DEF CutOffInv
      <3>. QED BY <1>3, <3>1, EntersEffect DEF DecidedStatus
    <2>. QED BY <2>1, <2>2, <2>3, CutOffKept
  <1>4. ASSUME NEW a \in Attempt, RunnerStopsJob(a) PROVE CutOffInv'
    <2>1. lockedBy = a /\ UNCHANGED <<def, interrupted>>
      BY <1>4 DEF RunnerStopsJob, Holds
    <2>2. ~Held(Working)' /\ UNCHANGED dec
      BY <1>4, <2>1, StopsJobEffect, HeldAt, HeldByNone DEF RunnerStopsJob, Leave, Working
    <2>3. \A n \in Node : interrupted[n] =>
            run'.cps[n].st = run.cps[n].st /\ run'.cps[n].st # "running"
      BY <1>4, <2>1, CutOffRests, StopsJobEffect DEF SameNodes, OnlyNode, Running
    <2>. QED BY <2>1, <2>2, <2>3, CutOffKept
  <1>5. ASSUME NEW a \in Attempt, RunnerGivesUp(a) PROVE CutOffInv'
    <2>1. lockedBy = a /\ UNCHANGED <<def, interrupted>>
      BY <1>5 DEF RunnerGivesUp, Holds
    <2>2. lockedBy' = 0 /\ UNCHANGED dec /\ SameNodes
      BY <1>5, GivesUpEffect DEF RunnerGivesUp, Leave, SameNodes
    <2>. QED BY <2>1, <2>2, HeldByNone, CutOffKept DEF SameNodes
  <1>6. ASSUME NEW a \in Attempt, RunnerRuns(a) PROVE CutOffInv'
    <2>1. lockedBy = a /\ UNCHANGED <<def, interrupted>>
      BY <1>6 DEF RunnerRuns, Holds
    <2>2. UNCHANGED dec /\ SameNodes /\ lockedBy' = a
      BY <1>6, RunsEffect DEF RunnerRuns, Holds
    <2>3. ~Held(Working)' \/ busy' \in Running
      BY <1>6, <2>2, RunsEffect, HeldAt DEF Working
    <2>. QED BY <2>1, <2>2, <2>3, CutOffRests, CutOffKept DEF SameNodes, Running
  <1>7. ASSUME NEW a \in Attempt, RunnerChecks(a) PROVE CutOffInv'
    <2>1. lockedBy = a /\ UNCHANGED <<def, interrupted>>
      BY <1>7 DEF RunnerChecks, Holds
    <2>2. UNCHANGED dec /\ ~Held(Working)'
      BY <1>7, <2>1, ChecksEffect, HeldAt DEF RunnerChecks, Working
    <2>3. \A n \in Node : interrupted[n] =>
            /\ \/ run'.cps[n].st = run.cps[n].st
               \/ n \in Unapplied(run.cps, dec) /\ run'.cps[n].st = DecidedStatus(n)
            /\ run'.cps[n].st # "running"
      BY <1>7, <2>1, CutOffRests, ChecksEffect DEF SameNodes, Running, DecidedStatus
    <2>. QED BY <2>1, <2>2, <2>3, CutOffKept
  <1>8. ASSUME NEW a \in Attempt, RunnerFindsNone(a) PROVE CutOffInv'
    <2>1. lockedBy = a /\ UNCHANGED <<def, interrupted>>
      BY <1>8 DEF RunnerFindsNone, Holds
    <2>2. lockedBy' = a /\ UNCHANGED dec /\ Goto(a, "end")
      BY <1>8 DEF RunnerFindsNone, Holds
    <2>3. ~Held(Working)'
      BY <2>2, HeldAt DEF Working
    <2>4. \A n \in Node : interrupted[n] =>
            run'.cps[n].st = run.cps[n].st /\ run'.cps[n].st # "running"
      BY <1>8, <2>1, CutOffRests DEF RunnerFindsNone, Holds, OnlyNode, Working
    <2>. QED BY <2>1, <2>2, <2>3, <2>4, CutOffKept
  <1>9. ASSUME NEW a \in Attempt, RunnerSkips(a) PROVE CutOffInv'
    <2>1. lockedBy = a /\ UNCHANGED <<def, interrupted>>
      BY <1>9 DEF RunnerSkips, Holds
    <2>2. lockedBy' = a /\ UNCHANGED dec /\ Goto(a, "pick")
      BY <1>9 DEF RunnerSkips, Holds
    <2>3. ~Held(Working)'
      BY <2>2, HeldAt DEF Working
    <2>4. \A n \in Node : interrupted[n] =>
            run'.cps[n].st = run.cps[n].st /\ run'.cps[n].st # "running"
      BY <1>9, <2>1, CutOffRests, SkipsEffect DEF RunnerSkips, Holds, OnlyNode, Working
    <2>. QED BY <2>1, <2>2, <2>3, <2>4, CutOffKept
  <1>10. ASSUME NEW a \in Attempt, RunnerDispatches(a) PROVE CutOffInv'
    <2>1. lockedBy = a /\ UNCHANGED <<def, interrupted>>
      BY <1>10 DEF RunnerDispatches, Holds
    <2>2. run.cps[busy'].st = "pending" /\ busy' \in Node
      BY <1>10, DispatchesEffect
    <2>3. \A n \in Node : interrupted[n] =>
            /\ run.cps[n].st \in {"waiting_approval", "failed"} /\ busy' # n
      BY <2>1, <2>2, CutOffRests
    <2>4. SameNodes \/ OnlyNode(busy')
      BY <1>10, DispatchesEffect
    <2>5. \A n \in Node \ {busy'} : dec'[n] = dec[n]
      BY <1>10, DispatchesEffect DEF TypeOK
    <2>. QED BY <2>1, <2>3, <2>4, <2>5, CutOffKept DEF SameNodes, OnlyNode
  <1>11. ASSUME NEW a \in Attempt, RunnerParks(a) PROVE CutOffInv'
    <2>1. lockedBy = a /\ UNCHANGED <<def, interrupted>>
      BY <1>11 DEF RunnerParks, Holds
    <2>2. lockedBy' = a /\ UNCHANGED dec /\ Goto(a, "pick")
      BY <1>11 DEF RunnerParks, Holds
    <2>3. ~Held(Working)'
      BY <2>2, HeldAt DEF Working
    <2>4. \A n \in Node : interrupted[n] =>
            run'.cps[n].st = run.cps[n].st /\ run'.cps[n].st # "running"
      BY <1>11, <2>1, CutOffRests, ParksEffect DEF RunnerParks, Holds, OnlyNode, Working
    <2>. QED BY <2>1, <2>2, <2>3, <2>4, CutOffKept
  <1>12. ASSUME NEW a \in Attempt, RunnerSettlesNode(a) PROVE CutOffInv'
    <2>1. lockedBy = a /\ UNCHANGED <<def, interrupted>>
      BY <1>12 DEF RunnerSettlesNode, Holds
    <2>2. UNCHANGED <<dec, busy>> /\ runner[a] \in Working
      BY <1>12 DEF RunnerSettlesNode, Holds, Working
    <2>3. \A n \in Node : interrupted[n] =>
            run.cps[n].st \in {"waiting_approval", "failed"} /\ busy # n
      BY <2>1, <2>2, CutOffRests
    <2>4. SameNodes \/ OnlyNode(busy)
      BY <1>12, SettlesEffect
    <2>. QED BY <2>1, <2>2, <2>3, <2>4, CutOffKept DEF SameNodes, OnlyNode
  <1>13. ASSUME NEW a \in Attempt, RunnerCannotStop(a) PROVE CutOffInv'
    <2>1. lockedBy = a /\ UNCHANGED <<def, interrupted>>
      BY <1>13 DEF RunnerCannotStop, Holds
    <2>2. lockedBy' = 0 /\ UNCHANGED dec /\ SameNodes
      BY <1>13 DEF RunnerCannotStop, Leave, SameNodes
    <2>. QED BY <2>1, <2>2, HeldByNone, CutOffKept DEF SameNodes
  <1>14. ASSUME NEW a \in Attempt, RunnerGoesOn(a) PROVE CutOffInv'
    <2>1. lockedBy = a /\ UNCHANGED <<def, interrupted>>
      BY <1>14 DEF RunnerGoesOn, Holds
    <2>2. UNCHANGED <<dec, busy>> /\ runner[a] \in Working
      BY <1>14 DEF RunnerGoesOn, Holds, Working
    <2>3. \A n \in Node : interrupted[n] =>
            run.cps[n].st \in {"waiting_approval", "failed"} /\ busy # n
      BY <2>1, <2>2, CutOffRests
    <2>4. SameNodes \/ OnlyNode(busy)
      BY <1>14, GoesOnEffect
    <2>. QED BY <2>1, <2>2, <2>3, <2>4, CutOffKept DEF SameNodes, OnlyNode
  <1>15. ASSUME NEW a \in Attempt, RunnerRetries(a) PROVE CutOffInv'
    <2>1. lockedBy = a /\ UNCHANGED <<def, interrupted>>
      BY <1>15 DEF RunnerRetries, Holds
    <2>2. UNCHANGED <<dec, busy>> /\ runner[a] \in Working
      BY <1>15 DEF RunnerRetries, Holds, Working
    <2>3. \A n \in Node : interrupted[n] =>
            run.cps[n].st \in {"waiting_approval", "failed"} /\ busy # n
      BY <2>1, <2>2, CutOffRests
    <2>4. SameNodes \/ OnlyNode(busy)
      BY <1>15, RetriesEffect
    <2>. QED BY <2>1, <2>2, <2>3, <2>4, CutOffKept DEF SameNodes, OnlyNode
  <1>16. ASSUME NEW a \in Attempt, RunnerEnds(a) PROVE CutOffInv'
    <2>1. lockedBy = a /\ UNCHANGED <<def, interrupted>>
      BY <1>16 DEF RunnerEnds, Holds
    <2>2. UNCHANGED dec /\ (lockedBy' = 0 \/ (lockedBy' = a /\ Goto(a, "recheck")))
      BY <1>16, <2>1, EndsEffect DEF RunnerEnds, Leave
    <2>3. ~Held(Working)'
      BY <2>2, HeldAt, HeldByNone DEF Working
    <2>4. \A n \in Node : interrupted[n] =>
            /\ \/ run'.cps[n].st = run.cps[n].st
               \/ n \in Unapplied(run.cps, dec) /\ run'.cps[n].st = DecidedStatus(n)
            /\ run'.cps[n].st # "running"
      BY <1>16, <2>1, CutOffRests, EndsEffect DEF SameNodes, Running, DecidedStatus
    <2>. QED BY <2>1, <2>2, <2>3, <2>4, CutOffKept
  <1>17. ASSUME NEW a \in Attempt, RunnerRechecks(a) PROVE CutOffInv'
    <2>1. lockedBy = a /\ UNCHANGED <<def, interrupted>>
      BY <1>17 DEF RunnerRechecks, Holds
    <2>2. UNCHANGED dec /\ (lockedBy' = 0 \/ (lockedBy' = a /\ Goto(a, "pick")))
      BY <1>17, <2>1, RechecksEffect DEF RunnerRechecks, Leave
    <2>3. ~Held(Working)'
      BY <2>2, HeldAt, HeldByNone DEF Working
    <2>4. \A n \in Node : interrupted[n] =>
            /\ \/ run'.cps[n].st = run.cps[n].st
               \/ n \in Unapplied(run.cps, dec) /\ run'.cps[n].st = DecidedStatus(n)
            /\ run'.cps[n].st # "running"
      BY <1>17, <2>1, CutOffRests, RechecksEffect DEF SameNodes, Running, DecidedStatus
    <2>. QED BY <2>1, <2>2, <2>3, <2>4, CutOffKept
  <1>18. ASSUME NEW a \in Attempt, RunnerDies(a) PROVE CutOffInv'
    <2>1. UNCHANGED <<def, run, dec, busy>> /\ Goto(a, "gone")
      BY <1>18 DEF RunnerDies
    <2>2. CASE lockedBy = a
      <3>1. lockedBy' = 0 /\ ~Held(Working)'
        BY <1>18, <2>2, HeldByNone DEF RunnerDies
      <3>2. \A n \in Node : interrupted'[n] =>
              interrupted[n] \/ (def.type[n] = "tool" /\ run.cps[n].st = "running")
        BY <1>18, <2>2 DEF RunnerDies
      <3>. QED BY <2>1, <3>1, <3>2 DEF CutOffInv
    <2>3. CASE lockedBy # a
      <3>1. UNCHANGED <<lockedBy, interrupted>> /\ runner[a] \notin Locking
        BY <1>18, <2>3 DEF RunnerDies, LockInv
      <3>. QED BY <2>1, <3>1, HeldByOther DEF CutOffInv
    <2>. QED BY <2>2, <2>3
  <1>19. ASSUME NEW s \in Session, ReconcileMarksUnknown(s) PROVE CutOffInv'
    <2>1. /\ lockedBy' = 0 /\ SameNodes /\ UNCHANGED <<def, dec, interrupted>>
      BY <1>19, UnknownEffect DEF ReconcileMarksUnknown, StillOpen, runnerVars
    <2>. QED BY <2>1, HeldByNone, CutOffKept DEF SameNodes
  <1>20. ASSUME NEW s \in Session, ReconcileParks(s) PROVE CutOffInv'
    <2>1. lockedBy' = 0 /\ UNCHANGED <<def, interrupted>>
      BY <1>20 DEF ReconcileParks, runnerVars
    <2>2. \A n \in Node :
            \/ run'.cps[n].st = run.cps[n].st /\ dec'[n] = dec[n]
            \/ run'.cps[n].st = "waiting_approval" /\ dec'[n] = "asked"
      BY <1>20, ReconcileParksEffect
    <2>. QED BY <2>1, <2>2, HeldByNone, CutOffKept
  <1>21. ASSUME NEW s \in Session, ReconcileMarksDead(s) PROVE CutOffInv'
    <2>1. /\ lockedBy' = 0 /\ SameNodes /\ UNCHANGED <<def, dec, interrupted>>
      BY <1>21, DeadEffect DEF ReconcileMarksDead, StillOpen, runnerVars
    <2>. QED BY <2>1, HeldByNone, CutOffKept DEF SameNodes
  <1>22. ASSUME NEW s \in Session, LaunchIntends(s) PROVE CutOffInv'
    <2>1. /\ lockedBy' = 0 /\ SameNodes /\ UNCHANGED <<def, dec, interrupted>>
      BY <1>22, IntendsEffect DEF LaunchIntends, StillOpen, runnerVars
    <2>. QED BY <2>1, HeldByNone, CutOffKept DEF SameNodes
  <1>23. ASSUME NEW s \in Session, LaunchStarts(s) PROVE CutOffInv'
    <2>1. UNCHANGED <<def, run, dec, busy, lockedBy, interrupted>>
      BY <1>23 DEF LaunchStarts
    <2>2. CASE UNCHANGED runner
      BY <2>1, <2>2 DEF CutOffInv, Held
    <2>3. ASSUME NEW a \in Attempt, job[a] = "none", Goto(a, "boot") PROVE CutOffInv'
      <3>1. runner[a] \notin Locking
        BY <2>3 DEF ProcessInv, Locking
      <3>. QED BY <2>1, <2>3, <3>1, HeldByOther DEF CutOffInv
    <2>. QED BY <1>23, <2>2, <2>3, StartsEffect
  <1>24. ASSUME NEW s \in Session, Decides(s) PROVE CutOffInv'
    <2>1. UNCHANGED <<def, run, lockedBy, runner, busy>>
      BY <1>24 DEF Decides
    <2>2. \A S : Held(S)' <=> Held(S)
      BY <2>1 DEF Held
    <2>3. PICK n \in Node, verdict \in {"approve", "deny"} :
            /\ dec' = [dec EXCEPT ![n] = verdict]
            /\ interrupted' = [interrupted EXCEPT ![n] = interrupted[n] /\ verdict = "deny"]
      BY <1>24 DEF Decides
    <2>4. \A m \in Node : interrupted'[m] =>
            interrupted[m] /\ (dec'[m] = dec[m] \/ dec'[m] = "deny")
      BY <2>3 DEF TypeOK
    <2>. QED BY <2>1, <2>2, <2>4 DEF CutOffInv
  <1>25. ASSUME NEW s \in Session, CancelSettles(s) PROVE CutOffInv'
    <2>1. lockedBy' = 0 /\ UNCHANGED <<def, dec, interrupted>>
      BY <1>25, CancelEffect DEF CancelSettles, runnerVars
    <2>2. \A n \in Node : interrupted[n] => run'.cps[n].st = run.cps[n].st
      BY <1>25, CancelEffect DEF CutOffInv
    <2>. QED BY <2>1, <2>2, HeldByNone, CutOffKept
  <1>26. ASSUME NEW s \in Session, TimesOutParked(s) PROVE CutOffInv'
    <2>1. /\ lockedBy' = 0 /\ SameNodes /\ UNCHANGED <<def, dec, interrupted>>
      BY <1>26, ExpiryEffect DEF TimesOutParked, StillOpen, runnerVars
    <2>. QED BY <2>1, HeldByNone, CutOffKept DEF SameNodes
  <1>27. ASSUME NEW a \in Attempt, RunnerAborts(a) \/ JobEnds(a) \/ JobLost(a) PROVE
        CutOffInv'
    BY <1>27, <1>1 DEF RunnerAborts, JobEnds, JobLost
  <1>28. ASSUME DeadlinePasses PROVE CutOffInv'
    BY <1>28, <1>1 DEF DeadlinePasses, runnerVars
  <1>29. ASSUME NEW s \in Session, ReconcileReads(s) \/ ReconcileSees(s) \/
        ReconcileMissed(s) \/ UserLaunches(s) \/ LaunchReads(s) \/ LaunchMissed(s) \/
        StartFails(s) \/ DeciderLooks(s) \/ CancelMarks(s) \/ ExpiryReads(s) \/
        SessionDies(s) PROVE CutOffInv'
    BY <1>29, <1>1 DEF ReconcileReads, ReconcileSees, ReconcileMissed, UserLaunches,
       LaunchReads, LaunchMissed, StartFails, DeciderLooks, CancelMarks, ExpiryReads,
       SessionDies, runnerVars, OnlySession, OnlyFault
  <1>. QED BY <1>1, <1>2, <1>3, <1>4, <1>5, <1>6, <1>7, <1>8, <1>9, <1>10, <1>11, <1>12,
       <1>13, <1>14, <1>15, <1>16, <1>17, <1>18, <1>19, <1>20, <1>21, <1>22, <1>23,
       <1>24, <1>25, <1>26, <1>27, <1>28, <1>29 DEF Next, RunnerStep, SessionStep,
       ReconcileStep, LaunchStep, vars, runnerVars

-----------------------------------------------------------------------------
(* The steps that the properties are about.                                *)

Ended    == run.status \in TerminalRun => run' = run
Replayed == \A n \in Node :
  run.cps[n].st # "running" /\ run'.cps[n].st = "running" => ~interrupted[n]

\* No step changes a run that has ended.
LEMMA EndStep ==
  ASSUME TypeOK, LockInv, WorkInv, [Next]_vars
  PROVE  Ended
  <1>1. CASE UNCHANGED <<run>>
    BY <1>1 DEF Ended
  <1>2. ASSUME NEW a \in Attempt, RunnerEnters(a) PROVE Ended
    BY <1>2 DEF RunnerEnters, StillJudged, Ended, TerminalRun
  <1>3. ASSUME NEW a \in Attempt, RunnerStopsJob(a) PROVE Ended
    BY <1>3, HolderIsAt DEF RunnerStopsJob, Holds, Ended
  <1>4. ASSUME NEW a \in Attempt, RunnerGivesUp(a) PROVE Ended
    BY <1>4, HolderIsAt, GivesUpEffect DEF RunnerGivesUp, Holds, Ended
  <1>5. ASSUME NEW a \in Attempt, RunnerRuns(a) PROVE Ended
    BY <1>5, HolderIsAt DEF RunnerRuns, Holds, Ended
  <1>6. ASSUME NEW a \in Attempt, RunnerChecks(a) PROVE Ended
    BY <1>6, HolderIsAt DEF RunnerChecks, Holds, Ended
  <1>7. ASSUME NEW a \in Attempt, RunnerSkips(a) PROVE Ended
    BY <1>7, HolderIsAt DEF RunnerSkips, Holds, Ended
  <1>8. ASSUME NEW a \in Attempt, RunnerDispatches(a) PROVE Ended
    BY <1>8, HolderIsAt DEF RunnerDispatches, Holds, Ended
  <1>9. ASSUME NEW a \in Attempt, RunnerParks(a) PROVE Ended
    BY <1>9, HolderIsAt DEF RunnerParks, Holds, Ended
  <1>10. ASSUME NEW a \in Attempt, RunnerSettlesNode(a) PROVE Ended
    BY <1>10, HolderIsAt DEF RunnerSettlesNode, Holds, Ended
  <1>11. ASSUME NEW a \in Attempt, RunnerGoesOn(a) PROVE Ended
    BY <1>11, HolderIsAt DEF RunnerGoesOn, Holds, Ended
  <1>12. ASSUME NEW a \in Attempt, RunnerRetries(a) PROVE Ended
    BY <1>12, HolderIsAt DEF RunnerRetries, Holds, Ended
  <1>13. ASSUME NEW a \in Attempt, RunnerEnds(a) PROVE Ended
    BY <1>13, HolderIsAt DEF RunnerEnds, Holds, Ended
  <1>14. ASSUME NEW a \in Attempt, RunnerRechecks(a) PROVE Ended
    BY <1>14, HolderIsAt DEF RunnerRechecks, Holds, Ended
  <1>15. ASSUME NEW s \in Session, ReconcileMarksUnknown(s) PROVE Ended
    BY <1>15 DEF ReconcileMarksUnknown, StillJudged, Ended, TerminalRun
  <1>16. ASSUME NEW s \in Session, ReconcileParks(s) PROVE Ended
    BY <1>16 DEF ReconcileParks, StillJudged, Ended, TerminalRun
  <1>17. ASSUME NEW s \in Session, ReconcileMarksDead(s) PROVE Ended
    BY <1>17, DeadEffect DEF Ended, TerminalRun
  <1>18. ASSUME NEW s \in Session, LaunchIntends(s) PROVE Ended
    BY <1>18, IntendsEffect DEF Ended, TerminalRun
  <1>19. ASSUME NEW s \in Session, CancelSettles(s) PROVE Ended
    BY <1>19, CancelEffect DEF Ended, WorkInv
  <1>20. ASSUME NEW s \in Session, TimesOutParked(s) PROVE Ended
    BY <1>20, ExpiryEffect DEF Ended, TerminalRun
  <1>21. ASSUME NEW a \in Attempt, RunnerTurnsAway(a) \/ RunnerAborts(a) \/
        RunnerFindsNone(a) \/ RunnerCannotStop(a) \/ RunnerDies(a) \/ JobEnds(a) \/
        JobLost(a) PROVE Ended
    BY <1>21, <1>1 DEF RunnerTurnsAway, RunnerAborts, RunnerFindsNone, RunnerCannotStop,
       RunnerDies, JobEnds, JobLost
  <1>22. ASSUME DeadlinePasses PROVE Ended
    BY <1>22, <1>1 DEF DeadlinePasses, runnerVars
  <1>23. ASSUME NEW s \in Session, ReconcileReads(s) \/ ReconcileSees(s) \/
        ReconcileMissed(s) \/ UserLaunches(s) \/ LaunchReads(s) \/ LaunchMissed(s) \/
        StartFails(s) \/ LaunchStarts(s) \/ Decides(s) \/ DeciderLooks(s) \/
        CancelMarks(s) \/ ExpiryReads(s) \/ SessionDies(s) PROVE Ended
    BY <1>23, <1>1 DEF ReconcileReads, ReconcileSees, ReconcileMissed, UserLaunches,
       LaunchReads, LaunchMissed, StartFails, LaunchStarts, Decides, DeciderLooks,
       CancelMarks, ExpiryReads, SessionDies, runnerVars, OnlySession, OnlyFault
  <1>. QED BY <1>1, <1>2, <1>3, <1>4, <1>5, <1>6, <1>7, <1>8, <1>9, <1>10, <1>11, <1>12,
       <1>13, <1>14, <1>15, <1>16, <1>17, <1>18, <1>19, <1>20, <1>21, <1>22, <1>23 DEF
       Next, RunnerStep, SessionStep, ReconcileStep, LaunchStep, vars, runnerVars

\* A step that dispatches a node finds it not interrupted.
LEMMA ReplayStep ==
  ASSUME TypeOK, WorkInv, CutOffInv, [Next]_vars
  PROVE  Replayed
  <1>1. CASE UNCHANGED <<run>>
    BY <1>1 DEF Replayed
  <1>2. ASSUME NEW a \in Attempt, RunnerEnters(a) PROVE Replayed
    BY <1>2, EntersEffect DEF Replayed, SameNodes, OnlyNode, Running, DecidedStatus
  <1>3. ASSUME NEW a \in Attempt, RunnerStopsJob(a) PROVE Replayed
    BY <1>3, StopsJobEffect DEF Replayed, SameNodes, OnlyNode, Running, DecidedStatus
  <1>4. ASSUME NEW a \in Attempt, RunnerGivesUp(a) PROVE Replayed
    BY <1>4, GivesUpEffect DEF Replayed, SameNodes
  <1>5. ASSUME NEW a \in Attempt, RunnerRuns(a) PROVE Replayed
    BY <1>5, RunsEffect DEF Replayed, SameNodes
  <1>6. ASSUME NEW a \in Attempt, RunnerChecks(a) PROVE Replayed
    BY <1>6, ChecksEffect DEF Replayed, SameNodes, OnlyNode, Running, DecidedStatus
  <1>7. ASSUME NEW a \in Attempt, RunnerSkips(a) PROVE Replayed
    BY <1>7, SkipsEffect DEF Replayed, SameNodes, OnlyNode, Running, DecidedStatus
  <1>8. ASSUME NEW a \in Attempt, RunnerDispatches(a) PROVE Replayed
    BY <1>8, DispatchesEffect DEF Replayed, SameNodes, OnlyNode, CutOffInv
  <1>9. ASSUME NEW a \in Attempt, RunnerParks(a) PROVE Replayed
    BY <1>9, ParksEffect DEF Replayed, SameNodes, OnlyNode, Running, DecidedStatus
  <1>10. ASSUME NEW a \in Attempt, RunnerSettlesNode(a) PROVE Replayed
    BY <1>10, SettlesEffect DEF Replayed, SameNodes, OnlyNode, Running, DecidedStatus
  <1>11. ASSUME NEW a \in Attempt, RunnerGoesOn(a) PROVE Replayed
    BY <1>11, GoesOnEffect DEF Replayed, SameNodes, OnlyNode, Running, DecidedStatus
  <1>12. ASSUME NEW a \in Attempt, RunnerRetries(a) PROVE Replayed
    <2>1. lockedBy = a /\ runner[a] \in Working
      BY <1>12 DEF RunnerRetries, Holds, Working
    <2>2. \A n \in Node : interrupted[n] => busy # n
      BY <2>1, CutOffRests
    <2>. QED BY <1>12, <2>2, RetriesEffect DEF Replayed, SameNodes, OnlyNode
  <1>13. ASSUME NEW a \in Attempt, RunnerEnds(a) PROVE Replayed
    BY <1>13, EndsEffect DEF Replayed, SameNodes
  <1>14. ASSUME NEW a \in Attempt, RunnerRechecks(a) PROVE Replayed
    BY <1>14, RechecksEffect DEF Replayed, SameNodes, OnlyNode, Running, DecidedStatus
  <1>15. ASSUME NEW s \in Session, ReconcileMarksUnknown(s) PROVE Replayed
    BY <1>15, UnknownEffect DEF Replayed, SameNodes
  <1>16. ASSUME NEW s \in Session, ReconcileParks(s) PROVE Replayed
    BY <1>16, ReconcileParksEffect DEF Replayed, SameNodes, OnlyNode, Running, DecidedStatus
  <1>17. ASSUME NEW s \in Session, ReconcileMarksDead(s) PROVE Replayed
    BY <1>17, DeadEffect DEF Replayed, SameNodes
  <1>18. ASSUME NEW s \in Session, LaunchIntends(s) PROVE Replayed
    BY <1>18, IntendsEffect DEF Replayed, SameNodes
  <1>19. ASSUME NEW s \in Session, CancelSettles(s) PROVE Replayed
    BY <1>19, CancelEffect DEF Replayed, SameNodes, OnlyNode, Running, DecidedStatus
  <1>20. ASSUME NEW s \in Session, TimesOutParked(s) PROVE Replayed
    BY <1>20, ExpiryEffect DEF Replayed, SameNodes
  <1>21. ASSUME NEW a \in Attempt, RunnerTurnsAway(a) \/ RunnerAborts(a) \/
        RunnerFindsNone(a) \/ RunnerCannotStop(a) \/ RunnerDies(a) \/ JobEnds(a) \/
        JobLost(a) PROVE Replayed
    BY <1>21, <1>1 DEF RunnerTurnsAway, RunnerAborts, RunnerFindsNone, RunnerCannotStop,
       RunnerDies, JobEnds, JobLost
  <1>22. ASSUME DeadlinePasses PROVE Replayed
    BY <1>22, <1>1 DEF DeadlinePasses, runnerVars
  <1>23. ASSUME NEW s \in Session, ReconcileReads(s) \/ ReconcileSees(s) \/
        ReconcileMissed(s) \/ UserLaunches(s) \/ LaunchReads(s) \/ LaunchMissed(s) \/
        StartFails(s) \/ LaunchStarts(s) \/ Decides(s) \/ DeciderLooks(s) \/
        CancelMarks(s) \/ ExpiryReads(s) \/ SessionDies(s) PROVE Replayed
    BY <1>23, <1>1 DEF ReconcileReads, ReconcileSees, ReconcileMissed, UserLaunches,
       LaunchReads, LaunchMissed, StartFails, LaunchStarts, Decides, DeciderLooks,
       CancelMarks, ExpiryReads, SessionDies, runnerVars, OnlySession, OnlyFault
  <1>. QED BY <1>1, <1>2, <1>3, <1>4, <1>5, <1>6, <1>7, <1>8, <1>9, <1>10, <1>11, <1>12,
       <1>13, <1>14, <1>15, <1>16, <1>17, <1>18, <1>19, <1>20, <1>21, <1>22, <1>23 DEF
       Next, RunnerStep, SessionStep, ReconcileStep, LaunchStep, vars, runnerVars

-----------------------------------------------------------------------------
\* The invariant holds initially.
LEMMA Initially ==
  Init => IInv
  <1>. SUFFICES ASSUME Init PROVE IInv
    OBVIOUS
  <1>. USE WorkflowAssumption DEF Init
  <1>1. TypeOK
    <2>1. Fresh \in Checkpoint /\ Fresh.try = 1 /\ Fresh.st = "pending"
      BY DEF Fresh, Checkpoint, NodeStatus
    <2>2. \A n \in Node : run.cps[n] = Fresh
      OBVIOUS
    <2>3. "pending" \in RunStatus
      BY DEF RunStatus
    <2>4. run \in Run
      BY <2>1, <2>3 DEF Run
    <2>5. \A n \in Node : run.cps[n].try <= def.maxTry[n]
      BY <2>1, <2>2 DEF Definition
    <2>6. busy \in Node
      OBVIOUS
    <2>7. ses \in [Session -> View]
      BY IdleView
    <2>8. faults \in 0..MaxFaults /\ lockedBy \in 0..MaxAttempts
      OBVIOUS
    <2>9. /\ dec \in [Node -> {"none", "asked", "approve", "deny"}]
          /\ job \in [Attempt -> {"none", "live", "uncertain", "terminal"}]
          /\ runner \in [Attempt -> Place] /\ interrupted \in [Node -> BOOLEAN]
      BY DEF Place
    <2>10. /\ def \in Definitions /\ abort \in {"no", "cancel", "deadline"}
           /\ cancelRequested \in BOOLEAN /\ late \in BOOLEAN
      OBVIOUS
    <2>. QED BY <2>4, <2>5, <2>6, <2>7, <2>8, <2>9, <2>10 DEF TypeOK, Place
  <1>2. \A n \in Node : run.cps[n].st = "pending"
    BY DEF Fresh
  <1>3. lockedBy = 0 /\ \A S : ~Held(S)
    BY DEF Held
  <1>4. AttemptInv /\ ProcessInv
    BY DEF AttemptInv, ProcessInv, Attempt
  <1>5. SessionInv
    BY IdleView DEF SessionInv
  <1>6. LockInv
    BY DEF LockInv, Locking
  <1>7. WorkInv
    BY <1>2, <1>3 DEF WorkInv, Running
  <1>8. GateInv /\ ChoiceInv
    BY <1>2, <1>3 DEF GateInv, ChoiceInv
  <1>9. CutOffInv
    BY DEF CutOffInv
  <1>. QED BY <1>1, <1>4, <1>5, <1>6, <1>7, <1>8, <1>9 DEF IInv

\* Every step preserves the invariant.
LEMMA Invariance ==
  IInv /\ [Next]_vars => IInv'
  <1>. SUFFICES ASSUME IInv, [Next]_vars PROVE IInv'
    OBVIOUS
  <1>. USE DEF IInv
  <1>1. TypeOK'
    BY TypeStep
  <1>2. run'.attempt \in 0..MaxAttempts
    BY <1>1 DEF TypeOK, Run
  <1>3. SessionInv'
    BY <1>2, SesStep, JobStep, ForwardStep, SessionStays
  <1>4. AttemptInv' /\ ProcessInv' /\ LockInv'
    BY AttemptStep, ProcessStep, LockStep
  <1>5. WorkInv' /\ GateInv' /\ ChoiceInv' /\ CutOffInv'
    BY WorkStep, GateStep, ChoiceStep, CutOffStep
  <1>. QED BY <1>1, <1>3, <1>4, <1>5

\* The inductive invariant holds.
THEOREM InvariantHolds == Spec => []IInv
  BY Initially, Invariance, PTL DEF Spec

\* Records, sessions and processes stay well-typed.
THEOREM StateIsTyped == Spec => []TypeOK
  <1>1. IInv => TypeOK
    BY DEF IInv
  <1>. QED BY <1>1, InvariantHolds, PTL

\* Two runner processes of a run are never alive together, whatever reconcile
\* and launch believe of what they read without the lock.
THEOREM OneRunnerAtATime == Spec => []OneRunner
  <1>1. IInv => OneRunner
    <2>. SUFFICES ASSUME IInv PROVE OneRunner
      OBVIOUS
    <2>. DEFINE alive == {a \in Attempt : runner[a] \notin {"none", "gone"}}
    <2>1. alive \subseteq {run.attempt}
      BY AliveIsCurrent DEF IInv
    <2>2. alive = {} \/ alive = {run.attempt}
      BY <2>1
    <2>3. Cardinality({}) = 0 /\ Cardinality({run.attempt}) = 1
      BY FS_EmptySet, FS_Singleton
    <2>. HIDE DEF alive
    <2>4. Cardinality(alive) <= 1
      BY <2>2, <2>3
    <2>. QED BY <2>4 DEF OneRunner, alive
  <1>. QED BY <1>1, InvariantHolds, PTL

\* A run that ended is never changed again, by no stale launch, reconciliation,
\* cancellation or expiry.
THEOREM EndsStay == Spec => EndIsFinal
  <1>1. IInv /\ [Next]_vars => [Ended]_vars
    BY EndStep DEF IInv
  <1>. QED BY <1>1, InvariantHolds, PTL DEF Spec, EndIsFinal, Ended

\* When a run ends nothing of it is recorded as running.
THEOREM NothingIsLeftRunning == Spec => []NothingRunsAfterEnd
  <1>1. IInv => NothingRunsAfterEnd
    BY DEF IInv, WorkInv, NothingRunsAfterEnd
  <1>. QED BY <1>1, InvariantHolds, PTL

\* A gate passes by an approval and fails by a denial, of one decision file.
THEOREM GatesFollowDecisions == Spec => []GateFollowsDecision
  <1>1. IInv => GateFollowsDecision
    BY DEF IInv, GateInv, GateFollowsDecision
  <1>. QED BY <1>1, InvariantHolds, PTL

\* A tool that a dead runner left behind runs again only after its interruption
\* was approved.
THEOREM CutOffToolsAreNotReplayed == Spec => NoReplay
  <1>1. IInv /\ [Next]_vars => [Replayed]_vars
    BY ReplayStep DEF IInv
  <1>. QED BY <1>1, InvariantHolds, PTL DEF Spec, NoReplay, Replayed

-----------------------------------------------------------------------------
(* What is saved can be read back.                                         *)

\* What a node that depends on p is told of p.
Seen(p) == IF ToleratedFailure(def, run.cps, p) THEN "passed" ELSE run.cps[p].st

\* All that n depends on passed, or is settled so that n is passed over.
PassedBehind(n) == \A p \in def.deps[n] : Seen(p) = "passed"

SettledBehind(n) ==
  \A p \in def.deps[n] :
    Seen(p) \in {"passed", "skipped"} \cup (IF def.strict THEN {} ELSE Broken)

\* Nothing was dispatched before what it depends on passed, and nothing was
\* skipped before that was settled.
OrderInv ==
  \A n \in Node :
    /\ run.cps[n].st \notin {"pending", "skipped"} => PassedBehind(n)
    /\ run.cps[n].st = "skipped" => SettledBehind(n)

\* A gate does not time out, a job is not parked.
KindInv ==
  \A n \in Node :
    /\ def.type[n] = "approval" => run.cps[n].st # "timed_out"
    /\ def.type[n] = "job" => run.cps[n].st # "waiting_approval"

\* What is always reached is never skipped.
ReachedInv ==
  \A U \in SUBSET Node : AlwaysReached(def, U) => \A n \in U : run.cps[n].st # "skipped"

\* The node that the lock holder is about to park, tries again or may try again.
BusyInv ==
  /\ Held({"park", "retry"}) => run.cps[busy].st = "pending" /\ PassedBehind(busy)
  /\ Held({"park"}) => def.type[busy] = "approval"
  /\ Held({"after"}) => \A n \in Node : busy \in def.deps[n] => run.cps[n].st = "pending"

\* What the status of the run says of its nodes.
StatusInv ==
  /\ run.status = "pending" =>
       run.attempt = 0 /\ \A n \in Node : run.cps[n].st = "pending"
  /\ run.status = "passed" =>
       \A n \in Node :
         run.cps[n].st \in {"passed", "skipped"} \/ ToleratedFailure(def, run.cps, n)

NodeInv == OrderInv /\ KindInv /\ ReachedInv /\ BusyInv /\ StatusInv

\* How a step may change a node: one at work goes on, one whose turn it is is
\* dispatched or passed over, a broken one on which nothing was built starts over.
Works(n) == run.cps[n].st \in {"running", "waiting_approval"} /\ run'.cps[n].st # "skipped"

Dispatched(n) ==
  /\ run.cps[n].st = "pending" /\ run'.cps[n].st \in {"running", "waiting_approval"}
  /\ PassedBehind(n)

PassedOver(n) ==
  /\ run.cps[n].st = "pending" /\ run'.cps[n].st = "skipped" /\ SettledBehind(n)
  /\ n \in def.when \/ ~PassedBehind(n)

StartsOver(n) ==
  /\ run.cps[n].st \in Broken /\ run'.cps[n].st = "pending"
  /\ \A m \in Node : n \in def.deps[m] =>
       run.cps[m].st = "pending" /\ run'.cps[m] = run.cps[m]

Moves(n) ==
  \/ run'.cps[n] = run.cps[n]
  \/ /\ run'.cps[n].st = "timed_out" => def.type[n] # "approval"
     /\ run'.cps[n].st = "waiting_approval" => def.type[n] # "job"
     /\ Works(n) \/ Dispatched(n) \/ PassedOver(n) \/ StartsOver(n)

Moved == \A n \in Node : Moves(n)

\* The definition of a run is fixed.
LEMMA DefStays ==
  ASSUME [Next]_vars
  PROVE  UNCHANGED def
  BY DEF Next, RunnerStep, SessionStep, ReconcileStep, LaunchStep, vars, runnerVars,
     RunnerTurnsAway, RunnerEnters, RunnerStopsJob, RunnerGivesUp, RunnerRuns, RunnerChecks,
     RunnerFindsNone, RunnerSkips, RunnerDispatches, RunnerParks, RunnerSettlesNode,
     RunnerCannotStop, RunnerGoesOn, RunnerRetries, RunnerEnds, RunnerRechecks, RunnerAborts,
     RunnerDies, JobEnds, JobLost, DeadlinePasses, ReconcileReads, ReconcileSees,
     ReconcileMissed, ReconcileMarksUnknown, ReconcileParks, ReconcileMarksDead,
     UserLaunches, LaunchReads, LaunchIntends, LaunchMissed, StartFails, LaunchStarts,
     Decides, DeciderLooks, CancelMarks, CancelSettles, ExpiryReads, TimesOutParked,
     SessionDies, OnlySession, OnlyFault

\* The parts of a definition.
LEMMA DefinitionParts ==
  ASSUME TypeOK
  PROVE  /\ def.type \in [Node -> {"approval", "job", "agent", "tool"}]
         /\ def.deps \in [Node -> SUBSET Node] /\ def.strict \in BOOLEAN
         /\ def.when \subseteq Node
  BY Fields DEF Definition

\* What depends on an unsettled node was not begun.
LEMMA BehindUnsettled ==
  ASSUME OrderInv, NEW n \in Node, NEW p \in def.deps[n],
         run.cps[p].st \in {"pending", "running", "waiting_approval"}
  PROVE  run.cps[n].st = "pending" /\ ~PassedBehind(n) /\ ~SettledBehind(n)
  <1>1. Seen(p) = run.cps[p].st
    BY DEF Seen, ToleratedFailure
  <1>2. ~PassedBehind(n) /\ ~SettledBehind(n)
    BY <1>1 DEF PassedBehind, SettledBehind, Broken
  <1>. QED BY <1>2 DEF OrderInv

\* What depends on a node that changes stays pending.
LEMMA BehindMoved ==
  ASSUME OrderInv, Moved, NEW n \in Node, NEW p \in def.deps[n],
         p \in Node, run'.cps[p] # run.cps[p]
  PROVE  run.cps[n].st = "pending" /\ run'.cps[n] = run.cps[n]
  <1>1. CASE StartsOver(p)
    BY <1>1 DEF StartsOver
  <1>2. CASE Works(p) \/ Dispatched(p) \/ PassedOver(p)
    <2>1. run.cps[p].st \in {"pending", "running", "waiting_approval"}
      BY <1>2 DEF Works, Dispatched, PassedOver
    <2>2. run.cps[n].st = "pending" /\ ~PassedBehind(n) /\ ~SettledBehind(n)
      BY <2>1, BehindUnsettled
    <2>. QED BY <2>2 DEF Moved, Moves, Works, Dispatched, PassedOver, StartsOver, Broken
  <1>. QED BY <1>1, <1>2 DEF Moved, Moves

\* Nodes that move so keep their order.
LEMMA OrderKept ==
  ASSUME TypeOK, OrderInv, UNCHANGED def, Moved
  PROVE  OrderInv'
  <1>. SUFFICES ASSUME NEW n \in Node
                PROVE  /\ run'.cps[n].st \notin {"pending", "skipped"} => PassedBehind(n)'
                       /\ run'.cps[n].st = "skipped" => SettledBehind(n)'
    BY DEF OrderInv
  <1>1. def.deps[n] \subseteq Node
    BY DefinitionParts
  <1>2. CASE \E p \in def.deps[n] : run'.cps[p] # run.cps[p]
    BY <1>1, <1>2, BehindMoved
  <1>3. CASE \A p \in def.deps[n] : run'.cps[p] = run.cps[p]
    <2>1. \A p \in def.deps[n] : Seen(p)' = Seen(p)
      BY <1>3 DEF Seen, ToleratedFailure
    <2>2. (PassedBehind(n)' <=> PassedBehind(n)) /\ (SettledBehind(n)' <=> SettledBehind(n))
      BY <2>1 DEF PassedBehind, SettledBehind
    <2>3. CASE run'.cps[n] = run.cps[n]
      BY <2>2, <2>3 DEF OrderInv
    <2>4. CASE Works(n)
      BY <2>2, <2>4 DEF Works, OrderInv
    <2>5. CASE Dispatched(n) \/ PassedOver(n) \/ StartsOver(n)
      BY <2>2, <2>5 DEF Dispatched, PassedOver, StartsOver
    <2>. QED BY <2>3, <2>4, <2>5 DEF Moved, Moves
  <1>. QED BY <1>2, <1>3

\* Nodes that move so are of the right kind.
LEMMA KindKept ==
  ASSUME KindInv, UNCHANGED def, Moved
  PROVE  KindInv'
  BY DEF KindInv, Moved, Moves

\* Nodes that move so are not skipped when they are always reached.
LEMMA ReachedKept ==
  ASSUME TypeOK, ReachedInv, UNCHANGED def, Moved
  PROVE  ReachedInv'
  <1>. SUFFICES ASSUME NEW U \in SUBSET Node, AlwaysReached(def, U), NEW n \in U,
                       run'.cps[n].st = "skipped"
                PROVE  FALSE
    BY DEF ReachedInv
  <1>1. \A p \in U : run.cps[p].st # "skipped"
    BY DEF ReachedInv
  <1>2. PassedOver(n)
    BY <1>1 DEF Moved, Moves, Works, Dispatched, StartsOver
  <1>3. n \notin def.when /\ def.deps[n] \subseteq U /\ (def.strict \/ def.deps[n] = {})
    BY DEF AlwaysReached
  <1>4. PICK p \in def.deps[n] : Seen(p) # "passed"
    BY <1>2, <1>3 DEF PassedOver, PassedBehind
  <1>5. Seen(p) \in {"passed", "skipped"}
    BY <1>2, <1>3 DEF PassedOver, SettledBehind
  <1>6. run.cps[p].st = "skipped"
    BY <1>4, <1>5 DEF Seen
  <1>. QED BY <1>1, <1>3, <1>6

\* Decisions that are applied move the nodes that waited for them.
LEMMA AppliedMoves ==
  ASSUME TypeOK, run'.cps = ApplyDecisions(def, run.cps, dec), NEW n \in Node
  PROVE  Moves(n)
  <1>1. n \notin Unapplied(run.cps, dec) => run'.cps[n] = run.cps[n]
    BY Fields, ApplyEffect
  <1>2. n \in Unapplied(run.cps, dec) =>
          /\ run.cps[n].st = "waiting_approval"
          /\ run'.cps[n].st \in {"failed", "passed", "pending"}
    BY Fields, ApplyEffect DEF Unapplied
  <1>. QED BY <1>1, <1>2 DEF Moves, Works

\* A runner that enters moves the nodes that ran or waited.
LEMMA EntersMoves ==
  ASSUME TypeOK, NEW a \in Attempt, RunnerEnters(a), NEW n \in Node
  PROVE  Moves(n)
  <1>. DEFINE mid == Normalized(def, run.cps)
              new == ApplyDecisions(def, mid, dec')
  <1>1. /\ mid \in [Node -> Checkpoint]
        /\ run.cps[n].st # "running" \/ def.type[n] = "job" => mid[n] = run.cps[n]
        /\ run.cps[n].st = "running" /\ def.type[n] # "job" =>
             mid[n].st \in {"pending", "waiting_approval"}
    BY Fields, NormalizedEffect
  <1>2. /\ n \notin Unapplied(mid, dec') => new[n] = mid[n]
        /\ n \in Unapplied(mid, dec') => new[n].st \in {"failed", "passed", "pending"}
    BY <1>1, Fields, ApplyEffect
  <1>3. SaveNodes(new) /\ new \in [Node -> Checkpoint]
    BY <1>1, Fields, ApplyEffect DEF RunnerEnters
  <1>4. run'.cps = new
    BY <1>3, Saving
  <1>. HIDE DEF mid, new
  <1>5. CASE n \in Unapplied(mid, dec')
    <2>1. mid[n].st = "waiting_approval"
      BY <1>5 DEF Unapplied
    <2>2. run.cps[n].st \in {"running", "waiting_approval"}
      BY <1>1, <2>1
    <2>. QED BY <1>2, <1>4, <1>5, <2>2 DEF Moves, Works
  <1>6. CASE n \notin Unapplied(mid, dec')
    BY <1>1, <1>2, <1>4, <1>6 DEF Moves, Works
  <1>. QED BY <1>5, <1>6

\* Where only the node n changes it is enough that n moves.
LEMMA OnlyMoves ==
  ASSUME NEW n \in Node, OnlyNode(n), Moves(n)
  PROVE  Moved
  BY DEF OnlyNode, Moves, Moved

\* Nothing changed, nothing moved.
LEMMA NoneMoves ==
  ASSUME SameNodes
  PROVE  Moved
  BY DEF SameNodes, Moves, Moved

\* A node is passed over when its turn came and it is conditional, or what it
\* depends on did not pass.
LEMMA SkipsMoves ==
  ASSUME TypeOK, NEW a \in Attempt, RunnerSkips(a)
  PROVE  Moved
  <1>. PICK n \in ReadyNodes(def, run.cps) :
         /\ Skipped(def, run.cps, n) \/ n \in def.when
         /\ SetNode(n, [run.cps[n] EXCEPT !.st = "skipped"])
    BY DEF RunnerSkips
  <1>1. n \in Node /\ run.cps[n].st = "pending" /\ "skipped" \in NodeStatus
        /\ \A p \in def.deps[n] : p \in Node /\ run.cps[p].st \in Settled
    BY DefinitionParts DEF ReadyNodes, NodeStatus
  <1>2. run'.cps[n].st = "skipped" /\ OnlyNode(n)
    BY <1>1, MovingNode
  <1>3. def.strict =>
          \A p \in Node : run.cps[p].st \in Broken => ToleratedFailure(def, run.cps, p)
    BY DEF RunnerSkips, BrokenStops
  <1>4. SettledBehind(n)
    <2>. SUFFICES ASSUME NEW p \in def.deps[n], ~ToleratedFailure(def, run.cps, p)
                  PROVE  /\ run.cps[p].st \in {"passed", "skipped"} \cup Broken
                         /\ def.strict => run.cps[p].st \notin Broken
      BY DEF SettledBehind, Seen, Broken
    <2>. QED BY <1>1, <1>3 DEF Settled, NodeStatus, Broken
  <1>5. n \in def.when \/ ~PassedBehind(n)
    <2>. SUFFICES ASSUME Skipped(def, run.cps, n) PROVE ~PassedBehind(n)
      OBVIOUS
    <2>. PICK p \in def.deps[n] :
           ~ToleratedFailure(def, run.cps, p) /\ run.cps[p].st \in Broken \cup {"skipped"}
      BY DEF Skipped
    <2>. QED BY DEF PassedBehind, Seen, Broken
  <1>. QED BY <1>1, <1>2, <1>4, <1>5, OnlyMoves DEF Moves, PassedOver

\* When a node is dispatched all that it depends on has passed.
LEMMA DispatchFollows ==
  ASSUME TypeOK, NEW a \in Attempt, RunnerDispatches(a)
  PROVE  PassedBehind(busy')
  <1>1. busy' \in ReadyNodes(def, run.cps) /\ ~Skipped(def, run.cps, busy')
    BY DEF RunnerDispatches
  <1>2. \A p \in def.deps[busy'] : run.cps[p].st \in Settled
    BY <1>1 DEF ReadyNodes
  <1>. QED BY <1>1, <1>2 DEF Skipped, PassedBehind, Seen, Settled, NodeStatus, Broken

\* Every step moves the nodes in the ways that keep their order.
LEMMA NodesMove ==
  ASSUME TypeOK, LockInv, WorkInv, GateInv, ChoiceInv, OrderInv, KindInv, BusyInv, [Next]_vars
  PROVE  Moved
  <1>1. CASE UNCHANGED run
    BY <1>1, NoneMoves DEF SameNodes
  <1>2. ASSUME NEW a \in Attempt, RunnerEnters(a) PROVE Moved
    BY <1>2, EntersMoves DEF Moved
  <1>3. ASSUME NEW a \in Attempt, RunnerStopsJob(a) PROVE Moved
    <2>1. CASE SameNodes
      BY <2>1, NoneMoves
    <2>2. ASSUME NEW n \in Running, OnlyNode(n),
                 run'.cps[n].st \in {"passed", "failed", "cancelled"}
          PROVE  Moved
      BY <2>2, OnlyMoves DEF Moves, Works, Running
    <2>. QED BY <1>3, <2>1, <2>2, StopsJobEffect
  <1>4. ASSUME NEW a \in Attempt, RunnerGivesUp(a) PROVE Moved
    BY <1>4, GivesUpEffect, NoneMoves
  <1>5. ASSUME NEW a \in Attempt, RunnerRuns(a) PROVE Moved
    BY <1>5, RunsEffect, NoneMoves
  <1>6. ASSUME NEW a \in Attempt, RunnerChecks(a) PROVE Moved
    <2>1. CASE SaveNodes(ApplyDecisions(def, run.cps, dec))
      <3>1. run'.cps = ApplyDecisions(def, run.cps, dec)
        BY <2>1, Fields, ApplyEffect, Saving
      <3>. QED BY <3>1, AppliedMoves DEF Moved
    <2>. QED BY <1>1, <1>6, <2>1 DEF RunnerChecks
  <1>7. ASSUME NEW a \in Attempt, RunnerSkips(a) PROVE Moved
    BY <1>7, SkipsMoves
  <1>8. ASSUME NEW a \in Attempt, RunnerDispatches(a) PROVE Moved
    <2>1. PassedBehind(busy')
      BY <1>8, DispatchFollows
    <2>. QED BY <1>8, <2>1, DispatchesEffect, NoneMoves, OnlyMoves DEF Moves, Dispatched
  <1>9. ASSUME NEW a \in Attempt, RunnerParks(a) PROVE Moved
    <2>1. lockedBy = a /\ runner[a] = "park" /\ busy \in Node
      BY <1>9 DEF RunnerParks, Holds, TypeOK
    <2>2. /\ run.cps[busy].st = "pending" /\ PassedBehind(busy)
          /\ def.type[busy] = "approval"
      BY <2>1, HolderIsAt DEF BusyInv
    <2>. QED BY <1>9, <2>1, <2>2, ParksEffect, OnlyMoves DEF Moves, Dispatched
  <1>10. ASSUME NEW a \in Attempt, RunnerSettlesNode(a) PROVE Moved
    <2>1. lockedBy = a /\ runner[a] = "exec" /\ busy \in Node
      BY <1>10 DEF RunnerSettlesNode, Holds, TypeOK
    <2>2. def.type[busy] # "approval" /\ run.cps[busy].st = "running"
      BY <2>1, HolderIsAt DEF ChoiceInv, Running
    <2>. QED BY <1>10, <2>1, <2>2, SettlesEffect, OnlyMoves DEF Moves, Works
  <1>11. ASSUME NEW a \in Attempt, RunnerGoesOn(a) PROVE Moved
    <2>1. lockedBy = a /\ runner[a] = "after" /\ busy \in Node
      BY <1>11 DEF RunnerGoesOn, Holds, TypeOK
    <2>2. \A m \in Node : busy \in def.deps[m] => run.cps[m].st = "pending"
      BY <2>1, HolderIsAt DEF BusyInv
    <2>3. CASE MayRetry(def, run.cps, busy)
      <3>1. run.cps[busy].st \in Broken
        BY <2>3 DEF MayRetry, Broken
      <3>2. CASE SameNodes
        BY <3>2, NoneMoves
      <3>3. CASE run'.cps[busy].st = "pending" /\ OnlyNode(busy)
        <4>1. StartsOver(busy)
          BY <2>2, <3>1, <3>3 DEF StartsOver, OnlyNode, Broken
        <4>. QED BY <2>1, <3>3, <4>1, OnlyMoves DEF Moves
      <3>. QED BY <1>11, <3>2, <3>3, GoesOnEffect
    <2>4. CASE ~MayRetry(def, run.cps, busy)
      BY <1>1, <1>11, <2>4 DEF RunnerGoesOn
    <2>. QED BY <2>3, <2>4
  <1>12. ASSUME NEW a \in Attempt, RunnerRetries(a) PROVE Moved
    <2>1. lockedBy = a /\ runner[a] = "retry" /\ busy \in Node
      BY <1>12 DEF RunnerRetries, Holds, TypeOK
    <2>2. run.cps[busy].st = "pending" /\ PassedBehind(busy)
      BY <2>1, HolderIsAt DEF BusyInv
    <2>. QED BY <1>12, <2>1, <2>2, RetriesEffect, OnlyMoves, NoneMoves DEF Moves, Dispatched
  <1>13. ASSUME NEW a \in Attempt, RunnerEnds(a) PROVE Moved
    BY <1>13, EndsEffect, NoneMoves
  <1>14. ASSUME NEW a \in Attempt, RunnerRechecks(a) PROVE Moved
    <2>1. CASE run' = [run EXCEPT !.cps = ApplyDecisions(def, run.cps, dec),
                         !.status = IF FailureStops(def, ApplyDecisions(def, run.cps, dec))
                                    THEN "failed" ELSE "running"]
      <3>1. run'.cps = ApplyDecisions(def, run.cps, dec)
        BY <2>1 DEF TypeOK, Run
      <3>. QED BY <3>1, AppliedMoves DEF Moved
    <2>. QED BY <1>1, <1>14, <2>1 DEF RunnerRechecks
  <1>15. ASSUME NEW s \in Session, ReconcileMarksUnknown(s) PROVE Moved
    BY <1>15, UnknownEffect, NoneMoves
  <1>16. ASSUME NEW s \in Session, ReconcileParks(s) PROVE Moved
    BY <1>16, ReconcileParksEffect DEF Moved, Moves, Works
  <1>17. ASSUME NEW s \in Session, ReconcileMarksDead(s) PROVE Moved
    BY <1>17, DeadEffect, NoneMoves
  <1>18. ASSUME NEW s \in Session, LaunchIntends(s) PROVE Moved
    BY <1>18, IntendsEffect, NoneMoves
  <1>19. ASSUME NEW s \in Session, CancelSettles(s) PROVE Moved
    BY <1>19, <1>1, CancelEffect DEF Moved, Moves, Works, Running
  <1>20. ASSUME NEW s \in Session, TimesOutParked(s) PROVE Moved
    BY <1>20, ExpiryEffect, NoneMoves
  <1>21. ASSUME NEW a \in Attempt, RunnerTurnsAway(a) \/ RunnerAborts(a) \/
        RunnerFindsNone(a) \/ RunnerCannotStop(a) \/ RunnerDies(a) \/ JobEnds(a) \/
        JobLost(a) PROVE Moved
    BY <1>21, <1>1 DEF RunnerTurnsAway, RunnerAborts, RunnerFindsNone, RunnerCannotStop,
       RunnerDies, JobEnds, JobLost
  <1>22. ASSUME DeadlinePasses PROVE Moved
    BY <1>22, <1>1 DEF DeadlinePasses, runnerVars
  <1>23. ASSUME NEW s \in Session, ReconcileReads(s) \/ ReconcileSees(s) \/
        ReconcileMissed(s) \/ UserLaunches(s) \/ LaunchReads(s) \/ LaunchMissed(s) \/
        StartFails(s) \/ LaunchStarts(s) \/ Decides(s) \/ DeciderLooks(s) \/
        CancelMarks(s) \/ ExpiryReads(s) \/ SessionDies(s) PROVE Moved
    BY <1>23, <1>1 DEF ReconcileReads, ReconcileSees, ReconcileMissed, UserLaunches,
       LaunchReads, LaunchMissed, StartFails, LaunchStarts, Decides, DeciderLooks,
       CancelMarks, ExpiryReads, SessionDies, runnerVars, OnlySession, OnlyFault
  <1>. QED BY <1>1, <1>2, <1>3, <1>4, <1>5, <1>6, <1>7, <1>8, <1>9, <1>10, <1>11, <1>12,
       <1>13, <1>14, <1>15, <1>16, <1>17, <1>18, <1>19, <1>20, <1>21, <1>22, <1>23 DEF
       Next, RunnerStep, SessionStep, ReconcileStep, LaunchStep, vars, runnerVars

\* The node at work has nothing behind it that was begun.
LEMMA BehindBusy ==
  ASSUME OrderInv, NEW n \in Running, NEW m \in Node, n \in def.deps[m]
  PROVE  run.cps[m].st = "pending"
  <1>1. n \in Node /\ run.cps[n].st = "running"
    BY DEF Running
  <1>. QED BY <1>1, BehindUnsettled

\* A place that no part of BusyInv is about.
LEMMA NotBusy ==
  ASSUME TypeOK, NEW a \in Attempt, NEW where, where \notin {"park", "retry", "after"},
         (lockedBy' = a /\ Goto(a, where)) \/ lockedBy' = 0
  PROVE  BusyInv'
  <1>1. CASE lockedBy' = a /\ Goto(a, where)
    <2>1. \A S : Held(S)' <=> where \in S
      BY <1>1, HeldAt
    <2>. QED BY <2>1 DEF BusyInv
  <1>2. CASE lockedBy' = 0
    BY <1>2, HeldByNone DEF BusyInv
  <1>. QED BY <1>1, <1>2

\* What stays true of the busy node while neither it nor the holder moves.
LEMMA BusyKept ==
  ASSUME BusyInv, UNCHANGED <<def, busy>>, SameNodes, \A S : Held(S)' <=> Held(S)
  PROVE  BusyInv'
  <1>1. \A p : Seen(p)' = Seen(p)
    BY DEF Seen, ToleratedFailure, SameNodes
  <1>2. PassedBehind(busy)' <=> PassedBehind(busy)
    BY <1>1 DEF PassedBehind
  <1>. QED BY <1>2 DEF BusyInv, SameNodes

\* A step that moves no process with the lock leaves the busy node alone.
LEMMA BusyRests ==
  ASSUME BusyInv, UNCHANGED <<def, busy, lockedBy, runner, run>>
  PROVE  BusyInv'
  <1>1. \A S : Held(S)' <=> Held(S)
    BY HeldSame
  <1>. QED BY <1>1, BusyKept DEF SameNodes

\* The lock holder parks, and tries again, a node whose turn it is, and decides
\* to try again before anything was built on the node.
LEMMA BusyStep ==
  ASSUME TypeOK, TypeOK', AttemptInv, ProcessInv, SessionInv, LockInv, WorkInv, OrderInv,
         BusyInv, [Next]_vars
  PROVE  BusyInv'
  <1>1. CASE UNCHANGED <<def, busy, lockedBy, runner, run>>
    BY <1>1, BusyRests
  <1>2. ASSUME NEW a \in Attempt, RunnerTurnsAway(a) PROVE BusyInv'
    <2>1. \A S : Held(S)' <=> Held(S)
      BY <1>2, HeldByOther DEF RunnerTurnsAway, Locking
    <2>. QED BY <1>2, <2>1, BusyKept DEF RunnerTurnsAway, SameNodes
  <1>3. ASSUME NEW a \in Attempt, RunnerEnters(a) PROVE BusyInv'
    BY <1>3, NotBusy DEF RunnerEnters
  <1>4. ASSUME NEW a \in Attempt, RunnerStopsJob(a) PROVE BusyInv'
    BY <1>4, NotBusy, StopsJobEffect DEF Leave, Holds
  <1>5. ASSUME NEW a \in Attempt, RunnerGivesUp(a) PROVE BusyInv'
    BY <1>5, NotBusy, GivesUpEffect DEF Leave
  <1>6. ASSUME NEW a \in Attempt, RunnerRuns(a) PROVE BusyInv'
    BY <1>6, NotBusy, RunsEffect DEF Holds
  <1>7. ASSUME NEW a \in Attempt, RunnerChecks(a) PROVE BusyInv'
    BY <1>7, NotBusy, ChecksEffect DEF Holds
  <1>8. ASSUME NEW a \in Attempt, RunnerFindsNone(a) PROVE BusyInv'
    BY <1>8, NotBusy DEF RunnerFindsNone, Holds
  <1>9. ASSUME NEW a \in Attempt, RunnerSkips(a) PROVE BusyInv'
    BY <1>9, NotBusy, SkipsEffect DEF Holds
  <1>10. ASSUME NEW a \in Attempt, RunnerDispatches(a) PROVE BusyInv'
    <2>1. lockedBy' = a /\ UNCHANGED def
      BY <1>10 DEF RunnerDispatches, Holds
    <2>2. CASE def.type[busy'] = "approval" /\ Goto(a, "park") /\ SameNodes
      <3>1. \A S : Held(S)' <=> "park" \in S
        BY <2>1, <2>2, HeldAt
      <3>2. \A p : Seen(p)' = Seen(p)
        BY <2>1, <2>2 DEF Seen, ToleratedFailure, SameNodes
      <3>3. PassedBehind(busy') /\ run.cps[busy'].st = "pending"
        BY <1>10, DispatchFollows, DispatchesEffect
      <3>4. PassedBehind(busy)'
        BY <2>1, <3>2, <3>3 DEF PassedBehind
      <3>. QED BY <2>1, <2>2, <3>1, <3>3, <3>4 DEF BusyInv, SameNodes
    <2>3. CASE Goto(a, "exec")
      BY <2>1, <2>3, NotBusy
    <2>. QED BY <1>10, <2>2, <2>3, DispatchesEffect
  <1>11. ASSUME NEW a \in Attempt, RunnerParks(a) PROVE BusyInv'
    BY <1>11, NotBusy, ParksEffect DEF Holds
  <1>12. ASSUME NEW a \in Attempt, RunnerSettlesNode(a) PROVE BusyInv'
    <2>1. UNCHANGED <<def, busy>> /\ lockedBy = a /\ runner[a] = "exec" /\ lockedBy' = a
          /\ Goto(a, "after") /\ OnlyNode(busy)
      BY <1>12, SettlesEffect DEF RunnerSettlesNode, Holds
    <2>2. busy \in Running
      BY <2>1, HolderIsAt
    <2>3. \A m \in Node : busy \in def.deps[m] => m # busy /\ run.cps[m].st = "pending"
      BY <2>2, BehindBusy DEF Running
    <2>4. \A S : Held(S)' <=> "after" \in S
      BY <2>1, HeldAt
    <2>. QED BY <2>1, <2>3, <2>4 DEF BusyInv, OnlyNode
  <1>13. ASSUME NEW a \in Attempt, RunnerCannotStop(a) PROVE BusyInv'
    BY <1>13, NotBusy DEF RunnerCannotStop, Leave
  <1>14. ASSUME NEW a \in Attempt, RunnerGoesOn(a) PROVE BusyInv'
    <2>1. UNCHANGED <<def, busy>> /\ lockedBy = a /\ runner[a] = "after" /\ lockedBy' = a
      BY <1>14 DEF RunnerGoesOn, Holds
    <2>2. \A m \in Node : busy \in def.deps[m] => run.cps[m].st = "pending"
      BY <2>1, HolderIsAt DEF BusyInv
    <2>3. CASE MayRetry(def, run.cps, busy) /\ Goto(a, "retry")
      <3>1. run'.cps[busy].st = "pending" /\ OnlyNode(busy)
        <4>1. ~Goto(a, "end") /\ ~Goto(a, "pick")
          BY <2>3, Going
        <4>. QED BY <1>14, <4>1, GoesOnEffect
      <3>2. run.cps[busy].st \notin {"pending", "skipped"} /\ busy \in Node
        BY <2>3 DEF MayRetry, TypeOK
      <3>3. PassedBehind(busy) /\ def.deps[busy] \subseteq Node \ {busy}
        BY <2>2, <3>2, DefinitionParts DEF OrderInv
      <3>4. \A p \in def.deps[busy] : Seen(p)' = Seen(p)
        BY <2>1, <3>1, <3>3 DEF Seen, ToleratedFailure, OnlyNode
      <3>5. PassedBehind(busy)'
        BY <2>1, <3>3, <3>4 DEF PassedBehind
      <3>6. \A S : Held(S)' <=> "retry" \in S
        BY <2>1, <2>3, HeldAt
      <3>. QED BY <2>1, <3>1, <3>5, <3>6 DEF BusyInv
    <2>4. CASE Goto(a, "end") \/ Goto(a, "pick")
      BY <2>1, <2>4, NotBusy
    <2>. QED BY <1>14, <2>3, <2>4 DEF RunnerGoesOn
  <1>15. ASSUME NEW a \in Attempt, RunnerRetries(a) PROVE BusyInv'
    BY <1>15, NotBusy, RetriesEffect DEF Holds
  <1>16. ASSUME NEW a \in Attempt, RunnerEnds(a) PROVE BusyInv'
    BY <1>16, NotBusy, EndsEffect DEF Leave, Holds
  <1>17. ASSUME NEW a \in Attempt, RunnerRechecks(a) PROVE BusyInv'
    BY <1>17, NotBusy, RechecksEffect DEF Leave, Holds
  <1>18. ASSUME NEW a \in Attempt, RunnerDies(a) PROVE BusyInv'
    <2>1. UNCHANGED <<def, busy, run>> /\ Goto(a, "gone")
      BY <1>18 DEF RunnerDies
    <2>2. CASE lockedBy = a
      BY <1>18, <2>2, HeldByNone DEF RunnerDies, BusyInv
    <2>3. CASE lockedBy # a
      <3>1. UNCHANGED lockedBy /\ runner[a] \notin Locking
        BY <1>18, <2>3 DEF RunnerDies, LockInv
      <3>2. \A S : Held(S)' <=> Held(S)
        BY <2>1, <3>1, HeldByOther
      <3>. QED BY <2>1, <3>2, BusyKept DEF SameNodes
    <2>. QED BY <2>2, <2>3
  <1>19. ASSUME NEW s \in Session, LaunchStarts(s) PROVE BusyInv'
    <2>1. UNCHANGED <<def, busy, lockedBy, run>>
      BY <1>19 DEF LaunchStarts
    <2>2. CASE UNCHANGED runner
      BY <2>1, <2>2, BusyRests
    <2>3. ASSUME NEW a \in Attempt, job[a] = "none", Goto(a, "boot") PROVE BusyInv'
      <3>1. runner[a] \notin Locking
        BY <2>3 DEF ProcessInv, Locking
      <3>2. \A S : Held(S)' <=> Held(S)
        BY <2>1, <2>3, <3>1, HeldByOther
      <3>. QED BY <2>1, <3>2, BusyKept DEF SameNodes
    <2>. QED BY <1>19, <2>2, <2>3, StartsEffect
  <1>20. ASSUME NEW a \in Attempt, RunnerAborts(a) \/ JobEnds(a) \/ JobLost(a) PROVE
        BusyInv'
    BY <1>20, <1>1 DEF RunnerAborts, JobEnds, JobLost
  <1>21. ASSUME DeadlinePasses PROVE BusyInv'
    BY <1>21, <1>1 DEF DeadlinePasses, runnerVars
  <1>22. ASSUME NEW s \in Session, ReconcileMarksUnknown(s) \/ ReconcileParks(s) \/
        ReconcileMarksDead(s) \/ LaunchIntends(s) \/ CancelSettles(s) \/ TimesOutParked(s)
        PROVE BusyInv'
    <2>1. lockedBy' = 0
      BY <1>22 DEF ReconcileMarksUnknown, ReconcileParks, ReconcileMarksDead,
         LaunchIntends, StillOpen, CancelSettles, TimesOutParked, runnerVars
    <2>. QED BY <2>1, HeldByNone DEF BusyInv
  <1>23. ASSUME NEW s \in Session, ReconcileReads(s) \/ ReconcileSees(s) \/
        ReconcileMissed(s) \/ UserLaunches(s) \/ LaunchReads(s) \/ LaunchMissed(s) \/
        StartFails(s) \/ Decides(s) \/ DeciderLooks(s) \/
        CancelMarks(s) \/ ExpiryReads(s) \/ SessionDies(s) PROVE BusyInv'
    BY <1>23, <1>1 DEF ReconcileReads, ReconcileSees, ReconcileMissed, UserLaunches,
       LaunchReads, LaunchMissed, StartFails, Decides, DeciderLooks,
       CancelMarks, ExpiryReads, SessionDies, runnerVars, OnlySession, OnlyFault
  <1>. QED BY <1>1, <1>2, <1>3, <1>4, <1>5, <1>6, <1>7, <1>8, <1>9, <1>10, <1>11, <1>12,
       <1>13, <1>14, <1>15, <1>16, <1>17, <1>18, <1>19, <1>20, <1>21, <1>22, <1>23 DEF
       Next, RunnerStep, SessionStep, ReconcileStep, LaunchStep, vars, runnerVars

\* While a runner is alive the run is not pending, and not settled under its lock.
LEMMA AliveIsOpen ==
  ASSUME TypeOK, AttemptInv, ProcessInv, WorkInv, StatusInv, NEW a \in Attempt,
         runner[a] \notin {"none", "gone"}
  PROVE  run.status # "pending" /\ (lockedBy = a => run.status \notin TerminalRun)
  <1>1. run.attempt = a /\ a # 0
    BY AliveIsCurrent DEF Attempt
  <1>. QED BY <1>1 DEF StatusInv, WorkInv

\* A run that ends as passed has passed, skipped and tolerated nodes only.
LEMMA PassedMeans ==
  ASSUME NEW d, NEW cps, NEW cut \in {"no", "cancel", "deadline"},
         FinalStatus(d, cps, cut) = "passed"
  PROVE  \A n \in Node : cps[n].st \in {"passed", "skipped"} \/ ToleratedFailure(d, cps, n)
  <1>. DEFINE all == {cps[n].st : n \in {m \in Node : ~ToleratedFailure(d, cps, m)}}
  <1>1. all \subseteq {"passed", "skipped"}
    BY DEF FinalStatus
  <1>. QED BY <1>1

\* A step that leaves the record, or gives it another status than these two.
Restated == run' = run \/ run'.status \notin {"pending", "passed"}

\* A run becomes passed only when its runner ends it, and never pending again.
LEMMA StatusStep ==
  ASSUME TypeOK, AttemptInv, ProcessInv, WorkInv, StatusInv, [Next]_vars
  PROVE  StatusInv'
  <1>1. ASSUME UNCHANGED run PROVE Restated
    BY <1>1 DEF Restated
  <1>2. ASSUME NEW a \in Attempt, RunnerEnters(a) PROVE Restated
    <2>1. runner[a] = "boot" /\ run.status \notin TerminalRun
      BY <1>2 DEF RunnerEnters
    <2>. QED BY <1>2, <2>1, AliveIsOpen, EntersEffect DEF Restated, SameStatus, TerminalRun
  <1>3. ASSUME NEW a \in Attempt, Holds(a, "entered") \/ Holds(a, "pick") \/ Holds(a, "next")
               \/ Holds(a, "park") \/ Holds(a, "exec") \/ Holds(a, "after")
               \/ Holds(a, "retry"), SameStatus
        PROVE  Restated
    BY <1>3, AliveIsOpen DEF Restated, Holds, SameStatus, TerminalRun
  <1>4. ASSUME NEW a \in Attempt, RunnerGivesUp(a) PROVE Restated
    <2>1. \E n \in Node : run' = [run EXCEPT !.status = run.cps[n].st]
                          /\ run.cps[n].st \in Broken
      <3>1. CASE \E n \in BrokenNodes : EndWith(a, n)
        BY <3>1 DEF BrokenNodes, Broken, EndWith
      <3>2. CASE Holds(a, "ending") /\ EndWith(a, busy)
        <4>1. a # 0 /\ busy \in Node
          BY DEF Attempt, TypeOK
        <4>. QED BY <3>2, <4>1 DEF EndWith, Holds, Held, WorkInv
      <3>. QED BY <1>4, <3>1, <3>2 DEF RunnerGivesUp
    <2>2. \A st \in Broken : st \in RunStatus
      BY DEF Broken, RunStatus, TerminalRun
    <2>. QED BY <2>1, <2>2, SettingStatus DEF Restated, Broken
  <1>5. ASSUME NEW a \in Attempt, RunnerRuns(a) PROVE Restated
    BY <1>5, RunsEffect DEF Restated
  <1>6. ASSUME NEW a \in Attempt, RunnerStopsJob(a) PROVE Restated
    BY <1>3, <1>6, StopsJobEffect
  <1>7. ASSUME NEW a \in Attempt, RunnerChecks(a) PROVE Restated
    BY <1>3, <1>7, ChecksEffect
  <1>8. ASSUME NEW a \in Attempt, RunnerSkips(a) PROVE Restated
    BY <1>3, <1>8, SkipsEffect
  <1>9. ASSUME NEW a \in Attempt, RunnerDispatches(a) PROVE Restated
    BY <1>3, <1>9, DispatchesEffect
  <1>10. ASSUME NEW a \in Attempt, RunnerParks(a) PROVE Restated
    BY <1>3, <1>10, ParksEffect
  <1>11. ASSUME NEW a \in Attempt, RunnerSettlesNode(a) PROVE Restated
    BY <1>3, <1>11, SettlesEffect
  <1>12. ASSUME NEW a \in Attempt, RunnerGoesOn(a) PROVE Restated
    BY <1>3, <1>12, GoesOnEffect
  <1>13. ASSUME NEW a \in Attempt, RunnerRetries(a) PROVE Restated
    BY <1>3, <1>13, RetriesEffect
  <1>14. ASSUME NEW a \in Attempt, RunnerEnds(a) PROVE StatusInv'
    <2>. DEFINE st == FinalStatus(def, run.cps, abort)
    <2>1. st \in TerminalRun \cup {"waiting_approval"} /\ UNCHANGED def
          /\ run' = [run EXCEPT !.status = st]
      BY <1>14, FinalEffect DEF TypeOK, RunnerEnds
    <2>2. st = "passed" => \A n \in Node :
            run.cps[n].st \in {"passed", "skipped"} \/ ToleratedFailure(def, run.cps, n)
      BY PassedMeans DEF TypeOK
    <2>. HIDE DEF st
    <2>3. st \in RunStatus /\ st # "pending"
      BY <2>1 DEF RunStatus, TerminalRun
    <2>4. run'.status = st /\ run'.cps = run.cps
      BY <2>1, <2>3, SettingStatus DEF SameNodes
    <2>. QED BY <2>1, <2>2, <2>3, <2>4 DEF StatusInv, ToleratedFailure
  <1>15. ASSUME NEW a \in Attempt, RunnerRechecks(a) PROVE Restated
    <2>1. \A st \in {"failed", "running"} : \A cps :
            run' = [run EXCEPT !.cps = cps, !.status = st] => run'.status = st
      BY DEF TypeOK, Run
    <2>. QED BY <1>15, <2>1 DEF RunnerRechecks, Restated
  <1>16. ASSUME NEW s \in Session, ReconcileMarksUnknown(s) PROVE Restated
    BY <1>16, UnknownEffect DEF Restated
  <1>17. ASSUME NEW s \in Session, ReconcileParks(s) PROVE Restated
    BY <1>17, ReconcileParksEffect DEF Restated
  <1>18. ASSUME NEW s \in Session, ReconcileMarksDead(s) PROVE Restated
    BY <1>18, DeadEffect DEF Restated
  <1>19. ASSUME NEW s \in Session, LaunchIntends(s) PROVE Restated
    BY <1>19, IntendsEffect DEF Restated
  <1>20. ASSUME NEW s \in Session, CancelSettles(s) PROVE Restated
    BY <1>20, CancelEffect DEF Restated, WorkInv
  <1>21. ASSUME NEW s \in Session, TimesOutParked(s) PROVE Restated
    BY <1>21, ExpiryEffect DEF Restated
  <1>22. ASSUME NEW a \in Attempt, RunnerTurnsAway(a) \/ RunnerAborts(a) \/
        RunnerFindsNone(a) \/ RunnerCannotStop(a) \/ RunnerDies(a) \/ JobEnds(a) \/
        JobLost(a) PROVE Restated
    BY <1>22 DEF Restated, RunnerTurnsAway, RunnerAborts, RunnerFindsNone,
       RunnerCannotStop, RunnerDies, JobEnds, JobLost
  <1>23. ASSUME DeadlinePasses PROVE Restated
    BY <1>23 DEF Restated, DeadlinePasses
  <1>24. ASSUME NEW s \in Session, ReconcileReads(s) \/ ReconcileSees(s) \/
        ReconcileMissed(s) \/ UserLaunches(s) \/ LaunchReads(s) \/ LaunchMissed(s) \/
        StartFails(s) \/ LaunchStarts(s) \/ Decides(s) \/ DeciderLooks(s) \/
        CancelMarks(s) \/ ExpiryReads(s) \/ SessionDies(s) PROVE Restated
    BY <1>24 DEF Restated, ReconcileReads, ReconcileSees, ReconcileMissed, UserLaunches,
       LaunchReads, LaunchMissed, StartFails, LaunchStarts, Decides, DeciderLooks,
       CancelMarks, ExpiryReads, SessionDies, OnlySession, OnlyFault
  <1>25. Restated => StatusInv'
    <2>1. UNCHANGED def
      BY DefStays
    <2>. QED BY <2>1 DEF Restated, StatusInv, ToleratedFailure
  <1>. QED BY <1>1, <1>2, <1>4, <1>5, <1>6, <1>7, <1>8, <1>9, <1>10, <1>11, <1>12,
       <1>13, <1>14, <1>15, <1>16, <1>17, <1>18, <1>19, <1>20, <1>21, <1>22, <1>23, <1>24,
       <1>25 DEF
       Next, RunnerStep, SessionStep, ReconcileStep, LaunchStep, vars, runnerVars

\* The further invariant holds initially.
LEMMA NodesInitially ==
  Init => NodeInv
  <1>. SUFFICES ASSUME Init PROVE NodeInv
    OBVIOUS
  <1>1. \A n \in Node : run.cps[n].st = "pending"
    BY DEF Init, Fresh
  <1>2. \A S : ~Held(S)
    BY DEF Held, Init
  <1>3. run.status = "pending" /\ run.attempt = 0
    BY DEF Init
  <1>4. OrderInv /\ KindInv /\ ReachedInv
    BY <1>1 DEF OrderInv, KindInv, ReachedInv
  <1>5. BusyInv /\ StatusInv
    BY <1>1, <1>2, <1>3 DEF BusyInv, StatusInv
  <1>. QED BY <1>4, <1>5 DEF NodeInv

\* Every step preserves it.
LEMMA NodesStay ==
  IInv /\ IInv' /\ NodeInv /\ [Next]_vars => NodeInv'
  <1>. SUFFICES ASSUME IInv, IInv', NodeInv, [Next]_vars PROVE NodeInv'
    OBVIOUS
  <1>. USE DEF IInv, NodeInv
  <1>1. Moved /\ UNCHANGED def
    BY NodesMove, DefStays
  <1>2. OrderInv' /\ KindInv' /\ ReachedInv'
    BY <1>1, OrderKept, KindKept, ReachedKept
  <1>3. BusyInv' /\ StatusInv'
    BY BusyStep, StatusStep
  <1>. QED BY <1>2, <1>3

\* The further invariant holds.
THEOREM NodesAreInOrder == Spec => []NodeInv
  BY InvariantHolds, NodesInitially, NodesStay, PTL DEF Spec

\* Whatever is saved of the run, by a runner, a reconciliation or a cancel, and
\* wherever its process dies, the store reads it back, if every gate of every
\* definition is always reached.
THEOREM CheckpointsReadBack ==
  ASSUME \A d \in Definitions : GatesAreReached(d)
  PROVE  Spec => []CheckpointReadable
  <1>1. IInv /\ NodeInv => CheckpointReadable
    <2>. SUFFICES ASSUME IInv, NodeInv PROVE CheckpointReadable
      OBVIOUS
    <2>. USE DEF IInv, NodeInv
    <2>1. \A n \in Node : def.type[n] = "approval" => run.cps[n].st # "skipped"
      <3>1. def \in Definitions
        BY DEF TypeOK
      <3>2. PICK U \in SUBSET Node :
              (\A n \in Node : def.type[n] = "approval" => n \in U) /\ AlwaysReached(def, U)
        BY <3>1 DEF GatesAreReached
      <3>. QED BY <3>2 DEF ReachedInv
    <2>2. ASSUME NEW n \in Node
          PROVE  /\ def.type[n] = "approval" =>
                      run.cps[n].st \in {"pending", "waiting_approval", "passed", "failed",
                                         "cancelled"}
                 /\ def.type[n] = "job" => run.cps[n].st # "waiting_approval"
                 /\ run.cps[n].try \in 1..def.maxTry[n]
      <3>1. run.cps[n].st \in NodeStatus /\ run.cps[n].try \in Nat \ {0}
            /\ run.cps[n].try <= def.maxTry[n] /\ def.maxTry[n] \in Nat
        BY Fields DEF Checkpoint
      <3>. QED BY <2>1, <3>1 DEF GateInv, KindInv, NodeStatus
    <2>3. ASSUME NEW n \in Node
          PROVE  LET Behind == {IF ToleratedFailure(def, run.cps, p) THEN "passed"
                                ELSE run.cps[p].st : p \in def.deps[n]}
                 IN /\ run.cps[n].st = "skipped" =>
                         Behind \subseteq {"passed", "skipped"}
                                  \cup (IF def.strict THEN {} ELSE Broken)
                    /\ run.cps[n].st \notin {"pending", "skipped"} =>
                         Behind \subseteq {"passed"}
      BY DEF OrderInv, PassedBehind, SettledBehind, Seen
    <2>4. NodesAccepted(def, run.cps)
      BY <2>2, <2>3 DEF NodesAccepted
    <2>5. Cardinality(Running) <= 1
      <3>1. Running = {} \/ \E n \in Node : Running = {n}
        BY DEF WorkInv, Running
      <3>. QED BY <3>1, FS_EmptySet, FS_Singleton
    <2>. QED BY <2>4, <2>5 DEF CheckpointReadable, ReadAccepts, StatusInv, Running
  <1>. QED BY <1>1, InvariantHolds, NodesAreInOrder, PTL

=============================================================================
