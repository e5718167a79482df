---------------------------- MODULE WorkflowRun ----------------------------
(* One background workflow run.  A runner process (one supervised job per   *)
(* attempt) holds the run lock and executes the nodes; the checkpoint file, *)
(* the decision inbox and the cancel marker are the only things that        *)
(* survive it.  Sessions (CLI, TUI, schedule tick) read the checkpoint      *)
(* without the lock and launch, reconcile, decide, cancel or time out the   *)
(* run from what they read.  Runners and sessions may die between any two   *)
(* steps.  A step that takes the run lock, writes and releases it is one    *)
(* action guarded by the lock being free: FileLock shows what that needs.   *)
(* The coordinator starts a request id at most once, as Admission promises. *)
EXTENDS WorkflowNodes

CONSTANTS
  Session,        \* processes that control runs
  Definitions,    \* the workflow definitions a run may be created from
  MaxAttempts,    \* bound: runner attempts the model looks at
  MaxRelaunches,  \* MAX_RUNNER_RELAUNCHES
  MaxFaults,      \* bound: processes that die and starts that fail
  CanLose         \* whether the coordinator may lose sight of a runner

Attempt == 1..MaxAttempts

ASSUME WorkflowAssumption ==
  /\ MaxAttempts \in Nat \ {0} /\ MaxRelaunches \in Nat /\ MaxFaults \in Nat
  /\ CanLose \in BOOLEAN
  /\ Definitions \subseteq Definition /\ Node # {}

VARIABLES
  def,        \* the definition, fixed when the run is created
  run,        \* the checkpoint file: status, runner link and nodes
  dec,        \* the decision files
  cancelRequested,  \* the .cancel marker
  late,       \* the run's deadline has passed
  lockedBy,   \* the attempt whose runner holds the run lock, 0 when free
  job,        \* attempt -> state of the runner job at the coordinator
  runner,     \* attempt -> where its process is
  busy,       \* the node the lock holder works on
  abort,      \* why the lock holder's work is being cut short
  ses,        \* session -> where it is and what it read
  faults,
  interrupted \* history: tools cut off in mid-work and not approved since

vars == <<def, run, dec, cancelRequested, late, lockedBy, job, runner, busy, abort,
          ses, faults, interrupted>>
runnerVars == <<lockedBy, job, runner, busy, abort, faults, interrupted>>

TerminalRun == {"passed", "failed", "cancelled", "timed_out"}
RunStatus == TerminalRun \cup
             {"pending", "queued", "running", "waiting_approval", "interrupted"}

Idle == [pc |-> "idle", att |-> 0, st |-> "pending", unc |-> FALSE]

Init ==
  /\ def \in Definitions
  /\ run = [status |-> "pending", attempt |-> 0, relaunches |-> 0,
            cps |-> [n \in Node |-> Fresh]]
  /\ dec = [n \in Node |-> "none"]
  /\ cancelRequested = FALSE /\ late = FALSE
  /\ lockedBy = 0
  /\ job = [a \in Attempt |-> "none"]
  /\ runner = [a \in Attempt |-> "none"]
  /\ busy = (CHOOSE n \in Node : TRUE) /\ abort = "no"
  /\ ses = [s \in Session |-> Idle]
  /\ faults = 0
  /\ interrupted = [n \in Node |-> FALSE]

JobOf(a) == IF a = 0 THEN "none" ELSE job[a]

Running == {n \in Node : run.cps[n].st = "running"}

-----------------------------------------------------------------------------
(* The runner: executeRun and runScope.                                     *)

Holds(a, where) == lockedBy = a /\ runner[a] = where
Goto(a, where) == runner' = [runner EXCEPT ![a] = where]
Leave(a) == lockedBy' = 0 /\ Goto(a, "gone")
SaveNodes(cps) == run' = [run EXCEPT !.cps = cps]
SetNode(n, cp) == SaveNodes([run.cps EXCEPT ![n] = cp])

\* The run is already settled, or another writer keeps the lock: nothing to do.
RunnerTurnsAway(a) ==
  /\ runner[a] = "boot"
  /\ lockedBy # 0 \/ run.status \in TerminalRun
  /\ Goto(a, "gone")
  /\ UNCHANGED <<def, run, dec, cancelRequested, late, lockedBy, job, busy, abort, ses,
                 faults, interrupted>>

\* Take stock of what the last runner left, apply what was decided meanwhile.
RunnerEnters(a) ==
  /\ runner[a] = "boot" /\ lockedBy = 0 /\ run.status \notin TerminalRun
  /\ dec' = AskUncertain(def, run.cps, dec)
  /\ LET cps == ApplyDecisions(def, Normalized(def, run.cps), dec')
     IN SaveNodes(cps)
  /\ lockedBy' = a /\ abort' = "no"
  /\ Goto(a, "entered")
  /\ UNCHANGED <<def, cancelRequested, late, job, busy, ses, faults, interrupted>>

BrokenNodes ==
  {n \in Node : \/ run.cps[n].st = "cancelled"
                \/ def.strict /\ run.cps[n].st \in {"failed", "timed_out"}
                              /\ ~ToleratedFailure(def, run.cps, n)}

\* An earlier failure ends the run, after the job that is still running is
\* stopped; a stop that cannot be confirmed leaves the run as it is.
RunnerStopsJob(a) ==
  /\ Holds(a, "entered")
  /\ \E n \in Running, b \in BrokenNodes :
       \/ /\ \E out \in {"passed", "failed", "cancelled"} :
               SetNode(n, [run.cps[n] EXCEPT !.st = out])
          /\ busy' = b /\ Goto(a, "ending") /\ UNCHANGED lockedBy
       \/ Leave(a) /\ UNCHANGED <<run, busy>>
  /\ UNCHANGED <<def, dec, cancelRequested, late, job, abort, ses, faults, interrupted>>

EndWith(a, n) == run' = [run EXCEPT !.status = run.cps[n].st] /\ Leave(a)

\* Mutant: the run ends while its job runs on.
RunnerGivesUpAtOnce(a) ==
  /\ \/ Holds(a, "entered") /\ \E n \in BrokenNodes : EndWith(a, n)
     \/ Holds(a, "ending") /\ EndWith(a, busy)
  /\ UNCHANGED <<def, dec, cancelRequested, late, job, busy, abort, ses, faults, interrupted>>

RunnerGivesUp(a) ==
  /\ \/ Holds(a, "entered") /\ Running = {} /\ \E n \in BrokenNodes : EndWith(a, n)
     \/ Holds(a, "ending") /\ EndWith(a, busy)
  /\ UNCHANGED <<def, dec, cancelRequested, late, job, busy, abort, ses, faults, interrupted>>

\* The run is running; a job that was running is reattached first.
RunnerRuns(a) ==
  /\ Holds(a, "entered") /\ BrokenNodes = {}
  /\ run' = [run EXCEPT !.status = "running"]
  /\ \/ Running = {} /\ Goto(a, "pick") /\ UNCHANGED busy
     \/ busy' \in Running /\ Goto(a, "exec")
  /\ UNCHANGED <<def, dec, cancelRequested, late, lockedBy, job, abort, ses, faults,
                 interrupted>>

\* The poller sees the cancel marker, or the deadline timer fires.
RunnerAborts(a) ==
  /\ lockedBy = a /\ runner[a] # "entered"
  /\ \/ cancelRequested /\ abort = "no" /\ abort' = "cancel"
     \/ late /\ abort # "deadline" /\ abort' = "deadline"
  /\ UNCHANGED <<def, run, dec, cancelRequested, late, lockedBy, job, runner, busy, ses,
                 faults, interrupted>>

\* Between two nodes: the marker, and decisions the poller may have noticed.
RunnerChecks(a) ==
  /\ Holds(a, "pick")
  /\ \/ /\ abort # "no" \/ cancelRequested
        /\ abort' = IF abort = "no" THEN "cancel" ELSE abort
        /\ Goto(a, "end") /\ UNCHANGED run
     \/ /\ abort = "no" /\ ~cancelRequested
        /\ UNCHANGED <<abort, run>> /\ Goto(a, "next")
     \/ /\ abort = "no" /\ ~cancelRequested /\ Unapplied(run.cps, dec) # {}
        /\ LET cps == ApplyDecisions(def, run.cps, dec)
           IN /\ SaveNodes(cps)
              /\ Goto(a, IF FailureStops(def, cps) THEN "end" ELSE "next")
        /\ UNCHANGED abort
  /\ UNCHANGED <<def, dec, cancelRequested, late, lockedBy, job, busy, ses, faults,
                 interrupted>>

RunnerFindsNone(a) ==
  /\ Holds(a, "next")
  /\ BrokenStops(def, run.cps) \/ ReadyNodes(def, run.cps) = {}
  /\ Goto(a, "end")
  /\ UNCHANGED <<def, run, dec, cancelRequested, late, lockedBy, job, busy, abort, ses,
                 faults, interrupted>>

RunnerSkips(a) ==
  /\ Holds(a, "next") /\ ~BrokenStops(def, run.cps)
  /\ \E n \in ReadyNodes(def, run.cps) :
       /\ Skipped(def, run.cps, n) \/ n \in def.when
       /\ SetNode(n, [run.cps[n] EXCEPT !.st = "skipped"])
  /\ Goto(a, "pick")
  /\ UNCHANGED <<def, dec, cancelRequested, late, lockedBy, job, busy, abort, ses, faults,
                 interrupted>>

\* The running checkpoint is durable before the work can start; a gate only
\* files its decision, which others can answer at once.
RunnerDispatches(a) ==
  /\ Holds(a, "next") /\ ~BrokenStops(def, run.cps)
  /\ \E n \in ReadyNodes(def, run.cps) :
       /\ ~Skipped(def, run.cps, n)
       /\ busy' = n
       /\ IF def.type[n] = "approval"
          THEN /\ dec' = [dec EXCEPT ![n] = IF @ = "none" THEN "asked" ELSE @]
               /\ Goto(a, "park") /\ UNCHANGED run
          ELSE /\ SetNode(n, [run.cps[n] EXCEPT !.st = "running"])
               /\ Goto(a, "exec") /\ UNCHANGED dec
  /\ UNCHANGED <<def, cancelRequested, late, lockedBy, job, abort, ses, faults, interrupted>>

RunnerParks(a) ==
  /\ Holds(a, "park")
  /\ SetNode(busy, [run.cps[busy] EXCEPT !.st = "waiting_approval"])
  /\ Goto(a, "pick")
  /\ UNCHANGED <<def, dec, cancelRequested, late, lockedBy, job, busy, abort, ses, faults,
                 interrupted>>

\* What the work of a node can come to.
Outcomes(n) ==
  LET cut == IF abort = "deadline" THEN "timed_out" ELSE "cancelled"
      done(st, unsure) == [run.cps[n] EXCEPT !.st = st, !.unsure = unsure]
  IN IF def.type[n] = "job"
     THEN {done("passed", FALSE), done("failed", FALSE), done("failed", TRUE), done(cut, FALSE)}
     ELSE IF abort = "no" THEN {done("passed", FALSE), done("failed", FALSE)}
                          ELSE {done(cut, FALSE)}

RunnerSettlesNode(a) ==
  /\ Holds(a, "exec")
  /\ \E cp \in Outcomes(busy) : SetNode(busy, cp)
  /\ Goto(a, "after")
  /\ UNCHANGED <<def, dec, cancelRequested, late, lockedBy, job, busy, abort, ses, faults,
                 interrupted>>

\* The stop of a job could not be confirmed: it stays running, the runner ends.
RunnerCannotStop(a) ==
  /\ Holds(a, "exec") /\ abort # "no" /\ def.type[busy] = "job"
  /\ Leave(a)
  /\ UNCHANGED <<def, run, dec, cancelRequested, late, job, busy, abort, ses, faults,
                 interrupted>>

RunnerGoesOn(a) ==
  /\ Holds(a, "after")
  /\ LET cp == run.cps[busy]
         stop == /\ cp.st # "passed" /\ ~ToleratedFailure(def, run.cps, busy)
                 /\ def.strict \/ cp.st \notin {"failed", "timed_out"}
     IN IF abort = "no" /\ MayRetry(def, run.cps, busy)
        THEN /\ SetNode(busy, [Fresh EXCEPT !.try = cp.try + 1])
             /\ Goto(a, "retry")
        ELSE /\ Goto(a, IF stop THEN "end" ELSE "pick")
             /\ UNCHANGED run
  /\ UNCHANGED <<def, dec, cancelRequested, late, lockedBy, job, busy, abort, ses, faults,
                 interrupted>>

\* After the backoff the same node starts again, unless the run was aborted.
RunnerRetries(a) ==
  /\ Holds(a, "retry")
  /\ \/ /\ abort = "no"
        /\ SetNode(busy, [run.cps[busy] EXCEPT !.st = "running"])
        /\ Goto(a, "exec")
     \/ abort # "no" /\ Goto(a, "end") /\ UNCHANGED run
  /\ UNCHANGED <<def, dec, cancelRequested, late, lockedBy, job, busy, abort, ses, faults,
                 interrupted>>

\* The derived status is saved; only a parked run keeps the lock to look again.
RunnerEnds(a) ==
  /\ Holds(a, "end")
  /\ LET st == FinalStatus(def, run.cps, abort)
     IN /\ run' = [run EXCEPT !.status = st]
        /\ IF st = "waiting_approval" THEN Goto(a, "recheck") /\ UNCHANGED lockedBy
                                      ELSE Leave(a)
  /\ UNCHANGED <<def, dec, cancelRequested, late, job, busy, abort, ses, faults, interrupted>>

\* A decision filed before the park was durable is applied now.
RunnerRechecks(a) ==
  /\ Holds(a, "recheck")
  /\ LET cps == ApplyDecisions(def, run.cps, dec)
     IN IF Unapplied(run.cps, dec) = {} THEN Leave(a) /\ UNCHANGED run
        ELSE /\ run' = [run EXCEPT !.cps = cps,
                          !.status = IF FailureStops(def, cps) THEN "failed" ELSE "running"]
             /\ IF FailureStops(def, cps) THEN Leave(a)
                                          ELSE Goto(a, "pick") /\ UNCHANGED lockedBy
  /\ UNCHANGED <<def, dec, cancelRequested, late, job, busy, abort, ses, faults, interrupted>>

Fault == faults < MaxFaults /\ faults' = faults + 1

RunnerDies(a) ==
  /\ runner[a] \notin {"none", "gone"} /\ Fault
  /\ Goto(a, "gone")
  /\ IF lockedBy = a
     THEN /\ lockedBy' = 0
          /\ interrupted' = [n \in Node |->
               interrupted[n] \/ (def.type[n] = "tool" /\ run.cps[n].st = "running")]
     ELSE UNCHANGED <<lockedBy, interrupted>>
  /\ UNCHANGED <<def, run, dec, cancelRequested, late, job, busy, abort, ses>>

\* The supervisor publishes the end of the runner, also when it was given up.
JobEnds(a) ==
  /\ job[a] \in {"live", "uncertain"} /\ runner[a] = "gone"
  /\ job' = [job EXCEPT ![a] = "terminal"]
  /\ UNCHANGED <<def, run, dec, cancelRequested, late, lockedBy, runner, busy, abort, ses,
                 faults, interrupted>>

JobLost(a) ==
  /\ CanLose /\ job[a] = "live"
  /\ job' = [job EXCEPT ![a] = "uncertain"]
  /\ UNCHANGED <<def, run, dec, cancelRequested, late, lockedBy, runner, busy, abort, ses,
                 faults, interrupted>>

DeadlinePasses ==
  /\ def.deadline /\ ~late /\ run.attempt > 0 /\ run.status \notin TerminalRun
  /\ late' = TRUE
  /\ UNCHANGED <<def, run, dec, cancelRequested, runnerVars, ses>>

-----------------------------------------------------------------------------
(* The sessions: reconcileRun, launchRun, decideRunDecision, cancelRun.     *)

To(s, pc) == ses' = [ses EXCEPT ![s] = [Idle EXCEPT !.pc = pc]]
Done(s) == ses' = [ses EXCEPT ![s] = Idle]
OnlySession == UNCHANGED <<def, run, dec, cancelRequested, late, runnerVars>>

\* Mutant: a parked run waits for its decider only.
ClaimsToRun == run.status \in {"running", "queued"}

MayNeedRunner ==
  \/ run.status \in {"running", "queued"}
  \/ run.status = "waiting_approval" /\ Unapplied(run.cps, dec) # {}

\* Reconcile reads the run; only what may need a runner is looked at further.
ReconcileReads(s) ==
  /\ ses[s].pc = "idle" /\ run.attempt > 0 /\ MayNeedRunner
  /\ ses' = [ses EXCEPT ![s] =
               [pc |-> "judge", att |-> run.attempt, st |-> run.status,
                unc |-> \E n \in Node : Uncertain(def, run.cps, n)]]
  /\ OnlySession

\* Then it looks the runner job up.  A live one is left alone; a decided or a
\* never started run goes to launch; the rest is marked under the lock.
ReconcileSees(s) ==
  /\ ses[s].pc = "judge"
  /\ LET j == JobOf(ses[s].att)
         next == CASE j = "live" -> "idle"
                   [] ses[s].st = "waiting_approval" -> "launch"
                   [] ses[s].st = "queued" /\ j = "none" -> "launch"
                   [] ses[s].st \in {"running", "queued"} /\ j = "uncertain" -> "unknown"
                   [] OTHER -> IF ses[s].unc THEN "outcome" ELSE "dead"
     IN CASE next = "idle" -> Done(s)
          [] next = "launch" -> To(s, "launch")
          [] OTHER -> ses' = [ses EXCEPT ![s] = [Idle EXCEPT !.pc = next, !.att = ses[s].att]]
  /\ OnlySession

\* Only the attempt that was judged, and only while it still claims to run.
StillJudged(s) == run.attempt = ses[s].att /\ run.status \in {"running", "queued"}

\* The lock is held, or the run moved on since it was read, or no tool's
\* outcome is uncertain any more.
ReconcileMissed(s) ==
  /\ ses[s].pc \in {"unknown", "outcome", "dead"}
  /\ \/ lockedBy # 0 \/ ~StillJudged(s)
     \/ ses[s].pc = "outcome" /\ \A n \in Node : ~Uncertain(def, run.cps, n)
  /\ Done(s) /\ OnlySession

\* The runner may still be alive: interrupted, and nobody starts another one.
ReconcileMarksUnknown(s) ==
  /\ ses[s].pc = "unknown" /\ lockedBy = 0 /\ StillJudged(s)
  /\ run' = [run EXCEPT !.status = "interrupted"]
  /\ Done(s)
  /\ UNCHANGED <<def, dec, cancelRequested, late, runnerVars>>

\* The dead runner left a tool running: its outcome is asked for.
ReconcileParks(s) ==
  /\ ses[s].pc = "outcome" /\ lockedBy = 0 /\ StillJudged(s)
  /\ LET unsure == {n \in Node : Uncertain(def, run.cps, n)}
     IN /\ unsure # {}
        /\ run' = [run EXCEPT !.status = "waiting_approval",
                     !.cps = [n \in Node |->
                        IF n \in unsure THEN [run.cps[n] EXCEPT !.st = "waiting_approval"]
                                         ELSE run.cps[n]]]
        /\ dec' = AskUncertain(def, run.cps, dec)
  /\ Done(s)
  /\ UNCHANGED <<def, cancelRequested, late, runnerVars>>

\* Interrupted; below the bound with the next attempt reserved for a launch.
ReconcileMarksDead(s) ==
  /\ ses[s].pc = "dead" /\ lockedBy = 0 /\ StillJudged(s)
  /\ run.attempt < MaxAttempts
  /\ IF run.relaunches < MaxRelaunches
     THEN /\ run' = [run EXCEPT !.status = "interrupted", !.attempt = @ + 1,
                                !.relaunches = @ + 1]
          /\ To(s, "launch")
     ELSE run' = [run EXCEPT !.status = "interrupted"] /\ Done(s)
  /\ UNCHANGED <<def, dec, cancelRequested, late, runnerVars>>

UserLaunches(s) ==
  /\ ses[s].pc = "idle" /\ run.status \notin TerminalRun
  /\ To(s, "launch")
  /\ OnlySession

\* Mutant: an uncertain runner is taken for dead.
KnownToRun == {"live"}

MayStillRun == {"live", "uncertain"}

\* launchRun decides from an unlocked read of the run and of its runner job.
LaunchReads(s) ==
  /\ ses[s].pc = "launch"
  /\ LET j == JobOf(run.attempt)
         attach == \/ run.status \in TerminalRun \/ j \in MayStillRun
                   \/ j # "none" /\ run.status \in {"running", "queued"}
     IN IF attach THEN Done(s)
        ELSE ses' = [ses EXCEPT ![s] = [Idle EXCEPT !.pc = "intent",
                               !.att = IF j = "none" THEN 0 ELSE run.attempt + 1]]
  /\ OnlySession

\* Mutant: the end of the run since it was read goes unnoticed.
UnlockedSince == lockedBy = 0

StillOpen == lockedBy = 0 /\ run.status \notin TerminalRun

\* Status and attempt are durable before any start.
LaunchIntends(s) ==
  /\ ses[s].pc = "intent" /\ StillOpen /\ ses[s].att <= MaxAttempts
  /\ LET next == IF ses[s].att # 0 /\ run.attempt = ses[s].att - 1 THEN ses[s].att
                 ELSE IF run.attempt = 0 THEN 1 ELSE run.attempt
     IN /\ run' = [run EXCEPT !.status = "queued", !.attempt = next]
        /\ ses' = [ses EXCEPT ![s].pc = "start", ![s].att = next]
  /\ UNCHANGED <<def, dec, cancelRequested, late, runnerVars>>

\* The lock is held or the run has ended (or the model's attempts are used up).
LaunchMissed(s) ==
  /\ ses[s].pc = "intent"
  /\ ~StillOpen \/ ses[s].att > MaxAttempts
  /\ Done(s) /\ OnlySession

OnlyFault == UNCHANGED <<def, run, dec, cancelRequested, late, lockedBy, job, runner, busy,
                         abort, interrupted>>

\* The pool is full, or the coordinator refuses: the run stays queued.
StartFails(s) == ses[s].pc = "start" /\ Fault /\ Done(s) /\ OnlyFault

\* The request id of an attempt starts once.
LaunchStarts(s) ==
  /\ ses[s].pc = "start"
  /\ LET a == ses[s].att
     IN IF job[a] = "none"
        THEN /\ job' = [job EXCEPT ![a] = "live"]
             /\ runner' = [runner EXCEPT ![a] = "boot"]
        ELSE UNCHANGED <<job, runner>>
  /\ Done(s)
  /\ UNCHANGED <<def, run, dec, cancelRequested, late, lockedBy, busy, abort, faults,
                 interrupted>>

\* Mutant: the decision file is overwritten by a later decider.
Askable(n) == dec[n] # "none"

Undecided(n) == dec[n] = "asked"

\* The decision file is created once; the winner sees to the relaunch.
Decides(s) ==
  /\ ses[s].pc = "idle" /\ run.status \notin TerminalRun
  /\ \E n \in Node, verdict \in {"approve", "deny"} :
       /\ Undecided(n)
       /\ dec' = [dec EXCEPT ![n] = verdict]
       /\ interrupted' = [interrupted EXCEPT ![n] = @ /\ verdict = "deny"]
  /\ To(s, "decided")
  /\ UNCHANGED <<def, run, cancelRequested, late, lockedBy, job, runner, busy, abort, faults>>

\* While a parking runner is alive the decider waits, up to a time limit.
DeciderLooks(s) ==
  /\ ses[s].pc = "decided"
  /\ IF JobOf(run.attempt) = "live" THEN Done(s)
     ELSE IF run.status \in TerminalRun \/ run.attempt = 0 THEN Done(s)
     ELSE To(s, "launch")
  /\ OnlySession

CancelMarks(s) ==
  /\ ses[s].pc = "idle" /\ run.status \notin TerminalRun
  /\ cancelRequested' = TRUE
  /\ To(s, "cancel")
  /\ UNCHANGED <<def, run, dec, late, runnerVars>>

\* Under the lock: an interrupted agent has stopped, a job is stopped and its
\* outcome kept, work of unknown outcome is never claimed stopped.
CancelSettles(s) ==
  /\ ses[s].pc = "cancel" /\ lockedBy = 0
  /\ \/ /\ \A n \in Running : ~Uncertain(def, run.cps, n)
        /\ \E out \in {"passed", "failed", "cancelled"} :
             run' = [run EXCEPT
               !.status = IF @ \in TerminalRun THEN @ ELSE "cancelled",
               !.cps = [n \in Node |->
                  IF n \notin Running THEN run.cps[n]
                  ELSE [run.cps[n] EXCEPT !.st = IF def.type[n] = "job" THEN out
                                                 ELSE "cancelled"]]]
     \/ (\E n \in Running : ~RetriesOnResume(def, n)) /\ UNCHANGED run
  /\ Done(s)
  /\ UNCHANGED <<def, dec, cancelRequested, late, runnerVars>>

\* A parked run whose deadline passed can never resume within its budget.  Its
\* runner is looked up before the lock is taken.
ExpiryReads(s) ==
  /\ ses[s].pc = "idle" /\ late /\ run.status = "waiting_approval"
  /\ JobOf(run.attempt) \in {"none", "terminal"}
  /\ To(s, "expire")
  /\ OnlySession

TimesOutParked(s) ==
  /\ ses[s].pc = "expire" /\ lockedBy = 0
  /\ run' = [run EXCEPT !.status = IF @ = "waiting_approval" THEN "timed_out" ELSE @]
  /\ Done(s)
  /\ UNCHANGED <<def, dec, cancelRequested, late, runnerVars>>

SessionDies(s) == ses[s].pc # "idle" /\ Fault /\ Done(s) /\ OnlyFault

-----------------------------------------------------------------------------
RunnerStep(a) ==
  \/ RunnerTurnsAway(a) \/ RunnerEnters(a) \/ RunnerStopsJob(a) \/ RunnerGivesUp(a)
  \/ RunnerRuns(a) \/ RunnerChecks(a) \/ RunnerFindsNone(a) \/ RunnerSkips(a)
  \/ RunnerDispatches(a) \/ RunnerParks(a) \/ RunnerSettlesNode(a) \/ RunnerCannotStop(a)
  \/ RunnerGoesOn(a) \/ RunnerRetries(a) \/ RunnerEnds(a) \/ RunnerRechecks(a)

ReconcileStep(s) ==
  \/ ReconcileSees(s) \/ ReconcileMissed(s) \/ ReconcileMarksUnknown(s)
  \/ ReconcileParks(s) \/ ReconcileMarksDead(s)

LaunchStep(s) ==
  LaunchReads(s) \/ LaunchIntends(s) \/ LaunchMissed(s) \/ LaunchStarts(s)

\* What a session goes on with once it has begun.
SessionStep(s) ==
  \/ ReconcileStep(s) \/ LaunchStep(s)
  \/ DeciderLooks(s) \/ CancelSettles(s) \/ TimesOutParked(s)

Next ==
  \/ \E a \in Attempt : \/ RunnerStep(a) \/ RunnerAborts(a) \/ RunnerDies(a)
                        \/ JobEnds(a) \/ JobLost(a)
  \/ DeadlinePasses
  \/ \E s \in Session :
       \/ SessionStep(s) \/ StartFails(s) \/ SessionDies(s)
       \/ ReconcileReads(s) \/ UserLaunches(s) \/ Decides(s) \/ CancelMarks(s)
       \/ ExpiryReads(s)

Spec == Init /\ [][Next]_vars

(* Runners make progress and their jobs end, a session goes on with what it  *)
(* has begun, and again and again one reconciles, as every tick of the       *)
(* scheduler and every open view of the runs does.                           *)
FairSpec ==
  /\ Spec
  /\ WF_vars(\E a \in Attempt : RunnerStep(a))
  /\ WF_vars(\E a \in Attempt : job[a] = "live" /\ JobEnds(a))
  /\ \A s \in Session : WF_vars(SessionStep(s)) /\ SF_vars(ReconcileReads(s))

-----------------------------------------------------------------------------
(* Properties.                                                              *)

Run == [status : RunStatus, attempt : 0..MaxAttempts, relaunches : 0..MaxRelaunches,
        cps : [Node -> Checkpoint]]

View == [pc : {"idle", "judge", "unknown", "outcome", "dead", "launch", "intent", "start",
               "decided", "cancel", "expire"},
         att : 0..(MaxAttempts + 1), st : RunStatus, unc : BOOLEAN]

TypeOK ==
  /\ def \in Definitions
  /\ run \in Run /\ \A n \in Node : run.cps[n].try <= def.maxTry[n]
  /\ dec \in [Node -> {"none", "asked", "approve", "deny"}]
  /\ cancelRequested \in BOOLEAN /\ late \in BOOLEAN
  /\ lockedBy \in 0..MaxAttempts
  /\ job \in [Attempt -> {"none", "live", "uncertain", "terminal"}]
  /\ runner \in [Attempt -> {"none", "boot", "entered", "ending", "pick", "next", "park",
                             "exec", "after", "retry", "end", "recheck", "gone"}]
  /\ busy \in Node /\ abort \in {"no", "cancel", "deadline"}
  /\ ses \in [Session -> View]
  /\ faults \in 0..MaxFaults
  /\ interrupted \in [Node -> BOOLEAN]

\* Whatever is saved, by a runner, a reconciler or a cancel, and wherever its
\* process dies, the store reads back: WorkflowStore.read never finds the
\* checkpoint it is given corrupt.
CheckpointReadable == ReadAccepts(def, run.status, run.cps)

\* Two runner processes of a run are never alive at the same time, whatever
\* stale reads reconcile and launch act on (launchRun, markInterrupted).
OneRunner ==
  Cardinality({a \in Attempt : runner[a] \notin {"none", "gone"}}) <= 1

\* A run that has ended stays exactly as it is: no stale launch, reconcile,
\* cancel or expiry revives it or touches its nodes.
EndIsFinal == [][run.status \in TerminalRun => run' = run]_vars

\* No run ends while work it started is still recorded as running: jobs are
\* stopped, and their stop confirmed, first (stopLiveJobsBeforeTerminal).
NothingRunsAfterEnd == run.status \in TerminalRun => Running = {}

\* A gate passes only with an approval and fails only with a denial of its
\* one decision file, however many sessions decide.
GateFollowsDecision ==
  \A n \in Node : def.type[n] = "approval" =>
    /\ run.cps[n].st = "passed" => dec[n] = "approve"
    /\ run.cps[n].st = "failed" => dec[n] = "deny"

\* A tool that was cut off in mid-work is not dispatched again unless that
\* very interruption was approved for a retry (parkUncertainNodes).
NoReplay ==
  [][\A n \in Node :
       run.cps[n].st # "running" /\ run'.cps[n].st = "running" => ~interrupted[n]]_vars

\* Nobody will start another attempt by itself: the runner may be alive, the
\* relaunch bound was reached, or the model's bound was.
OutOfAttempts ==
  \/ run.status = "interrupted" \/ JobOf(run.attempt) = "uncertain"
  \/ run.attempt = MaxAttempts /\ job[MaxAttempts] = "terminal"

\* A decision filed while the run is parked, or while its runner parks and
\* exits, is eventually applied, or the run ends or needs a human.
DecisionIsApplied ==
  \A n \in Node :
    n \in Unapplied(run.cps, dec)
      ~> (n \notin Unapplied(run.cps, dec) \/ run.status \in TerminalRun \/ OutOfAttempts)
=============================================================================
