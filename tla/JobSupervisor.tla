---------------------------- MODULE JobSupervisor ----------------------------
(***************************************************************************)
(* One background job from the moment its record is admitted: the launch   *)
(* by the coordinator, the detached supervisor process with its workload,  *)
(* and the clients that reconcile, stop, abandon and delete the job from   *)
(* other processes.  They share the job record, the completion event and   *)
(* the supervisor's socket; nothing else.                                  *)
(*                                                                         *)
(* The supervisor is one process with several asynchronous flows, each     *)
(* with its own program counter: start(), the stop handler, the latched    *)
(* stop execution and the latched finalization.  An await between a read   *)
(* and the write that follows it is a step boundary.  jobs.update() takes  *)
(* the job lock, so one update is one step; only the publication of the    *)
(* outcome holds the lock over two writes (`publishing').                  *)
(* Modelled on POSIX: the Windows fallback has no owned process group.     *)
(***************************************************************************)
EXTENDS Naturals

CONSTANTS
    Client,   \* other processes that act on the job
    NoJob,    \* the record does not exist (any more)
    Faults    \* whether it may happen that `faulty'

Terminal  == {"completed", "failed", "interrupted"}
Uncertain == {"unknown", "recovery-required"}
Live      == {"accepted", "starting", "running"}
States == Terminal \cup Uncertain \cup Live
StopStates == {"none", "requested", "acknowledged", "escalated",
               "observed-stopped", "observed-completed-first"}

JobRecord == [state : States, nonce : BOOLEAN, stopState : StopStates,
              abandoned : BOOLEAN, result : BOOLEAN]

ASSUME FaultsAssumption == Faults \subseteq BOOLEAN
ASSUME NoJobAssumption == NoJob \notin JobRecord

VARIABLES
    job,         \* the job record, or NoJob
    event,       \* outcome in the completion event, or "none"
    publishing,  \* the supervisor holds the job lock between its two writes
    coord,       \* Coordinator.start: "launching", "done"
    sup,         \* JobSupervisor.start, or "none", "exited"
    ipc,         \* the supervisor answers on its socket
    child,       \* direct child: "none", "live", then its exit
    group,       \* its process group has live members
    closed,      \* the 'close' event of the child was delivered
    published,   \* workloadPublished: "running" was persisted
    stop,        \* the supervisor's stop control, see StopInit
    final,       \* finalization of the child, see FinalInit
    idle,        \* the idle-exit timer runs
    client,      \* client[c]: what client c is doing, on what it read
    faulty       \* processes die, and locks stay held until an update throws

stored  == <<job, event>>
process == <<child, group, closed>>
jobVars == <<job, event, publishing, coord, sup, ipc, child, group, closed,
             published, stop, final, idle, client>>
vars == <<jobVars, faulty>>

StopInit  == [requested |-> FALSE, intent |-> "none", handler |-> "none",
              exec |-> "none", ended |-> FALSE, escalated |-> FALSE, seen |-> "none"]
FinalInit == [pc |-> "none", survived |-> FALSE, killed |-> FALSE, outcome |-> "none"]

NewJob == [state |-> "accepted", nonce |-> FALSE, stopState |-> "none",
           abandoned |-> FALSE, result |-> FALSE]

Resting == [pc |-> "idle", op |-> "none", seen |-> NoJob]

Init ==
    /\ job = NewJob
    /\ event = "none"
    /\ publishing = FALSE
    /\ coord = "launching"
    /\ sup = "none"
    /\ ipc = FALSE
    /\ child = "none" /\ group = FALSE /\ closed = FALSE
    /\ published = FALSE
    /\ stop = StopInit
    /\ final = FinalInit
    /\ idle = FALSE
    /\ client = [c \in Client |-> Resting]
    /\ faulty \in Faults

-----------------------------------------------------------------------------
(* The record.  An update throws when the record is gone, when the job was *)
(* abandoned (the tombstone is immutable) or when the lock stays held.     *)

Exists == job # NoJob

\* Mutant: the tombstone of an abandoned job is not respected.
WritableIfThere == Exists

Writable == Exists /\ ~job.abandoned
Refused == ~Writable \/ faulty
IsTerminal == Exists /\ job.state \in Terminal

Put(record) == ~publishing /\ Writable /\ job' = record

\* The supervisor process is gone: its memory and its socket go with it, the
\* workload stays.  A crash while it holds the job lock leaves a stale lock,
\* which the next process recovers (FileLock).
SupervisorEnds ==
    /\ sup' = "exited"
    /\ ipc' = FALSE
    /\ publishing' = FALSE
    /\ published' = FALSE
    /\ stop' = StopInit
    /\ final' = FinalInit
    /\ idle' = FALSE

Up == sup \notin {"none", "exited"}

-----------------------------------------------------------------------------
(* Coordinator.start after admission.                                      *)

\* PreSpawnLaunchError: nothing ran, the reservation is released.
LaunchFails ==
    /\ coord = "launching" /\ coord' = "done"
    /\ \/ Put([job EXCEPT !.state = "failed"])
       \/ Refused /\ UNCHANGED job
    /\ UNCHANGED <<event, publishing, sup, ipc, process, published, stop, final,
                   idle, client>>

\* The supervisor runs, whether the launcher learns of it or not; its identity
\* is persisted later and read by nothing that is modelled here.
Launch ==
    /\ coord = "launching" /\ coord' = "done"
    /\ sup' = "boot"
    /\ UNCHANGED <<stored, publishing, ipc, process, published, stop, final,
                   idle, client>>

CoordinatorCrash ==
    /\ faulty /\ coord = "launching" /\ coord' = "done"
    /\ UNCHANGED <<stored, publishing, sup, ipc, process, published, stop, final,
                   idle, client>>

-----------------------------------------------------------------------------
(* JobSupervisor.start.                                                    *)

Boot ==
    /\ sup = "boot"
    /\ \/ /\ Writable /\ ~IsTerminal
          /\ sup' = "announce"
          /\ UNCHANGED <<ipc, publishing, published, stop, final, idle>>
       \/ (~Writable \/ IsTerminal) /\ SupervisorEnds
    /\ UNCHANGED <<stored, coord, process, client>>

Announce ==
    /\ sup = "announce"
    /\ \/ /\ Put([job EXCEPT !.state = "starting", !.nonce = TRUE])
          /\ sup' = "listen"
          /\ UNCHANGED <<ipc, publishing, published, stop, final, idle>>
       \/ Refused /\ SupervisorEnds /\ UNCHANGED job
    /\ UNCHANGED <<event, coord, process, client>>

Listen ==
    /\ sup = "listen"
    /\ sup' = "fence" /\ ipc' = TRUE
    /\ UNCHANGED <<stored, publishing, coord, process, published, stop, final,
                   idle, client>>

\* Fence and spawn share the job lock with abandonment.
Spawn ==
    /\ sup = "fence" /\ ~publishing
    /\ Writable /\ ~IsTerminal
    /\ sup' = "spawned"
    /\ \/ child' = "live" /\ group' = TRUE
       \/ child' = "unspawnable" /\ UNCHANGED group
    /\ UNCHANGED <<stored, publishing, coord, ipc, closed, published, stop,
                   final, idle, client>>

Fenced ==
    /\ sup = "fence" /\ ~publishing
    /\ \/ ~Writable \/ IsTerminal
       \/ faulty   \* the spawn lock could not be had: start() throws
    /\ SupervisorEnds
    /\ UNCHANGED <<stored, coord, process, client>>

SpawnFailed ==
    /\ sup = "spawned" /\ child = "unspawnable"
    /\ \/ /\ Put([job EXCEPT !.state = "failed"])
          /\ sup' = "unspawned"
          /\ UNCHANGED <<ipc, publishing, published, stop, final, idle>>
       \/ Refused /\ SupervisorEnds /\ UNCHANGED job
    /\ UNCHANGED <<event, coord, process, client>>

\* publishSpawnFailure answers the waiters with the record it reads again.
SpawnFailureKnown ==
    /\ sup = "unspawned"
    /\ sup' = "serving"
    /\ idle' = IsTerminal
    /\ UNCHANGED <<stored, publishing, coord, ipc, process, published, stop,
                   final, client>>

\* "running" is persisted; if that throws the process dies without a verdict
\* and the workload is on its own.
PublishRunning ==
    /\ sup = "spawned" /\ child # "unspawnable"
    /\ \/ /\ Put([job EXCEPT !.state = "running"])
          /\ sup' = "started"
          /\ published' = TRUE
          /\ UNCHANGED <<ipc, publishing, stop, final, idle>>
       \/ Refused /\ SupervisorEnds /\ UNCHANGED job
    /\ UNCHANGED <<event, coord, process, client>>

\* Mutant: a stop that came before the workload was published is forgotten.
StopForgotten == FALSE

StopDue == stop.requested

\* The execution is over, whether it could end the workload or not.
StopSettled == stop.exec \in {"done", "exhausted", "failed"}

\* The rest of start(): a close that came before publication is finalized here
\* and waited for, unless descendants keep the group alive; then a stop that
\* came too early is carried out.  If either throws, the process dies.
FinishStart ==
    /\ sup = "started"
    /\ \/ /\ ~closed \/ final.survived \/ final.pc = "done"
          /\ sup' = IF StopDue THEN "stopping" ELSE "serving"
          /\ stop' = IF StopDue /\ stop.exec = "none"
                       THEN [stop EXCEPT !.exec = "acknowledge"] ELSE stop
          /\ UNCHANGED <<ipc, publishing, published, final, idle>>
       \/ closed /\ final.pc = "failed" /\ SupervisorEnds
    /\ UNCHANGED <<stored, coord, process, client>>

FinishStop ==
    /\ sup = "stopping"
    /\ \/ /\ StopSettled /\ stop.exec # "failed" /\ sup' = "serving"
          /\ UNCHANGED <<ipc, publishing, published, stop, final, idle>>
       \/ stop.exec = "failed" /\ SupervisorEnds
    /\ UNCHANGED <<stored, coord, process, client>>

-----------------------------------------------------------------------------
(* The workload.                                                           *)

\* The direct child ends: by itself, or by a signal of whoever.  Descendants
\* may survive it.
ChildExits ==
    /\ child = "live"
    /\ child' \in {"zero", "nonzero", "signal"}
    /\ group' \in BOOLEAN
    /\ UNCHANGED <<stored, publishing, coord, sup, ipc, closed, published, stop,
                   final, idle, client>>

GroupEnds ==
    /\ group /\ child # "live" /\ group' = FALSE
    /\ UNCHANGED <<stored, publishing, coord, sup, ipc, child, closed, published,
                   stop, final, idle, client>>

\* 'close' is delivered; finalization starts once "running" is published.
Close ==
    /\ Up /\ child \in {"zero", "nonzero", "signal"} /\ ~closed
    /\ closed' = TRUE
    /\ UNCHANGED <<stored, publishing, coord, sup, ipc, child, group, published,
                   stop, final, idle, client>>

-----------------------------------------------------------------------------
(* Stop: an IPC request, or a failure of the log writer.                   *)

StopUnchanged == <<event, publishing, coord, sup, ipc, process, published, final,
                   idle, client>>

\* requestStop reads the record before it acts; the record may be terminal by
\* the time it does.
StopArrives ==
    /\ ipc /\ stop.handler = "none" /\ ~IsTerminal
    /\ stop' = [stop EXCEPT !.handler = "checked"]
    /\ UNCHANGED <<job, StopUnchanged>>

RequestStop ==
    /\ stop.handler = "checked"
    /\ stop' = [stop EXCEPT !.handler = "waiting", !.requested = TRUE,
                            !.intent = IF stop.requested THEN @ ELSE "pending"]
    /\ UNCHANGED <<job, StopUnchanged>>

\* The intent is recorded once; a failure is remembered like a success.
RecordIntent ==
    /\ stop.intent = "pending"
    /\ \/ /\ Put([job EXCEPT !.stopState = "requested"])
          /\ stop' = [stop EXCEPT !.intent = "recorded"]
       \/ /\ Refused /\ UNCHANGED job
          /\ stop' = [stop EXCEPT !.intent = "failed"]
    /\ UNCHANGED StopUnchanged

\* executeRequestedStop: without a published child it is left to start(); the
\* execution is latched.
ExecuteStop ==
    /\ stop.handler = "waiting" /\ stop.intent \in {"recorded", "failed"}
    /\ stop' = [stop EXCEPT !.handler = "none",
                            !.exec = IF stop.intent = "recorded" /\ published /\ @ = "none"
                                       THEN "acknowledge" ELSE @]
    /\ UNCHANGED <<job, StopUnchanged>>

\* Updates are queued in order, so the intent is written first.
Acknowledge ==
    /\ stop.exec = "acknowledge" /\ stop.intent # "pending"
    /\ \/ /\ Put([job EXCEPT !.stopState = "acknowledged"])
          /\ stop' = [stop EXCEPT !.exec = "grace"]
       \/ /\ Refused /\ UNCHANGED job
          /\ stop' = [stop EXCEPT !.exec = "failed"]
    /\ UNCHANGED StopUnchanged

\* stopOwnedScope: SIGTERM to the group, then a grace period in which the
\* workload may end in any way, or ignore it.  The group is empty in time, or
\* gets SIGKILL, which some members may survive (uninterruptible sleep).
\* Whether the stop ended descendants that outlived the child is noted for the
\* verdict.
ScopeSettles ==
    /\ stop.exec = "grace"
    /\ \E escalated \in BOOLEAN :
         /\ IF escalated THEN group' \in {group, FALSE} ELSE ~group /\ UNCHANGED group
         /\ child' = IF child = "live" /\ ~group' THEN "signal" ELSE child
         /\ stop' = [stop EXCEPT !.exec = "read", !.ended = ~group',
                                 !.escalated = escalated]
         /\ final' = [final EXCEPT !.killed = @ \/ (~group' /\ final.survived)]
    /\ UNCHANGED <<stored, publishing, coord, sup, ipc, closed, published, idle,
                   client>>

\* The record is read, and the stop state written after it in another step:
\* the outcome may be published in between.
ReadAfterStop ==
    /\ stop.exec = "read"
    /\ stop' = [stop EXCEPT !.exec = "conclude",
                            !.seen = IF Exists THEN job.state ELSE "none"]
    /\ UNCHANGED <<job, StopUnchanged>>

Conclusion ==
    IF stop.seen = "completed" THEN "observed-completed-first"
    ELSE IF stop.ended
           THEN IF stop.escalated /\ stop.seen \notin Terminal
                  THEN "escalated" ELSE "observed-stopped"
    ELSE IF stop.escalated /\ stop.seen \notin Terminal THEN "escalated"
    ELSE "none"

\* A stop that SIGKILL could not carry out is "exhausted".
StopEnds(how) ==
    stop' = [stop EXCEPT !.exec = how, !.ended = FALSE, !.escalated = FALSE,
                         !.seen = "none"]

ConcludeStop ==
    /\ stop.exec = "conclude"
    /\ \/ /\ Conclusion # "none"
          /\ Put([job EXCEPT !.stopState = Conclusion])
          /\ StopEnds(IF stop.ended THEN "done" ELSE "exhausted")
       \/ Conclusion # "none" /\ Refused /\ UNCHANGED job /\ StopEnds("failed")
       \/ Conclusion = "none" /\ UNCHANGED job /\ StopEnds("exhausted")
    /\ UNCHANGED StopUnchanged

-----------------------------------------------------------------------------
(* handleChildExit.                                                        *)

FinalUnchanged == <<coord, sup, ipc, process, published, client>>

\* Mutant: the group is looked at once, not until it is empty.
LooksOnce ==
    /\ closed /\ published /\ final.pc = "none"
    /\ final' = [final EXCEPT !.pc = IF group THEN "draining" ELSE "decide",
                             !.survived = group]
    /\ UNCHANGED <<stored, publishing, stop, idle, FinalUnchanged>>

\* The outcome waits until the owned process group is empty.
AwaitScope ==
    /\ closed /\ published
    /\ \/ /\ final.pc \in {"none", "draining"} /\ ~group
          /\ final' = [final EXCEPT !.pc = IF final.survived /\ stop.requested
                                             THEN "stop" ELSE "decide"]
       \/ /\ final.pc = "none" /\ group
          /\ final' = [final EXCEPT !.pc = "draining", !.survived = TRUE]
    /\ UNCHANGED <<stored, publishing, stop, idle, FinalUnchanged>>

\* A stop that may have emptied the group records its outcome first (its
\* failure is ignored).
AwaitStop ==
    /\ final.pc = "stop"
    /\ \/ /\ stop.exec = "none"
          /\ stop' = [stop EXCEPT !.exec = "acknowledge"]
          /\ UNCHANGED final
       \/ /\ StopSettled
          /\ final' = [final EXCEPT !.pc = "decide"]
          /\ UNCHANGED stop
    /\ UNCHANGED <<stored, publishing, idle, FinalUnchanged>>

\* Mutant: the exit itself instead of what it means.
RawExit == child

\* Mutant: the exit code is not looked at.
VerdictWithoutCode ==
    IF final.killed \/ (child = "signal" /\ stop.requested) THEN "interrupted"
    ELSE IF child = "signal" THEN "failed" ELSE "completed"

Verdict ==
    IF final.killed THEN "interrupted"
    ELSE IF child = "zero" THEN "completed"
    ELSE IF child = "signal" /\ stop.requested THEN "interrupted"
    ELSE "failed"

Decide ==
    /\ final.pc = "decide"
    /\ final' = [final EXCEPT !.pc = "publish", !.outcome = Verdict]
    /\ UNCHANGED <<stored, publishing, stop, idle, FinalUnchanged>>

\* Under the job lock: nothing is published for a job that is gone or was
\* abandoned; otherwise the event is written first, the record second.
PublishEvent ==
    /\ final.pc = "publish"
    /\ \/ /\ Writable
          /\ event' = final.outcome /\ publishing' = TRUE
          /\ final' = [final EXCEPT !.pc = "record"]
       \/ /\ ~Writable
          /\ final' = [final EXCEPT !.pc = "notify"]
          /\ UNCHANGED <<event, publishing>>
       \/ /\ faulty
          /\ final' = [final EXCEPT !.pc = "failed"]
          /\ UNCHANGED <<event, publishing>>
    /\ UNCHANGED <<job, stop, idle, FinalUnchanged>>

PublishOutcome ==
    /\ final.pc = "record"
    /\ job' = [job EXCEPT !.state = final.outcome, !.result = TRUE]
    /\ publishing' = FALSE
    /\ final' = [final EXCEPT !.pc = "notify"]
    /\ UNCHANGED <<event, stop, idle, FinalUnchanged>>

\* The log is closed, the record read again, the waiters answered; only a
\* terminal record starts the idle-exit timer.
Notify ==
    /\ final.pc = "notify"
    /\ final' = [final EXCEPT !.pc = "done", !.outcome = "none"]
    /\ idle' = (idle \/ IsTerminal)
    /\ UNCHANGED <<stored, publishing, stop, FinalUnchanged>>

\* teardown lets the background work settle before the process exits.
IdleExit ==
    /\ sup = "serving" /\ idle
    /\ stop.handler = "none" /\ stop.intent # "pending"
    /\ stop.exec = "none" \/ StopSettled
    /\ SupervisorEnds
    /\ UNCHANGED <<stored, coord, process, client>>

SupervisorCrash ==
    /\ faulty /\ Up /\ SupervisorEnds
    /\ UNCHANGED <<stored, coord, process, client>>

-----------------------------------------------------------------------------
(* reconcileJob, abandonJob, deleteJob: other processes.                   *)

ClientUnchanged == <<coord, sup, ipc, process, published, stop, final, idle>>
ClientSays(c, pc, seen) ==
    client' = [client EXCEPT ![c] = [@ EXCEPT !.pc = pc, !.seen = seen]]

\* The first read decides the course; a job that is terminal or abandoned is
\* left alone.  abandonJob reconciles first.
Observe(c, op) ==
    /\ client[c].pc = "idle" /\ Exists
    /\ ~job.abandoned /\ ~IsTerminal
    /\ client' = [client EXCEPT ![c] = [pc |-> "probing", op |-> op, seen |-> job]]
    /\ UNCHANGED <<stored, publishing, ClientUnchanged>>

\* The supervisor answers with the record it reads, and the nonce is the one
\* expected ("" accepts any).
Reconnect(c) ==
    /\ client[c].pc = "probing" /\ ipc /\ Exists
    /\ client[c].seen.nonce => job.nonce
    /\ client' = [client EXCEPT ![c] = Resting]
    /\ UNCHANGED <<stored, publishing, ClientUnchanged>>

\* No answer: the socket is gone, or the supervisor was too slow.  Under the
\* job lock the record is read again; only the state that was seen is marked.
Mark(c) ==
    LET before == client[c].seen.state
        marked == IF before \in {"accepted", "starting"} /\ job.state \in {"accepted", "starting"}
                    THEN [job EXCEPT !.state = "recovery-required"]
                  ELSE IF before = "running" /\ job.state = "running"
                    THEN [job EXCEPT !.state = "unknown"]
                  ELSE job
    IN  /\ client[c].pc = "probing" /\ ~publishing
        /\ IF ~Exists
             THEN client' = [client EXCEPT ![c] = Resting] /\ UNCHANGED job
           ELSE IF before \in Uncertain
             THEN /\ UNCHANGED job
                  /\ IF client[c].op = "abandon" THEN ClientSays(c, "abandoning", client[c].seen)
                                                 ELSE client' = [client EXCEPT ![c] = Resting]
           ELSE /\ job' = IF Writable THEN marked ELSE job
                /\ IF client[c].op = "abandon" THEN ClientSays(c, "abandoning", job')
                                               ELSE client' = [client EXCEPT ![c] = Resting]
        /\ UNCHANGED <<event, publishing, ClientUnchanged>>

\* Refused unless the record is still exactly what reconciliation saw.
Abandon(c) ==
    /\ client[c].pc = "abandoning" /\ ~publishing
    /\ ~\E d \in Client : client[d].pc = "deleting"
    /\ \/ /\ Writable /\ job.state \in Uncertain /\ job = client[c].seen
          /\ job' = [job EXCEPT !.abandoned = TRUE]
       \/ /\ ~(Writable /\ job.state \in Uncertain /\ job = client[c].seen)
          /\ UNCHANGED job
    /\ client' = [client EXCEPT ![c] = Resting]
    /\ UNCHANGED <<event, publishing, ClientUnchanged>>

\* Under the coordinator lock: events first, the record last.
DeleteEvents(c) ==
    /\ client[c].pc = "idle" /\ IsTerminal
    /\ ~\E d \in Client : client[d].pc = "deleting"
    /\ event' = "none"
    /\ client' = [client EXCEPT ![c] = [pc |-> "deleting", op |-> "delete", seen |-> job]]
    /\ UNCHANGED <<job, publishing, ClientUnchanged>>

DeleteRecord(c) ==
    /\ client[c].pc = "deleting"
    /\ job' = IF Exists /\ job.abandoned THEN job ELSE NoJob
    /\ client' = [client EXCEPT ![c] = Resting]
    /\ UNCHANGED <<event, publishing, ClientUnchanged>>

\* A client may die, or fail to get a lock, between any two steps.
GiveUp(c) ==
    /\ client[c].pc # "idle"
    /\ client' = [client EXCEPT ![c] = Resting]
    /\ UNCHANGED <<stored, publishing, ClientUnchanged>>

-----------------------------------------------------------------------------
StartStep == Boot \/ Announce \/ Listen \/ Spawn \/ Fenced \/ SpawnFailed
             \/ SpawnFailureKnown \/ PublishRunning \/ FinishStart \/ FinishStop
StopStep  == RequestStop \/ RecordIntent \/ ExecuteStop \/ Acknowledge
             \/ ScopeSettles \/ ReadAfterStop \/ ConcludeStop
FinalStep == AwaitScope \/ AwaitStop \/ Decide \/ PublishEvent \/ PublishOutcome
             \/ Notify
Environment == ChildExits \/ GroupEnds \/ StopArrives \/ SupervisorCrash
ClientStep(c) == Observe(c, "reconcile") \/ Observe(c, "abandon") \/ Reconnect(c)
                 \/ Mark(c) \/ Abandon(c) \/ DeleteEvents(c) \/ DeleteRecord(c)
                 \/ GiveUp(c)

Next ==
    /\ UNCHANGED faulty
    /\ \/ LaunchFails \/ Launch \/ CoordinatorCrash
       \/ StartStep \/ StopStep \/ FinalStep \/ Close \/ IdleExit \/ Environment
       \/ \E c \in Client : ClientStep(c)

Spec == Init /\ [][Next]_vars

\* A running supervisor makes progress on each of its flows (event loop), and
\* the operating system reports an exit.  Workloads need not end, clients need
\* not act, nobody has to stop the job.
Fairness ==
    /\ WF_jobVars(StartStep) /\ WF_jobVars(Close) /\ WF_jobVars(IdleExit)
    /\ WF_jobVars(RequestStop) /\ WF_jobVars(RecordIntent) /\ WF_jobVars(ExecuteStop)
    /\ WF_jobVars(Acknowledge \/ ScopeSettles \/ ReadAfterStop \/ ConcludeStop)
    /\ WF_jobVars(FinalStep)

FairSpec == Spec /\ Fairness

-----------------------------------------------------------------------------
StopControl == [requested : BOOLEAN,
                intent : {"none", "pending", "recorded", "failed"},
                handler : {"none", "checked", "waiting"},
                exec : {"none", "acknowledge", "grace", "read", "conclude", "done",
                        "exhausted", "failed"},
                ended : BOOLEAN, escalated : BOOLEAN, seen : States \cup {"none"}]

Finalization == [pc : {"none", "draining", "stop", "decide", "publish", "record",
                       "notify", "done", "failed"},
                 survived : BOOLEAN, killed : BOOLEAN, outcome : Terminal \cup {"none"}]

ClientState == [pc : {"idle", "probing", "abandoning", "deleting"},
                op : {"none", "reconcile", "abandon", "delete"},
                seen : JobRecord \cup {NoJob}]

TypeOK ==
    /\ job \in JobRecord \cup {NoJob} /\ faulty \in Faults
    /\ event \in Terminal \cup {"none"}
    /\ publishing \in BOOLEAN
    /\ coord \in {"launching", "done"}
    /\ sup \in {"none", "boot", "announce", "listen", "fence", "spawned", "unspawned",
                "started", "stopping", "serving", "exited"}
    /\ ipc \in BOOLEAN
    /\ child \in {"none", "unspawnable", "live", "zero", "nonzero", "signal"}
    /\ group \in BOOLEAN /\ closed \in BOOLEAN /\ published \in BOOLEAN
    /\ stop \in StopControl /\ final \in Finalization
    /\ idle \in BOOLEAN
    /\ client \in [Client -> ClientState]

\* A terminal state is backed by what happened to the workload, through every
\* race of the exit with a stop, a reconciliation or a crash: nothing of the
\* owned group is left, "completed" means exit code 0, and a failure without a
\* completion event means that nothing was ever started.
VerdictHasEvidence ==
    IsTerminal =>
        IF job.result
          THEN /\ ~group
               /\ job.state = "completed" => child = "zero"
               /\ job.state = "failed" => child \in {"nonzero", "signal"}
          ELSE child \in {"none", "unspawnable"}

\* Once an operator abandoned the job, its record is never written again, no
\* completion event appears, and no workload is started for it, whatever the
\* supervisor or a reconciliation were about to do.
AbandonedIsFinal ==
    [][Exists /\ job.abandoned =>
         /\ job' = job /\ event' = event
         /\ child' = "live" => child = "live"]_vars

\* The promise of the store about outcomes (JobOutcome).
Outcomes == INSTANCE JobOutcome WITH
    Outcome <- Terminal,
    verdict <- IF ~Exists THEN "deleted"
               ELSE IF job.abandoned THEN "abandoned"
               ELSE IF job.state \in Terminal THEN job.state ELSE "open",
    event   <- event

ImplementsJobOutcome == Outcomes!Spec

\* A workload that is gone, descendants included, gets its verdict, unless an
\* operator gave the job up (or deleted it) first.  Nothing is promised for a
\* life with faults: the process may die before the outcome is written.
OutcomeIsPublished ==
    child \in {"zero", "nonzero", "signal"} /\ published /\ ~group ~>
        IsTerminal \/ ~Writable \/ faulty

\* A stop that was accepted ends the workload, also one that arrived before
\* there was a workload to stop; else SIGKILL failed and the job says so.  A
\* life with faults is excepted here too.
StopIsCarriedOut ==
    stop.requested ~>
        \/ ~group /\ sup \notin {"listen", "fence"}
        \/ sup = "exited" \/ ~Writable \/ stop.exec = "exhausted" \/ faulty

\* lifecycle.ts: "Once the job is terminal, the supervisor self-exits [...] so
\* it can't leak forever."
SupervisorDoesNotLeak == IsTerminal /\ job.result ~> sup = "exited"
=============================================================================
