---------------------------- MODULE ScheduleEngine ----------------------------
(***************************************************************************)
(* One recurring schedule, evaluated by every agav process that is up      *)
(* (interactive sessions, job ticks, the daemon) and edited by some.       *)
(* A due occurrence is reserved durably under the schedule lock and then   *)
(* dispatched through the coordinator's admission; reservations whose      *)
(* dispatcher looks dead are fenced under the coordinator lock.  A process *)
(* may be suspended for any time at any step, or die.                      *)
(*                                                                         *)
(* Jobs and capacity belong to Admission: here a job is open or terminal,  *)
(* and admission may refuse or fail for any reason.  Locks are those of    *)
(* FileLock.                                                               *)
(***************************************************************************)
EXTENDS Naturals, FiniteSets

CONSTANTS
    Process,    \* agav processes
    Slot,       \* local trigger instants of the schedule (occurrence keys)
    Request,    \* random request ids
    MaxPauses,  \* bound on pauses; a pause is known by its time (pausedAt)
    None        \* the absent value of any kind

ASSUME PausesAssumption == MaxPauses \in Nat

ScheduleRecord == [enabled : BOOLEAN, pausedAt : 0..MaxPauses]
Occurrence == [status : {"reserved", "dispatched", "recovery-required"},
               recent : BOOLEAN, request : Request]

ASSUME NoneAssumption ==
    None \notin Process \cup Slot \cup Request \cup ScheduleRecord \cup Occurrence

VARIABLES
    schedule,      \* the schedule record [enabled, pausedAt], or None
    occurrence,    \* occurrence[s]: [status, recent, request], or None
    job,           \* job[r]: "none", "open", "terminal" or "deleted"
    slotOf,        \* slotOf[r]: the occurrence that request r was made for
    scheduleLock,  \* holder of the lock of this schedule, or None
    coordLock,     \* holder of the coordinator lock, or None
    task,          \* task[p]: where process p is, and what it has read
    pauses,        \* pauses so far
    interrupted    \* a deletion stopped half-way

stored == <<schedule, occurrence>>
locks  == <<scheduleLock, coordLock>>
vars   == <<stored, job, slotOf, locks, task, pauses, interrupted>>

\* A disabled record without a pause time is a revoked one.
Revoked(record) == ~record.enabled /\ record.pausedAt = 0

Idle == [at |-> "idle", op |-> "none", slot |-> None, request |-> None,
         seen |-> None, expired |-> {}, owned |-> FALSE]

Init ==
    /\ schedule = [enabled |-> TRUE, pausedAt |-> 0]
    /\ occurrence = [s \in Slot |-> None]
    /\ job = [r \in Request |-> "none"]
    /\ slotOf = [r \in Request |-> None]
    /\ scheduleLock = None
    /\ coordLock = None
    /\ task = [p \in Process |-> Idle]
    /\ pauses = 0
    /\ interrupted = FALSE

At(p, label)   == task[p].at = label
Goto(p, label) == task' = [task EXCEPT ![p].at = label]
Return(p)      == task' = [task EXCEPT ![p] = Idle]
Finish(p)      == Return(p) /\ scheduleLock' = None

-----------------------------------------------------------------------------
(* evaluateOnce and deleteSchedule up to the decision under the schedule   *)
(* lock; both ask whether the schedule is still owned.                     *)

\* The trigger is decided on the list of schedules read at the start of the
\* pass; a clock that was set back may make any slot due again.
Trigger(p, s) ==
    /\ At(p, "idle") /\ schedule # None /\ schedule.enabled
    /\ task' = [task EXCEPT ![p] = [Idle EXCEPT !.at = "lock", !.op = "evaluate", !.slot = s]]
    /\ UNCHANGED <<stored, job, slotOf, locks, pauses, interrupted>>

AskDelete(p) ==
    /\ At(p, "idle") /\ schedule # None
    /\ task' = [task EXCEPT ![p] = [Idle EXCEPT !.at = "lock", !.op = "delete"]]
    /\ UNCHANGED <<stored, job, slotOf, locks, pauses, interrupted>>

\* Both re-read the record under the lock: evaluation wants it enabled,
\* deletion disabled.
LockSchedule(p) ==
    /\ At(p, "lock") /\ scheduleLock = None
    /\ IF schedule # None /\ (schedule.enabled <=> task[p].op = "evaluate")
         THEN scheduleLock' = p /\ Goto(p, "list")
         ELSE Return(p) /\ UNCHANGED scheduleLock
    /\ UNCHANGED <<stored, job, slotOf, coordLock, pauses, interrupted>>

\* scheduleIsOwned lists the occurrences first, the jobs afterwards.
ListOccurrences(p) ==
    /\ At(p, "list")
    /\ task' = [task EXCEPT ![p].at = "classify", ![p].seen = occurrence]
    /\ UNCHANGED <<stored, job, slotOf, locks, pauses, interrupted>>

HasJob(r) == job[r] \in {"open", "terminal"}

classifyOccurrence(occ) ==
    IF occ = None THEN "inactive"
    ELSE IF job[occ.request] = "open" THEN "active"
    ELSE IF HasJob(occ.request) \/ occ.status # "reserved" THEN "inactive"
    ELSE IF occ.recent THEN "active" ELSE "expired"

Classified(p, class) == {s \in Slot : classifyOccurrence(task[p].seen[s]) = class}

Classify(p) ==
    /\ At(p, "classify")
    /\ task' = [task EXCEPT ![p].at = IF Classified(p, "expired") = {} THEN "decide" ELSE "fence",
                            ![p].expired = Classified(p, "expired"),
                            ![p].owned = Classified(p, "active") # {}]
    /\ UNCHANGED <<stored, job, slotOf, locks, pauses, interrupted>>

\* Elapsed time does not prove that a dispatcher stopped: under the lock that
\* guards job creation, an expired reservation either has its job by now or is
\* marked, so that its dispatcher gives up when it resumes.
\* Mutant: an expired reservation is merely ignored.
NotFenced(p) == {}

FencedBy(p) ==
    {s \in task[p].expired :
        /\ ~HasJob(task[p].seen[s].request)
        /\ occurrence[s] # None /\ occurrence[s].status = "reserved"}

\* Mutant: a status that no reader of the record knows.
UnknownStatus == "fenced"

GivenUp == "recovery-required"

Fence(p) ==
    /\ At(p, "fence") /\ coordLock = None
    /\ occurrence' = [s \in Slot |->
         IF s \in FencedBy(p) THEN [occurrence[s] EXCEPT !.status = GivenUp]
                              ELSE occurrence[s]]
    /\ task' = [task EXCEPT ![p].at = "decide",
         ![p].owned = @ \/ \E s \in task[p].expired : job[task[p].seen[s].request] = "open"]
    /\ UNCHANGED <<schedule, job, slotOf, locks, pauses, interrupted>>

\* "skipped-overlap", or a deletion refused.
Owned(p) ==
    /\ At(p, "decide") /\ task[p].owned
    /\ Finish(p)
    /\ UNCHANGED <<stored, job, slotOf, coordLock, pauses, interrupted>>

-----------------------------------------------------------------------------
(* evaluateOnce: reservation, dispatch, record of the dispatch.            *)

\* The record of an occurrence is created exclusively, and kept when its
\* dispatch failed: the failure may be ambiguous.
\* Mutant: an occurrence whose dispatch failed is dispatched again.
VacantOrFailed(s) == occurrence[s] = None \/ occurrence[s].status = "recovery-required"

Vacant(s) == occurrence[s] = None

Reserve(p, r) ==
    LET s == task[p].slot
    IN  /\ At(p, "decide") /\ task[p].op = "evaluate" /\ ~task[p].owned
        /\ IF Vacant(s)
             THEN /\ slotOf[r] = None
                  /\ occurrence' = [occurrence EXCEPT ![s] =
                       [status |-> "reserved", recent |-> TRUE, request |-> r]]
                  /\ slotOf' = [slotOf EXCEPT ![r] = s]
                  /\ task' = [task EXCEPT ![p] =
                       [Idle EXCEPT !.at = "dispatch", !.slot = s, !.request = r]]
             ELSE Return(p) /\ UNCHANGED <<occurrence, slotOf>>
        /\ scheduleLock' = None
        /\ UNCHANGED <<schedule, job, coordLock, pauses, interrupted>>

\* Mutant: a resumed dispatcher does not look at its reservation again.
AlwaysReserved(p) == TRUE

StillReserved(p) ==
    LET occ == occurrence[task[p].slot] IN occ # None /\ occ.status = "reserved"

\* beforeAdmit, inside the transaction of Coordinator.start.
BeforeAdmit(p) ==
    /\ At(p, "dispatch") /\ coordLock = None
    /\ IF StillReserved(p)
         THEN Goto(p, "admit") /\ coordLock' = p
         ELSE Goto(p, "failed") /\ UNCHANGED coordLock
    /\ UNCHANGED <<stored, job, slotOf, scheduleLock, pauses, interrupted>>

Admit(p) ==
    /\ At(p, "admit")
    /\ job' = [job EXCEPT ![task[p].request] = "open"]
    /\ coordLock' = None
    /\ task' \in {[task EXCEPT ![p].at = outcome] : outcome \in {"dispatched", "failed"}}
    /\ UNCHANGED <<stored, slotOf, scheduleLock, pauses, interrupted>>

\* The grant is gone, a lock stays held, the capacity is exhausted.
Refuse(p) ==
    /\ At(p, "dispatch") \/ At(p, "admit")
    /\ Goto(p, "failed")
    /\ coordLock' = IF coordLock = p THEN None ELSE coordLock
    /\ UNCHANGED <<stored, job, slotOf, scheduleLock, pauses, interrupted>>

\* The record is updated without a lock: read, then written whole.  An update
\* that finds no record fails, and so does the one that reports the failure.
ReadRun(p) ==
    LET occ == occurrence[task[p].slot]
    IN  /\ task[p].at \in {"dispatched", "failed"}
        /\ IF occ = None
             THEN Return(p)
             ELSE task' = [task EXCEPT ![p].at = "write", ![p].seen =
                    [occ EXCEPT !.status = IF At(p, "failed") THEN "recovery-required"
                                                              ELSE "dispatched"]]
        /\ UNCHANGED <<stored, job, slotOf, locks, pauses, interrupted>>

WriteRun(p) ==
    /\ At(p, "write")
    /\ occurrence' = [occurrence EXCEPT ![task[p].slot] = task[p].seen]
    /\ Return(p)
    /\ UNCHANGED <<schedule, job, slotOf, locks, pauses, interrupted>>

-----------------------------------------------------------------------------
(* deleteSchedule, revokeSchedule, setScheduleEnabled.                     *)

\* The records to remove are listed, then removed one by one; the schedule
\* goes last.
RemoveRuns(p) ==
    /\ At(p, "decide") /\ task[p].op = "delete" /\ ~task[p].owned
    /\ task' = [task EXCEPT ![p].at = "remove",
                            ![p].expired = {s \in Slot : occurrence[s] # None}]
    /\ UNCHANGED <<stored, job, slotOf, locks, pauses, interrupted>>

RemoveRun(p, s) ==
    /\ At(p, "remove") /\ s \in task[p].expired
    /\ occurrence' = [occurrence EXCEPT ![s] = None]
    /\ task' = [task EXCEPT ![p].expired = @ \ {s}]
    /\ UNCHANGED <<schedule, job, slotOf, locks, pauses, interrupted>>

RemoveSchedule(p) ==
    /\ At(p, "remove") /\ task[p].expired = {}
    /\ schedule' = None
    /\ Finish(p)
    /\ UNCHANGED <<occurrence, job, slotOf, coordLock, pauses, interrupted>>

\* A change is decided on the record read before a human was asked.
AskChange(p, op) ==
    /\ At(p, "idle") /\ schedule # None
    /\ op # "revoke" => ~Revoked(schedule) /\ (schedule.enabled <=> op = "pause")
    /\ task' = [task EXCEPT ![p] = [Idle EXCEPT !.at = "change", !.op = op, !.seen = schedule]]
    /\ UNCHANGED <<stored, job, slotOf, locks, pauses, interrupted>>

\* Mutant: the answer to the question is applied to whatever is there now.
ApproveBlindly(p) == TRUE

NotChanged(p) == ~Revoked(schedule) /\ schedule = task[p].seen

\* Under the schedule lock: revocation applies to whatever is there now, a
\* pause or resume only to the record that was seen.
Applies(p) == schedule # None /\ (task[p].op = "revoke" \/ NotChanged(p))

Change(p) ==
    /\ At(p, "change") /\ scheduleLock = None
    /\ \/ /\ Applies(p) /\ task[p].op # "pause"
          /\ schedule' = [enabled |-> task[p].op = "resume", pausedAt |-> 0]
          /\ UNCHANGED pauses
       \/ /\ Applies(p) /\ task[p].op = "pause" /\ pauses < MaxPauses
          /\ pauses' = pauses + 1
          /\ schedule' = [enabled |-> FALSE, pausedAt |-> pauses + 1]
       \/ /\ ~Applies(p)
          /\ UNCHANGED <<schedule, pauses>>
    /\ Return(p)
    /\ UNCHANGED <<occurrence, job, slotOf, locks, interrupted>>

-----------------------------------------------------------------------------
(* Time, jobs and failures.                                                *)

\* PENDING_DISPATCH_WINDOW_MS passed since the reservation.
Expire(s) ==
    /\ occurrence[s] # None /\ occurrence[s].recent
    /\ occurrence' = [occurrence EXCEPT ![s].recent = FALSE]
    /\ UNCHANGED <<schedule, job, slotOf, locks, task, pauses, interrupted>>

JobEnds(r) ==
    /\ job[r] = "open" /\ job' = [job EXCEPT ![r] = "terminal"]
    /\ UNCHANGED <<stored, slotOf, locks, task, pauses, interrupted>>

\* deleteJob takes the coordinator lock.
DeleteJob(r) ==
    /\ job[r] = "terminal" /\ coordLock = None
    /\ job' = [job EXCEPT ![r] = "deleted"]
    /\ UNCHANGED <<stored, slotOf, locks, task, pauses, interrupted>>

\* Also: a lock could not be had, an approval was refused, an I/O error.
Crash(p) ==
    /\ ~At(p, "idle")
    /\ Return(p)
    /\ scheduleLock' = IF scheduleLock = p THEN None ELSE scheduleLock
    /\ coordLock' = IF coordLock = p THEN None ELSE coordLock
    /\ interrupted' = (interrupted \/ At(p, "remove"))
    /\ UNCHANGED <<stored, job, slotOf, pauses>>

-----------------------------------------------------------------------------
Step(p) ==
    \/ \E s \in Slot : Trigger(p, s) \/ RemoveRun(p, s)
    \/ \E r \in Request : Reserve(p, r)
    \/ \E op \in {"pause", "resume", "revoke"} : AskChange(p, op)
    \/ AskDelete(p) \/ LockSchedule(p) \/ ListOccurrences(p) \/ Classify(p) \/ Fence(p)
    \/ Owned(p) \/ BeforeAdmit(p) \/ Admit(p) \/ Refuse(p) \/ ReadRun(p) \/ WriteRun(p)
    \/ RemoveRuns(p) \/ RemoveSchedule(p) \/ Change(p) \/ Crash(p)

Next ==
    \/ \E p \in Process : Step(p)
    \/ \E s \in Slot : Expire(s)
    \/ \E r \in Request : JobEnds(r) \/ DeleteJob(r)

Spec == Init /\ [][Next]_vars

-----------------------------------------------------------------------------
Task ==
    [at : {"idle", "lock", "list", "classify", "fence", "decide", "dispatch", "admit",
           "dispatched", "failed", "write", "remove", "change"},
     op : {"none", "evaluate", "delete", "pause", "resume", "revoke"},
     slot : Slot \cup {None}, request : Request \cup {None},
     seen : [Slot -> Occurrence \cup {None}] \cup Occurrence \cup ScheduleRecord \cup {None},
     expired : SUBSET Slot, owned : BOOLEAN]

TypeOK ==
    /\ schedule \in ScheduleRecord \cup {None}
    /\ occurrence \in [Slot -> Occurrence \cup {None}]
    /\ job \in [Request -> {"none", "open", "terminal", "deleted"}]
    /\ slotOf \in [Request -> Slot \cup {None}]
    /\ scheduleLock \in Process \cup {None}
    /\ coordLock \in Process \cup {None}
    /\ task \in [Process -> Task]
    /\ pauses \in 0..MaxPauses
    /\ interrupted \in BOOLEAN

\* "One active job per schedule": no two jobs of the schedule are unfinished at
\* the same time, however long their dispatchers were suspended (the exception
\* is that of LaunchedOnce).
OneActiveJob ==
    interrupted \/ \A q, r \in Request : job[q] = "open" /\ job[r] = "open" => q = r

\* "The same occurrence is never launched twice", by whatever processes, unless
\* its record was lost in a deletion of the schedule that was interrupted.
LaunchedOnce ==
    interrupted \/ \A q, r \in Request :
        job[q] # "none" /\ job[r] # "none" /\ slotOf[q] = slotOf[r] => q = r

\* What docs/docs/features/background-jobs.md says without exception.
NeverLaunchedTwice ==
    \A q, r \in Request :
        job[q] # "none" /\ job[r] # "none" /\ slotOf[q] = slotOf[r] => q = r

\* A reservation that was given up is never launched afterwards, and nothing is
\* launched for a schedule that was deleted (same exception).
FencedIsNotLaunched ==
    [][~interrupted => \A r \in Request : job[r] = "none" /\ job'[r] = "open" =>
            /\ schedule # None
            /\ occurrence[slotOf[r]] # None
            /\ occurrence[slotOf[r]].status = "reserved"]_vars

\* "Revoking is permanent": a revoked schedule is never enabled again, also not
\* by a change that was asked before, and no occurrence is reserved for it.
RevokedForever ==
    [][schedule # None /\ Revoked(schedule) =>
         /\ schedule' # None => Revoked(schedule')
         /\ slotOf' = slotOf]_vars
=============================================================================
