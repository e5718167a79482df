------------------------------ MODULE Admission ------------------------------
(***************************************************************************)
(* The coordinator's admission of background jobs.  Every agav process has *)
(* a coordinator of its own; they share the launch specifications and the  *)
(* job records on disk, and one coordinator lock (FileLock).  start()      *)
(* turns a request into a job record at most once and within the limit of  *)
(* concurrent jobs, launches the supervisor outside the lock, and is       *)
(* repeated by callers who do not know whether it succeeded; deleteJob()   *)
(* and abandonJob() take the same lock.  A process may die anywhere.       *)
(*                                                                         *)
(* The life of a job after its launch is JobSupervisor; here it is only    *)
(* accepted, running, uncertain or terminal.                               *)
(***************************************************************************)
EXTENDS Integers, FiniteSets

CONSTANTS
    Process,     \* agav processes
    Request,     \* request ids chosen by callers
    LaunchSpec,  \* launch specifications, told apart by their consent hash
    JobId,       \* random job ids
    Limit,       \* Limit[s]: limits.maxConcurrentJobs of specification s
    None         \* the absent value of any kind

ASSUME LimitAssumption == Limit \in [LaunchSpec -> Nat]
ASSUME JobIdAssumption == IsFiniteSet(JobId)

VARIABLES
    specs,    \* specs[r]: the specification stored for request r
    jobs,     \* jobs[j]: the job record
    created,  \* job ids that were ever used
    lock,     \* holder of the coordinator lock, or None
    op,       \* op[p]: where process p is in its operation, and on what
    sup       \* jobs whose supervisor process is alive

vars == <<specs, jobs, created, lock, op, sup>>

JobState  == {"accepted", "running", "uncertain", "terminal"}
JobRecord == [request : Request, spec : LaunchSpec, state : JobState,
              abandoned : BOOLEAN]
Stored(record)     == record \in JobRecord
Unfinished(record) == Stored(record) /\ record.state # "terminal"

\* What reserveCapacity counts.
Active(record) == Unfinished(record) /\ ~record.abandoned
ActiveJobs     == {j \in JobId : Active(jobs[j])}

ASSUME NoneAssumption ==
    None \notin JobRecord \cup LaunchSpec \cup Process \cup Request \cup JobId

Idle == [at |-> "idle", request |-> None, spec |-> None, job |-> None]

Init ==
    /\ specs = [r \in Request |-> None]
    /\ jobs = [j \in JobId |-> None]
    /\ created = {}
    /\ lock = None
    /\ op = [p \in Process |-> Idle]
    /\ sup = {}

At(p, label)   == op[p].at = label
Goto(p, label) == op' = [op EXCEPT ![p].at = label]
Return(p)      == op' = [op EXCEPT ![p] = Idle]
Finish(p)      == Return(p) /\ lock' = None

-----------------------------------------------------------------------------
(* start(): one transaction under the coordinator lock, then the launch.   *)

\* Authorization (which may ask a human) and the beforeAdmit hook of schedules
\* refuse by throwing before the record is created, which leaves the stores as
\* a crash does.
Start(p, r, s) ==
    /\ At(p, "idle")
    /\ op' = [op EXCEPT ![p] = [at |-> "start", request |-> r, spec |-> s, job |-> None]]
    /\ UNCHANGED <<specs, jobs, created, lock, sup>>

Acquire(p) ==
    /\ op[p].at \in {"start", "delete"} /\ lock = None
    /\ lock' = p
    /\ Goto(p, IF At(p, "start") THEN "check" ELSE "remove")
    /\ UNCHANGED <<specs, jobs, created, sup>>

\* The lock stayed held for all attempts.
LockHeld(p) ==
    /\ op[p].at \in {"start", "delete"} /\ lock # None
    /\ Return(p)
    /\ UNCHANGED <<specs, jobs, created, lock, sup>>

\* Mutant: a job whose outcome is uncertain is taken for finished.
LiveJobsOf(r) ==
    {j \in JobId : Stored(jobs[j]) /\ jobs[j].request = r
                    /\ jobs[j].state \in {"accepted", "running"}}

JobsOf(r) == {j \in JobId : Stored(jobs[j]) /\ jobs[j].request = r}

\* A request that is known is refused when its specification differs, and
\* answered with its job when it has one.  The specification alone is what a
\* process left that died between its two writes.
CheckRequest(p) ==
    LET r == op[p].request  known == specs[r] # None
    IN  /\ At(p, "check")
        /\ \/ /\ known => specs[r] = op[p].spec /\ JobsOf(r) = {}
              /\ Goto(p, "reserve") /\ UNCHANGED lock
           \/ /\ known /\ (specs[r] # op[p].spec \/ JobsOf(r) # {})
              /\ Finish(p)
        /\ UNCHANGED <<specs, jobs, created, sup>>

\* Mutant: only running jobs are counted.
RunningJobs == Cardinality({j \in JobId : Active(jobs[j]) /\ jobs[j].state = "running"})

CapacityTaken == Cardinality(ActiveJobs)

ReserveCapacity(p) ==
    /\ At(p, "reserve")
    /\ \/ /\ CapacityTaken < Limit[op[p].spec]
          /\ Goto(p, "put") /\ UNCHANGED lock
       \/ /\ CapacityTaken >= Limit[op[p].spec]
          /\ Finish(p)
    /\ UNCHANGED <<specs, jobs, created, sup>>

PutSpec(p) ==
    /\ At(p, "put")
    /\ specs' = [specs EXCEPT ![op[p].request] = op[p].spec]
    /\ Goto(p, "create")
    /\ UNCHANGED <<jobs, created, lock, sup>>

\* Mutant: the hash of the specification is left out of the record.
UnhashedJob(p) == [request |-> op[p].request, spec |-> None, state |-> "accepted",
                   abandoned |-> FALSE]

NewJob(p) == [request |-> op[p].request, spec |-> op[p].spec,
              state |-> "accepted", abandoned |-> FALSE]

CreateJob(p, j) ==
    /\ At(p, "create") /\ j \notin created
    /\ jobs' = [jobs EXCEPT ![j] = NewJob(p)]
    /\ created' = created \cup {j}
    /\ op' = [op EXCEPT ![p] = [at |-> "launch", request |-> op[p].request,
                                spec |-> op[p].spec, job |-> j]]
    /\ lock' = None
    /\ UNCHANGED <<specs, sup>>

\* Outside the lock; the process may or may not learn that it succeeded.
Launch(p) ==
    /\ At(p, "launch")
    /\ sup' = sup \cup {op[p].job}
    /\ Return(p)
    /\ UNCHANGED <<specs, jobs, created, lock>>

Writable(j) == Stored(jobs[j]) /\ ~jobs[j].abandoned

\* PreSpawnLaunchError: nothing ran, so the capacity is given back; the update
\* is refused when the record is gone or abandoned, and may fail.
LaunchFails(p) ==
    LET j == op[p].job
    IN  /\ At(p, "launch")
        /\ jobs' \in {jobs} \cup
             IF Writable(j) THEN {[jobs EXCEPT ![j].state = "terminal"]} ELSE {}
        /\ Return(p)
        /\ UNCHANGED <<specs, created, lock, sup>>

-----------------------------------------------------------------------------
(* deleteJob(): the specification goes with the last job of its request.   *)

Delete(p, j) ==
    /\ At(p, "idle") /\ Stored(jobs[j])
    /\ op' = [op EXCEPT ![p] = [Idle EXCEPT !.at = "delete", !.job = j]]
    /\ UNCHANGED <<specs, jobs, created, lock, sup>>

\* Mutant: the specification is deleted with any job that used it.
NeverShared(j) == FALSE

SharesSpec(j) == JobsOf(jobs[j].request) # {j}

DeleteSpec(p) ==
    LET j == op[p].job
    IN  /\ At(p, "remove")
        /\ IF Stored(jobs[j]) /\ jobs[j].state = "terminal"
             THEN /\ specs' = IF SharesSpec(j) THEN specs
                                ELSE [specs EXCEPT ![jobs[j].request] = None]
                  /\ Goto(p, "forget") /\ UNCHANGED lock
             ELSE Finish(p) /\ UNCHANGED specs
        /\ UNCHANGED <<jobs, created, sup>>

DeleteRecord(p) ==
    LET j == op[p].job
    IN  /\ At(p, "forget")
        /\ jobs' = IF Writable(j) THEN [jobs EXCEPT ![j] = None] ELSE jobs
        /\ Finish(p)
        /\ UNCHANGED <<specs, created, sup>>

-----------------------------------------------------------------------------
(* abandonJob() under both locks; the records' other writers.              *)

Abandon(j) ==
    /\ lock = None
    /\ Writable(j) /\ jobs[j].state = "uncertain"
    /\ jobs' = [jobs EXCEPT ![j].abandoned = TRUE]
    /\ UNCHANGED <<specs, created, lock, op, sup>>

\* Any process that gets no answer from the supervisor (reconcileJob).
Reconcile(j) ==
    /\ Writable(j) /\ jobs[j].state \in {"accepted", "running"}
    /\ jobs' = [jobs EXCEPT ![j].state = "uncertain"]
    /\ UNCHANGED <<specs, created, lock, op, sup>>

\* The supervisor needs the record and the specification, and is fenced by a
\* terminal or abandoned record.
SupervisorRuns(j) ==
    /\ j \in sup
    /\ Writable(j) /\ jobs[j].state # "terminal" /\ specs[jobs[j].request] # None
    /\ \E state \in {"running", "terminal"} : jobs' = [jobs EXCEPT ![j].state = state]
    /\ UNCHANGED <<specs, created, lock, op, sup>>

SupervisorExits(j) ==
    /\ j \in sup /\ sup' = sup \ {j}
    /\ UNCHANGED <<specs, jobs, created, lock, op>>

\* The next process that wants the lock finds its holder gone (FileLock).
Crash(p) ==
    /\ ~At(p, "idle")
    /\ Return(p)
    /\ lock' = IF lock = p THEN None ELSE lock
    /\ UNCHANGED <<specs, jobs, created, sup>>

-----------------------------------------------------------------------------
Step(p) ==
    \/ \E r \in Request, s \in LaunchSpec : Start(p, r, s)
    \/ \E j \in JobId : Delete(p, j) \/ CreateJob(p, j)
    \/ Acquire(p) \/ LockHeld(p) \/ CheckRequest(p) \/ ReserveCapacity(p)
    \/ PutSpec(p) \/ Launch(p) \/ LaunchFails(p)
    \/ DeleteSpec(p) \/ DeleteRecord(p) \/ Crash(p)

Environment ==
    \E j \in JobId : Abandon(j) \/ Reconcile(j) \/ SupervisorRuns(j) \/ SupervisorExits(j)

Next == Environment \/ \E p \in Process : Step(p)

Spec == Init /\ [][Next]_vars

-----------------------------------------------------------------------------
Label == {"idle", "start", "check", "reserve", "put", "create", "launch",
          "delete", "remove", "forget"}

TypeOK ==
    /\ specs \in [Request -> LaunchSpec \cup {None}]
    /\ jobs \in [JobId -> JobRecord \cup {None}]
    /\ created \subseteq JobId
    /\ lock \in Process \cup {None}
    /\ op \in [Process -> [at : Label, request : Request \cup {None},
                           spec : LaunchSpec \cup {None}, job : JobId \cup {None}]]
    /\ sup \subseteq JobId

\* However often a request is repeated, by however many processes and through
\* however many crashes and deletions, it has at most one job that is not
\* finished; an abandoned job counts, since its workload may still be running.
OneUnfinishedJob ==
    \A j, k \in JobId :
        /\ Unfinished(jobs[j]) /\ Unfinished(jobs[k])
        /\ jobs[j].request = jobs[k].request
        => j = k

\* The specification a job was admitted with stays in the store, unchanged, as
\* long as the job is not finished: the supervisor, a stop and a repeated
\* request all need it.
SpecOfUnfinishedJob ==
    \A j \in JobId :
        Unfinished(jobs[j]) => specs[jobs[j].request] = jobs[j].spec

\* A job is admitted only while the jobs that hold capacity, itself included,
\* stay within the limit of its specification.
AdmittedWithinLimit ==
    [][\A j \in JobId :
          jobs[j] = None /\ jobs'[j] # None =>
            Cardinality({k \in JobId : Active(jobs'[k])}) <= Limit[jobs'[j].spec]]_vars
=============================================================================
