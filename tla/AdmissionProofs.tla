--------------------------- MODULE AdmissionProofs ---------------------------
(***************************************************************************)
(* Admission is correct for any number of processes, requests,             *)
(* specifications and jobs.                                                *)
(***************************************************************************)
EXTENDS Admission, FiniteSetTheorems, TLAPS

\* Only the holder of the lock is inside a transaction.
Inside == {"check", "reserve", "put", "create", "remove", "forget"}
OneInside == \A p \in Process : op[p].at \in Inside => lock = p

\* An operation knows what it works on.
Arguments ==
    \A p \in Process :
        /\ op[p].at \in {"start", "check", "reserve", "put", "create", "launch"} =>
             op[p].request \in Request /\ op[p].spec \in LaunchSpec
        /\ op[p].at \in {"launch", "delete", "remove", "forget"} => op[p].job \in JobId

JobsAreCreated == \A j \in JobId : jobs[j] # None => j \in created

\* What the transaction of start() has established before it creates the job.
Admitting == {"reserve", "put", "create"}
NoRival ==
    \A p \in Process : op[p].at \in Admitting =>
        /\ \A j \in JobId : Unfinished(jobs[j]) => jobs[j].request # op[p].request
        /\ op[p].at = "create" => specs[op[p].request] = op[p].spec

CapacityLeft ==
    \A p \in Process : op[p].at \in {"put", "create"} =>
        Cardinality(ActiveJobs) < Limit[op[p].spec]

\* A record about to be deleted is terminal.
Forgettable ==
    \A p \in Process : op[p].at = "forget" => ~Unfinished(jobs[op[p].job])

IInv ==
    /\ TypeOK /\ OneInside /\ Arguments /\ JobsAreCreated
    /\ OneUnfinishedJob /\ SpecOfUnfinishedJob
    /\ NoRival /\ CapacityLeft /\ Forgettable

-----------------------------------------------------------------------------
\* Active jobs can only become fewer when no job becomes active.
LEMMA FewerActive ==
    ASSUME NEW old, NEW new,
           \A j \in JobId : Active(new[j]) => Active(old[j])
    PROVE  Cardinality({j \in JobId : Active(new[j])})
             <= Cardinality({j \in JobId : Active(old[j])})
<1> DEFINE Old == {j \in JobId : Active(old[j])}
           New == {j \in JobId : Active(new[j])}
<1>1. IsFiniteSet(Old)
  BY JobIdAssumption, FS_Subset
<1>2. New \subseteq Old
  OBVIOUS
<1> QED
  BY <1>1, <1>2, FS_Subset

\* One more job is at most one more active job.
LEMMA OneMoreActive ==
    ASSUME NEW old, NEW new, NEW i \in JobId,
           \A j \in JobId : j # i => (Active(new[j]) => Active(old[j]))
    PROVE  Cardinality({j \in JobId : Active(new[j])})
             <= Cardinality({j \in JobId : Active(old[j])}) + 1
<1> DEFINE Old == {j \in JobId : Active(old[j])}
           New == {j \in JobId : Active(new[j])}
<1>1. IsFiniteSet(Old) /\ IsFiniteSet(Old \cup {i})
  BY JobIdAssumption, FS_Subset, FS_AddElement
<1>2. New \subseteq Old \cup {i}
  OBVIOUS
<1>3. Cardinality(New) <= Cardinality(Old \cup {i})
  BY <1>1, <1>2, FS_Subset
<1>4. Cardinality(Old) \in Nat
  BY <1>1, FS_CardinalityType
<1>5. Cardinality(Old \cup {i}) <= Cardinality(Old) + 1
  BY <1>1, <1>4, FS_AddElement
<1>6. Cardinality(New) \in Nat /\ Cardinality(Old \cup {i}) \in Nat
  BY <1>1, <1>2, FS_Subset, FS_CardinalityType
<1> QED
  BY <1>3, <1>4, <1>5, <1>6

LEMMA ActiveCount == Cardinality(ActiveJobs) \in Nat
  BY JobIdAssumption, FS_Subset, FS_CardinalityType DEF ActiveJobs

LEMMA InitInv == Init => IInv
  BY NoneAssumption DEF Init, IInv, TypeOK, OneInside, Arguments, JobsAreCreated,
     OneUnfinishedJob, SpecOfUnfinishedJob, NoRival, CapacityLeft, Forgettable,
     Inside, Admitting, Idle, Label, Unfinished, Stored

\* The type of every variable is kept by every step.
LEMMA TypeStep == TypeOK /\ Arguments /\ [Next]_vars => TypeOK'
<1> SUFFICES ASSUME TypeOK, Arguments, [Next]_vars PROVE TypeOK'
  OBVIOUS
<1> USE DEF TypeOK, Label, Goto, Return, Finish, Idle, At
<1>1. CASE UNCHANGED vars
  BY <1>1 DEF vars
<1>2. ASSUME NEW p \in Process, Step(p) PROVE TypeOK'
  <2>1. ASSUME NEW r \in Request, NEW s \in LaunchSpec, Start(p, r, s) PROVE TypeOK'
    BY <2>1 DEF Start
  <2>2. ASSUME NEW j \in JobId, Delete(p, j) PROVE TypeOK'
    BY <2>2 DEF Delete
  <2>3. ASSUME NEW j \in JobId, CreateJob(p, j) PROVE TypeOK'
    <3>1. op[p].request \in Request /\ op[p].spec \in LaunchSpec
      BY <2>3 DEF CreateJob, Arguments
    <3>2. NewJob(p) \in JobRecord
      BY <3>1 DEF NewJob, JobRecord, JobState
    <3>3. jobs' \in [JobId -> JobRecord \cup {None}]
      <4> HIDE DEF JobRecord
      <4> QED
        BY <2>3, <3>2 DEF CreateJob
    <3>4. op' \in [Process -> [at : Label, request : Request \cup {None},
                               spec : LaunchSpec \cup {None}, job : JobId \cup {None}]]
      <4> HIDE DEF Label
      <4>1. "launch" \in Label
        BY DEF Label
      <4> QED
        BY <2>3, <3>1, <4>1 DEF CreateJob
    <3>5. created' \subseteq JobId /\ lock' = None /\ UNCHANGED <<specs, sup>>
      BY <2>3 DEF CreateJob
    <3> QED
      BY <3>3, <3>4, <3>5
  <2>4. CASE Acquire(p)
    BY <2>4 DEF Acquire
  <2>5. CASE LockHeld(p)
    BY <2>5 DEF LockHeld
  <2>6. CASE CheckRequest(p)
    BY <2>6 DEF CheckRequest
  <2>7. CASE ReserveCapacity(p)
    BY <2>7 DEF ReserveCapacity
  <2>8. CASE PutSpec(p)
    BY <2>8 DEF PutSpec, Arguments
  <2>9. CASE Launch(p)
    BY <2>9 DEF Launch, Arguments
  <2>10. CASE LaunchFails(p)
    BY <2>10 DEF LaunchFails, Arguments, Writable, Stored, JobRecord, JobState
  <2>11. CASE DeleteSpec(p)
    BY <2>11 DEF DeleteSpec
  <2>12. CASE DeleteRecord(p)
    BY <2>12 DEF DeleteRecord
  <2>13. CASE Crash(p)
    BY <2>13 DEF Crash
  <2> QED
    BY <1>2, <2>1, <2>2, <2>3, <2>4, <2>5, <2>6, <2>7, <2>8, <2>9, <2>10, <2>11,
       <2>12, <2>13 DEF Step
<1>3. ASSUME NEW j \in JobId, Abandon(j) PROVE TypeOK'
  BY <1>3 DEF Abandon, Writable, Stored, JobRecord
<1>4. ASSUME NEW j \in JobId, Reconcile(j) PROVE TypeOK'
  BY <1>4 DEF Reconcile, Writable, Stored, JobRecord, JobState
<1>5. ASSUME NEW j \in JobId, SupervisorRuns(j) PROVE TypeOK'
  BY <1>5 DEF SupervisorRuns, Writable, Stored, JobRecord, JobState
<1>6. ASSUME NEW j \in JobId, SupervisorExits(j) PROVE TypeOK'
  BY <1>6 DEF SupervisorExits
<1> QED
  BY <1>1, <1>2, <1>3, <1>4, <1>5, <1>6 DEF Next, Environment

-----------------------------------------------------------------------------
(* Every action keeps the invariant.                                       *)

LEMMA StartStep ==
    ASSUME IInv, NEW p \in Process, NEW r \in Request, NEW s \in LaunchSpec, Start(p, r, s)
    PROVE  IInv'
<1>type. TypeOK'
  BY TypeStep DEF IInv, Next, Step
<1> USE NoneAssumption DEF
      IInv, TypeOK, Label, JobRecord, JobState, Stored, Unfinished, At,
      Goto, Return, Finish, Idle, Inside, Admitting, Start
<1>1. OneInside'
  BY <1>type DEF OneInside
<1>2. Arguments'
  BY <1>type DEF Arguments
<1>3. JobsAreCreated'
  BY <1>type DEF JobsAreCreated, Arguments
<1>4. OneUnfinishedJob'
  BY <1>type DEF OneUnfinishedJob, NoRival, Arguments
<1>5. SpecOfUnfinishedJob'
  BY <1>type DEF SpecOfUnfinishedJob, NoRival, Forgettable, Arguments, OneInside
<1>6. NoRival'
  BY <1>type DEF NoRival, OneInside, SpecOfUnfinishedJob, Arguments
<1>7. ActiveJobs' = ActiveJobs
  BY DEF ActiveJobs
<1>8. CapacityLeft'
  BY <1>7, <1>type, ActiveCount, LimitAssumption DEF CapacityLeft, Arguments
<1>9. Forgettable'
  BY <1>type DEF Forgettable, Arguments, OneInside, JobsAreCreated
<1> QED
  BY <1>type, <1>1, <1>2, <1>3, <1>4, <1>5, <1>6, <1>8, <1>9

LEMMA AcquireStep ==
    ASSUME IInv, NEW p \in Process, Acquire(p)
    PROVE  IInv'
<1>type. TypeOK'
  BY TypeStep DEF IInv, Next, Step
<1> USE NoneAssumption DEF
      IInv, TypeOK, Label, JobRecord, JobState, Stored, Unfinished, At,
      Goto, Return, Finish, Idle, Inside, Admitting, Acquire
<1>1. OneInside'
  BY <1>type DEF OneInside
<1>2. Arguments'
  BY <1>type DEF Arguments
<1>3. JobsAreCreated'
  BY <1>type DEF JobsAreCreated, Arguments
<1>4. OneUnfinishedJob'
  BY <1>type DEF OneUnfinishedJob, NoRival, Arguments
<1>5. SpecOfUnfinishedJob'
  BY <1>type DEF SpecOfUnfinishedJob, NoRival, Forgettable, Arguments, OneInside
<1>6. NoRival'
  BY <1>type DEF NoRival, OneInside, SpecOfUnfinishedJob, Arguments
<1>7. ActiveJobs' = ActiveJobs
  BY DEF ActiveJobs
<1>8. CapacityLeft'
  BY <1>7, <1>type, ActiveCount, LimitAssumption DEF CapacityLeft, Arguments
<1>9. Forgettable'
  BY <1>type DEF Forgettable, Arguments, OneInside, JobsAreCreated
<1> QED
  BY <1>type, <1>1, <1>2, <1>3, <1>4, <1>5, <1>6, <1>8, <1>9

LEMMA LockHeldStep ==
    ASSUME IInv, NEW p \in Process, LockHeld(p)
    PROVE  IInv'
<1>type. TypeOK'
  BY TypeStep DEF IInv, Next, Step
<1> USE NoneAssumption DEF
      IInv, TypeOK, Label, JobRecord, JobState, Stored, Unfinished, At,
      Goto, Return, Finish, Idle, Inside, Admitting, LockHeld
<1>1. OneInside'
  BY <1>type DEF OneInside
<1>2. Arguments'
  BY <1>type DEF Arguments
<1>3. JobsAreCreated'
  BY <1>type DEF JobsAreCreated, Arguments
<1>4. OneUnfinishedJob'
  BY <1>type DEF OneUnfinishedJob, NoRival, Arguments
<1>5. SpecOfUnfinishedJob'
  BY <1>type DEF SpecOfUnfinishedJob, NoRival, Forgettable, Arguments, OneInside
<1>6. NoRival'
  BY <1>type DEF NoRival, OneInside, SpecOfUnfinishedJob, Arguments
<1>7. ActiveJobs' = ActiveJobs
  BY DEF ActiveJobs
<1>8. CapacityLeft'
  BY <1>7, <1>type, ActiveCount, LimitAssumption DEF CapacityLeft, Arguments
<1>9. Forgettable'
  BY <1>type DEF Forgettable, Arguments, OneInside, JobsAreCreated
<1> QED
  BY <1>type, <1>1, <1>2, <1>3, <1>4, <1>5, <1>6, <1>8, <1>9

LEMMA CheckRequestStep ==
    ASSUME IInv, NEW p \in Process, CheckRequest(p)
    PROVE  IInv'
<1>type. TypeOK'
  BY TypeStep DEF IInv, Next, Step
<1> USE NoneAssumption DEF
      IInv, TypeOK, Label, JobRecord, JobState, Stored, Unfinished, At,
      Goto, Return, Finish, Idle, Inside, Admitting, CheckRequest, JobsOf
<1>1. OneInside'
  BY <1>type DEF OneInside
<1>2. Arguments'
  BY <1>type DEF Arguments
<1>3. JobsAreCreated'
  BY <1>type DEF JobsAreCreated, Arguments
<1>4. OneUnfinishedJob'
  BY <1>type DEF OneUnfinishedJob, NoRival, Arguments
<1>5. SpecOfUnfinishedJob'
  BY <1>type DEF SpecOfUnfinishedJob, NoRival, Forgettable, Arguments, OneInside
<1>6. NoRival'
  BY <1>type DEF NoRival, OneInside, SpecOfUnfinishedJob, Arguments
<1>7. ActiveJobs' = ActiveJobs
  BY DEF ActiveJobs
<1>8. CapacityLeft'
  BY <1>7, <1>type, ActiveCount, LimitAssumption DEF CapacityLeft, Arguments
<1>9. Forgettable'
  BY <1>type DEF Forgettable, Arguments, OneInside, JobsAreCreated
<1> QED
  BY <1>type, <1>1, <1>2, <1>3, <1>4, <1>5, <1>6, <1>8, <1>9

LEMMA ReserveCapacityStep ==
    ASSUME IInv, NEW p \in Process, ReserveCapacity(p)
    PROVE  IInv'
<1>type. TypeOK'
  BY TypeStep DEF IInv, Next, Step
<1> USE NoneAssumption DEF
      IInv, TypeOK, Label, JobRecord, JobState, Stored, Unfinished, At,
      Goto, Return, Finish, Idle, Inside, Admitting, ReserveCapacity, CapacityTaken
<1>1. OneInside'
  BY <1>type DEF OneInside
<1>2. Arguments'
  BY <1>type DEF Arguments
<1>3. JobsAreCreated'
  BY <1>type DEF JobsAreCreated, Arguments
<1>4. OneUnfinishedJob'
  BY <1>type DEF OneUnfinishedJob, NoRival, Arguments
<1>5. SpecOfUnfinishedJob'
  BY <1>type DEF SpecOfUnfinishedJob, NoRival, Forgettable, Arguments, OneInside
<1>6. NoRival'
  BY <1>type DEF NoRival, OneInside, SpecOfUnfinishedJob, Arguments
<1>7. ActiveJobs' = ActiveJobs
  BY DEF ActiveJobs
<1>8. CapacityLeft'
  BY <1>7, <1>type, ActiveCount, LimitAssumption DEF CapacityLeft, Arguments
<1>9. Forgettable'
  BY <1>type DEF Forgettable, Arguments, OneInside, JobsAreCreated
<1> QED
  BY <1>type, <1>1, <1>2, <1>3, <1>4, <1>5, <1>6, <1>8, <1>9

LEMMA PutSpecStep ==
    ASSUME IInv, NEW p \in Process, PutSpec(p)
    PROVE  IInv'
<1>type. TypeOK'
  BY TypeStep DEF IInv, Next, Step
<1> USE NoneAssumption DEF
      IInv, TypeOK, Label, JobRecord, JobState, Stored, Unfinished, At,
      Goto, Return, Finish, Idle, Inside, Admitting, PutSpec
<1>1. OneInside'
  BY <1>type DEF OneInside
<1>2. Arguments'
  BY <1>type DEF Arguments
<1>3. JobsAreCreated'
  BY <1>type DEF JobsAreCreated, Arguments
<1>4. OneUnfinishedJob'
  BY <1>type DEF OneUnfinishedJob, NoRival, Arguments
<1>5. SpecOfUnfinishedJob'
  BY <1>type DEF SpecOfUnfinishedJob, NoRival, Forgettable, Arguments, OneInside
<1>6. NoRival'
  BY <1>type DEF NoRival, OneInside, SpecOfUnfinishedJob, Arguments
<1>7. ActiveJobs' = ActiveJobs
  BY DEF ActiveJobs
<1>8. CapacityLeft'
  BY <1>7, <1>type, ActiveCount, LimitAssumption DEF CapacityLeft, Arguments
<1>9. Forgettable'
  BY <1>type DEF Forgettable, Arguments, OneInside, JobsAreCreated
<1> QED
  BY <1>type, <1>1, <1>2, <1>3, <1>4, <1>5, <1>6, <1>8, <1>9

LEMMA CreateJobStep ==
    ASSUME IInv, NEW p \in Process, NEW j \in JobId, CreateJob(p, j)
    PROVE  IInv'
<1>type. TypeOK'
  BY TypeStep DEF IInv, Next, Step
<1> USE NoneAssumption DEF
      IInv, TypeOK, Label, JobRecord, JobState, Stored, Unfinished, At,
      Goto, Return, Finish, Idle, Inside, Admitting, CreateJob, NewJob
<1>1. OneInside'
  BY <1>type DEF OneInside
<1>2. Arguments'
  BY <1>type DEF Arguments
<1>3. JobsAreCreated'
  BY <1>type DEF JobsAreCreated, Arguments
<1>4. OneUnfinishedJob'
  BY <1>type DEF OneUnfinishedJob, NoRival, Arguments
<1>5. SpecOfUnfinishedJob'
  BY <1>type DEF SpecOfUnfinishedJob, NoRival, Forgettable, Arguments, OneInside
<1>6. NoRival'
  BY <1>type DEF NoRival, OneInside, SpecOfUnfinishedJob, Arguments
<1>7. CapacityLeft'
  BY DEF CapacityLeft, OneInside
<1>8. Forgettable'
  BY <1>type DEF Forgettable, Arguments, OneInside, JobsAreCreated
<1> QED
  BY <1>type, <1>1, <1>2, <1>3, <1>4, <1>5, <1>6, <1>7, <1>8

LEMMA LaunchStep ==
    ASSUME IInv, NEW p \in Process, Launch(p)
    PROVE  IInv'
<1>type. TypeOK'
  BY TypeStep DEF IInv, Next, Step
<1> USE NoneAssumption DEF
      IInv, TypeOK, Label, JobRecord, JobState, Stored, Unfinished, At,
      Goto, Return, Finish, Idle, Inside, Admitting, Launch
<1>1. OneInside'
  BY <1>type DEF OneInside
<1>2. Arguments'
  BY <1>type DEF Arguments
<1>3. JobsAreCreated'
  BY <1>type DEF JobsAreCreated, Arguments
<1>4. OneUnfinishedJob'
  BY <1>type DEF OneUnfinishedJob, NoRival, Arguments
<1>5. SpecOfUnfinishedJob'
  BY <1>type DEF SpecOfUnfinishedJob, NoRival, Forgettable, Arguments, OneInside
<1>6. NoRival'
  BY <1>type DEF NoRival, OneInside, SpecOfUnfinishedJob, Arguments
<1>7. ActiveJobs' = ActiveJobs
  BY DEF ActiveJobs
<1>8. CapacityLeft'
  BY <1>7, <1>type, ActiveCount, LimitAssumption DEF CapacityLeft, Arguments
<1>9. Forgettable'
  BY <1>type DEF Forgettable, Arguments, OneInside, JobsAreCreated
<1> QED
  BY <1>type, <1>1, <1>2, <1>3, <1>4, <1>5, <1>6, <1>8, <1>9

LEMMA LaunchFailsStep ==
    ASSUME IInv, NEW p \in Process, LaunchFails(p)
    PROVE  IInv'
<1>type. TypeOK'
  BY TypeStep DEF IInv, Next, Step
<1> USE NoneAssumption DEF
      IInv, TypeOK, Label, JobRecord, JobState, Stored, Unfinished, At,
      Goto, Return, Finish, Idle, Inside, Admitting, LaunchFails, Writable
<1>1. OneInside'
  BY <1>type DEF OneInside
<1>2. Arguments'
  BY <1>type DEF Arguments
<1>3. JobsAreCreated'
  BY <1>type DEF JobsAreCreated, Arguments
<1>4. OneUnfinishedJob'
  BY <1>type DEF OneUnfinishedJob, NoRival, Arguments
<1>5. SpecOfUnfinishedJob'
  BY <1>type DEF SpecOfUnfinishedJob, NoRival, Forgettable, Arguments, OneInside
<1>6. NoRival'
  BY <1>type DEF NoRival, OneInside, SpecOfUnfinishedJob, Arguments
<1>7. \A k \in JobId : Active(jobs'[k]) => Active(jobs[k])
  BY DEF Active
<1>8. Cardinality(ActiveJobs') <= Cardinality(ActiveJobs) /\ Cardinality(ActiveJobs') \in Nat
  <2>1. {k \in JobId : Active(jobs'[k])} = ActiveJobs' /\ IsFiniteSet(ActiveJobs')
    BY JobIdAssumption, FS_Subset DEF ActiveJobs
  <2> QED
    BY ONLY <1>7, <2>1, FewerActive, FS_CardinalityType DEF ActiveJobs
<1>9. CapacityLeft'
  BY <1>8, <1>type, ActiveCount, LimitAssumption DEF CapacityLeft, Arguments
<1>10. Forgettable'
  BY <1>type DEF Forgettable, Arguments, OneInside, JobsAreCreated
<1> QED
  BY <1>type, <1>1, <1>2, <1>3, <1>4, <1>5, <1>6, <1>9, <1>10

LEMMA DeleteStep ==
    ASSUME IInv, NEW p \in Process, NEW j \in JobId, Delete(p, j)
    PROVE  IInv'
<1>type. TypeOK'
  BY TypeStep DEF IInv, Next, Step
<1> USE NoneAssumption DEF
      IInv, TypeOK, Label, JobRecord, JobState, Stored, Unfinished, At,
      Goto, Return, Finish, Idle, Inside, Admitting, Delete
<1>1. OneInside'
  BY <1>type DEF OneInside
<1>2. Arguments'
  BY <1>type DEF Arguments
<1>3. JobsAreCreated'
  BY <1>type DEF JobsAreCreated, Arguments
<1>4. OneUnfinishedJob'
  BY <1>type DEF OneUnfinishedJob, NoRival, Arguments
<1>5. SpecOfUnfinishedJob'
  BY <1>type DEF SpecOfUnfinishedJob, NoRival, Forgettable, Arguments, OneInside
<1>6. NoRival'
  BY <1>type DEF NoRival, OneInside, SpecOfUnfinishedJob, Arguments
<1>7. ActiveJobs' = ActiveJobs
  BY DEF ActiveJobs
<1>8. CapacityLeft'
  BY <1>7, <1>type, ActiveCount, LimitAssumption DEF CapacityLeft, Arguments
<1>9. Forgettable'
  BY <1>type DEF Forgettable, Arguments, OneInside, JobsAreCreated
<1> QED
  BY <1>type, <1>1, <1>2, <1>3, <1>4, <1>5, <1>6, <1>8, <1>9

LEMMA DeleteSpecStep ==
    ASSUME IInv, NEW p \in Process, DeleteSpec(p)
    PROVE  IInv'
<1>type. TypeOK'
  BY TypeStep DEF IInv, Next, Step
<1> USE NoneAssumption DEF
      IInv, TypeOK, Label, JobRecord, JobState, Stored, Unfinished, At,
      Goto, Return, Finish, Idle, Inside, Admitting, DeleteSpec, JobsOf, SharesSpec
<1>1. OneInside'
  BY <1>type DEF OneInside
<1>2. Arguments'
  BY <1>type DEF Arguments
<1>3. JobsAreCreated'
  BY <1>type DEF JobsAreCreated, Arguments
<1>4. OneUnfinishedJob'
  BY <1>type DEF OneUnfinishedJob, NoRival, Arguments
<1>5. SpecOfUnfinishedJob'
  BY <1>type DEF SpecOfUnfinishedJob, NoRival, Forgettable, Arguments, OneInside
<1>6. NoRival'
  BY <1>type DEF NoRival, OneInside, SpecOfUnfinishedJob, Arguments
<1>7. ActiveJobs' = ActiveJobs
  BY DEF ActiveJobs
<1>8. CapacityLeft'
  BY <1>7, <1>type, ActiveCount, LimitAssumption DEF CapacityLeft, Arguments
<1>9. Forgettable'
  BY <1>type DEF Forgettable, Arguments, OneInside, JobsAreCreated
<1> QED
  BY <1>type, <1>1, <1>2, <1>3, <1>4, <1>5, <1>6, <1>8, <1>9

LEMMA DeleteRecordStep ==
    ASSUME IInv, NEW p \in Process, DeleteRecord(p)
    PROVE  IInv'
<1>type. TypeOK'
  BY TypeStep DEF IInv, Next, Step
<1> USE NoneAssumption DEF
      IInv, TypeOK, Label, JobRecord, JobState, Stored, Unfinished, At,
      Goto, Return, Finish, Idle, Inside, Admitting, DeleteRecord, Writable
<1>1. OneInside'
  BY <1>type DEF OneInside
<1>2. Arguments'
  BY <1>type DEF Arguments
<1>3. JobsAreCreated'
  BY <1>type DEF JobsAreCreated, Arguments
<1>4. OneUnfinishedJob'
  BY <1>type DEF OneUnfinishedJob, NoRival, Arguments
<1>5. SpecOfUnfinishedJob'
  BY <1>type DEF SpecOfUnfinishedJob, NoRival, Forgettable, Arguments, OneInside
<1>6. NoRival'
  BY <1>type DEF NoRival, OneInside, SpecOfUnfinishedJob, Arguments
<1>7. \A k \in JobId : Active(jobs'[k]) => Active(jobs[k])
  BY DEF Active
<1>8. Cardinality(ActiveJobs') <= Cardinality(ActiveJobs) /\ Cardinality(ActiveJobs') \in Nat
  <2>1. {k \in JobId : Active(jobs'[k])} = ActiveJobs' /\ IsFiniteSet(ActiveJobs')
    BY JobIdAssumption, FS_Subset DEF ActiveJobs
  <2> QED
    BY ONLY <1>7, <2>1, FewerActive, FS_CardinalityType DEF ActiveJobs
<1>9. CapacityLeft'
  BY <1>8, <1>type, ActiveCount, LimitAssumption DEF CapacityLeft, Arguments
<1>10. Forgettable'
  BY <1>type DEF Forgettable, Arguments, OneInside, JobsAreCreated
<1> QED
  BY <1>type, <1>1, <1>2, <1>3, <1>4, <1>5, <1>6, <1>9, <1>10

LEMMA CrashStep ==
    ASSUME IInv, NEW p \in Process, Crash(p)
    PROVE  IInv'
<1>type. TypeOK'
  BY TypeStep DEF IInv, Next, Step
<1> USE NoneAssumption DEF
      IInv, TypeOK, Label, JobRecord, JobState, Stored, Unfinished, At,
      Goto, Return, Finish, Idle, Inside, Admitting, Crash
<1>1. OneInside'
  BY <1>type DEF OneInside
<1>2. Arguments'
  BY <1>type DEF Arguments
<1>3. JobsAreCreated'
  BY <1>type DEF JobsAreCreated, Arguments
<1>4. OneUnfinishedJob'
  BY <1>type DEF OneUnfinishedJob, NoRival, Arguments
<1>5. SpecOfUnfinishedJob'
  BY <1>type DEF SpecOfUnfinishedJob, NoRival, Forgettable, Arguments, OneInside
<1>6. NoRival'
  BY <1>type DEF NoRival, OneInside, SpecOfUnfinishedJob, Arguments
<1>7. ActiveJobs' = ActiveJobs
  BY DEF ActiveJobs
<1>8. CapacityLeft'
  BY <1>7, <1>type, ActiveCount, LimitAssumption DEF CapacityLeft, Arguments
<1>9. Forgettable'
  BY <1>type DEF Forgettable, Arguments, OneInside, JobsAreCreated
<1> QED
  BY <1>type, <1>1, <1>2, <1>3, <1>4, <1>5, <1>6, <1>8, <1>9

LEMMA AbandonStep ==
    ASSUME IInv, NEW j \in JobId, Abandon(j)
    PROVE  IInv'
<1>type. TypeOK'
  BY TypeStep DEF IInv, Next, Environment
<1> USE NoneAssumption DEF
      IInv, TypeOK, Label, JobRecord, JobState, Stored, Unfinished, At,
      Goto, Return, Finish, Idle, Inside, Admitting, Abandon, Writable
<1>1. OneInside'
  BY <1>type DEF OneInside
<1>2. Arguments'
  BY <1>type DEF Arguments
<1>3. JobsAreCreated'
  BY <1>type DEF JobsAreCreated, Arguments
<1>4. OneUnfinishedJob'
  BY <1>type DEF OneUnfinishedJob, NoRival, Arguments
<1>5. SpecOfUnfinishedJob'
  BY <1>type DEF SpecOfUnfinishedJob, NoRival, Forgettable, Arguments, OneInside
<1>6. NoRival'
  BY <1>type DEF NoRival, OneInside, SpecOfUnfinishedJob, Arguments
<1>7. \A k \in JobId : Active(jobs'[k]) => Active(jobs[k])
  BY DEF Active
<1>8. Cardinality(ActiveJobs') <= Cardinality(ActiveJobs) /\ Cardinality(ActiveJobs') \in Nat
  <2>1. {k \in JobId : Active(jobs'[k])} = ActiveJobs' /\ IsFiniteSet(ActiveJobs')
    BY JobIdAssumption, FS_Subset DEF ActiveJobs
  <2> QED
    BY ONLY <1>7, <2>1, FewerActive, FS_CardinalityType DEF ActiveJobs
<1>9. CapacityLeft'
  BY <1>8, <1>type, ActiveCount, LimitAssumption DEF CapacityLeft, Arguments
<1>10. Forgettable'
  BY <1>type DEF Forgettable, Arguments, OneInside, JobsAreCreated
<1> QED
  BY <1>type, <1>1, <1>2, <1>3, <1>4, <1>5, <1>6, <1>9, <1>10

LEMMA ReconcileStep ==
    ASSUME IInv, NEW j \in JobId, Reconcile(j)
    PROVE  IInv'
<1>type. TypeOK'
  BY TypeStep DEF IInv, Next, Environment
<1> USE NoneAssumption DEF
      IInv, TypeOK, Label, JobRecord, JobState, Stored, Unfinished, At,
      Goto, Return, Finish, Idle, Inside, Admitting, Reconcile, Writable
<1>1. OneInside'
  BY <1>type DEF OneInside
<1>2. Arguments'
  BY <1>type DEF Arguments
<1>3. JobsAreCreated'
  BY <1>type DEF JobsAreCreated, Arguments
<1>4. OneUnfinishedJob'
  BY <1>type DEF OneUnfinishedJob, NoRival, Arguments
<1>5. SpecOfUnfinishedJob'
  BY <1>type DEF SpecOfUnfinishedJob, NoRival, Forgettable, Arguments, OneInside
<1>6. NoRival'
  BY <1>type DEF NoRival, OneInside, SpecOfUnfinishedJob, Arguments
<1>7. \A k \in JobId : Active(jobs'[k]) => Active(jobs[k])
  BY DEF Active
<1>8. Cardinality(ActiveJobs') <= Cardinality(ActiveJobs) /\ Cardinality(ActiveJobs') \in Nat
  <2>1. {k \in JobId : Active(jobs'[k])} = ActiveJobs' /\ IsFiniteSet(ActiveJobs')
    BY JobIdAssumption, FS_Subset DEF ActiveJobs
  <2> QED
    BY ONLY <1>7, <2>1, FewerActive, FS_CardinalityType DEF ActiveJobs
<1>9. CapacityLeft'
  BY <1>8, <1>type, ActiveCount, LimitAssumption DEF CapacityLeft, Arguments
<1>10. Forgettable'
  BY <1>type DEF Forgettable, Arguments, OneInside, JobsAreCreated
<1> QED
  BY <1>type, <1>1, <1>2, <1>3, <1>4, <1>5, <1>6, <1>9, <1>10

LEMMA SupervisorRunsStep ==
    ASSUME IInv, NEW j \in JobId, SupervisorRuns(j)
    PROVE  IInv'
<1>type. TypeOK'
  BY TypeStep DEF IInv, Next, Environment
<1> USE NoneAssumption DEF
      IInv, TypeOK, Label, JobRecord, JobState, Stored, Unfinished, At,
      Goto, Return, Finish, Idle, Inside, Admitting, SupervisorRuns,
      Writable
<1>1. OneInside'
  BY <1>type DEF OneInside
<1>2. Arguments'
  BY <1>type DEF Arguments
<1>3. JobsAreCreated'
  BY <1>type DEF JobsAreCreated, Arguments
<1>4. OneUnfinishedJob'
  BY <1>type DEF OneUnfinishedJob, NoRival, Arguments
<1>5. SpecOfUnfinishedJob'
  BY <1>type DEF SpecOfUnfinishedJob, NoRival, Forgettable, Arguments, OneInside
<1>6. NoRival'
  BY <1>type DEF NoRival, OneInside, SpecOfUnfinishedJob, Arguments
<1>7. \A k \in JobId : Active(jobs'[k]) => Active(jobs[k])
  BY DEF Active
<1>8. Cardinality(ActiveJobs') <= Cardinality(ActiveJobs) /\ Cardinality(ActiveJobs') \in Nat
  <2>1. {k \in JobId : Active(jobs'[k])} = ActiveJobs' /\ IsFiniteSet(ActiveJobs')
    BY JobIdAssumption, FS_Subset DEF ActiveJobs
  <2> QED
    BY ONLY <1>7, <2>1, FewerActive, FS_CardinalityType DEF ActiveJobs
<1>9. CapacityLeft'
  BY <1>8, <1>type, ActiveCount, LimitAssumption DEF CapacityLeft, Arguments
<1>10. Forgettable'
  BY <1>type DEF Forgettable, Arguments, OneInside, JobsAreCreated
<1> QED
  BY <1>type, <1>1, <1>2, <1>3, <1>4, <1>5, <1>6, <1>9, <1>10

LEMMA SupervisorExitsStep ==
    ASSUME IInv, NEW j \in JobId, SupervisorExits(j)
    PROVE  IInv'
<1>type. TypeOK'
  BY TypeStep DEF IInv, Next, Environment
<1> USE NoneAssumption DEF
      IInv, TypeOK, Label, JobRecord, JobState, Stored, Unfinished, At,
      Goto, Return, Finish, Idle, Inside, Admitting, SupervisorExits
<1>1. OneInside'
  BY <1>type DEF OneInside
<1>2. Arguments'
  BY <1>type DEF Arguments
<1>3. JobsAreCreated'
  BY <1>type DEF JobsAreCreated, Arguments
<1>4. OneUnfinishedJob'
  BY <1>type DEF OneUnfinishedJob, NoRival, Arguments
<1>5. SpecOfUnfinishedJob'
  BY <1>type DEF SpecOfUnfinishedJob, NoRival, Forgettable, Arguments, OneInside
<1>6. NoRival'
  BY <1>type DEF NoRival, OneInside, SpecOfUnfinishedJob, Arguments
<1>7. ActiveJobs' = ActiveJobs
  BY DEF ActiveJobs
<1>8. CapacityLeft'
  BY <1>7, <1>type, ActiveCount, LimitAssumption DEF CapacityLeft, Arguments
<1>9. Forgettable'
  BY <1>type DEF Forgettable, Arguments, OneInside, JobsAreCreated
<1> QED
  BY <1>type, <1>1, <1>2, <1>3, <1>4, <1>5, <1>6, <1>8, <1>9

LEMMA InvNext == IInv /\ [Next]_vars => IInv'
<1> SUFFICES ASSUME IInv, [Next]_vars PROVE IInv'
  OBVIOUS
<1>1. CASE UNCHANGED vars
  <2>1. TypeOK'
    BY <1>1, TypeStep DEF IInv
  <2>2. ActiveJobs' = ActiveJobs
    BY <1>1 DEF vars, ActiveJobs
  <2> QED
    BY <1>1, <2>1, <2>2 DEF vars, IInv, OneInside, Arguments, JobsAreCreated,
       OneUnfinishedJob, SpecOfUnfinishedJob, NoRival, CapacityLeft, Forgettable
<1>2. ASSUME NEW p \in Process, Step(p) PROVE IInv'
  BY <1>2, StartStep, AcquireStep, LockHeldStep, CheckRequestStep, ReserveCapacityStep,
     PutSpecStep, CreateJobStep, LaunchStep, LaunchFailsStep, DeleteStep, DeleteSpecStep,
     DeleteRecordStep, CrashStep DEF Step
<1>3. CASE Environment
  BY <1>3, AbandonStep, ReconcileStep, SupervisorRunsStep, SupervisorExitsStep
     DEF Environment
<1> QED
  BY <1>1, <1>2, <1>3 DEF Next

\* The invariant holds in every reachable state.
THEOREM Inductive == Spec => []IInv
  BY InitInv, InvNext, PTL DEF Spec

-----------------------------------------------------------------------------
\* Every variable always has its type.
THEOREM TypeCorrect == Spec => []TypeOK
<1>1. IInv => TypeOK
  BY DEF IInv
<1> QED
  BY <1>1, Inductive, PTL

\* A request has at most one unfinished job, however often it is repeated and
\* whatever dies in between (Coordinator.start, deleteJob).
THEOREM RequestsRunOnce == Spec => []OneUnfinishedJob
<1>1. IInv => OneUnfinishedJob
  BY DEF IInv
<1> QED
  BY <1>1, Inductive, PTL

\* The stored specification of an unfinished job is the one it was admitted
\* with (deleteJob's check for a job that shares it).
THEOREM SpecsAreKept == Spec => []SpecOfUnfinishedJob
<1>1. IInv => SpecOfUnfinishedJob
  BY DEF IInv
<1> QED
  BY <1>1, Inductive, PTL

\* Admission respects the limit of concurrent jobs (reserveCapacity and the
\* creation of the job are one transaction).
THEOREM LimitIsRespected == Spec => AdmittedWithinLimit
<1> DEFINE Within(j) == Cardinality({k \in JobId : Active(jobs'[k])}) <= Limit[jobs'[j].spec]
           Admitted == \A j \in JobId : jobs[j] = None /\ jobs'[j] # None => Within(j)
<1>1. ASSUME IInv, [Next]_vars, NEW j \in JobId, jobs[j] = None, jobs'[j] # None
      PROVE  Within(j)
  <2>1. PICK p \in Process : CreateJob(p, j)
    <3>1. CASE UNCHANGED vars
      BY <1>1, <3>1 DEF vars
    <3>2. ASSUME NEW p \in Process, Step(p), ~CreateJob(p, j) PROVE FALSE
      BY <1>1, <3>2, NoneAssumption DEF Step, Start, Acquire, LockHeld, CheckRequest,
         ReserveCapacity, PutSpec, CreateJob, Launch, LaunchFails, Delete, DeleteSpec,
         DeleteRecord, Crash, Writable, Stored, IInv, TypeOK, Arguments, At
    <3>3. CASE Environment
      BY <1>1, <3>3, NoneAssumption DEF Environment, Abandon, Reconcile, SupervisorRuns,
         SupervisorExits, Writable, Stored, IInv, TypeOK
    <3> QED
      BY <1>1, <3>1, <3>2, <3>3 DEF Next
  <2>2. Cardinality(ActiveJobs) < Limit[op[p].spec] /\ Limit[op[p].spec] \in Nat
    BY <1>1, <2>1, LimitAssumption DEF CreateJob, At, IInv, CapacityLeft, Arguments
  <2>3. jobs' = [jobs EXCEPT ![j] = NewJob(p)] /\ jobs'[j].spec = op[p].spec
    BY <1>1, <2>1 DEF CreateJob, NewJob, IInv, TypeOK
  <2>4. \A k \in JobId : k # j => (Active(jobs'[k]) => Active(jobs[k]))
    BY <1>1, <2>3 DEF IInv, TypeOK
  <2>5. Cardinality({k \in JobId : Active(jobs'[k])})
          <= Cardinality({k \in JobId : Active(jobs[k])}) + 1
    BY <2>4, OneMoreActive
  <2>6. IsFiniteSet({k \in JobId : Active(jobs'[k])})
    BY JobIdAssumption, FS_Subset
  <2>7. Cardinality({k \in JobId : Active(jobs'[k])}) \in Nat
    BY <2>6, FS_CardinalityType
  <2> QED
    BY <2>2, <2>3, <2>5, <2>7, ActiveCount DEF ActiveJobs
<1>2. IInv /\ [Next]_vars => [Admitted]_vars
  BY <1>1
<1> QED
  BY <1>2, Inductive, PTL DEF AdmittedWithinLimit, Spec
=============================================================================
