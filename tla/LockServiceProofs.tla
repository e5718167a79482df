------------------------- MODULE LockServiceProofs -------------------------
(***************************************************************************)
(* The lock files implement the lock that their callers rely on, for any   *)
(* number of processes, tasks and inodes.  The steps follow from the       *)
(* inductive invariant of FileLockProofs: whoever has the lock finds its   *)
(* own file at the path, so a file is unlinked only by its owner or after  *)
(* its owner is gone.                                                      *)
(***************************************************************************)
EXTENDS FileLockProofs

HasLock(t) == Holds(t, "lock")

\* The abstract holder, read off the files and the tasks: before a step...
LEMMA HolderBefore ==
  ASSUME IInv
  PROVE  /\ at["lock"] = NoIno => Holder = "free" /\ \A t \in Task : ~HasLock(t)
         /\ \A t \in Task : HasLock(t) => Holder = t
         /\ at["lock"] # NoIno /\ (\A t \in Task : ~HasLock(t)) => Holder = "orphaned"
<1>1. \A t, u \in Task : HasLock(t) /\ HasLock(u) => t = u
  BY DEF IInv, MutualExclusion, HasLock, Path
<1>2. \A t \in Task : HasLock(t) => at["lock"] # NoIno
  BY ConstantAssumption DEF IInv, OwnInv, HasLock, Path
<1>3. \A t \in Task : HasLock(t) => (CHOOSE u \in Task : HasLock(u)) = t
  BY <1>1
<1> QED
  BY <1>2, <1>3 DEF Holder, HasLock

\* ...and after it.
LEMMA HolderAfter ==
  ASSUME IInv'
  PROVE  /\ at'["lock"] = NoIno => Holder' = "free"
         /\ \A t \in Task : HasLock(t)' => Holder' = t
         /\ at'["lock"] # NoIno /\ (\A t \in Task : ~HasLock(t)') => Holder' = "orphaned"
<1>1. \A t, u \in Task : HasLock(t)' /\ HasLock(u)' => t = u
  BY DEF IInv, MutualExclusion, HasLock, Path
<1>2. \A t \in Task : HasLock(t)' => at'["lock"] # NoIno
  BY ConstantAssumption DEF IInv, OwnInv, HasLock, Path
<1>3. \A t \in Task : HasLock(t)' => (CHOOSE u \in Task : HasLock(u)') = t
  BY <1>1
<1> QED
  BY <1>2, <1>3 DEF Holder, HasLock

\* A step that leaves the entry and the tasks that have the lock is invisible.
LEMMA Invisible ==
  ASSUME IInv, IInv', at'["lock"] = at["lock"],
         \A t \in Task : HasLock(t)' <=> HasLock(t)
  PROVE  UNCHANGED Holder
<1>1. CASE \E t \in Task : HasLock(t)
  BY <1>1, HolderBefore, HolderAfter
<1>2. CASE \A t \in Task : ~HasLock(t)
  BY <1>2, HolderBefore, HolderAfter
<1> QED
  BY <1>1, <1>2

\* A task that moves between places outside, or inside, its critical section.
LEMMA InvisibleMove ==
  ASSUME IInv, IInv', at'["lock"] = at["lock"], NEW t \in Task, NEW label,
         Goto(t, label),
         label \in {"writing", "held"} <=> pc[t] \in {"writing", "held"}
  PROVE  UNCHANGED Holder
<1>1. \A u \in Task : pc'[u] = IF u = t THEN label ELSE pc[u]
  BY DEF Goto, IInv, TypeOK
<1> QED
  BY <1>1, Invisible DEF HasLock, Holds

\* Making the lock file is the moment the service is locked.
LEMMA CreateIsLock ==
  ASSUME IInv, IInv', NEW t \in Task, Create(t, "lock", "writing")
  PROVE  Service!Lock(t)
<1>1. Holder = "free"
  BY HolderBefore DEF Create
<1>2. HasLock(t)'
  BY DEF Create, Goto, HasLock, Holds, IInv, TypeOK
<1> QED
  BY <1>1, <1>2, HolderAfter DEF Service!Lock

\* What a task does once it has read, or has been refused, changes no holder.
LEMMA ConcludeIsInvisible ==
  ASSUME IInv, IInv', at'["lock"] = at["lock"], NEW t \in Task, NEW retry,
         Conclude(t, retry), pc[t] \notin {"writing", "held"}
  PROVE  UNCHANGED Holder
<1>. DEFINE label == IF snap[t].path = "guard" THEN "idle"
                     ELSE IF retry THEN "releaseRetry" ELSE "releaseFail"
<1>1. Goto(t, label) /\ label \notin {"writing", "held"}
  BY DEF Conclude
<1>. HIDE DEF label
<1> QED
  BY <1>1, InvisibleMove

\* A task gives up its acquisition, or dies: if it had the lock, the file stays.
LEMMA LossIsAbandon ==
  ASSUME IInv, IInv', at'["lock"] = at["lock"],
         NEW t \in Task, HasLock(t), ~HasLock(t)',
         \A u \in Task : HasLock(u)' => HasLock(u)
  PROVE  Service!Abandon
<1>1. at["lock"] # NoIno
  BY HolderBefore
<1>2. \A u \in Task : ~HasLock(u)'
  BY DEF IInv, MutualExclusion, HasLock, Path
<1> QED
  BY <1>1, <1>2, HolderBefore, HolderAfter DEF Service!Abandon

\* Unlinking the lock file of a holder that is gone is the recovery.
LEMMA UnlinkIsRecover ==
  ASSUME IInv, IInv', NEW t \in Task, UnlinkStale(t), snap[t].path = "lock"
  PROVE  Service!Recover
<1>1. /\ at["lock"] = snap[t].ino /\ at["lock"] \in Ino
      /\ content[at["lock"]] \in Process /\ proc[content[at["lock"]]] = "dead"
  BY DEF UnlinkStale, IInv, ClaimInv, Matches, SnapInv, Retiring
<1>2. ASSUME NEW u \in Task, HasLock(u) PROVE FALSE
  <2>1. content[at["lock"]] \in {Nobody, ProcessOf[u]} /\ Alive(u)
    BY <1>2 DEF IInv, OwnInv, WorkingInv, HasLock, Holds, Path
  <2> QED
    BY <1>1, <2>1, ConstantAssumption DEF Alive
<1>3. at["lock"] # NoIno /\ at'["lock"] = NoIno
  BY <1>1, ConstantAssumption DEF UnlinkStale, Unlink, IInv, TypeOK, Path
<1> QED
  BY <1>2, <1>3, HolderBefore, HolderAfter DEF Service!Recover

\* The steps of one task.
LEMMA TaskRefines ==
  ASSUME IInv, IInv', NEW t \in Task, Attempt(t) \/ Finish(t) \/ WriteFails(t)
  PROVE  [Service!Next]_Holder
<1>0. at \in [Path -> Ino \cup {NoIno}] /\ "lock" \in Path
  BY DEF IInv, TypeOK, Path
<1>1. CASE Acquire(t)
  BY <1>1, CreateIsLock DEF Acquire, Service!Next
<1>2. CASE Retry(t)
  <2>1. CASE Create(t, "lock", "writing")
    BY <2>1, CreateIsLock DEF Service!Next
  <2>2. CASE Goto(t, "idle") /\ UNCHANGED files
    BY <1>2, <2>2, InvisibleMove DEF Retry, files
  <2> QED
    BY <1>2, <2>1, <2>2 DEF Retry
<1>3. CASE Contend(t)
  BY <1>3, InvisibleMove DEF Contend, files
<1>4. CASE Write(t)
  <2>. PICK path \in Path : WriteHolder(t, path)
    BY <1>4 DEF Write
  <2>1. CASE path = "lock"
    BY <2>1, InvisibleMove DEF WriteHolder
  <2>2. CASE path # "lock"
    BY <2>2, InvisibleMove DEF WriteHolder
  <2> QED
    BY <2>1, <2>2
<1>5. CASE WriteFails(t)
  <2>1. /\ at'["lock"] = at["lock"] /\ ~HasLock(t)'
        /\ \A u \in Task : HasLock(u)' => HasLock(u)
    BY <1>5 DEF WriteFails, Goto, files, HasLock, Holds, IInv, TypeOK
  <2>2. CASE pc[t] = "writing"
    BY <2>1, <2>2, LossIsAbandon DEF HasLock, Holds, Service!Next
  <2>3. CASE pc[t] = "guardWriting"
    BY <1>5, <2>3, InvisibleMove DEF WriteFails, files
  <2> QED
    BY <1>5, <2>2, <2>3 DEF WriteFails
<1>6. CASE Release(t)
  <2>1. HasLock(t) /\ at'["lock"] = NoIno
    BY <1>0, <1>6 DEF Release, Unlink, HasLock, Holds
  <2> QED
    BY <2>1, HolderBefore, HolderAfter DEF Service!Unlock, Service!Next
<1>7. CASE TakeGuard(t)
  BY <1>0, <1>7, InvisibleMove DEF TakeGuard, Create
<1>8. CASE GuardBusy(t)
  BY <1>8, InvisibleMove DEF GuardBusy, files
<1>9. CASE ReadGuard(t)
  <2>1. CASE Goto(t, "probing")
    BY <1>9, <2>1, InvisibleMove DEF ReadGuard, files
  <2>2. CASE Goto(t, "idle")
    BY <1>9, <2>2, InvisibleMove DEF ReadGuard, files
  <2> QED
    BY <1>9, <2>1, <2>2 DEF ReadGuard
<1>10. CASE ReadLock(t)
  <2>1. ASSUME NEW label \in {"releaseRetry", "releaseFail", "probing"}, Goto(t, label)
        PROVE  UNCHANGED Holder
    BY <1>10, <2>1, InvisibleMove DEF ReadLock, files
  <2> QED
    BY <1>10, <2>1 DEF ReadLock
<1>11. CASE Probe(t)
  <2>1. CASE Goto(t, "claiming")
    BY <1>11, <2>1, InvisibleMove DEF Probe, files
  <2>2. CASE Conclude(t, FALSE)
    BY <1>11, <2>2, ConcludeIsInvisible DEF Probe, files
  <2> QED
    BY <1>11, <2>1, <2>2 DEF Probe
<1>12. CASE ReleaseGuard(t)
  <2>1. at'["lock"] = at["lock"]
    BY <1>0, <1>12 DEF ReleaseGuard, Unlink
  <2>2. ASSUME NEW label \in {"retry", "idle"}, Goto(t, label) PROVE UNCHANGED Holder
    BY <1>12, <2>1, <2>2, InvisibleMove DEF ReleaseGuard
  <2> QED
    BY <1>12, <2>2 DEF ReleaseGuard
<1>13. CASE Claim(t)
  <2>1. CASE Goto(t, "verifying")
    BY <1>13, <2>1, InvisibleMove DEF Claim
  <2>2. CASE Conclude(t, at[snap[t].path] = NoIno)
    BY <1>13, <2>2, ConcludeIsInvisible DEF Claim
  <2> QED
    BY <1>13, <2>1, <2>2 DEF Claim
<1>14. CASE Verify(t)
  <2>1. ASSUME NEW label \in {"unlinking", "dropping"}, Goto(t, label)
        PROVE  UNCHANGED Holder
    BY <1>14, <2>1, InvisibleMove DEF Verify, files
  <2> QED
    BY <1>14, <2>1 DEF Verify
<1>15. CASE DropClaim(t)
  BY <1>15, ConcludeIsInvisible DEF DropClaim
<1>16. CASE UnlinkStale(t)
  <2>1. CASE snap[t].path = "lock"
    BY <1>16, <2>1, UnlinkIsRecover DEF Service!Next
  <2>2. CASE snap[t].path # "lock"
    <3>1. at'["lock"] = at["lock"]
      BY <1>0, <1>16, <2>2 DEF UnlinkStale, Unlink
    <3> QED
      BY <1>16, <3>1, InvisibleMove DEF UnlinkStale
  <2> QED
    BY <2>1, <2>2
<1>17. CASE Retire(t)
  BY <1>17, ConcludeIsInvisible DEF Retire
<1> QED
  BY <1>1, <1>2, <1>3, <1>4, <1>5, <1>6, <1>7, <1>8, <1>9, <1>10, <1>11, <1>12,
     <1>13, <1>14, <1>15, <1>16, <1>17 DEF Attempt, Finish

\* The crash of a process takes the lock from the task that had it, if any.
LEMMA CrashRefines ==
  ASSUME IInv, IInv', NEW p \in Process, Crash(p)
  PROVE  [Service!Next]_Holder
<1>1. /\ at'["lock"] = at["lock"]
      /\ \A t \in Task : HasLock(t)' <=> HasLock(t) /\ ProcessOf[t] # p
  BY DEF Crash, files, HasLock, Holds
<1>2. CASE \E t \in Task : HasLock(t) /\ ProcessOf[t] = p
  BY <1>1, <1>2, LossIsAbandon DEF Service!Next
<1>3. CASE \A t \in Task : HasLock(t) => ProcessOf[t] # p
  BY <1>1, <1>3, Invisible
<1> QED
  BY <1>2, <1>3

\* Every step of the protocol is a step of the service, or none.
LEMMA StepRefines ==
  ASSUME IInv, IInv', [Next]_vars
  PROVE  [Service!Next]_Holder
<1>1. CASE UNCHANGED vars
  BY <1>1, Invisible DEF vars, HasLock, Holds
<1>2. ASSUME NEW p \in Process, Start(p) PROVE [Service!Next]_Holder
  BY <1>2, Invisible DEF Start, files, HasLock, Holds
<1> QED
  BY <1>1, <1>2, TaskRefines, CrashRefines DEF Next

\* The lock files keep the promise of the lock that withJobLock and
\* withCoordinatorLock make to their callers: one holder, and no way from one
\* holder to another but a release or the recovery of a lock whose holder is
\* gone, through crashes, reused process ids and reused inodes.
THEOREM FilesImplementLock == Spec => ImplementsLockService
<1>1. Init => Service!Init
  <2>. SUFFICES ASSUME Init PROVE Holder = "free"
    BY DEF Service!Init
  <2> QED
    BY DEF Init, Holder, Path
<1>2. IInv /\ IInv' /\ [Next]_vars => [Service!Next]_Holder
  BY StepRefines
<1> QED
  BY <1>1, <1>2, Inductive, PTL DEF Spec, Service!Spec, ImplementsLockService
=============================================================================
