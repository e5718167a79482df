--------------------------- MODULE FileLockProofs ---------------------------
(***************************************************************************)
(* Mutual exclusion of the lock files, for any number of processes, tasks  *)
(* and inodes and any assignment of hosts, process ids and start times.    *)
(*                                                                         *)
(* MutualExclusion is not inductive: that an unlink never hits the file of *)
(* a live owner rests on the claim, which belongs to one recoverer at a    *)
(* time (ClaimExclusive), and on the file behind a verified claim being    *)
(* still the one at the path (ClaimInv), because the only others who could *)
(* have removed it are its owner, which is gone, and the holder of the     *)
(* same claim.                                                             *)
(***************************************************************************)
EXTENDS FileLock, TLAPS

Claiming == {"verifying", "dropping", "unlinking", "retiring"}

\* Only tasks of a running process are in the middle of something.
WorkingInv(t) == pc[t] \notin {"idle", "dead"} => Alive(t)

\* Whoever has the lock or the guard owns the file at its path, and nobody
\* else's name is in it.
OwnInv(t, path) ==
    Holds(t, path) => /\ own[t][path] \in Ino
                      /\ at[path] = own[t][path]
                      /\ content[own[t][path]] \in {Nobody, ProcessOf[t]}

\* A recoverer has read a holder record; past the probe its process is gone.
SnapInv(t) ==
    pc[t] \in Retiring =>
        /\ snap[t].ino \in Ino
        /\ snap[t].holder \in Process
        /\ proc[snap[t].holder] # "unborn"
        /\ pc[t] # "probing" => proc[snap[t].holder] = "dead"

ClaimInv(t) ==
    /\ pc[t] \in Claiming => claim[snap[t].path][snap[t].ino] # NoIno
    /\ pc[t] = "verifying" /\ Matches(t) => at[snap[t].path] = snap[t].ino
    /\ pc[t] = "unlinking" => Matches(t) /\ at[snap[t].path] = snap[t].ino
    /\ pc[t] = "retiring" => Matches(t)

ClaimExclusive(t, u) ==
    /\ pc[t] \in Claiming /\ pc[u] \in Claiming
    /\ snap[t].path = snap[u].path /\ snap[t].ino = snap[u].ino
    => t = u

WrittenInv ==
    \A i \in Ino : content[i] # Nobody => proc[content[i]] # "unborn"

\* The lock and the guard are never the same file.
DistinctFiles == at["lock"] # NoIno => at["lock"] # at["guard"]

IInv ==
    /\ TypeOK
    /\ \A t \in Task : WorkingInv(t) /\ SnapInv(t) /\ ClaimInv(t)
    /\ \A t \in Task, path \in Path : OwnInv(t, path)
    /\ \A t, u \in Task : ClaimExclusive(t, u)
    /\ WrittenInv
    /\ DistinctFiles
    /\ MutualExclusion
    /\ OnlyDeadQuarantined

-----------------------------------------------------------------------------
LEMMA TypeInit == Init => TypeOK
BY ConstantAssumption DEF Init, TypeOK, Path, PC, NoSnap, Snapshots

LEMMA ConcludeType ==
  ASSUME TypeOK, NEW t \in Task, NEW retry, Conclude(t, retry)
  PROVE  snap' \in [Task -> Snapshots] /\ pc' \in [Task -> PC]
BY DEF TypeOK, Conclude, Goto, Remember, NoSnap, PC, Path, Snapshots

LEMMA TypeNext == TypeOK /\ (\A t \in Task : SnapInv(t)) /\ [Next]_vars => TypeOK'
<1> SUFFICES ASSUME TypeOK, \A t \in Task : SnapInv(t), [Next]_vars PROVE TypeOK'
  OBVIOUS
<1> USE ConstantAssumption DEF TypeOK, Path, PC, Goto, Unlink, Remember
<1>1. ASSUME NEW t \in Task, NEW path \in Path, NEW next \in PC,
             Create(t, path, next)
      PROVE  TypeOK'
  BY <1>1 DEF Create
<1>2. ASSUME NEW t \in Task, Attempt(t) PROVE TypeOK'
  BY <1>1, <1>2 DEF Attempt, Acquire, Contend, files
<1>3. ASSUME NEW t \in Task, Finish(t) PROVE TypeOK'
  <2> USE <1>3
  <2>1. CASE Write(t)
    <3> PICK path \in Path : WriteHolder(t, path)
      BY <2>1 DEF Write
    <3>1. content' \in [Ino -> Process \cup {Nobody}]
      BY DEF WriteHolder
    <3>2. pc' \in [Task -> PC]
      BY DEF WriteHolder
    <3> QED
      BY <3>1, <3>2 DEF WriteHolder
  <2>2. CASE Release(t)
    BY <2>2 DEF Release
  <2>3. CASE TakeGuard(t)
    BY <1>1, <2>3 DEF TakeGuard
  <2>4. CASE GuardBusy(t)
    BY <2>4 DEF GuardBusy, files
  <2>5. CASE ReadGuard(t)
    <3>1. CASE at["guard"] # NoIno /\ content[at["guard"]] # Nobody
      <4>1. Snapshot("guard") \in Snapshots
        BY <3>1 DEF Snapshot, Snapshots
      <4>2. Remember(t, Snapshot("guard")) /\ Goto(t, "probing")
        BY <2>5, <3>1 DEF ReadGuard
      <4>3. snap' \in [Task -> Snapshots]
        BY <4>1, <4>2
      <4> QED
        BY <2>5, <4>2, <4>3 DEF ReadGuard, files
    <3>2. CASE ~(at["guard"] # NoIno /\ content[at["guard"]] # Nobody)
      BY <2>5, <3>2 DEF ReadGuard, files
    <3> QED
      BY <3>1, <3>2
  <2>6. CASE ReadLock(t)
    <3>1. CASE at["lock"] # NoIno /\ content[at["lock"]] # Nobody
      <4>1. Snapshot("lock") \in Snapshots
        BY <3>1 DEF Snapshot, Snapshots
      <4>2. Remember(t, Snapshot("lock")) /\ Goto(t, "probing")
        BY <2>6, <3>1 DEF ReadLock
      <4>3. snap' \in [Task -> Snapshots]
        BY <4>1, <4>2
      <4> QED
        BY <2>6, <4>2, <4>3 DEF ReadLock, files
    <3>2. CASE ~(at["lock"] # NoIno /\ content[at["lock"]] # Nobody)
      BY <2>6, <3>2 DEF ReadLock, files
    <3> QED
      BY <3>1, <3>2
  <2>7. CASE Probe(t)
    <3>1. CASE Gone(t, snap[t].holder)
      BY <2>7, <3>1 DEF Probe, files
    <3>2. CASE Conclude(t, FALSE)
      BY <2>7, <3>2, ConcludeType DEF Probe, files
    <3> QED
      BY <2>7, <3>1, <3>2 DEF Probe
  <2>8. CASE ReleaseGuard(t)
    BY <2>8 DEF ReleaseGuard
  <2>9. CASE Claim(t)
    <3>1. CASE SetClaim(t, at[snap[t].path]) /\ Goto(t, "verifying") /\ UNCHANGED snap
      <4>1. snap[t].path \in Path /\ snap[t].ino \in Ino
        BY <2>9 DEF Claim, SnapInv, Retiring, Snapshots
      <4> QED
        BY <2>9, <3>1, <4>1 DEF Claim, SetClaim
    <3>2. CASE \E retry \in BOOLEAN : Conclude(t, retry) /\ UNCHANGED claim
      BY <2>9, <3>2, ConcludeType DEF Claim
    <3> QED
      BY <2>9, <3>1, <3>2 DEF Claim
  <2>10. CASE Verify(t)
    BY <2>10 DEF Verify, files
  <2>11. CASE DropClaim(t)
    <3>1. snap[t].path \in Path /\ snap[t].ino \in Ino
      BY <2>11 DEF DropClaim, SnapInv, Retiring, Snapshots
    <3> QED
      BY <2>11, <3>1, ConcludeType DEF DropClaim, SetClaim
  <2>12. CASE UnlinkStale(t)
    BY <2>12 DEF UnlinkStale
  <2>13. CASE Retire(t)
    <3>1. snap[t].path \in Path /\ snap[t].ino \in Ino
      BY <2>13 DEF Retire, SnapInv, Retiring, Snapshots
    <3> QED
      BY <2>13, <3>1, ConcludeType DEF Retire, SetClaim
  <2>14. CASE Retry(t)
    BY <1>1, <2>14 DEF Retry, files
  <2> QED
    BY <2>1, <2>2, <2>3, <2>4, <2>5, <2>6, <2>7, <2>8, <2>9, <2>10, <2>11,
       <2>12, <2>13, <2>14 DEF Finish
<1>4. ASSUME NEW t \in Task, WriteFails(t) PROVE TypeOK'
  BY <1>4 DEF WriteFails, files
<1>5. ASSUME NEW p \in Process, Start(p) \/ Crash(p) PROVE TypeOK'
  <2>1. NoSnap \in Snapshots
    BY DEF NoSnap, Snapshots
  <2> QED
    BY <1>5, <2>1 DEF Start, Crash, files
<1>6. CASE UNCHANGED vars
  BY <1>6 DEF vars
<1> QED
  BY <1>2, <1>3, <1>4, <1>5, <1>6 DEF Next


-----------------------------------------------------------------------------
(* IInv is inductive: one lemma per action, one step per conjunct.          *)

\* isLockOwnerGone never takes a running process for one that is gone.
LEMMA GoneIsDead ==
  ASSUME TypeOK, NEW t \in Task, NEW p \in Process, proc[p] # "unborn", Gone(t, p)
  PROVE  proc[p] = "dead"
BY DEF TypeOK, Gone

LEMMA CreateStep ==
  ASSUME IInv, NEW t \in Task, Alive(t), pc[t] \in {"idle", "contended", "retry"},
         NEW path \in Path, NEW next,
         next = IF path = "lock" THEN "writing" ELSE "guardWriting",
         Create(t, path, next), TypeOK'
  PROVE  IInv'
<1> USE ConstantAssumption DEF IInv, TypeOK, Path
<1> PICK i \in Ino : /\ ~InUse(i)
                     /\ at' = [at EXCEPT ![path] = i]
                     /\ content' = [content EXCEPT ![i] = Nobody]
                     /\ own' = [own EXCEPT ![t][path] = i]
  BY DEF Create
<1>0. at[path] = NoIno /\ i # NoIno /\ pc' = [pc EXCEPT ![t] = next]
      /\ UNCHANGED <<proc, claim, quarantined, snap>>
  BY DEF Create, Goto
<1>a. /\ i \notin quarantined
      /\ \A q \in Path : at[q] # i /\ \A j \in Ino : claim[q][j] # i
  BY DEF InUse
<1>b. ASSUME NEW u \in Task
      PROVE  /\ pc[t] \notin Retiring /\ pc'[t] \notin Retiring
             /\ u # t => pc'[u] = pc[u]
             /\ pc'[u] \in Claiming <=> pc[u] \in Claiming
             /\ pc[u] \in Claiming => u # t /\ pc[u] \in Retiring
  BY <1>0 DEF Retiring, Claiming
<1>c. ASSUME NEW u \in Task, NEW q \in Path, u # t \/ q # path
      PROVE  Holds(u, q)' <=> Holds(u, q)
  <2>1. CASE u # t
    BY <1>0, <2>1 DEF Holds
  <2>2. CASE u = t
    BY <1>0, <1>b, <1>c, <2>2 DEF Holds
  <2> QED
    BY <2>1, <2>2
<1>1. \A u \in Task : WorkingInv(u)'
  BY <1>0 DEF WorkingInv, Alive
<1>2. \A u \in Task : SnapInv(u)'
  BY <1>0, <1>b DEF SnapInv
<1>3. \A u \in Task : ClaimInv(u)'
  <2>1. ASSUME NEW u \in Task, pc[u] \in Claiming
        PROVE  ClaimInv(u)'
    <3>1. snap[u].ino \in Ino /\ snap[u].path \in Path
      BY <2>1, <1>b DEF SnapInv, Snapshots
    <3>2. claim[snap[u].path][snap[u].ino] # i
      BY <1>a, <3>1
    <3>3. claim[snap[u].path][snap[u].ino] = snap[u].ino
            => content'[snap[u].ino] = content[snap[u].ino]
      BY <3>1, <3>2
    <3>4. Matches(u)' <=> Matches(u)
      BY <1>0, <3>3 DEF Matches
    <3>5. at[snap[u].path] = snap[u].ino => at'[snap[u].path] = snap[u].ino
      BY <1>0, <3>1
    <3> QED
      BY <2>1, <1>0, <1>b, <3>4, <3>5 DEF ClaimInv
  <2> QED
    BY <1>b, <2>1 DEF ClaimInv, Claiming
<1>4. \A u \in Task, q \in Path : OwnInv(u, q)'
  <2>1. OwnInv(t, path)'
    BY DEF OwnInv
  <2>2. ASSUME NEW u \in Task, NEW q \in Path, u # t \/ q # path, Holds(u, q)
        PROVE  OwnInv(u, q)'
    <3>1. own[u][q] \in Ino /\ at[q] = own[u][q] /\ content[own[u][q]] \in {Nobody, ProcessOf[u]}
      BY <2>2 DEF OwnInv
    <3>2. own'[u][q] = own[u][q] /\ own[u][q] # i /\ q # path
      BY <2>2, <1>0, <1>a, <3>1
    <3> QED
      BY <3>1, <3>2 DEF OwnInv
  <2> QED
    BY <1>c, <2>1, <2>2 DEF OwnInv
<1>5. \A u, v \in Task : ClaimExclusive(u, v)'
  BY <1>0, <1>b DEF ClaimExclusive
<1>6. WrittenInv'
  BY <1>0 DEF WrittenInv
<1>7. MutualExclusion'
  <2>1. ASSUME NEW u \in Task PROVE ~Holds(u, path)
    BY <1>0 DEF OwnInv
  <2> QED
    BY <1>c, <2>1 DEF MutualExclusion
<1>8. OnlyDeadQuarantined'
  BY <1>0, <1>a DEF OnlyDeadQuarantined
<1>9. DistinctFiles'
  BY <1>0, <1>a DEF DistinctFiles
<1> QED
  BY <1>1, <1>2, <1>3, <1>4, <1>5, <1>6, <1>7, <1>8, <1>9 DEF IInv

LEMMA ContendStep ==
  ASSUME IInv, NEW t \in Task, Contend(t), TypeOK'
  PROVE  IInv'
<1> USE ConstantAssumption DEF IInv, TypeOK, Snapshots, Path, Contend, Goto, files
<1>1. \A u \in Task : WorkingInv(u)'
  BY DEF WorkingInv, Alive
<1>2. \A u \in Task : SnapInv(u)'
  BY SMTT(30) DEF SnapInv, Retiring
<1>3. \A u \in Task : ClaimInv(u)'
  BY DEF ClaimInv, Claiming, Matches, SnapInv, OwnInv, Holds, Retiring, WorkingInv, Alive, ClaimExclusive
<1>4. \A u \in Task, path \in Path : OwnInv(u, path)'
  BY DEF OwnInv, Holds, Retiring, WorkingInv, Alive, SnapInv, ClaimInv, Matches
<1>5. \A u, v \in Task : ClaimExclusive(u, v)'
  BY DEF ClaimExclusive, Claiming, ClaimInv
<1>6. WrittenInv'
  BY DEF WrittenInv, OwnInv, Holds, WorkingInv, Alive
<1>7. MutualExclusion'
  BY DEF MutualExclusion, Holds, Retiring, OwnInv
<1>8. OnlyDeadQuarantined'
  BY DEF OnlyDeadQuarantined, OwnInv, Holds, WorkingInv, Alive, Retiring, SnapInv, ClaimInv, Matches
<1>9. DistinctFiles'
  BY DEF DistinctFiles
<1> QED
  BY <1>1, <1>2, <1>3, <1>4, <1>5, <1>6, <1>7, <1>8, <1>9 DEF IInv

LEMMA RetryFailsStep ==
  ASSUME IInv, NEW t \in Task, Alive(t), pc[t] = "retry", Goto(t, "idle"),
         UNCHANGED <<proc, files, own, snap>>, TypeOK'
  PROVE  IInv'
<1> USE ConstantAssumption DEF IInv, TypeOK, Snapshots, Path, Goto, files
<1>1. \A u \in Task : WorkingInv(u)'
  BY DEF WorkingInv, Alive
<1>2. \A u \in Task : SnapInv(u)'
  BY SMTT(30) DEF SnapInv, Retiring
<1>3. \A u \in Task : ClaimInv(u)'
  BY DEF ClaimInv, Claiming, Matches, SnapInv, OwnInv, Holds, Retiring, WorkingInv, Alive, ClaimExclusive
<1>4. \A u \in Task, path \in Path : OwnInv(u, path)'
  BY DEF OwnInv, Holds, Retiring, WorkingInv, Alive, SnapInv, ClaimInv, Matches
<1>5. \A u, v \in Task : ClaimExclusive(u, v)'
  BY DEF ClaimExclusive, Claiming, ClaimInv
<1>6. WrittenInv'
  BY DEF WrittenInv, OwnInv, Holds, WorkingInv, Alive
<1>7. MutualExclusion'
  BY DEF MutualExclusion, Holds, Retiring, OwnInv
<1>8. OnlyDeadQuarantined'
  BY DEF OnlyDeadQuarantined, OwnInv, Holds, WorkingInv, Alive, Retiring, SnapInv, ClaimInv, Matches
<1>9. DistinctFiles'
  BY DEF DistinctFiles
<1> QED
  BY <1>1, <1>2, <1>3, <1>4, <1>5, <1>6, <1>7, <1>8, <1>9 DEF IInv

LEMMA WriteStep ==
  ASSUME IInv, NEW t \in Task, NEW p \in Path, WriteHolder(t, p), TypeOK'
  PROVE  IInv'
<1> USE ConstantAssumption DEF IInv, TypeOK, Path
<1>0. /\ Holds(t, p) /\ own[t][p] \in Ino /\ at[p] = own[t][p]
      /\ content[own[t][p]] \in {Nobody, ProcessOf[t]}
      /\ Alive(t) /\ pc[t] \notin Retiring
  BY DEF WriteHolder, OwnInv, Holds, Retiring
<1>a. /\ pc' = [pc EXCEPT ![t] = IF p = "lock" THEN "held" ELSE "guarded"]
      /\ content' = [content EXCEPT ![own[t][p]] = ProcessOf[t]]
      /\ UNCHANGED <<proc, at, claim, quarantined, own, snap>>
  BY DEF WriteHolder, Goto
<1>b. ASSUME NEW u \in Task, NEW path \in Path
      PROVE  Holds(u, path)' <=> Holds(u, path)
  <2>1. CASE u # t
    BY <1>a, <2>1 DEF Holds
  <2>2. CASE u = t /\ p = "lock"
    BY <1>a, <2>2 DEF WriteHolder, Holds, Retiring
  <2>3. CASE u = t /\ p = "guard"
    BY <1>a, <2>3 DEF WriteHolder, Holds, Retiring
  <2> QED
    BY <2>1, <2>2, <2>3
<1>c. ASSUME NEW u \in Task
      PROVE  /\ pc'[u] \in Retiring <=> pc[u] \in Retiring
             /\ pc[u] \in Retiring => u # t /\ pc'[u] = pc[u]
             /\ pc'[u] \in Claiming <=> pc[u] \in Claiming
             /\ pc[u] \in Claiming => pc[u] \in Retiring
  BY <1>0, <1>a DEF Retiring, Claiming
<1>1. \A u \in Task : WorkingInv(u)'
  BY <1>0, <1>a DEF WorkingInv, Alive
<1>2. \A u \in Task : SnapInv(u)'
  BY <1>a, <1>c DEF SnapInv
<1>3. \A u \in Task : ClaimInv(u)'
  <2>1. ASSUME NEW u \in Task, pc[u] \in Claiming
        PROVE  ClaimInv(u)'
    <3>1. snap[u].holder \in Process /\ proc[snap[u].holder] = "dead"
      BY <2>1, <1>c DEF SnapInv, Claiming
    <3>2. snap[u].holder # ProcessOf[t] /\ snap[u].holder # Nobody
      BY <1>0, <3>1 DEF Alive
    <3>3. snap[u].ino \in Ino
      BY <2>1, <1>c DEF SnapInv
    <3>4. content'[snap[u].ino] = snap[u].holder <=> content[snap[u].ino] = snap[u].holder
      BY <1>0, <1>a, <3>2, <3>3
    <3>5. Matches(u)' <=> Matches(u)
      BY <1>a, <3>4 DEF Matches
    <3> QED
      BY <2>1, <1>a, <1>c, <3>5 DEF ClaimInv
  <2> QED
    BY <1>c, <2>1 DEF ClaimInv, Claiming
<1>4. \A u \in Task, path \in Path : OwnInv(u, path)'
  <2>2. ASSUME NEW u \in Task, NEW path \in Path, Holds(u, path)
        PROVE  OwnInv(u, path)'
    <3>2. /\ own[u][path] \in Ino /\ at[path] = own[u][path]
          /\ content[own[u][path]] \in {Nobody, ProcessOf[u]}
      BY <2>2 DEF OwnInv
    <3>3. CASE own[u][path] # own[t][p]
      BY <1>a, <3>2, <3>3 DEF OwnInv
    <3>4. CASE own[u][path] = own[t][p]
      <4>1. path = p
        BY <1>0, <3>2, <3>4 DEF DistinctFiles
      <4>2. u = t
        BY <1>0, <2>2, <4>1 DEF MutualExclusion
      <4> QED
        BY <1>0, <1>a, <3>2, <3>4, <4>1, <4>2 DEF OwnInv
    <3> QED
      BY <3>3, <3>4
  <2> QED
    BY <1>b, <2>2 DEF OwnInv
<1>5. \A u, v \in Task : ClaimExclusive(u, v)'
  BY <1>a, <1>c DEF ClaimExclusive
<1>6. WrittenInv'
  BY <1>0, <1>a DEF WrittenInv, Alive
<1>7. MutualExclusion'
  BY <1>b DEF MutualExclusion
<1>8. OnlyDeadQuarantined'
  <2>1. own[t][p] \notin quarantined
    BY <1>0 DEF OnlyDeadQuarantined, Alive
  <2> QED
    BY <1>0, <1>a, <2>1 DEF OnlyDeadQuarantined
<1>9. DistinctFiles'
  BY <1>a DEF DistinctFiles
<1> QED
  BY <1>1, <1>2, <1>3, <1>4, <1>5, <1>6, <1>7, <1>8, <1>9 DEF IInv

LEMMA WriteFailsStep ==
  ASSUME IInv, NEW t \in Task, WriteFails(t), TypeOK'
  PROVE  IInv'
<1> USE ConstantAssumption DEF IInv, TypeOK, Snapshots, Path, WriteFails, Goto, files
<1>1. \A u \in Task : WorkingInv(u)'
  BY DEF WorkingInv, Alive
<1>2. \A u \in Task : SnapInv(u)'
  BY SMTT(30) DEF SnapInv, Retiring
<1>3. \A u \in Task : ClaimInv(u)'
  BY DEF ClaimInv, Claiming, Matches, SnapInv, OwnInv, Holds, Retiring, WorkingInv, Alive, ClaimExclusive
<1>4. \A u \in Task, path \in Path : OwnInv(u, path)'
  BY DEF OwnInv, Holds, Retiring, WorkingInv, Alive, SnapInv, ClaimInv, Matches
<1>5. \A u, v \in Task : ClaimExclusive(u, v)'
  BY DEF ClaimExclusive, Claiming, ClaimInv
<1>6. WrittenInv'
  BY DEF WrittenInv, OwnInv, Holds, WorkingInv, Alive
<1>7. MutualExclusion'
  BY DEF MutualExclusion, Holds, Retiring, OwnInv
<1>8. OnlyDeadQuarantined'
  BY DEF OnlyDeadQuarantined, OwnInv, Holds, WorkingInv, Alive, Retiring, SnapInv, ClaimInv, Matches
<1>9. DistinctFiles'
  BY DEF DistinctFiles
<1> QED
  BY <1>1, <1>2, <1>3, <1>4, <1>5, <1>6, <1>7, <1>8, <1>9 DEF IInv

LEMMA ReleaseStep ==
  ASSUME IInv, NEW t \in Task, Release(t), TypeOK'
  PROVE  IInv'
<1> USE ConstantAssumption DEF IInv, TypeOK, Snapshots, Path, Release, Goto, Unlink
<1>1. \A u \in Task : WorkingInv(u)'
  BY DEF WorkingInv, Alive
<1>2. \A u \in Task : SnapInv(u)'
  BY DEF SnapInv, Retiring
<1>3. \A u \in Task : ClaimInv(u)'
  <2>1. pc'[t] \notin Claiming
    BY DEF Claiming
  <2>2. ASSUME NEW u \in Task, u # t, pc[u] \in Claiming, Matches(u),
               snap[u].path = "lock"
        PROVE  at["lock"] # snap[u].ino
    <3>1. at["lock"] \in Ino /\ content[at["lock"]] \in {Nobody, ProcessOf[t]}
      BY DEF OwnInv, Holds
    <3>2. snap[u].holder \in Process /\ proc[snap[u].holder] = "dead"
      BY <2>2 DEF SnapInv, Claiming, Retiring
    <3> QED
      BY <2>2, <3>1, <3>2 DEF Matches, Alive
  <2>3. ASSUME NEW u \in Task, u # t
        PROVE  ClaimInv(u)'
    <3>1. pc'[u] = pc[u] /\ snap'[u] = snap[u] /\ Matches(u)' = Matches(u)
      BY <2>3 DEF Matches
    <3>2. snap[u].path # "lock" => at'[snap[u].path] = at[snap[u].path]
      OBVIOUS
    <3> QED
      BY <2>2, <2>3, <3>1, <3>2 DEF ClaimInv, Claiming
  <2> QED
    BY <2>1, <2>3 DEF ClaimInv, Claiming
<1>4. \A u \in Task, path \in Path : OwnInv(u, path)'
  <2>1. ~Holds(t, "lock")'
    BY DEF Holds, Retiring
  <2>2. ASSUME NEW u \in Task, u # t
        PROVE  ~Holds(u, "lock")'
    BY <2>2 DEF MutualExclusion, Holds, Retiring
  <2>3. ASSUME NEW u \in Task, NEW path \in Path, path # "lock", Holds(u, path)'
        PROVE  OwnInv(u, path)'
    <3>1. Holds(u, path)
      BY <2>3 DEF Holds, Retiring
    <3>2. own'[u][path] = own[u][path] /\ at'[path] = at[path]
      BY <2>3
    <3> QED
      BY <3>1, <3>2 DEF OwnInv
  <2> QED
    BY <2>1, <2>2, <2>3 DEF OwnInv
<1>5. \A u, v \in Task : ClaimExclusive(u, v)'
  BY DEF ClaimExclusive, Claiming, ClaimInv
<1>6. WrittenInv'
  BY DEF WrittenInv, OwnInv, Holds, WorkingInv, Alive
<1>7. MutualExclusion'
  BY DEF MutualExclusion, Holds, Retiring, OwnInv
<1>8. OnlyDeadQuarantined'
  BY DEF OnlyDeadQuarantined, OwnInv, Holds, WorkingInv, Alive, Retiring, SnapInv, ClaimInv, Matches
<1>9. DistinctFiles'
  BY DEF DistinctFiles
<1> QED
  BY <1>1, <1>2, <1>3, <1>4, <1>5, <1>6, <1>7, <1>8, <1>9 DEF IInv

LEMMA GuardBusyStep ==
  ASSUME IInv, NEW t \in Task, GuardBusy(t), TypeOK'
  PROVE  IInv'
<1> USE ConstantAssumption DEF IInv, TypeOK, Snapshots, Path, GuardBusy, Goto, files
<1>1. \A u \in Task : WorkingInv(u)'
  BY DEF WorkingInv, Alive
<1>2. \A u \in Task : SnapInv(u)'
  BY SMTT(30) DEF SnapInv, Retiring
<1>3. \A u \in Task : ClaimInv(u)'
  BY DEF ClaimInv, Claiming, Matches, SnapInv, OwnInv, Holds, Retiring, WorkingInv, Alive, ClaimExclusive
<1>4. \A u \in Task, path \in Path : OwnInv(u, path)'
  BY DEF OwnInv, Holds, Retiring, WorkingInv, Alive, SnapInv, ClaimInv, Matches
<1>5. \A u, v \in Task : ClaimExclusive(u, v)'
  BY DEF ClaimExclusive, Claiming, ClaimInv
<1>6. WrittenInv'
  BY DEF WrittenInv, OwnInv, Holds, WorkingInv, Alive
<1>7. MutualExclusion'
  BY DEF MutualExclusion, Holds, Retiring, OwnInv
<1>8. OnlyDeadQuarantined'
  BY DEF OnlyDeadQuarantined, OwnInv, Holds, WorkingInv, Alive, Retiring, SnapInv, ClaimInv, Matches
<1>9. DistinctFiles'
  BY DEF DistinctFiles
<1> QED
  BY <1>1, <1>2, <1>3, <1>4, <1>5, <1>6, <1>7, <1>8, <1>9 DEF IInv

LEMMA ReadGuardStep ==
  ASSUME IInv, NEW t \in Task, ReadGuard(t), TypeOK'
  PROVE  IInv'
<1> USE ConstantAssumption DEF IInv, TypeOK, Snapshots, Path, ReadGuard, Goto, Remember, Snapshot, files
<1>1. \A u \in Task : WorkingInv(u)'
  BY DEF WorkingInv, Alive
<1>2. \A u \in Task : SnapInv(u)'
  <2>1. ASSUME NEW u \in Task, u # t PROVE SnapInv(u)'
    <3>1. pc'[u] = pc[u] /\ snap'[u] = snap[u] /\ proc' = proc
      BY <2>1
    <3> QED
      BY <3>1 DEF SnapInv, Retiring
  <2>2. SnapInv(t)'
    <3>1. CASE at["guard"] # NoIno /\ content[at["guard"]] # Nobody
      <4>1. snap'[t] = Snapshot("guard") /\ pc'[t] = "probing" /\ proc' = proc
        BY <3>1
      <4>2. at["guard"] \in Ino /\ content[at["guard"]] \in Process
        BY <3>1
      <4> QED
        BY <4>1, <4>2 DEF SnapInv, WrittenInv
    <3>2. CASE ~(at["guard"] # NoIno /\ content[at["guard"]] # Nobody)
      BY <3>2 DEF SnapInv, Retiring
    <3> QED
      BY <3>1, <3>2
  <2> QED
    BY <2>1, <2>2
<1>3. \A u \in Task : ClaimInv(u)'
  <2>1. pc'[t] \notin Claiming
    BY DEF Claiming
  <2>2. ASSUME NEW u \in Task, u # t
        PROVE  pc'[u] = pc[u] /\ snap'[u] = snap[u]
    BY <2>2
  <2>3. UNCHANGED <<at, claim, content>>
    OBVIOUS
  <2>4. ASSUME NEW u \in Task, u # t
        PROVE  ClaimInv(u)'
    <3> HIDE DEF ReadGuard
    <3> QED
      BY <2>2, <2>3, <2>4 DEF ClaimInv, Claiming, Matches
  <2> QED
    BY <2>1, <2>4 DEF ClaimInv, Claiming
<1>4. \A u \in Task, path \in Path : OwnInv(u, path)'
  BY SMTT(30) DEF OwnInv, Holds, Retiring, WorkingInv, Alive, SnapInv, ClaimInv, Matches
<1>5. \A u, v \in Task : ClaimExclusive(u, v)'
  <2>1. pc'[t] \notin Claiming
    BY DEF Claiming
  <2>2. ASSUME NEW u \in Task, u # t
        PROVE  pc'[u] = pc[u] /\ snap'[u] = snap[u]
    BY <2>2
  <2> QED
    BY <2>1, <2>2 DEF ClaimExclusive
<1>6. WrittenInv'
  BY DEF WrittenInv, OwnInv, Holds, WorkingInv, Alive
<1>7. MutualExclusion'
  BY DEF MutualExclusion, Holds, Retiring, OwnInv
<1>8. OnlyDeadQuarantined'
  BY DEF OnlyDeadQuarantined, OwnInv, Holds, WorkingInv, Alive, Retiring, SnapInv, ClaimInv, Matches
<1>9. DistinctFiles'
  BY DEF DistinctFiles
<1> QED
  BY <1>1, <1>2, <1>3, <1>4, <1>5, <1>6, <1>7, <1>8, <1>9 DEF IInv

LEMMA ReadLockStep ==
  ASSUME IInv, NEW t \in Task, ReadLock(t), TypeOK'
  PROVE  IInv'
<1> USE ConstantAssumption DEF IInv, TypeOK, Snapshots, Path, ReadLock, Goto, Remember, Snapshot, files
<1>1. \A u \in Task : WorkingInv(u)'
  BY DEF WorkingInv, Alive
<1>2. \A u \in Task : SnapInv(u)'
  <2>1. ASSUME NEW u \in Task, u # t PROVE SnapInv(u)'
    <3>1. pc'[u] = pc[u] /\ snap'[u] = snap[u] /\ proc' = proc
      BY <2>1
    <3> QED
      BY <3>1 DEF SnapInv, Retiring
  <2>2. SnapInv(t)'
    <3>1. CASE at["lock"] # NoIno /\ content[at["lock"]] # Nobody
      <4>1. snap'[t] = Snapshot("lock") /\ pc'[t] = "probing" /\ proc' = proc
        BY <3>1
      <4>2. at["lock"] \in Ino /\ content[at["lock"]] \in Process
        BY <3>1
      <4> QED
        BY <4>1, <4>2 DEF SnapInv, WrittenInv
    <3>2. CASE ~(at["lock"] # NoIno /\ content[at["lock"]] # Nobody)
      BY <3>2 DEF SnapInv, Retiring
    <3> QED
      BY <3>1, <3>2
  <2> QED
    BY <2>1, <2>2
<1>3. \A u \in Task : ClaimInv(u)'
  <2>1. pc'[t] \notin Claiming
    BY DEF Claiming
  <2>2. ASSUME NEW u \in Task, u # t
        PROVE  pc'[u] = pc[u] /\ snap'[u] = snap[u]
    BY <2>2
  <2>3. UNCHANGED <<at, claim, content>>
    OBVIOUS
  <2>4. ASSUME NEW u \in Task, u # t
        PROVE  ClaimInv(u)'
    <3> HIDE DEF ReadLock
    <3> QED
      BY <2>2, <2>3, <2>4 DEF ClaimInv, Claiming, Matches
  <2> QED
    BY <2>1, <2>4 DEF ClaimInv, Claiming
<1>4. \A u \in Task, path \in Path : OwnInv(u, path)'
  BY SMTT(30) DEF OwnInv, Holds, Retiring, WorkingInv, Alive, SnapInv, ClaimInv, Matches
<1>5. \A u, v \in Task : ClaimExclusive(u, v)'
  <2>1. pc'[t] \notin Claiming
    BY DEF Claiming
  <2>2. ASSUME NEW u \in Task, u # t
        PROVE  pc'[u] = pc[u] /\ snap'[u] = snap[u]
    BY <2>2
  <2> QED
    BY <2>1, <2>2 DEF ClaimExclusive
<1>6. WrittenInv'
  BY DEF WrittenInv, OwnInv, Holds, WorkingInv, Alive
<1>7. MutualExclusion'
  BY DEF MutualExclusion, Holds, Retiring, OwnInv
<1>8. OnlyDeadQuarantined'
  BY DEF OnlyDeadQuarantined, OwnInv, Holds, WorkingInv, Alive, Retiring, SnapInv, ClaimInv, Matches
<1>9. DistinctFiles'
  BY DEF DistinctFiles
<1> QED
  BY <1>1, <1>2, <1>3, <1>4, <1>5, <1>6, <1>7, <1>8, <1>9 DEF IInv

LEMMA ProbeStep ==
  ASSUME IInv, NEW t \in Task, Probe(t), TypeOK'
  PROVE  IInv'
<1> USE ConstantAssumption DEF IInv, TypeOK, Snapshots, Path, Probe, Conclude, Goto, Remember, NoSnap, files
<1>1. \A u \in Task : WorkingInv(u)'
  BY DEF WorkingInv, Alive
<1>2. \A u \in Task : SnapInv(u)'
  <2>1. ASSUME NEW u \in Task, u # t PROVE SnapInv(u)'
    <3>1. pc'[u] = pc[u] /\ snap'[u] = snap[u] /\ proc' = proc
      BY <2>1
    <3> QED
      BY <3>1 DEF SnapInv, Retiring
  <2>2. SnapInv(t)'
    <3>1. CASE Gone(t, snap[t].holder)
      <4>1. snap[t].ino \in Ino /\ snap[t].holder \in Process /\ proc[snap[t].holder] # "unborn"
        BY DEF SnapInv, Retiring
      <4>2. proc[snap[t].holder] = "dead"
        BY <3>1, <4>1, GoneIsDead
      <4>3. pc'[t] = "claiming" /\ UNCHANGED <<snap, proc>>
        BY <3>1
      <4> QED
        BY <4>1, <4>2, <4>3 DEF SnapInv
    <3>2. CASE ~Gone(t, snap[t].holder)
      BY <3>2 DEF SnapInv, Retiring
    <3> QED
      BY <3>1, <3>2
  <2> QED
    BY <2>1, <2>2
<1>0. /\ \A u \in Task : u # t => pc'[u] = pc[u] /\ snap'[u] = snap[u]
      /\ pc'[t] \notin Claiming
      /\ \A u \in Task, path \in Path : Holds(u, path)' => Holds(u, path)
      /\ UNCHANGED <<proc, at, claim, content, own>>
  BY DEF Claiming, Holds, Retiring
<1>a. /\ \A u \in Task : ClaimInv(u)
      /\ \A u \in Task, path \in Path : OwnInv(u, path)
      /\ \A u, v \in Task : ClaimExclusive(u, v)
  OBVIOUS
<1>3. \A u \in Task : ClaimInv(u)'
  <2> HIDE DEF IInv, TypeOK, Snapshots, Probe, Conclude, Goto, Remember
  <2> QED
    BY <1>0, <1>a DEF ClaimInv, Claiming, Matches
<1>4. \A u \in Task, path \in Path : OwnInv(u, path)'
  <2> HIDE DEF IInv, TypeOK, Snapshots, Probe, Conclude, Goto, Remember
  <2> QED
    BY <1>0, <1>a DEF OwnInv
<1>5. \A u, v \in Task : ClaimExclusive(u, v)'
  <2> HIDE DEF IInv, TypeOK, Snapshots, Probe, Conclude, Goto, Remember
  <2> QED
    BY <1>0, <1>a DEF ClaimExclusive
<1>6. WrittenInv'
  BY DEF WrittenInv, OwnInv, Holds, WorkingInv, Alive
<1>7. MutualExclusion'
  BY DEF MutualExclusion, Holds, Retiring, OwnInv
<1>8. OnlyDeadQuarantined'
  BY DEF OnlyDeadQuarantined, OwnInv, Holds, WorkingInv, Alive, Retiring, SnapInv, ClaimInv, Matches
<1>9. DistinctFiles'
  BY DEF DistinctFiles
<1> QED
  BY <1>1, <1>2, <1>3, <1>4, <1>5, <1>6, <1>7, <1>8, <1>9 DEF IInv

LEMMA ReleaseGuardStep ==
  ASSUME IInv, NEW t \in Task, ReleaseGuard(t), TypeOK'
  PROVE  IInv'
<1> USE ConstantAssumption DEF IInv, TypeOK, Snapshots, Path, ReleaseGuard, Goto, Unlink
<1>1. \A u \in Task : WorkingInv(u)'
  BY DEF WorkingInv, Alive
<1>2. \A u \in Task : SnapInv(u)'
  BY DEF SnapInv, Retiring
<1>3. \A u \in Task : ClaimInv(u)'
  <2>1. pc'[t] \notin Claiming
    BY DEF Claiming
  <2>2. ASSUME NEW u \in Task, u # t, pc[u] \in Claiming, Matches(u),
               snap[u].path = "guard"
        PROVE  at["guard"] # snap[u].ino
    <3>1. at["guard"] \in Ino /\ content[at["guard"]] \in {Nobody, ProcessOf[t]}
      BY DEF OwnInv, Holds
    <3>2. snap[u].holder \in Process /\ proc[snap[u].holder] = "dead"
      BY <2>2 DEF SnapInv, Claiming, Retiring
    <3> QED
      BY <2>2, <3>1, <3>2 DEF Matches, Alive
  <2>3. ASSUME NEW u \in Task, u # t
        PROVE  ClaimInv(u)'
    <3>1. pc'[u] = pc[u] /\ snap'[u] = snap[u] /\ Matches(u)' = Matches(u)
      BY <2>3 DEF Matches
    <3>2. snap[u].path # "guard" => at'[snap[u].path] = at[snap[u].path]
      OBVIOUS
    <3> QED
      BY <2>2, <2>3, <3>1, <3>2 DEF ClaimInv, Claiming
  <2> QED
    BY <2>1, <2>3 DEF ClaimInv, Claiming
<1>4. \A u \in Task, path \in Path : OwnInv(u, path)'
  <2>1. ~Holds(t, "guard")'
    BY DEF Holds, Retiring
  <2>2. ASSUME NEW u \in Task, u # t
        PROVE  ~Holds(u, "guard")'
    BY <2>2 DEF MutualExclusion, Holds, Retiring
  <2>3. ASSUME NEW u \in Task, NEW path \in Path, path # "guard", Holds(u, path)'
        PROVE  OwnInv(u, path)'
    <3>1. Holds(u, path)
      BY <2>3 DEF Holds, Retiring
    <3>2. own'[u][path] = own[u][path] /\ at'[path] = at[path]
      BY <2>3
    <3> QED
      BY <3>1, <3>2 DEF OwnInv
  <2> QED
    BY <2>1, <2>2, <2>3 DEF OwnInv
<1>5. \A u, v \in Task : ClaimExclusive(u, v)'
  BY DEF ClaimExclusive, Claiming, ClaimInv
<1>6. WrittenInv'
  BY DEF WrittenInv, OwnInv, Holds, WorkingInv, Alive
<1>7. MutualExclusion'
  BY DEF MutualExclusion, Holds, Retiring, OwnInv
<1>8. OnlyDeadQuarantined'
  BY DEF OnlyDeadQuarantined, OwnInv, Holds, WorkingInv, Alive, Retiring, SnapInv, ClaimInv, Matches
<1>9. DistinctFiles'
  BY DEF DistinctFiles
<1> QED
  BY <1>1, <1>2, <1>3, <1>4, <1>5, <1>6, <1>7, <1>8, <1>9 DEF IInv

LEMMA ClaimStep ==
  ASSUME IInv, NEW t \in Task, Claim(t), TypeOK'
  PROVE  IInv'
<1> USE ConstantAssumption DEF IInv, TypeOK, Snapshots, Path, Claim, SetClaim, Conclude, Goto, Remember, NoSnap
<1>1. \A u \in Task : WorkingInv(u)'
  BY DEF WorkingInv, Alive
<1>2. \A u \in Task : SnapInv(u)'
  <2>1. ASSUME NEW u \in Task, u # t
        PROVE  pc'[u] = pc[u] /\ snap'[u] = snap[u]
    BY <2>1
  <2>2. \/ pc'[t] \notin Retiring
        \/ pc'[t] = "verifying" /\ snap' = snap
    BY DEF Retiring
  <2> QED
    BY <2>1, <2>2 DEF SnapInv, Retiring
<1>0. ASSUME NEW u \in Task, u # t
      PROVE  pc'[u] = pc[u] /\ snap'[u] = snap[u]
  BY <1>0
<1>3. \A u \in Task : ClaimInv(u)'
  <2>1. CASE /\ at[snap[t].path] # NoIno
             /\ claim[snap[t].path][snap[t].ino] = NoIno
             /\ SetClaim(t, at[snap[t].path])
             /\ Goto(t, "verifying")
             /\ UNCHANGED snap
    <3>1. snap[t].path \in Path /\ snap[t].ino \in Ino
      BY DEF SnapInv, Retiring
    <3>2. /\ claim'[snap[t].path][snap[t].ino] = at[snap[t].path]
          /\ pc'[t] = "verifying" /\ UNCHANGED <<at, content, snap>>
      BY <2>1, <3>1
    <3>3. ClaimInv(t)'
      <4> HIDE DEF IInv, TypeOK, Snapshots, Claim, SetClaim, Conclude, Goto, Remember
      <4> QED
        BY <2>1, <3>2 DEF ClaimInv, Matches
    <3>4. ASSUME NEW u \in Task, u # t, pc[u] \in Claiming
          PROVE  ClaimInv(u)'
      <4>1. snap[u].path \in Path /\ snap[u].ino \in Ino
        BY <3>4 DEF SnapInv, Claiming, Retiring
      <4>2. ClaimInv(u) /\ claim[snap[u].path][snap[u].ino] # NoIno
        BY <3>4 DEF ClaimInv
      <4>3. claim'[snap[u].path][snap[u].ino] = claim[snap[u].path][snap[u].ino]
        BY <2>1, <3>1, <4>1, <4>2
      <4> HIDE DEF IInv, TypeOK, Snapshots, Claim, SetClaim, Conclude, Goto, Remember
      <4> QED
        BY <1>0, <3>2, <3>4, <4>2, <4>3 DEF ClaimInv, Matches
    <3>5. ASSUME NEW u \in Task, u # t, pc[u] \notin Claiming
          PROVE  ClaimInv(u)'
      <4> HIDE DEF IInv, TypeOK, Snapshots, Claim, SetClaim, Conclude, Goto, Remember
      <4> QED
        BY <1>0, <3>5 DEF ClaimInv, Claiming
    <3> QED
      BY <3>3, <3>4, <3>5
  <2>2. CASE pc'[t] \notin Claiming /\ UNCHANGED claim
    <3>1. \A u \in Task : ClaimInv(u) /\ UNCHANGED <<at, content>>
      BY SMTT(30), <1>0
    <3> HIDE DEF IInv, TypeOK, Snapshots, Claim, SetClaim, Conclude, Goto, Remember
    <3> QED
      BY <1>0, <2>2, <3>1 DEF ClaimInv, Claiming, Matches
  <2> QED
    BY <2>1, <2>2 DEF Claiming
<1>4. \A u \in Task, path \in Path : OwnInv(u, path)'
  BY DEF OwnInv, Holds, Retiring, WorkingInv, Alive, SnapInv, ClaimInv, Matches
<1>5. \A u, v \in Task : ClaimExclusive(u, v)'
  <2>1. \/ pc'[t] \notin Claiming
        \/ claim[snap[t].path][snap[t].ino] = NoIno /\ snap' = snap
    BY DEF Claiming
  <2>2. ASSUME NEW u \in Task, pc[u] \in Claiming
        PROVE  claim[snap[u].path][snap[u].ino] # NoIno
    BY <2>2 DEF ClaimInv
  <2>3. \A u, v \in Task : ClaimExclusive(u, v)
    OBVIOUS
  <2> HIDE DEF IInv, TypeOK, Snapshots, Claim, SetClaim, Conclude, Goto, Remember
  <2> QED
    BY <1>0, <2>1, <2>2, <2>3 DEF ClaimExclusive
<1>6. WrittenInv'
  BY DEF WrittenInv, OwnInv, Holds, WorkingInv, Alive
<1>7. MutualExclusion'
  BY SMTT(30) DEF MutualExclusion, Holds, Retiring, OwnInv
<1>8. OnlyDeadQuarantined'
  BY DEF OnlyDeadQuarantined, OwnInv, Holds, WorkingInv, Alive, Retiring, SnapInv, ClaimInv, Matches
<1>9. DistinctFiles'
  BY DEF DistinctFiles
<1> QED
  BY <1>1, <1>2, <1>3, <1>4, <1>5, <1>6, <1>7, <1>8, <1>9 DEF IInv

LEMMA VerifyStep ==
  ASSUME IInv, NEW t \in Task, Verify(t), TypeOK'
  PROVE  IInv'
<1> USE ConstantAssumption DEF IInv, TypeOK, Snapshots, Path, Verify, Goto, files
<1>1. \A u \in Task : WorkingInv(u)'
  BY DEF WorkingInv, Alive
<1>2. \A u \in Task : SnapInv(u)'
  BY SMTT(30) DEF SnapInv, Retiring
<1>3. \A u \in Task : ClaimInv(u)'
  BY DEF ClaimInv, Claiming, Matches, SnapInv, OwnInv, Holds, Retiring, WorkingInv, Alive, ClaimExclusive
<1>4. \A u \in Task, path \in Path : OwnInv(u, path)'
  BY DEF OwnInv, Holds, Retiring, WorkingInv, Alive, SnapInv, ClaimInv, Matches
<1>5. \A u, v \in Task : ClaimExclusive(u, v)'
  BY DEF ClaimExclusive, Claiming, ClaimInv
<1>6. WrittenInv'
  BY DEF WrittenInv, OwnInv, Holds, WorkingInv, Alive
<1>7. MutualExclusion'
  BY DEF MutualExclusion, Holds, Retiring, OwnInv
<1>8. OnlyDeadQuarantined'
  BY DEF OnlyDeadQuarantined, OwnInv, Holds, WorkingInv, Alive, Retiring, SnapInv, ClaimInv, Matches
<1>9. DistinctFiles'
  BY DEF DistinctFiles
<1> QED
  BY <1>1, <1>2, <1>3, <1>4, <1>5, <1>6, <1>7, <1>8, <1>9 DEF IInv

LEMMA DropClaimStep ==
  ASSUME IInv, NEW t \in Task, DropClaim(t), TypeOK'
  PROVE  IInv'
<1> USE ConstantAssumption DEF IInv, TypeOK, Snapshots, Path, DropClaim, SetClaim, Conclude, Goto, Remember, NoSnap
<1>1. \A u \in Task : WorkingInv(u)'
  BY DEF WorkingInv, Alive
<1>2. \A u \in Task : SnapInv(u)'
  BY DEF SnapInv, Retiring
<1>3. \A u \in Task : ClaimInv(u)'
  <2>1. pc'[t] \notin Claiming
    BY DEF Claiming
  <2>2. ASSUME NEW u \in Task, u # t, pc[u] \in Claiming
        PROVE  ClaimInv(u)'
    <3>1. snap[u].path \in Path /\ snap[u].ino \in Ino
      BY <2>2 DEF SnapInv, Claiming, Retiring
    <3>2. snap[t].path # snap[u].path \/ snap[t].ino # snap[u].ino
      BY <2>2 DEF ClaimExclusive, Claiming
    <3>3. snap[t].path \in Path /\ snap[t].ino \in Ino
      BY DEF SnapInv, Retiring
    <3>4. claim'[snap[u].path][snap[u].ino] = claim[snap[u].path][snap[u].ino]
      BY <3>1, <3>2, <3>3
    <3>5. pc'[u] = pc[u] /\ snap'[u] = snap[u] /\ UNCHANGED <<at, content>>
      BY <2>2
    <3>6. Matches(u)' <=> Matches(u)
      BY <3>4, <3>5 DEF Matches
    <3> QED
      BY <2>2, <3>4, <3>5, <3>6 DEF ClaimInv
  <2>3. ASSUME NEW u \in Task, u # t PROVE pc'[u] = pc[u]
    BY <2>3
  <2> QED
    BY <2>1, <2>2, <2>3 DEF ClaimInv, Claiming
<1>4. \A u \in Task, path \in Path : OwnInv(u, path)'
  BY DEF OwnInv, Holds, Retiring, WorkingInv, Alive, SnapInv, ClaimInv, Matches
<1>5. \A u, v \in Task : ClaimExclusive(u, v)'
  BY DEF ClaimExclusive, Claiming, ClaimInv
<1>6. WrittenInv'
  BY DEF WrittenInv, OwnInv, Holds, WorkingInv, Alive
<1>7. MutualExclusion'
  BY DEF MutualExclusion, Holds, Retiring, OwnInv
<1>8. OnlyDeadQuarantined'
  BY DEF OnlyDeadQuarantined, OwnInv, Holds, WorkingInv, Alive, Retiring, SnapInv, ClaimInv, Matches
<1>9. DistinctFiles'
  BY DEF DistinctFiles
<1> QED
  BY <1>1, <1>2, <1>3, <1>4, <1>5, <1>6, <1>7, <1>8, <1>9 DEF IInv

LEMMA UnlinkStaleStep ==
  ASSUME IInv, NEW t \in Task, UnlinkStale(t), TypeOK'
  PROVE  IInv'
<1> USE ConstantAssumption DEF IInv, TypeOK, Snapshots, Path, UnlinkStale, Goto, Unlink
<1>1. \A u \in Task : WorkingInv(u)'
  BY DEF WorkingInv, Alive
<1>2. \A u \in Task : SnapInv(u)'
  BY SMTT(30) DEF SnapInv, Retiring
<1>3. \A u \in Task : ClaimInv(u)'
  BY DEF ClaimInv, Claiming, Matches, SnapInv, OwnInv, Holds, Retiring, WorkingInv, Alive, ClaimExclusive
<1>4. \A u \in Task, path \in Path : OwnInv(u, path)'
  BY DEF OwnInv, Holds, Retiring, WorkingInv, Alive, SnapInv, ClaimInv, Matches
<1>5. \A u, v \in Task : ClaimExclusive(u, v)'
  BY DEF ClaimExclusive, Claiming, ClaimInv
<1>6. WrittenInv'
  BY DEF WrittenInv, OwnInv, Holds, WorkingInv, Alive
<1>7. MutualExclusion'
  BY DEF MutualExclusion, Holds, Retiring, OwnInv
<1>8. OnlyDeadQuarantined'
  BY DEF OnlyDeadQuarantined, OwnInv, Holds, WorkingInv, Alive, Retiring, SnapInv, ClaimInv, Matches
<1>9. DistinctFiles'
  BY DEF DistinctFiles
<1> QED
  BY <1>1, <1>2, <1>3, <1>4, <1>5, <1>6, <1>7, <1>8, <1>9 DEF IInv

LEMMA RetireStep ==
  ASSUME IInv, NEW t \in Task, Retire(t), TypeOK'
  PROVE  IInv'
<1> USE ConstantAssumption DEF IInv, TypeOK, Snapshots, Path, Retire, SetClaim, Conclude, Goto, Remember, NoSnap
<1>1. \A u \in Task : WorkingInv(u)'
  BY DEF WorkingInv, Alive
<1>2. \A u \in Task : SnapInv(u)'
  BY DEF SnapInv, Retiring
<1>3. \A u \in Task : ClaimInv(u)'
  <2>1. pc'[t] \notin Claiming
    BY DEF Claiming
  <2>2. ASSUME NEW u \in Task, u # t, pc[u] \in Claiming
        PROVE  ClaimInv(u)'
    <3>1. snap[u].path \in Path /\ snap[u].ino \in Ino
      BY <2>2 DEF SnapInv, Claiming, Retiring
    <3>2. snap[t].path # snap[u].path \/ snap[t].ino # snap[u].ino
      BY <2>2 DEF ClaimExclusive, Claiming
    <3>3. snap[t].path \in Path /\ snap[t].ino \in Ino
      BY DEF SnapInv, Retiring
    <3>4. claim'[snap[u].path][snap[u].ino] = claim[snap[u].path][snap[u].ino]
      BY <3>1, <3>2, <3>3
    <3>5. pc'[u] = pc[u] /\ snap'[u] = snap[u] /\ UNCHANGED <<at, content>>
      BY <2>2
    <3>6. Matches(u)' <=> Matches(u)
      BY <3>4, <3>5 DEF Matches
    <3> QED
      BY <2>2, <3>4, <3>5, <3>6 DEF ClaimInv
  <2>3. ASSUME NEW u \in Task, u # t PROVE pc'[u] = pc[u]
    BY <2>3
  <2> QED
    BY <2>1, <2>2, <2>3 DEF ClaimInv, Claiming
<1>4. \A u \in Task, path \in Path : OwnInv(u, path)'
  BY DEF OwnInv, Holds, Retiring, WorkingInv, Alive, SnapInv, ClaimInv, Matches
<1>5. \A u, v \in Task : ClaimExclusive(u, v)'
  BY DEF ClaimExclusive, Claiming, ClaimInv
<1>6. WrittenInv'
  BY DEF WrittenInv, OwnInv, Holds, WorkingInv, Alive
<1>7. MutualExclusion'
  BY DEF MutualExclusion, Holds, Retiring, OwnInv
<1>8. OnlyDeadQuarantined'
  BY DEF OnlyDeadQuarantined, OwnInv, Holds, WorkingInv, Alive, Retiring, SnapInv, ClaimInv, Matches
<1>9. DistinctFiles'
  BY DEF DistinctFiles
<1> QED
  BY <1>1, <1>2, <1>3, <1>4, <1>5, <1>6, <1>7, <1>8, <1>9 DEF IInv

LEMMA StartStep ==
  ASSUME IInv, NEW p \in Process, Start(p), TypeOK'
  PROVE  IInv'
<1> USE ConstantAssumption DEF IInv, TypeOK, Snapshots, Path, Start, files
<1>1. \A u \in Task : WorkingInv(u)'
  BY DEF WorkingInv, Alive
<1>2. \A u \in Task : SnapInv(u)'
  BY DEF SnapInv, Retiring
<1>3. \A u \in Task : ClaimInv(u)'
  BY DEF ClaimInv, Claiming, Matches, SnapInv, OwnInv, Holds, Retiring, WorkingInv, Alive, ClaimExclusive
<1>4. \A u \in Task, path \in Path : OwnInv(u, path)'
  BY DEF OwnInv, Holds, Retiring, WorkingInv, Alive, SnapInv, ClaimInv, Matches
<1>5. \A u, v \in Task : ClaimExclusive(u, v)'
  BY DEF ClaimExclusive, Claiming, ClaimInv
<1>6. WrittenInv'
  BY DEF WrittenInv, OwnInv, Holds, WorkingInv, Alive
<1>7. MutualExclusion'
  BY DEF MutualExclusion, Holds, Retiring, OwnInv
<1>8. OnlyDeadQuarantined'
  BY DEF OnlyDeadQuarantined, OwnInv, Holds, WorkingInv, Alive, Retiring, SnapInv, ClaimInv, Matches
<1>9. DistinctFiles'
  BY DEF DistinctFiles
<1> QED
  BY <1>1, <1>2, <1>3, <1>4, <1>5, <1>6, <1>7, <1>8, <1>9 DEF IInv

LEMMA CrashStep ==
  ASSUME IInv, NEW p \in Process, Crash(p), TypeOK'
  PROVE  IInv'
<1> USE ConstantAssumption DEF IInv, TypeOK, Snapshots, Path, Crash, NoSnap, files
<1>1. \A u \in Task : WorkingInv(u)'
  BY DEF WorkingInv, Alive
<1>2. \A u \in Task : SnapInv(u)'
  BY SMTT(30) DEF SnapInv, Retiring
<1>3. \A u \in Task : ClaimInv(u)'
  BY DEF ClaimInv, Claiming, Matches, SnapInv, OwnInv, Holds, Retiring, WorkingInv, Alive, ClaimExclusive
<1>4. \A u \in Task, path \in Path : OwnInv(u, path)'
  BY DEF OwnInv, Holds, Retiring, WorkingInv, Alive, SnapInv, ClaimInv, Matches
<1>5. \A u, v \in Task : ClaimExclusive(u, v)'
  BY DEF ClaimExclusive, Claiming, ClaimInv
<1>6. WrittenInv'
  BY DEF WrittenInv, OwnInv, Holds, WorkingInv, Alive
<1>7. MutualExclusion'
  BY DEF MutualExclusion, Holds, Retiring, OwnInv
<1>8. OnlyDeadQuarantined'
  BY DEF OnlyDeadQuarantined, OwnInv, Holds, WorkingInv, Alive, Retiring, SnapInv, ClaimInv, Matches
<1>9. DistinctFiles'
  BY DEF DistinctFiles
<1> QED
  BY <1>1, <1>2, <1>3, <1>4, <1>5, <1>6, <1>7, <1>8, <1>9 DEF IInv

-----------------------------------------------------------------------------
LEMMA InvInit == Init => IInv
<1> SUFFICES ASSUME Init PROVE IInv
  OBVIOUS
<1>1. TypeOK
  BY TypeInit
<1>2. \A t \in Task : pc[t] = "idle"
  BY DEF Init
<1> QED
  BY <1>1, <1>2 DEF Init, IInv, WorkingInv, SnapInv, ClaimInv, ClaimExclusive,
       OwnInv, Holds, Retiring, Claiming, WrittenInv, DistinctFiles, Path,
       MutualExclusion, OnlyDeadQuarantined

LEMMA InvNext == IInv /\ [Next]_vars => IInv'
<1> SUFFICES ASSUME IInv, [Next]_vars PROVE IInv'
  OBVIOUS
<1>0. TypeOK'
  BY TypeNext DEF IInv
<1>1. ASSUME NEW t \in Task, Attempt(t) PROVE IInv'
  <2>1. CASE Acquire(t)
    BY <1>0, <2>1, CreateStep DEF Acquire, Path
  <2>2. CASE Contend(t)
    BY <1>0, <2>2, ContendStep
  <2> QED
    BY <1>1, <2>1, <2>2 DEF Attempt
<1>2. ASSUME NEW t \in Task, Finish(t) PROVE IInv'
  <2>1. CASE Write(t)
    BY <1>0, <2>1, WriteStep DEF Write
  <2>2. CASE TakeGuard(t)
    BY <1>0, <2>2, CreateStep DEF TakeGuard, Path
  <2>3. CASE Retry(t)
    <3>1. CASE Create(t, "lock", "writing")
      BY <1>0, <2>3, <3>1, CreateStep DEF Retry, Path
    <3>2. CASE Goto(t, "idle") /\ UNCHANGED <<proc, files, own, snap>>
      BY <1>0, <2>3, <3>2, RetryFailsStep DEF Retry
    <3> QED
      BY <2>3, <3>1, <3>2 DEF Retry
  <2>4. CASE Release(t)
    BY <1>0, <2>4, ReleaseStep
  <2>5. CASE GuardBusy(t)
    BY <1>0, <2>5, GuardBusyStep
  <2>6. CASE ReadGuard(t)
    BY <1>0, <2>6, ReadGuardStep
  <2>7. CASE ReadLock(t)
    BY <1>0, <2>7, ReadLockStep
  <2>8. CASE Probe(t)
    BY <1>0, <2>8, ProbeStep
  <2>9. CASE ReleaseGuard(t)
    BY <1>0, <2>9, ReleaseGuardStep
  <2>10. CASE Claim(t)
    BY <1>0, <2>10, ClaimStep
  <2>11. CASE Verify(t)
    BY <1>0, <2>11, VerifyStep
  <2>12. CASE DropClaim(t)
    BY <1>0, <2>12, DropClaimStep
  <2>13. CASE UnlinkStale(t)
    BY <1>0, <2>13, UnlinkStaleStep
  <2>14. CASE Retire(t)
    BY <1>0, <2>14, RetireStep
  <2> QED
    BY <1>2, <2>1, <2>2, <2>3, <2>4, <2>5, <2>6, <2>7, <2>8, <2>9, <2>10,
       <2>11, <2>12, <2>13, <2>14 DEF Finish
<1>3. ASSUME NEW t \in Task, WriteFails(t) PROVE IInv'
  BY <1>0, <1>3, WriteFailsStep
<1>4. ASSUME NEW p \in Process, Start(p) \/ Crash(p) PROVE IInv'
  BY <1>0, <1>4, StartStep, CrashStep
<1>5. CASE UNCHANGED vars
  BY <1>0, <1>5 DEF vars, IInv, WorkingInv, Alive, SnapInv, ClaimInv, Matches,
       ClaimExclusive, OwnInv, Holds, WrittenInv, DistinctFiles,
       MutualExclusion, OnlyDeadQuarantined
<1> QED
  BY <1>1, <1>2, <1>3, <1>4, <1>5 DEF Next

LEMMA Inductive == Spec => []IInv
BY InvInit, InvNext, PTL DEF Spec

\* All variables keep their types: withNamedLock and tryRecoverStaleLock never
\* lose track of where a task is or which file it is retiring.
THEOREM TypeCorrect == Spec => []TypeOK
<1>1. IInv => TypeOK
  BY DEF IInv
<1> QED
  BY <1>1, Inductive, PTL

\* At most one task at a time has the lock, and at most one the recovery guard:
\* the exclusion withJobLock and withCoordinatorLock promise their callers.
THEOREM LockIsExclusive == Spec => []MutualExclusion
<1>1. IInv => MutualExclusion
  BY DEF IInv
<1> QED
  BY <1>1, Inductive, PTL

\* Nobody's lock file is removed while its owner is running: the unconditional
\* unlink of a release always hits the file its own acquisition created.
THEOREM OwnersKeepTheirFile == Spec => []OwnFileInPlace
<1>1. IInv => OwnFileInPlace
  BY ConstantAssumption DEF IInv, OwnInv, OwnFileInPlace
<1> QED
  BY <1>1, Inductive, PTL

\* quarantineIfUnchanged only ever retires what a gone process left behind.
THEOREM QuarantineIsSound == Spec => []OnlyDeadQuarantined
<1>1. IInv => OnlyDeadQuarantined
  BY DEF IInv
<1> QED
  BY <1>1, Inductive, PTL

\* The unlink of quarantineIfUnchanged hits the very file that was read and
\* judged stale, although nothing keeps the path from changing in between.
THEOREM RecoveryIsPrecise == Spec => []UnlinksWhatItRead
<1>1. IInv => UnlinksWhatItRead
  BY DEF IInv, ClaimInv, UnlinksWhatItRead
<1> QED
  BY <1>1, Inductive, PTL
=============================================================================
