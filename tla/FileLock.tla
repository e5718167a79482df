------------------------------ MODULE FileLock ------------------------------
(***************************************************************************)
(* The single-writer lock of the background-job store: an O_EXCL lock file *)
(* at a fixed path, held by at most one caller, recovered after a crash by *)
(* whoever finds its owner verifiably gone.  Recoverers serialise on a     *)
(* second lock file, the guard ("<lock>.recovery"), acquired the same way. *)
(*                                                                         *)
(* The model keeps the directory entries and the inodes apart, because the *)
(* protocol depends on it: a stale file is first pinned by a hard link     *)
(* (the claim "<path>.retire-<dev>-<ino>"), then compared with what was    *)
(* read, and only then unlinked.  An inode that no entry and no open       *)
(* handle refers to is free and may be given to a new file, so a delayed   *)
(* recoverer can meet a different file under a number it has seen before.  *)
(*                                                                         *)
(* One Task is one asynchronous call stack that takes the lock; tasks of   *)
(* the same process crash together and write the same holder record.       *)
(***************************************************************************)
CONSTANTS
    Process,    \* operating-system processes, one element per incarnation
    Task,       \* call stacks that use the lock
    ProcessOf,  \* ProcessOf[t]: the process task t runs in
    HostOf,     \* HostOf[p]: hostname of the machine p runs on
    PidOf,      \* PidOf[p]: its process id (ids are reused)
    StartOf,    \* StartOf[p]: its start time, or NoStart when unreadable
    NoStart,
    Ino,        \* inode numbers of the lock directory
    NoIno,      \* no such directory entry
    Nobody      \* content of a file whose holder record is missing or corrupt

Path == {"lock", "guard"}

ASSUME ConstantAssumption ==
    /\ ProcessOf \in [Task -> Process]
    /\ NoIno \notin Ino
    /\ Nobody \notin Process

VARIABLES
    proc,         \* proc[p]: "unborn", "alive" or "dead"
    at,           \* at[path]: the inode the entry points to
    claim,        \* claim[path][i]: inode behind "<path>.retire-<i>"
    quarantined,  \* inodes moved to the quarantine directory
    content,      \* content[i]: process named in the holder record of file i
    pc,           \* pc[t]: where task t is in acquire / recover / release
    own,          \* own[t][path]: the file t created at path and still owns
    snap          \* snap[t]: the file t is trying to retire, as it read it

files == <<at, claim, quarantined, content>>
vars == <<proc, at, claim, quarantined, content, pc, own, snap>>

NoSnap == [path |-> "lock", ino |-> NoIno, holder |-> Nobody]

Alive(t) == proc[ProcessOf[t]] = "alive"

\* A file exists as long as an entry or an open handle refers to it.
InUse(i) ==
    \/ \E p \in Path : at[p] = i \/ \E j \in Ino : claim[p][j] = i
    \/ i \in quarantined
    \/ \E t \in Task, p \in Path : own[t][p] = i

\* Mutant: whoever is not this process is taken for gone.
NotMine(t, holder) == holder # ProcessOf[t]

\* isLockOwnerGone: positive evidence only.  A process of another host, a
\* running process without start time and an unreadable one all count as alive.
Gone(t, holder) ==
    LET samePid == {p \in Process : /\ proc[p] = "alive"
                                    /\ HostOf[p] = HostOf[ProcessOf[t]]
                                    /\ PidOf[p] = PidOf[holder]}
    IN  /\ HostOf[holder] = HostOf[ProcessOf[t]]
        /\ \A p \in samePid : /\ StartOf[holder] # NoStart
                              /\ StartOf[p] # NoStart
                              /\ StartOf[p] # StartOf[holder]

Goto(t, label) == pc' = [pc EXCEPT ![t] = label]
Remember(t, s) == snap' = [snap EXCEPT ![t] = s]
Unlink(path) == at' = [at EXCEPT ![path] = NoIno]

-----------------------------------------------------------------------------
Init ==
    /\ proc \in [Process -> {"unborn", "alive"}]
    /\ \A p, q \in Process :
         /\ proc[p] = "alive" /\ proc[q] = "alive"
         /\ HostOf[p] = HostOf[q] /\ PidOf[p] = PidOf[q]
         => p = q
    /\ at = [p \in Path |-> NoIno]
    /\ claim = [p \in Path |-> [i \in Ino |-> NoIno]]
    /\ quarantined = {}
    /\ content = [i \in Ino |-> Nobody]
    /\ pc = [t \in Task |-> "idle"]
    /\ own = [t \in Task |-> [p \in Path |-> NoIno]]
    /\ snap = [t \in Task |-> NoSnap]

-----------------------------------------------------------------------------
(* acquireExclusiveLockPosix: create, then write the holder record.        *)

Create(t, path, next) ==
    /\ at[path] = NoIno
    /\ \E i \in Ino :
         /\ ~InUse(i)
         /\ at' = [at EXCEPT ![path] = i]
         /\ content' = [content EXCEPT ![i] = Nobody]
         /\ own' = [own EXCEPT ![t][path] = i]
    /\ Goto(t, next)
    /\ UNCHANGED <<proc, claim, quarantined, snap>>

Acquire(t) ==
    /\ Alive(t) /\ pc[t] = "idle"
    /\ Create(t, "lock", "writing")

\* EEXIST on the first try: the caller goes on to tryRecoverStaleLock.
Contend(t) ==
    /\ Alive(t) /\ pc[t] = "idle" /\ at["lock"] # NoIno
    /\ Goto(t, "contended")
    /\ UNCHANGED <<proc, files, own, snap>>

\* The single retry; EEXIST now propagates as lock-held.
Retry(t) ==
    /\ Alive(t) /\ pc[t] = "retry"
    /\ \/ Create(t, "lock", "writing")
       \/ /\ at["lock"] # NoIno
          /\ Goto(t, "idle")
          /\ UNCHANGED <<proc, files, own, snap>>

WriteHolder(t, path) ==
    /\ Alive(t)
    /\ pc[t] = IF path = "lock" THEN "writing" ELSE "guardWriting"
    /\ content' = [content EXCEPT ![own[t][path]] = ProcessOf[t]]
    /\ Goto(t, IF path = "lock" THEN "held" ELSE "guarded")
    /\ UNCHANGED <<proc, at, claim, quarantined, own, snap>>

Write(t) == \E path \in Path : WriteHolder(t, path)

\* writeFile throws (a full disk): the acquisition fails, the file stays.
WriteFails(t) ==
    /\ Alive(t) /\ pc[t] \in {"writing", "guardWriting"}
    /\ own' = [own EXCEPT ![t] = [p \in Path |-> NoIno]]
    /\ Goto(t, "idle")
    /\ UNCHANGED <<proc, files, snap>>

\* The release closure unlinks the path, whatever is there.
Release(t) ==
    /\ Alive(t) /\ pc[t] = "held"
    /\ Unlink("lock")
    /\ own' = [own EXCEPT ![t]["lock"] = NoIno]
    /\ Goto(t, "idle")
    /\ UNCHANGED <<proc, claim, quarantined, content, snap>>

-----------------------------------------------------------------------------
(* tryRecoverStaleLock.                                                    *)

TakeGuard(t) ==
    /\ Alive(t) /\ pc[t] = "contended"
    /\ Create(t, "guard", "guardWriting")

\* Somebody holds the guard: look at it, to move it aside if its owner is gone.
GuardBusy(t) ==
    /\ Alive(t) /\ pc[t] = "contended" /\ at["guard"] # NoIno
    /\ Goto(t, "guardBusy")
    /\ UNCHANGED <<proc, files, own, snap>>

\* The file at path as snapshotLockFile returns it.
Snapshot(path) == [path |-> path, ino |-> at[path], holder |-> content[at[path]]]

ReadGuard(t) ==
    /\ Alive(t) /\ pc[t] = "guardBusy"
    /\ IF at["guard"] # NoIno /\ content[at["guard"]] # Nobody
         THEN Remember(t, Snapshot("guard")) /\ Goto(t, "probing")
         ELSE Goto(t, "idle") /\ UNCHANGED snap
    /\ UNCHANGED <<proc, files, own>>

\* Under the guard the lock file is read again: it may be gone, or replaced.
ReadLock(t) ==
    /\ Alive(t) /\ pc[t] = "guarded"
    /\ \/ at["lock"] = NoIno /\ Goto(t, "releaseRetry") /\ UNCHANGED snap
       \/ /\ at["lock"] # NoIno /\ content[at["lock"]] = Nobody
          /\ Goto(t, "releaseFail") /\ UNCHANGED snap
       \/ /\ at["lock"] # NoIno /\ content[at["lock"]] # Nobody
          /\ Remember(t, Snapshot("lock")) /\ Goto(t, "probing")
    /\ UNCHANGED <<proc, files, own>>

\* Where a task goes when its attempt to retire the file is over.  A guard is
\* only moved aside for later attempts: this one reports lock-held anyway.
Conclude(t, retry) ==
    /\ Remember(t, NoSnap)
    /\ Goto(t, IF snap[t].path = "guard" THEN "idle"
               ELSE IF retry THEN "releaseRetry" ELSE "releaseFail")

Probe(t) ==
    /\ Alive(t) /\ pc[t] = "probing"
    /\ IF Gone(t, snap[t].holder)
         THEN Goto(t, "claiming") /\ UNCHANGED snap
         ELSE Conclude(t, FALSE)
    /\ UNCHANGED <<proc, files, own>>

\* Mutant: the guard stays behind.
LeaveGuard(t) ==
    /\ Alive(t) /\ pc[t] \in {"releaseRetry", "releaseFail"}
    /\ own' = [own EXCEPT ![t]["guard"] = NoIno]
    /\ Goto(t, IF pc[t] = "releaseRetry" THEN "retry" ELSE "idle")
    /\ UNCHANGED <<proc, files, snap>>

ReleaseGuard(t) ==
    /\ Alive(t) /\ pc[t] \in {"releaseRetry", "releaseFail"}
    /\ Unlink("guard")
    /\ own' = [own EXCEPT ![t]["guard"] = NoIno]
    /\ Goto(t, IF pc[t] = "releaseRetry" THEN "retry" ELSE "idle")
    /\ UNCHANGED <<proc, claim, quarantined, content, snap>>

-----------------------------------------------------------------------------
(* quarantineIfUnchanged: claim, verify, unlink, retire.                   *)

SetClaim(t, i) == claim' = [claim EXCEPT ![snap[t].path][snap[t].ino] = i]

\* link(path, claim): fails with ENOENT when the file is gone and with EEXIST
\* when the claim on this inode is taken.
Claim(t) ==
    /\ Alive(t) /\ pc[t] = "claiming"
    /\ LET path == snap[t].path
           taken == claim[path][snap[t].ino] # NoIno
       IN  \/ /\ at[path] # NoIno /\ ~taken
              /\ SetClaim(t, at[path])
              /\ Goto(t, "verifying")
              /\ UNCHANGED snap
           \/ /\ at[path] = NoIno \/ taken
              /\ Conclude(t, at[path] = NoIno)
              /\ UNCHANGED claim
    /\ UNCHANGED <<proc, at, quarantined, content, own>>

\* Mutant: the claimed file is not compared with the file that was read.
Unverified(t) == TRUE

Matches(t) ==
    LET i == claim[snap[t].path][snap[t].ino]
    IN  i = snap[t].ino /\ content[i] = snap[t].holder

Verify(t) ==
    /\ Alive(t) /\ pc[t] = "verifying"
    /\ Goto(t, IF Matches(t) THEN "unlinking" ELSE "dropping")
    /\ UNCHANGED <<proc, files, own, snap>>

\* A different file: the claim is dropped, the path left alone.
DropClaim(t) ==
    /\ Alive(t) /\ pc[t] = "dropping"
    /\ SetClaim(t, NoIno)
    /\ Conclude(t, FALSE)
    /\ UNCHANGED <<proc, at, quarantined, content, own>>

UnlinkStale(t) ==
    /\ Alive(t) /\ pc[t] = "unlinking"
    /\ Unlink(snap[t].path)
    /\ Goto(t, "retiring")
    /\ UNCHANGED <<proc, claim, quarantined, content, own, snap>>

\* Mutant: what is at the path by then is taken for the file moved away.
RetirePath(t) ==
    /\ Alive(t) /\ pc[t] = "retiring"
    /\ quarantined' = quarantined \cup {at[snap[t].path]}
    /\ SetClaim(t, NoIno)
    /\ Conclude(t, TRUE)
    /\ UNCHANGED <<proc, at, content, own>>

Retire(t) ==
    /\ Alive(t) /\ pc[t] = "retiring"
    /\ quarantined' = quarantined \cup {snap[t].ino}
    /\ SetClaim(t, NoIno)
    /\ Conclude(t, TRUE)
    /\ UNCHANGED <<proc, at, content, own>>

-----------------------------------------------------------------------------
(* Processes come and go; ids are reused only after their owner is gone.   *)

Start(p) ==
    /\ proc[p] = "unborn"
    /\ \A q \in Process : proc[q] = "alive" /\ HostOf[q] = HostOf[p]
                          => PidOf[q] # PidOf[p]
    /\ proc' = [proc EXCEPT ![p] = "alive"]
    /\ UNCHANGED <<files, pc, own, snap>>

Crash(p) ==
    /\ proc[p] = "alive"
    /\ proc' = [proc EXCEPT ![p] = "dead"]
    /\ pc' = [t \in Task |-> IF ProcessOf[t] = p THEN "dead" ELSE pc[t]]
    /\ own' = [t \in Task |-> IF ProcessOf[t] = p
                                THEN [q \in Path |-> NoIno] ELSE own[t]]
    /\ snap' = [t \in Task |-> IF ProcessOf[t] = p THEN NoSnap ELSE snap[t]]
    /\ UNCHANGED files

Attempt(t) == Acquire(t) \/ Contend(t)

Finish(t) ==
    \/ Write(t) \/ Release(t) \/ TakeGuard(t) \/ GuardBusy(t)
    \/ ReadGuard(t) \/ ReadLock(t) \/ Probe(t) \/ ReleaseGuard(t)
    \/ Claim(t) \/ Verify(t) \/ DropClaim(t) \/ UnlinkStale(t) \/ Retire(t)
    \/ Retry(t)

Next ==
    \/ \E t \in Task : Attempt(t) \/ Finish(t) \/ WriteFails(t)
    \/ \E p \in Process : Start(p) \/ Crash(p)

Spec == Init /\ [][Next]_vars

\* A started acquisition runs on (every await settles) unless its process
\* crashes, and live callers keep trying: both callers that wait for a lock,
\* withCoordinatorLockRetrying and updateJobRetryingOnLockHeld, poll.
FairSpec == Spec /\ \A t \in Task : WF_vars(Finish(t)) /\ WF_vars(Attempt(t))

-----------------------------------------------------------------------------
PC == {"idle", "writing", "held", "contended", "guardWriting", "guarded",
       "guardBusy", "probing", "claiming", "verifying", "dropping",
       "unlinking", "retiring", "releaseRetry", "releaseFail", "retry", "dead"}

Snapshots == [path : Path, ino : Ino \cup {NoIno}, holder : Process \cup {Nobody}]

TypeOK ==
    /\ proc \in [Process -> {"unborn", "alive", "dead"}]
    /\ at \in [Path -> Ino \cup {NoIno}]
    /\ claim \in [Path -> [Ino -> Ino \cup {NoIno}]]
    /\ quarantined \in SUBSET Ino
    /\ content \in [Ino -> Process \cup {Nobody}]
    /\ pc \in [Task -> PC]
    /\ own \in [Task -> [Path -> Ino \cup {NoIno}]]
    /\ snap \in [Task -> Snapshots]

\* The tasks that have the lock (they created the file and have not released
\* it), and those that have the guard.
Retiring == {"probing", "claiming", "verifying", "dropping", "unlinking", "retiring"}

Holds(t, path) ==
    IF path = "lock"
      THEN pc[t] \in {"writing", "held"}
      ELSE \/ pc[t] \in {"guardWriting", "guarded", "releaseRetry", "releaseFail"}
           \/ pc[t] \in Retiring /\ snap[t].path = "lock"

\* At most one task at a time has the lock, and at most one the guard, through
\* any number of crashes, recoveries, reused process ids and reused inodes.
MutualExclusion ==
    \A path \in Path : \A t, u \in Task : Holds(t, path) /\ Holds(u, path) => t = u

\* A task that has the lock or the guard still finds its own file there: no
\* recoverer, however delayed, ever unlinked the file of a live owner (the
\* unconditional unlink of its release would then hit somebody else's file).
OwnFileInPlace ==
    \A t \in Task, path \in Path :
        Holds(t, path) => own[t][path] # NoIno /\ at[path] = own[t][path]

\* Only a file left by a process that is gone is ever put in quarantine.
OnlyDeadQuarantined ==
    \A i \in quarantined : content[i] # Nobody /\ proc[content[i]] = "dead"

\* A recoverer about to unlink the path is about to unlink the file it read.
UnlinksWhatItRead ==
    \A t \in Task : pc[t] = "unlinking" => at[snap[t].path] = snap[t].ino

\* A file that no code path ever removes: its holder record was never written,
\* or a recoverer crashed while it had the claim.
Stuck(path) ==
    LET i == at[path]
    IN  /\ i # NoIno
        /\ \/ content[i] = Nobody /\ \A t \in Task : own[t][path] # i
           \/ /\ claim[path][i] # NoIno
              /\ \A t \in Task : ~(/\ pc[t] \in Retiring
                                   /\ snap[t].path = path /\ snap[t].ino = i)

\* The lock is left behind by a process that every live task can see is gone.
Stale ==
    /\ at["lock"] # NoIno /\ content[at["lock"]] # Nobody
    /\ \E t \in Task : Alive(t)
    /\ \A t \in Task : Alive(t) => Gone(t, content[at["lock"]])

\* A stale lock does not stay: it is recovered, unless the known unhandled
\* case occurs (a file without holder record, or a claim left by a crash), or
\* nobody is left who could tell that its owner is gone.
StaleLockRecovered ==
    Stale ~> \/ ~Stale
             \/ Stuck("lock") \/ Stuck("guard")

\* The promise of the lock, as its callers see it: whoever has it, "orphaned"
\* while a file without live owner is in place, "free" when there is none.
Holder ==
    IF at["lock"] = NoIno THEN "free"
    ELSE IF \E t \in Task : Holds(t, "lock") THEN CHOOSE t \in Task : Holds(t, "lock")
    ELSE "orphaned"

Service == INSTANCE LockService WITH holder <- Holder, Free <- "free", Orphaned <- "orphaned"

\* The file protocol implements the abstract lock: every step of it is a lock,
\* an unlock, the loss of a holder, a recovery, or invisible to the callers.
ImplementsLockService == Service!Spec
=============================================================================
