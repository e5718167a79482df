-------------------------- MODULE ScheduleEngineProofs --------------------------
(***************************************************************************)
(* The promises of the schedule engine, for any number of processes,       *)
(* occurrences, requests and pauses.                                       *)
(*                                                                         *)
(* The argument: a request is live while its job is open or may still be   *)
(* admitted.  Only a reservation makes a request live, and it is made      *)
(* under the schedule lock by a process that has established, in three     *)
(* steps (EvidenceInv), that no other request is.  Nothing vacates an      *)
(* occurrence but a deletion, after which nothing is reserved any more,    *)
(* unless it was interrupted.                                              *)
(***************************************************************************)
EXTENDS ScheduleEngine, TLAPS

\* The type invariant but for the tasks.
StoreOK ==
  /\ schedule \in ScheduleRecord \cup {None}
  /\ occurrence \in [Slot -> Occurrence \cup {None}]
  /\ job \in [Request -> {"none", "open", "terminal", "deleted"}]
  /\ slotOf \in [Request -> Slot \cup {None}]
  /\ scheduleLock \in Process \cup {None} /\ coordLock \in Process \cup {None}
  /\ pauses \in 0..MaxPauses /\ interrupted \in BOOLEAN

\* The places of a task that holds the schedule lock, and of a dispatcher.
Inside      == {"list", "classify", "fence", "decide", "remove"}
Dispatching == {"dispatch", "admit", "dispatched", "failed", "write"}

\* Who holds a lock, and what the schedule lock protects.
LockInv ==
  \A p \in Process :
    /\ task[p].at \in Inside <=> scheduleLock = p
    /\ At(p, "admit") <=> coordLock = p
    /\ task[p].at \in Inside =>
         /\ schedule # None
         /\ task[p].op = "evaluate" => schedule.enabled
    /\ task[p].at \in Inside \cup {"lock"} => task[p].op \in {"evaluate", "delete"}
    /\ At(p, "remove") => task[p].op = "delete"
    /\ At(p, "change") => task[p].op \in {"pause", "resume", "revoke"}
    /\ task[p].op = "evaluate" => task[p].slot \in Slot

\* Requests are made for one occurrence each, and have one dispatcher.
RequestInv ==
  /\ \A r \in Request : slotOf[r] = None => job[r] = "none"
  /\ \A s \in Slot : occurrence[s] # None => slotOf[occurrence[s].request] = s
  /\ \A p \in Process : task[p].at \in Dispatching =>
       /\ task[p].slot \in Slot /\ task[p].request \in Request
       /\ slotOf[task[p].request] = task[p].slot
       /\ At(p, "dispatch") \/ At(p, "admit") => job[task[p].request] = "none"
  /\ \A p, q \in Process :
       /\ task[p].at \in Dispatching /\ task[q].at \in Dispatching
       /\ task[p].request = task[q].request
       => p = q
  /\ \A p \in Process : At(p, "write") =>
       /\ task[p].seen \in Occurrence /\ task[p].seen.status # "reserved"
       /\ slotOf[task[p].seen.request] = task[p].slot

\* An occurrence has one request, and keeps its record until a deletion.
OneRequest == \A q, r \in Request : slotOf[q] = slotOf[r] /\ slotOf[q] # None => q = r

KeptUntilRemoved ==
  \A r \in Request : slotOf[r] # None /\ occurrence[slotOf[r]] = None =>
    schedule = None \/ \E p \in Process : At(p, "remove")

Reserved(s) == occurrence[s] # None /\ occurrence[s].status = "reserved"
LiveRequest(r) ==
  job[r] = "open" \/ (job[r] = "none" /\ slotOf[r] # None /\ Reserved(slotOf[r]))

OneLive == \A q, r \in Request : LiveRequest(q) /\ LiveRequest(r) => q = r
GoneIsQuiet == schedule = None => \A r \in Request : ~LiveRequest(r)
AdmitInv == \A p \in Process : At(p, "admit") => Reserved(task[p].slot)

\* What the holder of the schedule lock has established about live requests.
Evidence(p) ==
  /\ At(p, "classify") =>
       /\ task[p].seen \in [Slot -> Occurrence \cup {None}]
       /\ \A s \in Slot : occurrence[s] # None =>
            /\ task[p].seen[s] # None
            /\ task[p].seen[s].request = occurrence[s].request
            /\ Reserved(s) => task[p].seen[s].status = "reserved"
  /\ At(p, "fence") =>
       /\ task[p].seen \in [Slot -> Occurrence \cup {None}]
       /\ \A s \in task[p].expired : task[p].seen[s] # None
       /\ \A r \in Request : LiveRequest(r) =>
            \/ task[p].owned
            \/ slotOf[r] \in task[p].expired /\ task[p].seen[slotOf[r]].request = r
  /\ At(p, "decide") => task[p].owned \/ \A r \in Request : ~LiveRequest(r)
  /\ At(p, "remove") => \A r \in Request : ~LiveRequest(r)

EvidenceInv == \A p \in Process : Evidence(p)

\* What a step may do to the live requests, to an occurrence that was listed,
\* and to a task.
LiveChange ==
  \/ UNCHANGED slotOf /\ \A r \in Request : LiveRequest(r)' => LiveRequest(r)
  \/ \E p \in Process, r \in Request :
       Reserve(p, r) /\ \A q \in Request : LiveRequest(q)' => q = r

ListedChange ==
  (\E p \in Process : At(p, "classify") /\ task'[p] = task[p]) =>
    \A s \in Slot : occurrence'[s] # None =>
      /\ occurrence[s] # None
      /\ occurrence'[s].request = occurrence[s].request
      /\ Reserved(s)' => Reserved(s)

AdmitChange ==
  \A p \in Process :
    At(p, "admit") /\ task'[p] = task[p] /\ Reserved(task[p].slot) => Reserved(task[p].slot)'

ScheduleChange ==
  schedule' = None => schedule = None \/ \E p \in Process : RemoveSchedule(p)

LaunchChange ==
  \A r \in Request : job[r] = "none" /\ job'[r] = "open" =>
    \E p \in Process : Admit(p) /\ r = task[p].request

RevokedChange ==
  schedule # None /\ Revoked(schedule) =>
    /\ schedule' # None => Revoked(schedule')
    /\ slotOf' = slotOf

TaskChange ==
  \A p \in Process :
    \/ task'[p] = task[p]
    \/ task'[p].at \notin {"classify", "fence", "decide", "remove", "admit"}
    \/ ListOccurrences(p) \/ Classify(p) \/ Fence(p) \/ RemoveRuns(p)
    \/ \E s \in Slot : RemoveRun(p, s)
    \/ BeforeAdmit(p)

Whole == OneRequest /\ KeptUntilRemoved /\ OneLive /\ GoneIsQuiet /\ AdmitInv /\ EvidenceInv

IInv == TypeOK /\ LockInv /\ RequestInv /\ (interrupted \/ Whole)

-----------------------------------------------------------------------------

\* A pause, a resumption or a revocation leaves a well-formed record.
LEMMA ChangeEffect ==
  ASSUME TypeOK, NEW p \in Process, Change(p)
  PROVE  /\ schedule' = schedule \/ (schedule' \in ScheduleRecord /\ schedule' # None)
         /\ pauses' \in 0..MaxPauses
  <1>0. \A e \in BOOLEAN, n \in 0..MaxPauses :
          /\ [enabled |-> e, pausedAt |-> n] \in ScheduleRecord
          /\ [enabled |-> e, pausedAt |-> n] # None
    BY NoneAssumption DEF ScheduleRecord
  <1>1. CASE schedule' = [enabled |-> task[p].op = "resume", pausedAt |-> 0]
             /\ UNCHANGED pauses
    <2>1. 0 \in 0..MaxPauses /\ pauses' \in 0..MaxPauses
      BY <1>1, PausesAssumption DEF TypeOK
    <2>2. CASE task[p].op = "resume"
      <3>. schedule' = [enabled |-> TRUE, pausedAt |-> 0]
        BY <1>1, <2>2
      <3>. QED BY <1>0, <2>1
    <2>3. CASE task[p].op # "resume"
      <3>. schedule' = [enabled |-> FALSE, pausedAt |-> 0]
        BY <1>1, <2>3
      <3>. QED BY <1>0, <2>1
    <2>. QED BY <2>2, <2>3
  <1>2. CASE pauses < MaxPauses /\ pauses' = pauses + 1
             /\ schedule' = [enabled |-> FALSE, pausedAt |-> pauses + 1]
    <2>1. pauses + 1 \in 0..MaxPauses
      BY <1>2, PausesAssumption DEF TypeOK
    <2>. QED BY <1>0, <1>2, <2>1
  <1>3. CASE UNCHANGED <<schedule, pauses>>
    BY <1>3 DEF TypeOK
  <1>. QED BY <1>1, <1>2, <1>3 DEF Change

\* Every step leaves the durable state and the locks well-typed (TypeOK but for
\* the tasks).
LEMMA StoreTyped ==
  ASSUME TypeOK, LockInv, RequestInv, [Next]_vars
  PROVE  StoreOK'
  <1>1. CASE UNCHANGED <<schedule, occurrence, job, slotOf, scheduleLock, coordLock,
                        pauses, interrupted>>
    BY <1>1 DEF StoreOK, TypeOK
  <1>2. ASSUME NEW p \in Process, LockSchedule(p) PROVE StoreOK'
    BY <1>2 DEF LockSchedule, Return, stored, StoreOK, TypeOK, Task
  <1>3. ASSUME NEW p \in Process, Fence(p) PROVE StoreOK'
    <2>1. \A s \in FencedBy(p) : [occurrence[s] EXCEPT !.status = GivenUp] \in Occurrence
      <3>. TAKE s \in FencedBy(p)
      <3>1. s \in Slot /\ occurrence[s] # None
        BY <1>3 DEF FencedBy, Fence, At, TypeOK, Task
      <3>2. occurrence[s] \in Occurrence
        BY <3>1 DEF TypeOK
      <3>. QED BY <3>2 DEF Occurrence, GivenUp
    <2>2. occurrence' \in [Slot -> Occurrence \cup {None}]
      BY <1>3, <2>1 DEF Fence, TypeOK
    <2>. QED BY <1>3, <2>2 DEF Fence, locks, StoreOK, TypeOK
  <1>4. ASSUME NEW p \in Process, Owned(p) PROVE StoreOK'
    BY <1>4 DEF Owned, Finish, stored, StoreOK, TypeOK, Task
  <1>5. ASSUME NEW p \in Process, NEW r \in Request, Reserve(p, r) PROVE StoreOK'
    <2>1. [status |-> "reserved", recent |-> TRUE, request |-> r] \in Occurrence
      BY DEF Occurrence
    <2>2. task[p].slot \in Slot
      BY <1>5 DEF Reserve, LockInv
    <2>. QED BY <1>5, <2>1, <2>2 DEF Reserve, TypeOK, StoreOK
  <1>6. ASSUME NEW p \in Process, BeforeAdmit(p) PROVE StoreOK'
    BY <1>6 DEF BeforeAdmit, stored, StoreOK, TypeOK, Task
  <1>7. ASSUME NEW p \in Process, Admit(p) PROVE StoreOK'
    BY <1>7 DEF Admit, stored, StoreOK, TypeOK, Task
  <1>8. ASSUME NEW p \in Process, Refuse(p) PROVE StoreOK'
    BY <1>8 DEF Refuse, stored, StoreOK, TypeOK
  <1>9. ASSUME NEW p \in Process, WriteRun(p) PROVE StoreOK'
    <2>1. task[p].seen \in Occurrence /\ task[p].slot \in Slot
      BY <1>9 DEF WriteRun, RequestInv, At, Dispatching
    <2>. QED BY <1>9, <2>1 DEF WriteRun, TypeOK, StoreOK, locks
  <1>10. ASSUME NEW p \in Process, NEW s \in Slot, RemoveRun(p, s) PROVE StoreOK'
    BY <1>10 DEF RemoveRun, locks, StoreOK, TypeOK, Task
  <1>11. ASSUME NEW p \in Process, RemoveSchedule(p) PROVE StoreOK'
    BY <1>11 DEF RemoveSchedule, Finish, StoreOK, TypeOK, Task
  <1>12. ASSUME NEW p \in Process, Change(p) PROVE StoreOK'
    BY <1>12, ChangeEffect DEF Change, TypeOK, StoreOK, locks
  <1>13. ASSUME NEW p \in Process, Crash(p) PROVE StoreOK'
    BY <1>13 DEF Crash, stored, StoreOK, TypeOK, Task
  <1>14. ASSUME NEW s \in Slot, Expire(s) PROVE StoreOK'
    <2>1. occurrence[s] \in Occurrence
      BY <1>14 DEF Expire, TypeOK
    <2>2. [occurrence[s] EXCEPT !.recent = FALSE] \in Occurrence
      BY <2>1 DEF Occurrence
    <2>. QED BY <1>14, <2>2 DEF Expire, TypeOK, StoreOK, locks
  <1>15. ASSUME NEW r \in Request, JobEnds(r) PROVE StoreOK'
    BY <1>15 DEF JobEnds, stored, locks, StoreOK, TypeOK, Task
  <1>16. ASSUME NEW r \in Request, DeleteJob(r) PROVE StoreOK'
    BY <1>16 DEF DeleteJob, stored, locks, StoreOK, TypeOK, Task
  <1>17. ASSUME NEW p \in Process, NEW s \in Slot, Trigger(p, s) PROVE StoreOK'
    BY <1>17, <1>1 DEF Trigger, stored, locks
  <1>18. ASSUME NEW p \in Process, AskDelete(p) \/ ListOccurrences(p) \/ Classify(p) \/
        ReadRun(p) \/ RemoveRuns(p) PROVE StoreOK'
    BY <1>18, <1>1 DEF AskDelete, ListOccurrences, Classify, ReadRun, RemoveRuns,
       stored, locks
  <1>19. ASSUME NEW p \in Process, NEW op \in {"pause", "resume", "revoke"},
        AskChange(p, op) PROVE StoreOK'
    BY <1>19, <1>1 DEF AskChange, stored, locks
  <1>. QED BY <1>1, <1>2, <1>3, <1>4, <1>5, <1>6, <1>7, <1>8, <1>9, <1>10, <1>11, <1>12,
       <1>13, <1>14, <1>15, <1>16, <1>17, <1>18, <1>19 DEF Next, Step, vars, stored,
       locks

\* Every step leaves the tasks well-typed.
LEMMA TaskTyped ==
  ASSUME TypeOK, RequestInv, [Next]_vars
  PROVE  task' \in [Process -> Task]
  <1>1. CASE UNCHANGED <<task>>
    BY <1>1 DEF TypeOK
  <1>2. ASSUME NEW p \in Process, NEW s \in Slot, Trigger(p, s) PROVE task' \in [Process
        -> Task]
    BY <1>2 DEF Trigger, Idle, TypeOK, Task
  <1>3. ASSUME NEW p \in Process, AskDelete(p) PROVE task' \in [Process -> Task]
    BY <1>3 DEF AskDelete, Idle, TypeOK, Task
  <1>4. ASSUME NEW p \in Process, LockSchedule(p) PROVE task' \in [Process -> Task]
    <2>1. Goto(p, "list") \/ Return(p)
      BY <1>4, Zenon DEF LockSchedule
    <2>2. task[p] \in Task /\ Idle \in Task
      BY DEF TypeOK, Task, Idle
    <2>3. [task[p] EXCEPT !.at = "list"] \in Task
      BY <2>2 DEF Task
    <2>. QED BY <2>1, <2>2, <2>3 DEF Goto, Return, TypeOK
  <1>5. ASSUME NEW p \in Process, ListOccurrences(p) PROVE task' \in [Process -> Task]
    <2>1. task[p] \in Task /\ occurrence \in [Slot -> Occurrence \cup {None}]
      BY DEF TypeOK
    <2>2. [task[p] EXCEPT !.at = "classify", !.seen = occurrence] \in Task
      BY <2>1 DEF Task
    <2>. QED BY <1>5, <2>2 DEF ListOccurrences, TypeOK
  <1>6. ASSUME NEW p \in Process, Classify(p) PROVE task' \in [Process -> Task]
    <2>1. task[p] \in Task /\ Classified(p, "expired") \in SUBSET Slot
      BY DEF TypeOK, Classified
    <2>2. \A at \in {"decide", "fence"}, owned \in BOOLEAN :
            [task[p] EXCEPT !.at = at, !.expired = Classified(p, "expired"), !.owned = owned]
              \in Task
      BY <2>1 DEF Task
    <2>3. \E at \in {"decide", "fence"}, owned \in BOOLEAN :
            task' = [task EXCEPT ![p] = [task[p] EXCEPT !.at = at,
                       !.expired = Classified(p, "expired"), !.owned = owned]]
      BY <1>6 DEF Classify
    <2>. QED BY <2>2, <2>3 DEF TypeOK
  <1>7. ASSUME NEW p \in Process, Fence(p) PROVE task' \in [Process -> Task]
    <2>1. task[p] \in Task
      BY DEF TypeOK
    <2>2. \A owned \in BOOLEAN : [task[p] EXCEPT !.at = "decide", !.owned = owned] \in Task
      BY <2>1 DEF Task
    <2>3. \E owned \in BOOLEAN :
            task' = [task EXCEPT ![p] = [task[p] EXCEPT !.at = "decide", !.owned = owned]]
      BY <1>7, <2>1 DEF Fence
    <2>. QED BY <2>2, <2>3 DEF TypeOK
  <1>8. ASSUME NEW p \in Process, Owned(p) PROVE task' \in [Process -> Task]
    BY <1>8 DEF Owned, Idle, Return, Finish, stored, TypeOK, Task
  <1>9. ASSUME NEW p \in Process, NEW r \in Request, Reserve(p, r) PROVE task' \in
        [Process -> Task]
    <2>1. \/ Return(p)
          \/ task' = [task EXCEPT ![p] = [Idle EXCEPT !.at = "dispatch",
                                            !.slot = task[p].slot, !.request = r]]
      BY <1>9 DEF Reserve
    <2>2. Idle \in Task /\ task[p].slot \in Slot \cup {None}
      BY DEF TypeOK, Task, Idle
    <2>3. [Idle EXCEPT !.at = "dispatch", !.slot = task[p].slot, !.request = r] \in Task
      BY <2>2 DEF Task
    <2>. QED BY <2>1, <2>2, <2>3 DEF Return, TypeOK
  <1>10. ASSUME NEW p \in Process, BeforeAdmit(p) PROVE task' \in [Process -> Task]
    BY <1>10 DEF BeforeAdmit, Goto, stored, TypeOK, Task
  <1>11. ASSUME NEW p \in Process, Admit(p) PROVE task' \in [Process -> Task]
    <2>1. \/ task' = [task EXCEPT ![p].at = "dispatched"]
          \/ task' = [task EXCEPT ![p].at = "failed"]
      BY <1>11 DEF Admit
    <2>. QED BY <2>1 DEF TypeOK, Task
  <1>12. ASSUME NEW p \in Process, Refuse(p) PROVE task' \in [Process -> Task]
    <2>1. task' = [task EXCEPT ![p].at = "failed"]
      BY <1>12 DEF Refuse, Goto
    <2>. QED BY <2>1 DEF TypeOK, Task
  <1>13. ASSUME NEW p \in Process, ReadRun(p) PROVE task' \in [Process -> Task]
    <2>. DEFINE occ == occurrence[task[p].slot]
    <2>1. \/ Return(p)
          \/ /\ occ # None
             /\ \E status \in {"recovery-required", "dispatched"} :
                  task' = [task EXCEPT ![p] = [task[p] EXCEPT !.at = "write",
                                                 !.seen = [occ EXCEPT !.status = status]]]
      BY <1>13 DEF ReadRun
    <2>2. task[p] \in Task /\ Idle \in Task
      BY DEF TypeOK, Task, Idle
    <2>3. ASSUME occ # None, NEW status \in {"recovery-required", "dispatched"}
          PROVE  [occ EXCEPT !.status = status] \in Occurrence
      <3>1. occ \in Occurrence
        BY <1>13, <2>3 DEF ReadRun, RequestInv, Dispatching, TypeOK
      <3>. QED BY <3>1 DEF Occurrence
    <2>4. ASSUME NEW seen \in Occurrence
          PROVE  [task[p] EXCEPT !.at = "write", !.seen = seen] \in Task
      BY <2>2 DEF Task
    <2>5. CASE Return(p)
      BY <2>2, <2>5 DEF Return, TypeOK
    <2>6. ASSUME occ # None, NEW status \in {"recovery-required", "dispatched"},
                 task' = [task EXCEPT ![p] = [task[p] EXCEPT !.at = "write",
                                                !.seen = [occ EXCEPT !.status = status]]]
          PROVE  task' \in [Process -> Task]
      BY <2>3, <2>4, <2>6 DEF TypeOK
    <2>. QED BY <2>1, <2>5, <2>6
  <1>14. ASSUME NEW p \in Process, WriteRun(p) PROVE task' \in [Process -> Task]
    BY <1>14 DEF WriteRun, Idle, Return, locks, TypeOK, Task
  <1>15. ASSUME NEW p \in Process, RemoveRuns(p) PROVE task' \in [Process -> Task]
    <2>1. task[p] \in Task
      BY DEF TypeOK
    <2>2. \A E \in SUBSET Slot : [task[p] EXCEPT !.at = "remove", !.expired = E] \in Task
      BY <2>1 DEF Task
    <2>. QED BY <1>15, <2>2 DEF RemoveRuns, TypeOK
  <1>16. ASSUME NEW p \in Process, NEW s \in Slot, RemoveRun(p, s) PROVE task' \in
        [Process -> Task]
    <2>1. task[p] \in Task
      BY DEF TypeOK
    <2>2. \A E \in SUBSET Slot : [task[p] EXCEPT !.expired = E] \in Task
      BY <2>1 DEF Task
    <2>3. task[p].expired \ {s} \in SUBSET Slot
      BY <2>1 DEF Task
    <2>. QED BY <1>16, <2>2, <2>3 DEF RemoveRun, TypeOK
  <1>17. ASSUME NEW p \in Process, RemoveSchedule(p) PROVE task' \in [Process -> Task]
    BY <1>17 DEF RemoveSchedule, Idle, Return, Finish, TypeOK, Task
  <1>18. ASSUME NEW p \in Process, NEW op \in {"pause", "resume", "revoke"},
        AskChange(p, op) PROVE task' \in [Process -> Task]
    BY <1>18 DEF AskChange, Idle, At, Revoked, stored, locks, TypeOK, Task
  <1>19. ASSUME NEW p \in Process, Change(p) PROVE task' \in [Process -> Task]
    BY <1>19 DEF Change, Idle, At, Return, Revoked, NotChanged, Applies, locks, TypeOK,
       Task
  <1>20. ASSUME NEW p \in Process, Crash(p) PROVE task' \in [Process -> Task]
    BY <1>20 DEF Crash, Idle, Return, stored, TypeOK, Task
  <1>21. ASSUME NEW s \in Slot, Expire(s) PROVE task' \in [Process -> Task]
    BY <1>21, <1>1 DEF Expire
  <1>22. ASSUME NEW r \in Request, JobEnds(r) \/ DeleteJob(r) PROVE task' \in [Process
        -> Task]
    BY <1>22, <1>1 DEF JobEnds, DeleteJob
  <1>. QED BY <1>1, <1>2, <1>3, <1>4, <1>5, <1>6, <1>7, <1>8, <1>9, <1>10, <1>11, <1>12,
       <1>13, <1>14, <1>15, <1>16, <1>17, <1>18, <1>19, <1>20, <1>21, <1>22 DEF Next,
       Step, vars, stored, locks

\* The schedule lock is held exactly by the task inside the transaction, the
\* coordinator lock exactly by the one between its fence check and its admission.
LEMMA LockStep ==
  ASSUME TypeOK, LockInv, [Next]_vars
  PROVE  LockInv'
  <1>. USE NoneAssumption
  <1>1. CASE UNCHANGED <<schedule, scheduleLock, coordLock, task>>
    BY <1>1 DEF LockInv, At
  <1>2. ASSUME NEW p \in Process, NEW s \in Slot, Trigger(p, s) PROVE LockInv'
    BY <1>2 DEF Trigger, At, stored, locks, TypeOK, Task, LockInv, Inside
  <1>3. ASSUME NEW p \in Process, AskDelete(p) PROVE LockInv'
    BY <1>3 DEF AskDelete, At, stored, locks, TypeOK, Task, LockInv, Inside
  <1>4. ASSUME NEW p \in Process, LockSchedule(p) PROVE LockInv'
    BY <1>4 DEF LockSchedule, Idle, At, Goto, Return, stored, TypeOK, Task, LockInv,
       Inside
  <1>5. ASSUME NEW p \in Process, ListOccurrences(p) PROVE LockInv'
    BY <1>5 DEF ListOccurrences, At, stored, locks, TypeOK, Task, LockInv, Inside
  <1>6. ASSUME NEW p \in Process, Classify(p) PROVE LockInv'
    <2>1. /\ task[p].at = "classify" /\ UNCHANGED <<schedule, scheduleLock, coordLock>>
          /\ \A q \in Process \ {p} : task'[q] = task[q]
          /\ task'[p].at \in {"decide", "fence"}
          /\ task'[p].op = task[p].op /\ task'[p].slot = task[p].slot
      <3>1. \E at \in {"decide", "fence"}, owned \in BOOLEAN :
              task' = [task EXCEPT ![p] = [task[p] EXCEPT !.at = at,
                         !.expired = Classified(p, "expired"), !.owned = owned]]
        BY <1>6 DEF Classify
      <3>2. /\ task[p].at = "classify" /\ UNCHANGED <<schedule, scheduleLock, coordLock>>
        BY <1>6 DEF Classify, At, stored, locks
      <3>. QED BY <3>1, <3>2 DEF TypeOK
    <2>. QED BY <2>1 DEF LockInv, Inside, At
  <1>7. ASSUME NEW p \in Process, Fence(p) PROVE LockInv'
    BY <1>7 DEF Fence, At, locks, TypeOK, Task, LockInv, Inside
  <1>8. ASSUME NEW p \in Process, Owned(p) PROVE LockInv'
    BY <1>8 DEF Owned, Idle, At, Return, Finish, stored, TypeOK, Task, LockInv, Inside
  <1>9. ASSUME NEW p \in Process, NEW r \in Request, Reserve(p, r) PROVE LockInv'
    <2>1. /\ task[p].at = "decide" /\ scheduleLock' = None
          /\ UNCHANGED <<schedule, coordLock>>
          /\ \A q \in Process \ {p} : task'[q] = task[q]
          /\ task'[p].at \in {"idle", "dispatch"} /\ task'[p].op = "none"
      <3>1. \/ task' = [task EXCEPT ![p] = Idle]
            \/ task' = [task EXCEPT ![p] = [Idle EXCEPT !.at = "dispatch",
                            !.slot = task[p].slot, !.request = r]]
        BY <1>9 DEF Reserve, Return
      <3>2. /\ task[p].at = "decide" /\ scheduleLock' = None
            /\ UNCHANGED <<schedule, coordLock>>
        BY <1>9 DEF Reserve, At
      <3>3. task \in [Process -> Task] /\ Idle.at = "idle" /\ Idle.op = "none"
        BY DEF TypeOK, Idle
      <3>4. CASE task' = [task EXCEPT ![p] = Idle]
        BY <3>2, <3>3, <3>4
      <3>5. CASE task' = [task EXCEPT ![p] = [Idle EXCEPT !.at = "dispatch",
                            !.slot = task[p].slot, !.request = r]]
        BY <3>2, <3>3, <3>5
      <3>. QED BY <3>1, <3>2, <3>4, <3>5
    <2>. QED BY <2>1 DEF LockInv, Inside, At
  <1>10. ASSUME NEW p \in Process, BeforeAdmit(p) PROVE LockInv'
    BY <1>10 DEF BeforeAdmit, At, Goto, StillReserved, stored, TypeOK, Task, LockInv,
       Inside
  <1>11. ASSUME NEW p \in Process, Admit(p) PROVE LockInv'
    BY <1>11 DEF Admit, At, stored, TypeOK, Task, LockInv, Inside
  <1>12. ASSUME NEW p \in Process, Refuse(p) PROVE LockInv'
    BY <1>12 DEF Refuse, At, Goto, stored, TypeOK, Task, LockInv, Inside
  <1>13. ASSUME NEW p \in Process, ReadRun(p) PROVE LockInv'
    BY <1>13 DEF ReadRun, Idle, At, Return, stored, locks, TypeOK, Task, LockInv, Inside
  <1>14. ASSUME NEW p \in Process, WriteRun(p) PROVE LockInv'
    BY <1>14 DEF WriteRun, Idle, At, Return, locks, TypeOK, Task, LockInv, Inside
  <1>15. ASSUME NEW p \in Process, RemoveRuns(p) PROVE LockInv'
    BY <1>15 DEF RemoveRuns, At, stored, locks, TypeOK, Task, LockInv, Inside
  <1>16. ASSUME NEW p \in Process, NEW s \in Slot, RemoveRun(p, s) PROVE LockInv'
    BY <1>16 DEF RemoveRun, At, locks, Task, LockInv
  <1>17. ASSUME NEW p \in Process, RemoveSchedule(p) PROVE LockInv'
    BY <1>17 DEF RemoveSchedule, Idle, At, Return, Finish, TypeOK, Task, LockInv, Inside
  <1>18. ASSUME NEW p \in Process, NEW op \in {"pause", "resume", "revoke"},
        AskChange(p, op) PROVE LockInv'
    BY <1>18 DEF AskChange, At, Revoked, stored, locks, LockInv, Inside
  <1>19. ASSUME NEW p \in Process, Change(p) PROVE LockInv'
    BY <1>19 DEF Change, Idle, At, Return, Revoked, NotChanged, Applies, locks, TypeOK,
       Task, LockInv, Inside
  <1>20. ASSUME NEW p \in Process, Crash(p) PROVE LockInv'
    BY <1>20 DEF Crash, Idle, At, Return, stored, TypeOK, Task, LockInv, Inside
  <1>21. ASSUME NEW s \in Slot, Expire(s) PROVE LockInv'
    BY <1>21, <1>1 DEF Expire, locks
  <1>22. ASSUME NEW r \in Request, JobEnds(r) \/ DeleteJob(r) PROVE LockInv'
    BY <1>22, <1>1 DEF JobEnds, DeleteJob, stored, locks
  <1>. QED BY <1>1, <1>2, <1>3, <1>4, <1>5, <1>6, <1>7, <1>8, <1>9, <1>10, <1>11, <1>12,
       <1>13, <1>14, <1>15, <1>16, <1>17, <1>18, <1>19, <1>20, <1>21, <1>22 DEF Next,
       Step, vars, stored, locks

\* A request keeps its occurrence and its only dispatcher; the update of a run
\* writes back the request that it read.
LEMMA RequestStep ==
  ASSUME TypeOK, LockInv, RequestInv, [Next]_vars
  PROVE  RequestInv'
  <1>. USE NoneAssumption
  <1>1. CASE UNCHANGED <<occurrence, job, slotOf, task>>
    BY <1>1 DEF RequestInv, At
  <1>2. ASSUME NEW p \in Process, NEW s \in Slot, Trigger(p, s) PROVE RequestInv'
    BY <1>2 DEF Trigger, At, stored, locks, TypeOK, RequestInv, Inside, Dispatching
  <1>3. ASSUME NEW p \in Process, AskDelete(p) PROVE RequestInv'
    BY <1>3 DEF AskDelete, At, stored, locks, TypeOK, RequestInv, Inside, Dispatching
  <1>4. ASSUME NEW p \in Process, LockSchedule(p) PROVE RequestInv'
    BY <1>4 DEF LockSchedule, Idle, At, Goto, Return, stored, TypeOK, Task, Occurrence,
       LockInv, RequestInv, Inside, Dispatching
  <1>5. ASSUME NEW p \in Process, ListOccurrences(p) PROVE RequestInv'
    BY <1>5 DEF ListOccurrences, At, stored, TypeOK, Task, Occurrence, LockInv,
       RequestInv, Inside, Dispatching
  <1>6. ASSUME NEW p \in Process, Classify(p) PROVE RequestInv'
    <2>1. /\ task[p].at = "classify" /\ UNCHANGED <<occurrence, job, slotOf>>
          /\ \A q \in Process \ {p} : task'[q] = task[q]
          /\ task'[p].at \in {"decide", "fence"}
      BY <1>6 DEF Classify, At, TypeOK, Task, stored, locks
    <2>. QED BY <2>1 DEF RequestInv, Dispatching, At
  <1>7. ASSUME NEW p \in Process, Fence(p) PROVE RequestInv'
    BY <1>7 DEF Fence, At, FencedBy, GivenUp, locks, TypeOK, Task, Occurrence, LockInv,
       RequestInv, Inside, Dispatching
  <1>8. ASSUME NEW p \in Process, Owned(p) PROVE RequestInv'
    BY <1>8 DEF Owned, Idle, At, Return, Finish, stored, LockInv, RequestInv, Inside,
       Dispatching
  <1>9. ASSUME NEW p \in Process, NEW r \in Request, Reserve(p, r) PROVE RequestInv'
    <2>1. CASE ~Vacant(task[p].slot)
      BY <1>9, <2>1 DEF Reserve, Return, Idle, RequestInv, Dispatching, At, TypeOK
    <2>2. CASE Vacant(task[p].slot)
      <3>. DEFINE s == task[p].slot
      <3>1. s \in Slot
        BY <1>9 DEF Reserve, LockInv
      <3>2. /\ slotOf[r] = None /\ job[r] = "none" /\ UNCHANGED job
            /\ occurrence' = [occurrence EXCEPT ![s] =
                 [status |-> "reserved", recent |-> TRUE, request |-> r]]
            /\ slotOf' = [slotOf EXCEPT ![r] = s]
        BY <1>9, <2>2 DEF Reserve, RequestInv
      <3>8. task' = [task EXCEPT ![p] = [Idle EXCEPT !.at = "dispatch", !.slot = s,
                                                      !.request = r]]
        BY <1>9, <2>2 DEF Reserve
      <3>9. /\ \A q \in Process \ {p} : task'[q] = task[q]
            /\ task'[p].at = "dispatch" /\ task'[p].slot = s /\ task'[p].request = r
        BY <3>8 DEF TypeOK
      <3>3. \A q \in Request : slotOf'[q] = IF q = r THEN s ELSE slotOf[q]
        BY <3>2 DEF TypeOK
      <3>4. \A t \in Slot \ {s} : occurrence'[t] = occurrence[t]
        BY <3>2
      <3>5. occurrence'[s].request = r
        BY <3>1, <3>2 DEF TypeOK
      <3>6. \A q \in Process : task[q].at \in Dispatching => task[q].request # r
        BY <3>2 DEF RequestInv
      <3>7. \A t \in Slot : occurrence[t] # None => occurrence[t].request \in Request /\ occurrence[t].request # r
        BY <3>2 DEF RequestInv, TypeOK, Occurrence
      <3>. QED BY <3>1, <3>2, <3>3, <3>4, <3>5, <3>6, <3>7, <3>9 DEF RequestInv,
                  Dispatching, At
    <2>. QED BY <2>1, <2>2
  <1>10. ASSUME NEW p \in Process, BeforeAdmit(p) PROVE RequestInv'
    BY <1>10, SMTT(30) DEF BeforeAdmit, At, Goto, StillReserved, stored, TypeOK, Task,
       Occurrence, LockInv, RequestInv, Inside, Dispatching
  <1>11. ASSUME NEW p \in Process, Admit(p) PROVE RequestInv'
    BY <1>11 DEF Admit, At, stored, TypeOK, Task, Occurrence, LockInv, RequestInv,
       Inside, Dispatching
  <1>12. ASSUME NEW p \in Process, Refuse(p) PROVE RequestInv'
    BY <1>12 DEF Refuse, At, Goto, stored, TypeOK, Task, Occurrence, LockInv,
       RequestInv, Inside, Dispatching
  <1>13. ASSUME NEW p \in Process, ReadRun(p) PROVE RequestInv'
    <2>. DEFINE occ == occurrence[task[p].slot]
    <2>1. CASE Return(p)
      BY <1>13, <2>1 DEF ReadRun, Return, Idle, RequestInv, Dispatching, At, TypeOK,
         stored
    <2>2. ASSUME occ # None, NEW status \in {"recovery-required", "dispatched"},
                 task' = [task EXCEPT ![p] = [task[p] EXCEPT !.at = "write",
                                                !.seen = [occ EXCEPT !.status = status]]]
          PROVE  RequestInv'
      <3>1. task[p].slot \in Slot /\ occ \in Occurrence /\ slotOf[occ.request] = task[p].slot
        BY <1>13, <2>2 DEF ReadRun, RequestInv, Dispatching, TypeOK
      <3>2. /\ [occ EXCEPT !.status = status] \in Occurrence
            /\ [occ EXCEPT !.status = status].status # "reserved"
            /\ [occ EXCEPT !.status = status].request = occ.request
        BY <2>2, <3>1 DEF Occurrence
      <3>3. /\ task[p].at \in {"dispatched", "failed"} /\ UNCHANGED <<occurrence, job, slotOf>>
            /\ \A q \in Process \ {p} : task'[q] = task[q]
            /\ task'[p].at = "write" /\ task'[p].slot = task[p].slot
            /\ task'[p].request = task[p].request
            /\ task'[p].seen = [occ EXCEPT !.status = status]
        BY <1>13, <2>2 DEF ReadRun, TypeOK, stored
      <3>4. /\ task'[p].seen \in Occurrence /\ task'[p].seen.status # "reserved"
            /\ slotOf[task'[p].seen.request] = task'[p].slot
        BY <3>1, <3>2, <3>3
      <3>5. \A q \in Process : /\ task'[q].at \in Dispatching <=> task[q].at \in Dispatching
                               /\ task'[q].slot = task[q].slot
                               /\ task'[q].request = task[q].request
        BY <3>3 DEF Dispatching
      <3>6. \A q \in Process : task'[q].at = "write" => q = p \/ task'[q] = task[q]
        BY <3>3
      <3>7. \A q \in Process : task'[q].at \in {"dispatch", "admit"} => task'[q] = task[q]
        BY <3>3
      <3>8. \A q \in Process : task'[q].at = "write" =>
              /\ task'[q].seen \in Occurrence /\ task'[q].seen.status # "reserved"
              /\ slotOf[task'[q].seen.request] = task'[q].slot
        BY <3>4, <3>6 DEF RequestInv, At
      <3>9. \A q \in Process : task'[q].at \in Dispatching =>
              /\ task'[q].slot \in Slot /\ task'[q].request \in Request
              /\ slotOf[task'[q].request] = task'[q].slot
              /\ task'[q].at \in {"dispatch", "admit"} => job[task'[q].request] = "none"
        BY <3>5, <3>7 DEF RequestInv, At
      <3>10. \A q1, q2 \in Process :
              /\ task'[q1].at \in Dispatching /\ task'[q2].at \in Dispatching
              /\ task'[q1].request = task'[q2].request
              => q1 = q2
        BY <3>5 DEF RequestInv
      <3>. QED BY <3>3, <3>8, <3>9, <3>10 DEF RequestInv, At
    <2>3. \/ Return(p)
          \/ /\ occ # None
             /\ \E status \in {"recovery-required", "dispatched"} :
                  task' = [task EXCEPT ![p] = [task[p] EXCEPT !.at = "write",
                                                 !.seen = [occ EXCEPT !.status = status]]]
      BY <1>13 DEF ReadRun
    <2>. QED BY <2>1, <2>2, <2>3
  <1>14. ASSUME NEW p \in Process, WriteRun(p) PROVE RequestInv'
    BY <1>14 DEF WriteRun, Idle, At, Return, locks, TypeOK, RequestInv, Inside,
       Dispatching
  <1>15. ASSUME NEW p \in Process, RemoveRuns(p) PROVE RequestInv'
    BY <1>15 DEF RemoveRuns, At, stored, TypeOK, Task, Occurrence, LockInv, RequestInv,
       Inside, Dispatching
  <1>16. ASSUME NEW p \in Process, NEW s \in Slot, RemoveRun(p, s) PROVE RequestInv'
    BY <1>16 DEF RemoveRun, At, RequestInv
  <1>17. ASSUME NEW p \in Process, RemoveSchedule(p) PROVE RequestInv'
    BY <1>17 DEF RemoveSchedule, Idle, At, Return, Finish, TypeOK, RequestInv, Inside,
       Dispatching
  <1>18. ASSUME NEW p \in Process, NEW op \in {"pause", "resume", "revoke"},
        AskChange(p, op) PROVE RequestInv'
    BY <1>18 DEF AskChange, At, Revoked, stored, locks, LockInv, RequestInv, Inside,
       Dispatching
  <1>19. ASSUME NEW p \in Process, Change(p) PROVE RequestInv'
    BY <1>19 DEF Change, Idle, At, Return, RequestInv, Inside, Dispatching
  <1>20. ASSUME NEW p \in Process, Crash(p) PROVE RequestInv'
    BY <1>20 DEF Crash, Idle, At, Return, stored, TypeOK, RequestInv, Inside,
       Dispatching
  <1>21. ASSUME NEW s \in Slot, Expire(s) PROVE RequestInv'
    BY <1>21 DEF Expire, RequestInv, Inside, Dispatching, At
  <1>22. ASSUME NEW r \in Request, JobEnds(r) PROVE RequestInv'
    BY <1>22 DEF JobEnds, stored, RequestInv, Inside, Dispatching, At
  <1>23. ASSUME NEW r \in Request, DeleteJob(r) PROVE RequestInv'
    BY <1>23 DEF DeleteJob, stored, RequestInv, Inside, Dispatching, At
  <1>. QED BY <1>1, <1>2, <1>3, <1>4, <1>5, <1>6, <1>7, <1>8, <1>9, <1>10, <1>11, <1>12,
       <1>13, <1>14, <1>15, <1>16, <1>17, <1>18, <1>19, <1>20, <1>21, <1>22, <1>23 DEF
       Next, Step, vars, stored, locks

\* The type invariant, from the two parts above.
LEMMA TypeStep ==
  ASSUME TypeOK, LockInv, RequestInv, [Next]_vars
  PROVE  TypeOK'
  BY StoreTyped, TaskTyped DEF StoreOK, TypeOK

\* The schedule lock has one holder, and no occurrence is vacated meanwhile
\* except by that holder.
LEMMA NotVacated ==
  ASSUME TypeOK, LockInv, KeptUntilRemoved,
         NEW p \in Process, task[p].at \in Inside, ~At(p, "remove"),
         NEW r \in Request, slotOf[r] # None
  PROVE  occurrence[slotOf[r]] # None
  BY NoneAssumption DEF LockInv, KeptUntilRemoved, Inside, At

\* What a reservation does.
LEMMA ReserveEffect ==
  ASSUME TypeOK, LockInv, NEW p \in Process, NEW r \in Request, Reserve(p, r)
  PROVE  /\ At(p, "decide") /\ ~task[p].owned /\ schedule # None
         /\ task[p].slot \in Slot
         /\ \A q \in Process \ {p} : task'[q] = task[q]
         /\ task'[p].at \in {"idle", "dispatch"}
         /\ UNCHANGED <<schedule, job, coordLock, interrupted>>
         /\ \/ UNCHANGED <<occurrence, slotOf>>
            \/ /\ occurrence[task[p].slot] = None /\ occurrence'[task[p].slot] # None
               /\ \A s \in Slot \ {task[p].slot} : occurrence'[s] = occurrence[s]
               /\ slotOf[r] = None /\ slotOf'[r] = task[p].slot
               /\ \A q \in Request \ {r} : slotOf'[q] = slotOf[q]
  <1>1. At(p, "decide") /\ ~task[p].owned /\ UNCHANGED <<schedule, job, coordLock, interrupted>>
    BY DEF Reserve
  <1>2. schedule # None /\ task[p].slot \in Slot
    BY DEF Reserve, LockInv, Inside, At
  <1>3. CASE ~Vacant(task[p].slot)
    BY <1>1, <1>2, <1>3 DEF Reserve, Return, Idle, TypeOK
  <1>4. CASE Vacant(task[p].slot)
    <2>. DEFINE occ == [status |-> "reserved", recent |-> TRUE, request |-> r]
                new == [Idle EXCEPT !.at = "dispatch", !.slot = task[p].slot, !.request = r]
    <2>1. /\ slotOf[r] = None /\ occurrence[task[p].slot] = None
          /\ occurrence' = [occurrence EXCEPT ![task[p].slot] = occ]
          /\ slotOf' = [slotOf EXCEPT ![r] = task[p].slot]
          /\ task' = [task EXCEPT ![p] = new]
      BY <1>4 DEF Reserve, Vacant
    <2>2. occ # None
      <3>. occ \in Occurrence
        BY DEF Occurrence
      <3>. QED BY NoneAssumption
    <2>3. new.at = "dispatch"
      OBVIOUS
    <2>. QED BY <1>1, <1>2, <2>1, <2>2, <2>3 DEF TypeOK
  <1>. QED BY <1>3, <1>4

\* What the update of a run does.
LEMMA WriteEffect ==
  ASSUME TypeOK, RequestInv, NEW p \in Process, WriteRun(p)
  PROVE  /\ task[p].slot \in Slot /\ occurrence'[task[p].slot] = task[p].seen
         /\ \A s \in Slot \ {task[p].slot} : occurrence'[s] = occurrence[s]
         /\ task[p].seen # None /\ task[p].seen.status # "reserved"
         /\ task[p].seen \in Occurrence
         /\ slotOf[task[p].seen.request] = task[p].slot
         /\ UNCHANGED <<schedule, job, slotOf, locks, interrupted>>
         /\ At(p, "write") /\ \A q \in Process \ {p} : task'[q] = task[q]
         /\ task'[p].at = "idle"
  BY NoneAssumption DEF TypeOK, RequestInv, WriteRun, Return, Idle, Dispatching, At

\* An occurrence gets no second request: the reservation finds it vacant, and an
\* occurrence that had a request is vacant only when its schedule is going.
LEMMA OneRequestStep ==
  ASSUME TypeOK, LockInv, RequestInv, Whole, ~interrupted', [Next]_vars
  PROVE  OneRequest'
  <1>. USE NoneAssumption
  <1>1. CASE UNCHANGED <<slotOf>>
    BY <1>1 DEF Whole, OneRequest
  <1>2. ASSUME NEW p \in Process, NEW r \in Request, Reserve(p, r) PROVE OneRequest'
    <2>1. CASE UNCHANGED slotOf
      BY <2>1 DEF Whole, OneRequest
    <2>2. CASE slotOf' # slotOf
      <3>1. occurrence[task[p].slot] = None /\ task[p].slot # None
        BY <1>2, <2>2, ReserveEffect, NoneAssumption
      <3>2. \A q \in Request : slotOf[q] # task[p].slot
        BY <1>2, <3>1, ReserveEffect, NotVacated DEF Whole, Inside, At
      <3>. QED BY <1>2, <2>2, <3>2, ReserveEffect DEF Whole, OneRequest
    <2>. QED BY <2>1, <2>2
  <1>3. ASSUME NEW p \in Process, NEW s \in Slot, Trigger(p, s) \/ RemoveRun(p, s) PROVE
        OneRequest'
    BY <1>3, <1>1 DEF Trigger, RemoveRun
  <1>4. ASSUME NEW p \in Process, AskDelete(p) \/ LockSchedule(p) \/ ListOccurrences(p)
        \/ Classify(p) \/ Fence(p) \/ Owned(p) \/ BeforeAdmit(p) \/ Admit(p) \/
        Refuse(p) \/ ReadRun(p) \/ WriteRun(p) \/ RemoveRuns(p) \/ RemoveSchedule(p) \/
        Change(p) \/ Crash(p) PROVE OneRequest'
    BY <1>4, <1>1 DEF AskDelete, LockSchedule, ListOccurrences, Classify, Fence, Owned,
       BeforeAdmit, Admit, Refuse, ReadRun, WriteRun, RemoveRuns, RemoveSchedule,
       Change, Crash, stored
  <1>5. ASSUME NEW p \in Process, NEW op \in {"pause", "resume", "revoke"}, AskChange(p,
        op) PROVE OneRequest'
    BY <1>5, <1>1 DEF AskChange
  <1>6. ASSUME NEW s \in Slot, Expire(s) PROVE OneRequest'
    BY <1>6, <1>1 DEF Expire
  <1>7. ASSUME NEW r \in Request, JobEnds(r) \/ DeleteJob(r) PROVE OneRequest'
    BY <1>7, <1>1 DEF JobEnds, DeleteJob
  <1>. QED BY <1>1, <1>2, <1>3, <1>4, <1>5, <1>6, <1>7 DEF Next, Step, vars

\* No occurrence loses its record but to the deletion of the schedule.
LEMMA KeptStep ==
  ASSUME TypeOK, LockInv, RequestInv, Whole, ~interrupted', [Next]_vars
  PROVE  KeptUntilRemoved'
  <1>. USE NoneAssumption
  <1>1. CASE UNCHANGED <<schedule, occurrence, slotOf, task>>
    BY <1>1 DEF Whole, KeptUntilRemoved, At
  <1>2. ASSUME NEW p \in Process, NEW s \in Slot, Trigger(p, s) PROVE KeptUntilRemoved'
    BY <1>2 DEF Trigger, At, stored, locks, Whole, KeptUntilRemoved, TypeOK
  <1>3. ASSUME NEW p \in Process, AskDelete(p) PROVE KeptUntilRemoved'
    BY <1>3 DEF AskDelete, At, stored, locks, Whole, KeptUntilRemoved, TypeOK
  <1>4. ASSUME NEW p \in Process, LockSchedule(p) PROVE KeptUntilRemoved'
    BY <1>4 DEF LockSchedule, At, Goto, Return, stored, Whole, KeptUntilRemoved, TypeOK,
       Task
  <1>5. ASSUME NEW p \in Process, ListOccurrences(p) PROVE KeptUntilRemoved'
    BY <1>5 DEF ListOccurrences, At, stored, Whole, KeptUntilRemoved, TypeOK, Task
  <1>6. ASSUME NEW p \in Process, Classify(p) PROVE KeptUntilRemoved'
    BY <1>6 DEF Classify, At, Classified, stored, locks, Whole, KeptUntilRemoved,
       TypeOK, Task
  <1>7. ASSUME NEW p \in Process, Fence(p) PROVE KeptUntilRemoved'
    <2>1. \A t \in Slot : occurrence'[t] = None => occurrence[t] = None
      <3>1. \A t \in FencedBy(p) : [occurrence[t] EXCEPT !.status = GivenUp] # None
        <4>1. \A t \in FencedBy(p) : occurrence[t] \in Occurrence
          BY <1>7 DEF FencedBy, TypeOK, Task
        <4>2. \A t \in FencedBy(p) : [occurrence[t] EXCEPT !.status = GivenUp] \in Occurrence
          BY <4>1 DEF Occurrence, GivenUp
        <4>. QED BY <4>2, NoneAssumption
      <3>. QED BY <1>7, <3>1 DEF Fence
    <2>2. UNCHANGED <<slotOf, schedule>>
      BY <1>7 DEF Fence
    <2>3. \A q \in Process : At(q, "remove") => At(q, "remove")'
      BY <1>7 DEF Fence, At, TypeOK
    <2>. QED BY <2>1, <2>2, <2>3 DEF Whole, KeptUntilRemoved, TypeOK
  <1>8. ASSUME NEW p \in Process, Owned(p) PROVE KeptUntilRemoved'
    BY <1>8 DEF Owned, At, Return, Finish, stored, Whole, KeptUntilRemoved
  <1>9. ASSUME NEW p \in Process, NEW r \in Request, Reserve(p, r) PROVE
        KeptUntilRemoved'
    <2>1. \A t \in Slot : occurrence'[t] = None => occurrence[t] = None
      BY <1>9, ReserveEffect
    <2>2. \A q \in Process : At(q, "remove") => At(q, "remove")'
      BY <1>9, ReserveEffect DEF At
    <2>3. ASSUME NEW q \in Request, slotOf'[q] # None, occurrence'[slotOf'[q]] = None
          PROVE  slotOf[q] # None /\ slotOf'[q] = slotOf[q] /\ slotOf[q] \in Slot
      BY <1>9, <2>3, ReserveEffect DEF TypeOK
    <2>. QED BY <1>9, <2>1, <2>2, <2>3, ReserveEffect DEF Whole, KeptUntilRemoved
  <1>10. ASSUME NEW p \in Process, BeforeAdmit(p) PROVE KeptUntilRemoved'
    BY <1>10 DEF BeforeAdmit, At, Goto, StillReserved, stored, Whole, KeptUntilRemoved,
       TypeOK
  <1>11. ASSUME NEW p \in Process, Admit(p) PROVE KeptUntilRemoved'
    BY <1>11 DEF Admit, At, stored, Whole, KeptUntilRemoved, TypeOK
  <1>12. ASSUME NEW p \in Process, Refuse(p) PROVE KeptUntilRemoved'
    BY <1>12 DEF Refuse, At, Goto, stored, Whole, KeptUntilRemoved
  <1>13. ASSUME NEW p \in Process, ReadRun(p) PROVE KeptUntilRemoved'
    BY <1>13 DEF ReadRun, At, Return, stored, locks, Whole, KeptUntilRemoved, TypeOK,
       Task
  <1>14. ASSUME NEW p \in Process, WriteRun(p) PROVE KeptUntilRemoved'
    <2>1. \A t \in Slot : occurrence'[t] = None => occurrence[t] = None
      BY <1>14, WriteEffect
    <2>2. \A q \in Process : At(q, "remove") => At(q, "remove")'
      BY <1>14, WriteEffect DEF At
    <2>. QED BY <1>14, <2>1, <2>2, WriteEffect DEF Whole, KeptUntilRemoved, TypeOK
  <1>15. ASSUME NEW p \in Process, RemoveRuns(p) PROVE KeptUntilRemoved'
    BY <1>15 DEF RemoveRuns, At, KeptUntilRemoved, TypeOK, Task
  <1>16. ASSUME NEW p \in Process, NEW s \in Slot, RemoveRun(p, s) PROVE
        KeptUntilRemoved'
    BY <1>16 DEF RemoveRun, At, KeptUntilRemoved
  <1>17. ASSUME NEW p \in Process, RemoveSchedule(p) PROVE KeptUntilRemoved'
    BY <1>17 DEF RemoveSchedule, KeptUntilRemoved, TypeOK
  <1>18. ASSUME NEW p \in Process, NEW op \in {"pause", "resume", "revoke"},
        AskChange(p, op) PROVE KeptUntilRemoved'
    BY <1>18 DEF AskChange, At, Revoked, stored, locks, Whole, KeptUntilRemoved
  <1>19. ASSUME NEW p \in Process, Change(p) PROVE KeptUntilRemoved'
    BY <1>19 DEF Change, At, Return, Revoked, NotChanged, Applies, locks, Whole,
       KeptUntilRemoved, TypeOK, Task
  <1>20. ASSUME NEW p \in Process, Crash(p) PROVE KeptUntilRemoved'
    BY <1>20 DEF Crash, At, Return, stored, Whole, KeptUntilRemoved, TypeOK
  <1>21. ASSUME NEW s \in Slot, Expire(s) PROVE KeptUntilRemoved'
    <2>1. [occurrence[s] EXCEPT !.recent = FALSE] # None
      <3>1. occurrence[s] \in Occurrence
        BY <1>21 DEF Expire, TypeOK
      <3>2. [occurrence[s] EXCEPT !.recent = FALSE] \in Occurrence
        BY <3>1 DEF Occurrence
      <3>. QED BY <3>2, NoneAssumption
    <2>2. \A t \in Slot : occurrence'[t] = None => occurrence[t] = None
      BY <1>21, <2>1 DEF Expire
    <2>. QED BY <1>21, <2>2 DEF Expire, Whole, KeptUntilRemoved, At
  <1>22. ASSUME NEW r \in Request, JobEnds(r) \/ DeleteJob(r) PROVE KeptUntilRemoved'
    BY <1>22, <1>1 DEF JobEnds, DeleteJob, stored
  <1>. QED BY <1>1, <1>2, <1>3, <1>4, <1>5, <1>6, <1>7, <1>8, <1>9, <1>10, <1>11, <1>12,
       <1>13, <1>14, <1>15, <1>16, <1>17, <1>18, <1>19, <1>20, <1>21, <1>22 DEF Next,
       Step, vars, stored, locks

\* No step but a reservation makes a request live, and it makes only its own.
LEMMA LiveStep ==
  ASSUME TypeOK, LockInv, RequestInv, Whole, ~interrupted', [Next]_vars
  PROVE  LiveChange
  <1>. USE NoneAssumption
  <1>1. CASE UNCHANGED <<occurrence, job, slotOf>>
    BY <1>1 DEF LiveChange, LiveRequest, Reserved
  <1>2. ASSUME NEW p \in Process, Fence(p) PROVE LiveChange
    BY <1>2 DEF Fence, GivenUp, locks, LiveChange, LiveRequest, Reserved, TypeOK
  <1>3. ASSUME NEW p \in Process, NEW r \in Request, Reserve(p, r) PROVE LiveChange
    <2>1. \A q \in Request : ~LiveRequest(q)
      BY <1>3, ReserveEffect DEF Whole, EvidenceInv, Evidence
    <2>2. ASSUME NEW q \in Request, LiveRequest(q)', q # r PROVE LiveRequest(q)
      <3>1. job'[q] = job[q] /\ slotOf'[q] = slotOf[q] /\ slotOf[q] \in Slot \cup {None}
        BY <1>3, <2>2, ReserveEffect DEF TypeOK
      <3>2. CASE slotOf[q] = task[p].slot
        <4>1. occurrence[task[p].slot] # None
          BY <1>3, <3>2, ReserveEffect, NotVacated, NoneAssumption DEF Whole, Inside, At
        <4>2. UNCHANGED occurrence
          BY <1>3, <4>1, ReserveEffect
        <4>. QED BY <2>2, <3>1, <4>2 DEF LiveRequest, Reserved
      <3>3. CASE slotOf[q] # task[p].slot
        <4>1. slotOf[q] # None => occurrence'[slotOf[q]] = occurrence[slotOf[q]]
          BY <1>3, <3>1, <3>3, ReserveEffect
        <4>. QED BY <2>2, <3>1, <4>1 DEF LiveRequest, Reserved
      <3>. QED BY <3>2, <3>3
    <2>. QED BY <1>3, <2>1, <2>2 DEF LiveChange
  <1>4. ASSUME NEW p \in Process, Admit(p) PROVE LiveChange
    <2>1. task[p].request \in Request /\ LiveRequest(task[p].request)
      BY <1>4 DEF Admit, RequestInv, Whole, AdmitInv, LiveRequest, Dispatching, At
    <2>2. ASSUME NEW q \in Request, LiveRequest(q)' PROVE LiveRequest(q)
      BY <1>4, <2>1, <2>2 DEF Admit, LiveRequest, Reserved, stored
    <2>. QED BY <1>4, <2>2 DEF Admit, LiveChange
  <1>5. ASSUME NEW p \in Process, WriteRun(p) PROVE LiveChange
    <2>1. ASSUME NEW q \in Request, LiveRequest(q)' PROVE LiveRequest(q)
      BY <1>5, <2>1, WriteEffect DEF LiveRequest, Reserved, TypeOK
    <2>. QED BY <1>5, <2>1, WriteEffect DEF LiveChange
  <1>6. ASSUME NEW p \in Process, NEW s \in Slot, RemoveRun(p, s) PROVE LiveChange
    BY <1>6 DEF RemoveRun, LiveChange, LiveRequest, Reserved
  <1>7. ASSUME NEW s \in Slot, Expire(s) PROVE LiveChange
    BY <1>7 DEF Expire, LiveChange, LiveRequest, Reserved
  <1>8. ASSUME NEW r \in Request, JobEnds(r) PROVE LiveChange
    BY <1>8 DEF JobEnds, stored, LiveChange, LiveRequest, Reserved
  <1>9. ASSUME NEW r \in Request, DeleteJob(r) PROVE LiveChange
    BY <1>9 DEF DeleteJob, stored, LiveChange, LiveRequest, Reserved
  <1>10. ASSUME NEW p \in Process, NEW s \in Slot, Trigger(p, s) PROVE LiveChange
    BY <1>10, <1>1 DEF Trigger, stored
  <1>11. ASSUME NEW p \in Process, AskDelete(p) \/ LockSchedule(p) \/ ListOccurrences(p)
        \/ Classify(p) \/ Owned(p) \/ BeforeAdmit(p) \/ Refuse(p) \/ ReadRun(p) \/
        RemoveRuns(p) \/ RemoveSchedule(p) \/ Change(p) \/ Crash(p) PROVE LiveChange
    BY <1>11, <1>1 DEF AskDelete, LockSchedule, ListOccurrences, Classify, Owned,
       BeforeAdmit, Refuse, ReadRun, RemoveRuns, RemoveSchedule, Change, Crash, stored,
       locks
  <1>12. ASSUME NEW p \in Process, NEW op \in {"pause", "resume", "revoke"},
        AskChange(p, op) PROVE LiveChange
    BY <1>12, <1>1 DEF AskChange, stored
  <1>. QED BY <1>1, <1>2, <1>3, <1>4, <1>5, <1>6, <1>7, <1>8, <1>9, <1>10, <1>11, <1>12
              DEF Next, Step, vars, stored

\* While a task holds a list of the occurrences, no occurrence is added or
\* reserved again, so that the list stays an upper bound.
LEMMA ListedStep ==
  ASSUME TypeOK, LockInv, RequestInv, Whole, ~interrupted', [Next]_vars
  PROVE  ListedChange
  <1>. USE NoneAssumption
  <1>1. CASE UNCHANGED <<occurrence>>
    BY <1>1 DEF ListedChange, Reserved
  <1>2. ASSUME NEW p \in Process, Fence(p) PROVE ListedChange
    BY <1>2 DEF Fence, FencedBy, GivenUp, locks, ListedChange, Reserved, TypeOK
  <1>3. ASSUME NEW p \in Process, NEW r \in Request, Reserve(p, r) PROVE ListedChange
    <2>1. ~\E q \in Process : At(q, "classify") /\ task'[q] = task[q]
      BY <1>3, ReserveEffect DEF LockInv, Inside, At
    <2>. QED BY <2>1 DEF ListedChange
  <1>4. ASSUME NEW p \in Process, WriteRun(p) PROVE ListedChange
    <2>1. SUFFICES ASSUME NEW q \in Process, At(q, "classify"), NEW s \in Slot,
                          occurrence'[s] # None
                   PROVE  /\ occurrence[s] # None
                          /\ occurrence'[s].request = occurrence[s].request
                          /\ Reserved(s)' => Reserved(s)
      BY DEF ListedChange
    <2>2. CASE s # task[p].slot
      BY <1>4, <2>1, <2>2, WriteEffect DEF Reserved
    <2>3. CASE s = task[p].slot
      <3>1. /\ occurrence'[s] = task[p].seen /\ task[p].seen.status # "reserved"
            /\ task[p].seen.request \in Request /\ slotOf[task[p].seen.request] = s
        BY <1>4, <2>3, WriteEffect DEF Occurrence
      <3>2. occurrence[s] # None
        BY <2>1, <3>1, NotVacated DEF Whole, Inside, At
      <3>3. occurrence[s].request \in Request /\ slotOf[occurrence[s].request] = s
        BY <3>2 DEF TypeOK, Occurrence, RequestInv
      <3>. QED BY <3>1, <3>2, <3>3 DEF Reserved, Whole, OneRequest
    <2>. QED BY <2>2, <2>3
  <1>5. ASSUME NEW p \in Process, NEW s \in Slot, RemoveRun(p, s) PROVE ListedChange
    BY <1>5 DEF RemoveRun, ListedChange, Reserved
  <1>6. ASSUME NEW s \in Slot, Expire(s) PROVE ListedChange
    BY <1>6 DEF Expire, ListedChange, Reserved
  <1>7. ASSUME NEW p \in Process, NEW s \in Slot, Trigger(p, s) PROVE ListedChange
    BY <1>7, <1>1 DEF Trigger, stored
  <1>8. ASSUME NEW p \in Process, AskDelete(p) \/ LockSchedule(p) \/ ListOccurrences(p)
        \/ Classify(p) \/ Owned(p) \/ BeforeAdmit(p) \/ Admit(p) \/ Refuse(p) \/
        ReadRun(p) \/ RemoveRuns(p) \/ RemoveSchedule(p) \/ Change(p) \/ Crash(p) PROVE
        ListedChange
    BY <1>8, <1>1 DEF AskDelete, LockSchedule, ListOccurrences, Classify, Owned,
       BeforeAdmit, Admit, Refuse, ReadRun, RemoveRuns, RemoveSchedule, Change, Crash,
       stored, locks
  <1>9. ASSUME NEW p \in Process, NEW op \in {"pause", "resume", "revoke"}, AskChange(p,
        op) PROVE ListedChange
    BY <1>9, <1>1 DEF AskChange, stored
  <1>10. ASSUME NEW r \in Request, JobEnds(r) \/ DeleteJob(r) PROVE ListedChange
    BY <1>10, <1>1 DEF JobEnds, DeleteJob, stored
  <1>. QED BY <1>1, <1>2, <1>3, <1>4, <1>5, <1>6, <1>7, <1>8, <1>9, <1>10 DEF Next,
              Step, vars, stored

\* A task reaches a place where something is known only by the step that
\* establishes it.
LEMMA TaskStep ==
  ASSUME TypeOK, LockInv, [Next]_vars
  PROVE  TaskChange
  <1>1. CASE UNCHANGED <<task>>
    BY <1>1 DEF TaskChange
  <1>2. ASSUME NEW p \in Process, NEW s \in Slot, Trigger(p, s) PROVE TaskChange
    BY <1>2 DEF Trigger, TaskChange
  <1>3. ASSUME NEW p \in Process, AskDelete(p) PROVE TaskChange
    BY <1>3 DEF AskDelete, TaskChange
  <1>4. ASSUME NEW p \in Process, LockSchedule(p) PROVE TaskChange
    BY <1>4 DEF LockSchedule, Idle, Goto, Return, stored, TaskChange, TypeOK, Task
  <1>5. ASSUME NEW p \in Process, ListOccurrences(p) PROVE TaskChange
    BY <1>5 DEF ListOccurrences, TaskChange, TypeOK
  <1>6. ASSUME NEW p \in Process, Classify(p) PROVE TaskChange
    <2>1. \A q \in Process \ {p} : task'[q] = task[q]
      BY <1>6 DEF Classify, TypeOK
    <2>. QED BY <1>6, <2>1 DEF TaskChange
  <1>7. ASSUME NEW p \in Process, Fence(p) PROVE TaskChange
    <2>1. \A q \in Process \ {p} : task'[q] = task[q]
      BY <1>7 DEF Fence, TypeOK
    <2>. QED BY <1>7, <2>1 DEF TaskChange
  <1>8. ASSUME NEW p \in Process, Owned(p) PROVE TaskChange
    BY <1>8 DEF Owned, Idle, Return, Finish, stored, TaskChange, TypeOK
  <1>9. ASSUME NEW p \in Process, NEW r \in Request, Reserve(p, r) PROVE TaskChange
    BY <1>9, ReserveEffect DEF TaskChange
  <1>10. ASSUME NEW p \in Process, BeforeAdmit(p) PROVE TaskChange
    BY <1>10 DEF BeforeAdmit, Goto, stored, TaskChange, TypeOK, Task
  <1>11. ASSUME NEW p \in Process, Admit(p) PROVE TaskChange
    BY <1>11 DEF Admit, TaskChange, TypeOK, Task
  <1>12. ASSUME NEW p \in Process, Refuse(p) PROVE TaskChange
    BY <1>12 DEF Refuse, Goto, TaskChange, TypeOK
  <1>13. ASSUME NEW p \in Process, ReadRun(p) PROVE TaskChange
    BY <1>13 DEF ReadRun, Idle, Return, TaskChange, TypeOK, Task
  <1>14. ASSUME NEW p \in Process, WriteRun(p) PROVE TaskChange
    BY <1>14 DEF WriteRun, Idle, Return, locks, TaskChange
  <1>15. ASSUME NEW p \in Process, RemoveRuns(p) PROVE TaskChange
    BY <1>15 DEF RemoveRuns, TaskChange, TypeOK
  <1>16. ASSUME NEW p \in Process, NEW s \in Slot, RemoveRun(p, s) PROVE TaskChange
    BY <1>16 DEF RemoveRun, TaskChange, TypeOK
  <1>17. ASSUME NEW p \in Process, RemoveSchedule(p) PROVE TaskChange
    BY <1>17 DEF RemoveSchedule, Idle, Return, Finish, TaskChange
  <1>18. ASSUME NEW p \in Process, NEW op \in {"pause", "resume", "revoke"},
        AskChange(p, op) PROVE TaskChange
    BY <1>18 DEF AskChange, TaskChange, TypeOK
  <1>19. ASSUME NEW p \in Process, Change(p) PROVE TaskChange
    BY <1>19 DEF Change, Idle, Return, Revoked, NotChanged, Applies, locks, TaskChange
  <1>20. ASSUME NEW p \in Process, Crash(p) PROVE TaskChange
    BY <1>20 DEF Crash, Idle, Return, stored, TaskChange
  <1>21. ASSUME NEW s \in Slot, Expire(s) PROVE TaskChange
    BY <1>21, <1>1 DEF Expire
  <1>22. ASSUME NEW r \in Request, JobEnds(r) \/ DeleteJob(r) PROVE TaskChange
    BY <1>22, <1>1 DEF JobEnds, DeleteJob
  <1>. QED BY <1>1, <1>2, <1>3, <1>4, <1>5, <1>6, <1>7, <1>8, <1>9, <1>10, <1>11, <1>12,
       <1>13, <1>14, <1>15, <1>16, <1>17, <1>18, <1>19, <1>20, <1>21, <1>22 DEF Next,
       Step, vars, stored, locks

\* Between the fence check and the admission the reservation stands: fencing
\* needs the coordinator lock, and nobody else writes this occurrence.
LEMMA AdmitChangeStep ==
  ASSUME TypeOK, LockInv, RequestInv, Whole, ~interrupted', TypeOK', [Next]_vars
  PROVE  AdmitChange
  <1>. USE NoneAssumption
  <1>1. CASE UNCHANGED <<occurrence>>
    BY <1>1 DEF AdmitChange, Reserved
  <1>2. ASSUME NEW p \in Process, Fence(p) PROVE AdmitChange
    <2>1. ~\E q \in Process : At(q, "admit")
      BY <1>2, NoneAssumption DEF Fence, LockInv
    <2>. QED BY <2>1 DEF AdmitChange
  <1>3. ASSUME NEW p \in Process, NEW r \in Request, Reserve(p, r) PROVE AdmitChange
    <2>1. ASSUME NEW s, Reserved(s), s \in Slot PROVE Reserved(s)'
      BY <1>3, <2>1, ReserveEffect DEF Reserved
    <2>. QED BY <1>3, <2>1 DEF AdmitChange, RequestInv, Dispatching, At
  <1>4. ASSUME NEW p \in Process, WriteRun(p) PROVE AdmitChange
    <2>1. SUFFICES ASSUME NEW q \in Process, At(q, "admit"), q # p,
                          Reserved(task[q].slot)
                   PROVE  Reserved(task[q].slot)'
      BY <1>4, WriteEffect DEF AdmitChange, At
    <2>2. /\ task[q].slot \in Slot /\ task[q].request \in Request
          /\ slotOf[task[q].request] = task[q].slot
      BY <2>1 DEF RequestInv, Dispatching, At
    <2>3. task[p].slot # task[q].slot
      BY <1>4, <2>1, <2>2, WriteEffect, NoneAssumption DEF RequestInv, Whole,
         OneRequest, Dispatching, At
    <2>. QED BY <1>4, <2>1, <2>2, <2>3, WriteEffect DEF Reserved
  <1>5. ASSUME NEW p \in Process, NEW s \in Slot, RemoveRun(p, s) PROVE AdmitChange
    <2>1. \A r \in Request : ~LiveRequest(r)
      BY <1>5 DEF RemoveRun, Whole, EvidenceInv, Evidence
    <2>2. ASSUME NEW q \in Process, At(q, "admit") PROVE ~Reserved(task[q].slot)
      BY <2>1, <2>2, NoneAssumption DEF RequestInv, LiveRequest, Dispatching, At
    <2>. QED BY <2>2 DEF AdmitChange
  <1>6. ASSUME NEW s \in Slot, Expire(s) PROVE AdmitChange
    <2>1. \A t \in Slot : Reserved(t) => Reserved(t)'
      <3>1. occurrence[s] \in Occurrence
        BY <1>6 DEF Expire, TypeOK
      <3>2. /\ [occurrence[s] EXCEPT !.recent = FALSE].status = occurrence[s].status
            /\ [occurrence[s] EXCEPT !.recent = FALSE] \in Occurrence
        BY <3>1 DEF Occurrence
      <3>. QED BY <1>6, <3>2, NoneAssumption DEF Expire, Reserved, TypeOK
    <2>2. \A q \in Process : At(q, "admit") => task[q].slot \in Slot
      BY DEF RequestInv, Dispatching, At
    <2>. QED BY <2>1, <2>2 DEF AdmitChange
  <1>7. ASSUME NEW p \in Process, NEW s \in Slot, Trigger(p, s) PROVE AdmitChange
    BY <1>7, <1>1 DEF Trigger, stored
  <1>8. ASSUME NEW p \in Process, AskDelete(p) \/ LockSchedule(p) \/ ListOccurrences(p)
        \/ Classify(p) \/ Owned(p) \/ BeforeAdmit(p) \/ Admit(p) \/ Refuse(p) \/
        ReadRun(p) \/ RemoveRuns(p) \/ RemoveSchedule(p) \/ Change(p) \/ Crash(p) PROVE
        AdmitChange
    BY <1>8, <1>1 DEF AskDelete, LockSchedule, ListOccurrences, Classify, Owned,
       BeforeAdmit, Admit, Refuse, ReadRun, RemoveRuns, RemoveSchedule, Change, Crash,
       stored, locks
  <1>9. ASSUME NEW p \in Process, NEW op \in {"pause", "resume", "revoke"}, AskChange(p,
        op) PROVE AdmitChange
    BY <1>9, <1>1 DEF AskChange, stored
  <1>10. ASSUME NEW r \in Request, JobEnds(r) \/ DeleteJob(r) PROVE AdmitChange
    BY <1>10, <1>1 DEF JobEnds, DeleteJob, stored
  <1>. QED BY <1>1, <1>2, <1>3, <1>4, <1>5, <1>6, <1>7, <1>8, <1>9, <1>10 DEF Next,
              Step, vars, stored

\* Only a deletion removes the schedule.
LEMMA ScheduleStep ==
  ASSUME TypeOK, [Next]_vars
  PROVE  ScheduleChange
  <1>. USE NoneAssumption
  <1>1. CASE UNCHANGED <<schedule>>
    BY <1>1 DEF ScheduleChange
  <1>2. ASSUME NEW p \in Process, RemoveSchedule(p) PROVE ScheduleChange
    BY <1>2 DEF ScheduleChange
  <1>3. ASSUME NEW p \in Process, Change(p) PROVE ScheduleChange
    BY <1>3, ChangeEffect DEF ScheduleChange
  <1>4. ASSUME NEW p \in Process, NEW s \in Slot, Trigger(p, s) \/ RemoveRun(p, s) PROVE
        ScheduleChange
    BY <1>4, <1>1 DEF Trigger, RemoveRun, stored
  <1>5. ASSUME NEW p \in Process, AskDelete(p) \/ LockSchedule(p) \/ ListOccurrences(p)
        \/ Classify(p) \/ Fence(p) \/ Owned(p) \/ BeforeAdmit(p) \/ Admit(p) \/
        Refuse(p) \/ ReadRun(p) \/ WriteRun(p) \/ RemoveRuns(p) \/ Crash(p) PROVE
        ScheduleChange
    BY <1>5, <1>1 DEF AskDelete, LockSchedule, ListOccurrences, Classify, Fence, Owned,
       BeforeAdmit, Admit, Refuse, ReadRun, WriteRun, RemoveRuns, Crash, stored, locks
  <1>6. ASSUME NEW p \in Process, NEW r \in Request, Reserve(p, r) PROVE ScheduleChange
    BY <1>6, <1>1 DEF Reserve
  <1>7. ASSUME NEW p \in Process, NEW op \in {"pause", "resume", "revoke"}, AskChange(p,
        op) PROVE ScheduleChange
    BY <1>7, <1>1 DEF AskChange, stored
  <1>8. ASSUME NEW s \in Slot, Expire(s) PROVE ScheduleChange
    BY <1>8, <1>1 DEF Expire
  <1>9. ASSUME NEW r \in Request, JobEnds(r) \/ DeleteJob(r) PROVE ScheduleChange
    BY <1>9, <1>1 DEF JobEnds, DeleteJob, stored
  <1>. QED BY <1>1, <1>2, <1>3, <1>4, <1>5, <1>6, <1>7, <1>8, <1>9 DEF Next, Step, vars,
              stored

\* At most one request is live: a reservation is made when none is.
LEMMA OneLiveStep ==
  ASSUME OneLive, LiveChange
  PROVE  OneLive'
  BY DEF OneLive, LiveChange

\* A schedule that is gone leaves no live request behind.
LEMMA GoneStep ==
  ASSUME TypeOK, LockInv, GoneIsQuiet, EvidenceInv, LiveChange, ScheduleChange
  PROVE  GoneIsQuiet'
  <1>. SUFFICES ASSUME schedule' = None
                PROVE  \A r \in Request : ~LiveRequest(r)'
    BY DEF GoneIsQuiet
  <1>1. \A r \in Request : ~LiveRequest(r)
    BY DEF ScheduleChange, GoneIsQuiet, RemoveSchedule, EvidenceInv, Evidence
  <1>2. ~\E p \in Process, r \in Request : Reserve(p, r)
    BY ReserveEffect
  <1>. QED BY <1>1, <1>2 DEF LiveChange

\* The reservation of an admission under way stands.
LEMMA AdmitStep ==
  ASSUME TypeOK, AdmitInv, TaskChange, AdmitChange
  PROVE  AdmitInv'
  <1>. SUFFICES ASSUME NEW p \in Process, At(p, "admit")'
                PROVE  Reserved(task[p].slot)'
    BY DEF AdmitInv
  <1>1. CASE task'[p] = task[p]
    BY <1>1 DEF AdmitInv, AdmitChange, At
  <1>2. CASE BeforeAdmit(p)
    <2>1. StillReserved(p) \/ Goto(p, "failed")
      BY <1>2 DEF BeforeAdmit
    <2>2. ~Goto(p, "failed")
      BY DEF Goto, At, TypeOK, Task
    <2>3. UNCHANGED occurrence /\ task'[p].slot = task[p].slot
      BY <1>2 DEF BeforeAdmit, Goto, stored, TypeOK, Task
    <2>. QED BY <2>1, <2>2, <2>3 DEF StillReserved, Reserved
  <1>3. CASE ListOccurrences(p) \/ Classify(p) \/ Fence(p) \/ RemoveRuns(p)
             \/ \E s \in Slot : RemoveRun(p, s)
    <2>1. task'[p].at # "admit"
      <3>1. CASE ListOccurrences(p)
        BY <3>1 DEF ListOccurrences, TypeOK
      <3>2. CASE Classify(p)
        BY <3>2 DEF Classify, TypeOK, Task
      <3>3. CASE Fence(p)
        BY <3>3 DEF Fence, TypeOK
      <3>4. CASE RemoveRuns(p)
        BY <3>4 DEF RemoveRuns, TypeOK
      <3>5. CASE \E s \in Slot : RemoveRun(p, s)
        BY <3>5 DEF RemoveRun, At
      <3>. QED BY <1>3, <3>1, <3>2, <3>3, <3>4, <3>5
    <2>. QED BY <2>1 DEF At
  <1>. QED BY <1>1, <1>2, <1>3 DEF TaskChange, At

\* The holder of the schedule lock sees no new live request but its own.
LEMMA HolderSees ==
  ASSUME TypeOK, LockInv, LiveChange,
         NEW p \in Process, task[p].at \in Inside, ~\E r \in Request : Reserve(p, r)
  PROVE  UNCHANGED slotOf /\ \A r \in Request : LiveRequest(r)' => LiveRequest(r)
  <1>1. ~\E q \in Process, r \in Request : Reserve(q, r)
    BY ReserveEffect DEF LockInv, Inside, At
  <1>. QED BY <1>1 DEF LiveChange

\* What the holder has established stays true while others take steps.
LEMMA EvidenceKept ==
  ASSUME TypeOK, LockInv, EvidenceInv, LiveChange, ListedChange,
         NEW p \in Process, task'[p] = task[p]
  PROVE  Evidence(p)'
  <1>1. Evidence(p)
    BY DEF EvidenceInv
  <1>2. CASE task[p].at \in {"fence", "decide", "remove"}
    <2>1. ~\E r \in Request : Reserve(p, r)
      BY ReserveEffect DEF At
    <2>2. UNCHANGED slotOf /\ \A r \in Request : LiveRequest(r)' => LiveRequest(r)
      BY <1>2, <2>1, HolderSees DEF Inside
    <2>. QED BY <1>1, <1>2, <2>2 DEF Evidence, At
  <1>3. CASE At(p, "classify")
    BY <1>1, <1>3 DEF Evidence, ListedChange, At
  <1>4. CASE task[p].at \notin {"classify", "fence", "decide", "remove"}
    BY <1>4 DEF Evidence, At
  <1>. QED BY <1>2, <1>3, <1>4 DEF At

\* A live request is found by the classification: its occurrence is active, or
\* it is an expired reservation that is fenced next.
LEMMA EvidenceFound ==
  ASSUME TypeOK, LockInv, RequestInv, Whole, NEW p \in Process, Classify(p),
         NEW r \in Request, LiveRequest(r)
  PROVE  \/ Classified(p, "active") # {}
         \/ slotOf[r] \in Classified(p, "expired") /\ task[p].seen[slotOf[r]].request = r
  <1>. DEFINE s == slotOf[r]
              seen == task[p].seen[s]
  <1>1. At(p, "classify") /\ s \in Slot
    BY DEF Classify, LiveRequest, RequestInv, TypeOK
  <1>2. occurrence[s] # None
    BY <1>1, NotVacated, NoneAssumption DEF Whole, Inside, At
  <1>3. occurrence[s].request = r
    BY <1>1, <1>2, NoneAssumption DEF RequestInv, Whole, OneRequest, TypeOK, Occurrence
  <1>4. /\ seen # None /\ seen.request = r
        /\ Reserved(s) => seen.status = "reserved"
    BY <1>1, <1>2, <1>3 DEF Whole, EvidenceInv, Evidence
  <1>5. CASE job[r] = "open"
    BY <1>1, <1>4, <1>5 DEF Classified, classifyOccurrence
  <1>6. CASE job[r] = "none" /\ Reserved(s)
    BY <1>1, <1>4, <1>6 DEF Classified, classifyOccurrence, HasJob
  <1>. QED BY <1>5, <1>6 DEF LiveRequest

\* Each of the three steps under the schedule lock (list, classify, fence)
\* establishes its part of the evidence.
LEMMA EvidenceStep ==
  ASSUME TypeOK, LockInv, RequestInv, Whole, LiveChange, ListedChange, TaskChange
  PROVE  EvidenceInv'
  <1>. SUFFICES ASSUME NEW p \in Process PROVE Evidence(p)'
    BY DEF EvidenceInv
  <1>0. Evidence(p)
    BY DEF Whole, EvidenceInv
  <1>1. CASE task'[p] = task[p]
    BY <1>1, EvidenceKept DEF Whole
  <1>2. CASE ListOccurrences(p)
    <2>1. task'[p].at = "classify" /\ task'[p].seen = occurrence /\ UNCHANGED occurrence
      BY <1>2 DEF ListOccurrences, TypeOK, stored
    <2>. QED BY <2>1 DEF Evidence, Reserved, At, TypeOK
  <1>3. CASE Classify(p)
    <2>1. \A r \in Request : LiveRequest(r)' => LiveRequest(r)
      BY <1>3 DEF Classify, LiveRequest, Reserved, stored
    <2>2. /\ task'[p].at = IF Classified(p, "expired") = {} THEN "decide" ELSE "fence"
          /\ task'[p].expired = Classified(p, "expired")
          /\ task'[p].owned = (Classified(p, "active") # {})
          /\ task'[p].seen = task[p].seen
          /\ UNCHANGED slotOf
      BY <1>3 DEF Classify, TypeOK, Task
    <2>3. /\ task[p].seen \in [Slot -> Occurrence \cup {None}]
          /\ \A s \in Classified(p, "expired") : task[p].seen[s] # None
      BY <1>0, <1>3 DEF Classify, Evidence, Classified, classifyOccurrence
    <2>4. \A r \in Request : LiveRequest(r)' =>
            \/ Classified(p, "active") # {}
            \/ slotOf[r] \in Classified(p, "expired") /\ task[p].seen[slotOf[r]].request = r
      BY <1>3, <2>1, EvidenceFound
    <2>5. CASE Classified(p, "expired") = {}
      BY <2>2, <2>4, <2>5 DEF Evidence, At
    <2>6. CASE Classified(p, "expired") # {}
      BY <2>2, <2>3, <2>4, <2>6 DEF Evidence, At
    <2>. QED BY <2>5, <2>6
  <1>4. CASE Fence(p)
    <2>1. At(p, "fence") /\ UNCHANGED <<job, slotOf>>
      BY <1>4 DEF Fence
    <2>2. \A r \in Request : LiveRequest(r)' => LiveRequest(r)
      BY <2>1, HolderSees, ReserveEffect DEF Inside, At
    <2>3. /\ task'[p].at = "decide"
          /\ task'[p].owned = (task[p].owned
               \/ \E s \in task[p].expired : job[task[p].seen[s].request] = "open")
      BY <1>4 DEF Fence, TypeOK
    <2>4. ASSUME NEW r \in Request, LiveRequest(r)', ~task[p].owned
          PROVE  \E s \in task[p].expired : job[task[p].seen[s].request] = "open"
      <3>. DEFINE s == slotOf[r]
      <3>1. s \in task[p].expired /\ task[p].seen[s].request = r /\ s \in Slot
        BY <1>0, <2>1, <2>2, <2>4 DEF Evidence, TypeOK, Task
      <3>2. CASE job[r] = "open"
        BY <3>1, <3>2
      <3>3. CASE job[r] = "none" /\ Reserved(s)
        <4>1. s \in FencedBy(p) /\ occurrence[s] \in Occurrence
          BY <3>1, <3>3 DEF FencedBy, HasJob, Reserved, TypeOK
        <4>2. occurrence'[s].status = GivenUp
          BY <1>4, <3>1, <4>1 DEF Fence
        <4>. QED BY <2>1, <2>4, <3>3, <4>2 DEF LiveRequest, Reserved, GivenUp
      <3>. QED BY <2>2, <2>4, <3>2, <3>3 DEF LiveRequest
    <2>. QED BY <2>3, <2>4 DEF Evidence, At
  <1>5. CASE RemoveRuns(p)
    <2>1. \A r \in Request : ~LiveRequest(r)'
      BY <1>0, <1>5 DEF RemoveRuns, Evidence, LiveRequest, Reserved, stored
    <2>2. task'[p].at = "remove"
      BY <1>5 DEF RemoveRuns, TypeOK
    <2>. QED BY <2>1, <2>2 DEF Evidence, At
  <1>6. CASE \E s \in Slot : RemoveRun(p, s)
    <2>1. At(p, "remove") /\ task'[p].at = "remove"
      BY <1>6 DEF RemoveRun, At
    <2>2. \A r \in Request : LiveRequest(r)' => LiveRequest(r)
      BY <2>1, HolderSees, ReserveEffect DEF Inside, At
    <2>. QED BY <1>0, <2>1, <2>2 DEF Evidence, At
  <1>7. CASE task'[p].at \notin {"classify", "fence", "decide", "remove"}
    BY <1>7 DEF Evidence, At
  <1>8. CASE BeforeAdmit(p)
    <2>. task'[p].at \in {"admit", "failed"}
      BY <1>8 DEF BeforeAdmit, Goto, TypeOK, Task
    <2>. QED BY <1>7
  <1>. QED BY <1>1, <1>2, <1>3, <1>4, <1>5, <1>6, <1>7, <1>8 DEF TaskChange

\* A deletion that was interrupted remains so.
LEMMA InterruptedStep ==
  ASSUME interrupted, [Next]_vars
  PROVE  interrupted'
  <1>1. CASE UNCHANGED <<interrupted>>
    BY <1>1
  <1>2. ASSUME NEW p \in Process, Crash(p) PROVE interrupted'
    BY <1>2 DEF Crash
  <1>3. ASSUME NEW p \in Process, NEW s \in Slot, Trigger(p, s) \/ RemoveRun(p, s) PROVE
        interrupted'
    BY <1>3, <1>1 DEF Trigger, RemoveRun
  <1>4. ASSUME NEW p \in Process, AskDelete(p) \/ LockSchedule(p) \/ ListOccurrences(p)
        \/ Classify(p) \/ Fence(p) \/ Owned(p) \/ BeforeAdmit(p) \/ Admit(p) \/
        Refuse(p) \/ ReadRun(p) \/ WriteRun(p) \/ RemoveRuns(p) \/ RemoveSchedule(p) \/
        Change(p) PROVE interrupted'
    BY <1>4, <1>1 DEF AskDelete, LockSchedule, ListOccurrences, Classify, Fence, Owned,
       BeforeAdmit, Admit, Refuse, ReadRun, WriteRun, RemoveRuns, RemoveSchedule,
       Change, stored, locks
  <1>5. ASSUME NEW p \in Process, NEW r \in Request, Reserve(p, r) PROVE interrupted'
    BY <1>5, <1>1 DEF Reserve
  <1>6. ASSUME NEW p \in Process, NEW op \in {"pause", "resume", "revoke"}, AskChange(p,
        op) PROVE interrupted'
    BY <1>6, <1>1 DEF AskChange
  <1>7. ASSUME NEW s \in Slot, Expire(s) PROVE interrupted'
    BY <1>7, <1>1 DEF Expire
  <1>8. ASSUME NEW r \in Request, JobEnds(r) \/ DeleteJob(r) PROVE interrupted'
    BY <1>8, <1>1 DEF JobEnds, DeleteJob
  <1>. QED BY <1>1, <1>2, <1>3, <1>4, <1>5, <1>6, <1>7, <1>8 DEF Next, Step, vars

\* Only an admission launches, and only the request of its task.
LEMMA LaunchStep ==
  ASSUME TypeOK, [Next]_vars
  PROVE  LaunchChange
  <1>1. CASE UNCHANGED <<job>>
    BY <1>1 DEF LaunchChange
  <1>2. ASSUME NEW p \in Process, Admit(p) PROVE LaunchChange
    BY <1>2 DEF Admit, TypeOK, LaunchChange
  <1>3. ASSUME NEW r \in Request, JobEnds(r) PROVE LaunchChange
    BY <1>3 DEF JobEnds, LaunchChange
  <1>4. ASSUME NEW r \in Request, DeleteJob(r) PROVE LaunchChange
    BY <1>4 DEF DeleteJob, LaunchChange
  <1>5. ASSUME NEW p \in Process, NEW s \in Slot, Trigger(p, s) \/ RemoveRun(p, s) PROVE
        LaunchChange
    BY <1>5, <1>1 DEF Trigger, RemoveRun
  <1>6. ASSUME NEW p \in Process, AskDelete(p) \/ LockSchedule(p) \/ ListOccurrences(p)
        \/ Classify(p) \/ Fence(p) \/ Owned(p) \/ BeforeAdmit(p) \/ Refuse(p) \/
        ReadRun(p) \/ WriteRun(p) \/ RemoveRuns(p) \/ RemoveSchedule(p) \/ Change(p) \/
        Crash(p) PROVE LaunchChange
    BY <1>6, <1>1 DEF AskDelete, LockSchedule, ListOccurrences, Classify, Fence, Owned,
       BeforeAdmit, Refuse, ReadRun, WriteRun, RemoveRuns, RemoveSchedule, Change,
       Crash, stored, locks
  <1>7. ASSUME NEW p \in Process, NEW r \in Request, Reserve(p, r) PROVE LaunchChange
    BY <1>7, <1>1 DEF Reserve
  <1>8. ASSUME NEW p \in Process, NEW op \in {"pause", "resume", "revoke"}, AskChange(p,
        op) PROVE LaunchChange
    BY <1>8, <1>1 DEF AskChange
  <1>9. ASSUME NEW s \in Slot, Expire(s) PROVE LaunchChange
    BY <1>9, <1>1 DEF Expire
  <1>. QED BY <1>1, <1>2, <1>3, <1>4, <1>5, <1>6, <1>7, <1>8, <1>9 DEF Next, Step, vars

\* A revoked schedule stays revoked, and nothing is reserved for it.
LEMMA RevokedStep ==
  ASSUME TypeOK, LockInv, [Next]_vars
  PROVE  RevokedChange
  <1>1. CASE UNCHANGED <<schedule, slotOf>>
    BY <1>1 DEF RevokedChange
  <1>2. ASSUME NEW p \in Process, NEW r \in Request, Reserve(p, r) PROVE RevokedChange
    <2>. schedule # None /\ schedule.enabled
      BY <1>2 DEF Reserve, LockInv, Inside, At
    <2>. QED BY DEF RevokedChange, Revoked
  <1>3. ASSUME NEW p \in Process, RemoveSchedule(p) PROVE RevokedChange
    BY <1>3 DEF RemoveSchedule, RevokedChange
  <1>4. ASSUME NEW p \in Process, Change(p) PROVE RevokedChange
    <2>. SUFFICES ASSUME schedule # None, Revoked(schedule)
                  PROVE  Revoked(schedule')
      BY <1>4 DEF Change, RevokedChange
    <2>1. CASE Applies(p)
      <3>1. task[p].op = "revoke"
        BY <2>1 DEF Applies, NotChanged
      <3>2. schedule' = [enabled |-> task[p].op = "resume", pausedAt |-> 0]
        BY <1>4, <2>1, <3>1 DEF Change
      <3>. QED BY <3>1, <3>2 DEF Revoked
    <2>2. CASE ~Applies(p)
      BY <1>4, <2>2 DEF Change
    <2>. QED BY <2>1, <2>2
  <1>5. ASSUME NEW p \in Process, NEW s \in Slot, Trigger(p, s) \/ RemoveRun(p, s) PROVE
        RevokedChange
    BY <1>5, <1>1 DEF Trigger, RemoveRun, stored
  <1>6. ASSUME NEW p \in Process, AskDelete(p) \/ LockSchedule(p) \/ ListOccurrences(p)
        \/ Classify(p) \/ Fence(p) \/ Owned(p) \/ BeforeAdmit(p) \/ Admit(p) \/
        Refuse(p) \/ ReadRun(p) \/ WriteRun(p) \/ RemoveRuns(p) \/ Crash(p) PROVE
        RevokedChange
    BY <1>6, <1>1 DEF AskDelete, LockSchedule, ListOccurrences, Classify, Fence, Owned,
       BeforeAdmit, Admit, Refuse, ReadRun, WriteRun, RemoveRuns, Crash, stored, locks
  <1>7. ASSUME NEW p \in Process, NEW op \in {"pause", "resume", "revoke"}, AskChange(p,
        op) PROVE RevokedChange
    BY <1>7, <1>1 DEF AskChange, stored
  <1>8. ASSUME NEW s \in Slot, Expire(s) PROVE RevokedChange
    BY <1>8, <1>1 DEF Expire
  <1>9. ASSUME NEW r \in Request, JobEnds(r) \/ DeleteJob(r) PROVE RevokedChange
    BY <1>9, <1>1 DEF JobEnds, DeleteJob, stored
  <1>. QED BY <1>1, <1>2, <1>3, <1>4, <1>5, <1>6, <1>7, <1>8, <1>9 DEF Next, Step, vars,
              stored

\* The invariant holds initially.
LEMMA Initially ==
  Init => IInv
  <1>. SUFFICES ASSUME Init PROVE IInv
    OBVIOUS
  <1>. USE NoneAssumption, PausesAssumption DEF Init
  <1>1. TypeOK
    <2>1. Idle \in Task
      BY DEF Idle, Task
    <2>2. [enabled |-> TRUE, pausedAt |-> 0] \in ScheduleRecord
      BY DEF ScheduleRecord
    <2>3. task \in [Process -> Task]
      BY <2>1
    <2>4. schedule \in ScheduleRecord \cup {None} /\ pauses \in 0..MaxPauses
      BY <2>2
    <2>5. /\ occurrence \in [Slot -> Occurrence \cup {None}]
          /\ job \in [Request -> {"none", "open", "terminal", "deleted"}]
          /\ slotOf \in [Request -> Slot \cup {None}]
      OBVIOUS
    <2>6. scheduleLock = None /\ coordLock = None /\ interrupted \in BOOLEAN
      OBVIOUS
    <2>. QED BY <2>3, <2>4, <2>5, <2>6 DEF TypeOK
  <1>2. \A p \in Process : At(p, "idle") /\ task[p].op = "none"
    BY DEF At, Idle
  <1>3. LockInv
    BY <1>2 DEF LockInv, Inside, At
  <1>4. RequestInv
    BY <1>2 DEF RequestInv, Dispatching, At
  <1>5. \A r \in Request : ~LiveRequest(r)
    BY DEF LiveRequest
  <1>6. Whole
    BY <1>2, <1>5 DEF Whole, OneRequest, KeptUntilRemoved, OneLive, GoneIsQuiet,
       AdmitInv, EvidenceInv, Evidence, At
  <1>. QED BY <1>1, <1>3, <1>4, <1>6 DEF IInv

\* Every step preserves the invariant.
LEMMA Invariance ==
  IInv /\ [Next]_vars => IInv'
  <1>. SUFFICES ASSUME IInv, [Next]_vars PROVE IInv'
    OBVIOUS
  <1>1. TypeOK /\ LockInv /\ RequestInv
    BY DEF IInv
  <1>2. TypeOK' /\ LockInv' /\ RequestInv'
    BY <1>1, TypeStep, LockStep, RequestStep
  <1>3. ASSUME ~interrupted' PROVE Whole'
    <2>1. Whole
      BY <1>3, InterruptedStep DEF IInv
    <2>2. LiveChange /\ ListedChange /\ TaskChange /\ AdmitChange /\ ScheduleChange
      BY <1>1, <1>2, <1>3, <2>1, LiveStep, ListedStep, TaskStep, AdmitChangeStep, ScheduleStep
    <2>3. OneRequest' /\ KeptUntilRemoved'
      BY <1>1, <1>3, <2>1, OneRequestStep, KeptStep
    <2>4. OneLive' /\ GoneIsQuiet' /\ AdmitInv'
      BY <1>1, <2>1, <2>2, OneLiveStep, GoneStep, AdmitStep DEF Whole
    <2>5. EvidenceInv'
      BY <1>1, <2>1, <2>2, EvidenceStep
    <2>. QED BY <2>3, <2>4, <2>5 DEF Whole
  <1>. QED BY <1>2, <1>3 DEF IInv

\* The inductive invariant holds: locks, requests, and, as long as no deletion
\* stopped half-way, the evidence of evaluateOnce and deleteSchedule.
THEOREM InvariantHolds == Spec => []IInv
  BY Initially, Invariance, PTL DEF Spec

\* Records, locks and tasks stay well-typed.
THEOREM StateIsTyped == Spec => []TypeOK
  <1>1. IInv => TypeOK
    BY DEF IInv
  <1>. QED BY <1>1, InvariantHolds, PTL

\* A schedule never has two open jobs: scheduleIsOwned finds the open one, or the
\* reservation that may still become one, before evaluateOnce reserves again;
\* unless a deletion stopped half-way and lost the records this rests on.
THEOREM AtMostOneActiveJob == Spec => []OneActiveJob
  <1>1. IInv => OneActiveJob
    BY DEF IInv, Whole, OneLive, LiveRequest, OneActiveJob
  <1>. QED BY <1>1, InvariantHolds, PTL

\* No trigger instant is launched twice, however many processes evaluate it and
\* however the clock jumps: reserveOccurrence creates its record exclusively, and
\* a failed dispatch keeps it; unless a deletion stopped half-way.
THEOREM NoOccurrenceLaunchedTwice == Spec => []LaunchedOnce
  <1>1. IInv => LaunchedOnce
    BY DEF IInv, RequestInv, Whole, OneRequest, LaunchedOnce
  <1>. QED BY <1>1, InvariantHolds, PTL

\* A dispatcher that was suspended and fenced meanwhile does not launch: its
\* beforeAdmit looks at the reservation again inside the admission.
THEOREM GivenUpStaysGivenUp == Spec => FencedIsNotLaunched
  <1>. DEFINE Launched ==
         ~interrupted => \A r \in Request : job[r] = "none" /\ job'[r] = "open" =>
            /\ schedule # None
            /\ occurrence[slotOf[r]] # None
            /\ occurrence[slotOf[r]].status = "reserved"
  <1>1. IInv /\ [Next]_vars => [Launched]_vars
    <2>. SUFFICES ASSUME IInv, [Next]_vars, ~interrupted, NEW r \in Request,
                         job[r] = "none", job'[r] = "open"
                  PROVE  schedule # None /\ Reserved(slotOf[r])
      BY DEF Reserved
    <2>1. PICK p \in Process : Admit(p) /\ r = task[p].request
      BY LaunchStep DEF IInv, LaunchChange
    <2>2. Reserved(slotOf[r]) /\ slotOf[r] # None
      BY <2>1, NoneAssumption DEF Admit, IInv, RequestInv, Whole, AdmitInv, Dispatching,
         At
    <2>3. LiveRequest(r)
      BY <2>2 DEF LiveRequest
    <2>. QED BY <2>2, <2>3 DEF IInv, Whole, GoneIsQuiet
  <1>. QED BY <1>1, InvariantHolds, PTL DEF Spec, FencedIsNotLaunched

\* No pause or resumption that was approved earlier brings a revoked schedule
\* back, and no occurrence is reserved after the revocation.
THEOREM RevocationIsPermanent == Spec => RevokedForever
  <1>1. IInv /\ [Next]_vars => [RevokedChange]_vars
    BY RevokedStep DEF IInv
  <1>. QED BY <1>1, InvariantHolds, PTL DEF Spec, RevokedForever, RevokedChange

=============================================================================
