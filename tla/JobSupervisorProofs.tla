---------------------------- MODULE JobSupervisorProofs ----------------------------
(***************************************************************************)
(* The verdict of a job is backed by its workload, an abandonment is never *)
(* undone, and the store keeps its promise about outcomes (JobOutcome),    *)
(* for any number of clients and with or without faults.                   *)
(*                                                                         *)
(* The invariant relates the four flows of the supervisor to the record:   *)
(* how far the start can be when the record is terminal (LaunchInv,        *)
(* EvidenceInv), what the finalization may rely on (FinalInv), and what is *)
(* announced while the record is open, gone or being deleted (EventInv).   *)
(***************************************************************************)
EXTENDS JobSupervisor, TLAPS

Ahead    == {"none", "boot", "announce", "listen", "fence"}
Running  == {"started", "stopping", "serving"}
Ended    == {"zero", "nonzero", "signal"}
Unstarted == {"none", "unspawnable"}

\* The start of the supervisor and its workload.
LaunchInv ==
  /\ coord = "launching" => sup = "none"
  /\ sup \in Ahead => child = "none"
  /\ sup = "spawned" => child # "none"
  /\ child \in Unstarted => ~group
  /\ closed => child \in Ended
  /\ published => sup \in Running /\ child \notin Unstarted

\* What an outcome says of the workload.
Justified(outcome) ==
  /\ outcome = "completed" => child = "zero"
  /\ outcome = "failed" => child \in {"nonzero", "signal"}

\* The finalization, which starts over a published workload that is closed.
FinalInv ==
  /\ final.pc # "none" => published /\ closed
  /\ final.pc \notin {"none", "draining"} => ~group
  /\ final.pc \in {"publish", "record"} =>
       final.outcome \in Terminal /\ Justified(final.outcome)
  /\ publishing <=> final.pc = "record"

\* A terminal record is the end of the launch, or of the finalization.
EvidenceInv ==
  /\ IsTerminal => /\ coord # "launching"
                   /\ sup \notin {"boot", "announce", "listen", "fence", "spawned"}
  /\ IsTerminal /\ ~job.result => child \in Unstarted
  /\ Exists /\ job.result =>
       /\ IsTerminal /\ Justified(job.state) /\ closed /\ ~group
       /\ final.pc \in {"notify", "done"} \/ sup = "exited"
  /\ Exists /\ job.abandoned => job.state \in Uncertain

\* The completion event and the record.
EventInv ==
  /\ publishing => Exists /\ ~job.abandoned /\ event = final.outcome
  /\ ~Exists => event = "none"
  /\ Exists /\ ~IsTerminal /\ event # "none" => publishing \/ sup = "exited"
  /\ \A c \in Client : client[c].pc = "deleting" =>
       event = "none" /\ (Exists => IsTerminal)

\* The parts of the type invariant that need no other.
FlagsOK ==
  /\ event \in Terminal \cup {"none"} /\ publishing \in BOOLEAN
  /\ coord \in {"launching", "done"} /\ ipc \in BOOLEAN
  /\ idle \in BOOLEAN /\ published \in BOOLEAN

ProcessOK ==
  /\ sup \in {"none", "boot", "announce", "listen", "fence", "spawned", "unspawned",
              "started", "stopping", "serving", "exited"}
  /\ child \in {"none", "unspawnable", "live", "zero", "nonzero", "signal"}
  /\ group \in BOOLEAN /\ closed \in BOOLEAN

IInv == TypeOK /\ LaunchInv /\ FinalInv /\ EvidenceInv /\ EventInv

-----------------------------------------------------------------------------
\* The start, the process and the group stay in step.
LEMMA LaunchStep ==
  ASSUME LaunchInv, [Next]_vars
  PROVE  LaunchInv'
  <1>1. CASE UNCHANGED <<coord, sup, child, group, closed, published>>
    BY <1>1 DEF LaunchInv
  <1>2. CASE LaunchFails
    BY <1>2 DEF LaunchFails, process, LaunchInv
  <1>3. CASE Launch
    BY <1>3 DEF Launch, process, LaunchInv, Ahead, Running
  <1>4. CASE CoordinatorCrash
    BY <1>4 DEF CoordinatorCrash, process, LaunchInv
  <1>5. CASE Boot
    BY <1>5 DEF Boot, SupervisorEnds, process, LaunchInv, Ahead, Running
  <1>6. CASE Announce
    BY <1>6 DEF Announce, SupervisorEnds, process, LaunchInv, Ahead, Running
  <1>7. CASE Listen
    BY <1>7 DEF Listen, process, LaunchInv, Ahead, Running
  <1>8. CASE Spawn
    BY <1>8 DEF Spawn, LaunchInv, Ahead, Ended, Unstarted
  <1>9. CASE Fenced
    BY <1>9 DEF Fenced, SupervisorEnds, process, LaunchInv, Ahead
  <1>10. CASE SpawnFailed
    BY <1>10 DEF SpawnFailed, SupervisorEnds, process, LaunchInv, Ahead, Running
  <1>11. CASE SpawnFailureKnown
    BY <1>11 DEF SpawnFailureKnown, process, LaunchInv, Ahead, Running
  <1>12. CASE PublishRunning
    BY <1>12 DEF PublishRunning, SupervisorEnds, process, LaunchInv, Ahead, Running,
       Unstarted
  <1>13. CASE FinishStart
    BY <1>13 DEF FinishStart, SupervisorEnds, process, LaunchInv, Ahead, Running
  <1>14. CASE FinishStop
    BY <1>14 DEF FinishStop, SupervisorEnds, process, LaunchInv, Ahead, Running
  <1>15. CASE ScopeSettles
    BY <1>15 DEF ScopeSettles, LaunchInv, Ended, Unstarted
  <1>16. CASE Close
    BY <1>16 DEF Close, LaunchInv, Ended
  <1>17. CASE IdleExit
    BY <1>17 DEF IdleExit, SupervisorEnds, process, LaunchInv, Ahead
  <1>18. CASE ChildExits
    BY <1>18 DEF ChildExits, LaunchInv, Ended, Unstarted
  <1>19. CASE GroupEnds
    BY <1>19 DEF GroupEnds, stored, LaunchInv, Ahead
  <1>20. CASE SupervisorCrash
    BY <1>20 DEF SupervisorCrash, SupervisorEnds, Up, stored, process, LaunchInv, Ahead
  <1>21. CASE RequestStop \/ RecordIntent \/ ExecuteStop \/ Acknowledge \/ ReadAfterStop
           \/ ConcludeStop \/ AwaitScope \/ AwaitStop \/ Decide \/ PublishEvent \/
           PublishOutcome \/ Notify \/ StopArrives
    BY <1>21, <1>1 DEF RequestStop, RecordIntent, ExecuteStop, Acknowledge,
       ReadAfterStop, ConcludeStop, AwaitScope, AwaitStop, Decide, PublishEvent,
       PublishOutcome, Notify, StopArrives, FinalUnchanged, StopUnchanged, process
  <1>22. ASSUME NEW c \in Client, NEW op, Observe(c, op) \/ Reconnect(c) \/ Mark(c) \/
        Abandon(c) \/ DeleteEvents(c) \/ DeleteRecord(c) \/ GiveUp(c)
    PROVE LaunchInv'
    BY <1>22, <1>1 DEF Observe, Reconnect, Mark, Abandon, DeleteEvents, DeleteRecord,
       GiveUp, ClientUnchanged, process
  <1>. QED BY <1>1, <1>2, <1>3, <1>4, <1>5, <1>6, <1>7, <1>8, <1>9, <1>10, <1>11, <1>12,
       <1>13, <1>14, <1>15, <1>16, <1>17, <1>18, <1>19, <1>20, <1>21, <1>22 DEF Next,
       StartStep, StopStep, FinalStep, Environment, ClientStep, vars, jobVars

\* A finalization that has begun keeps its group empty and its verdict justified.
LEMMA FinalStepKeeps ==
  ASSUME final \in Finalization, LaunchInv, FinalInv, [Next]_vars
  PROVE  FinalInv'
  <1>1. CASE UNCHANGED <<child, group, closed, published, final, publishing>>
    BY <1>1 DEF FinalInv, Justified
  <1>2. CASE Boot
    BY <1>2 DEF Boot, SupervisorEnds, process, FinalInit, FinalInv, Justified
  <1>3. CASE Announce
    BY <1>3 DEF Announce, SupervisorEnds, process, FinalInit, FinalInv, Justified
  <1>4. CASE Spawn
    BY <1>4 DEF Spawn, LaunchInv, FinalInv, Running
  <1>5. CASE Fenced
    BY <1>5 DEF Fenced, SupervisorEnds, FinalInit, FinalInv
  <1>6. CASE SpawnFailed
    BY <1>6 DEF SpawnFailed, SupervisorEnds, process, FinalInit, FinalInv, Justified
  <1>7. CASE PublishRunning
    BY <1>7 DEF PublishRunning, SupervisorEnds, process, FinalInit, FinalInv, Justified
  <1>8. CASE FinishStart
    BY <1>8 DEF FinishStart, SupervisorEnds, process, FinalInit, FinalInv, Justified
  <1>9. CASE FinishStop
    BY <1>9 DEF FinishStop, SupervisorEnds, process, FinalInit, FinalInv, Justified
  <1>10. CASE ScopeSettles
    BY <1>10 DEF ScopeSettles, FinalInv, Justified, Finalization
  <1>11. CASE AwaitScope
    BY <1>11 DEF AwaitScope, FinalUnchanged, process, FinalInv, Finalization
  <1>12. CASE AwaitStop
    BY <1>12 DEF AwaitStop, FinalUnchanged, process, FinalInv, Finalization
  <1>13. CASE Decide
    BY <1>13 DEF Decide, Verdict, FinalUnchanged, process, LaunchInv, FinalInv,
       Justified, Ended, Terminal
  <1>14. CASE PublishEvent
    BY <1>14 DEF PublishEvent, FinalUnchanged, process, FinalInv, Justified,
       Finalization
  <1>15. CASE PublishOutcome
    BY <1>15 DEF PublishOutcome, FinalUnchanged, process, FinalInv
  <1>16. CASE Notify
    BY <1>16 DEF Notify, FinalUnchanged, process, FinalInv
  <1>17. CASE Close
    BY <1>17 DEF Close, FinalInv
  <1>18. CASE IdleExit
    BY <1>18 DEF IdleExit, SupervisorEnds, FinalInit, FinalInv
  <1>19. CASE ChildExits
    BY <1>19 DEF ChildExits, LaunchInv, FinalInv, Ended
  <1>20. CASE GroupEnds
    BY <1>20 DEF GroupEnds, FinalInv
  <1>21. CASE SupervisorCrash
    BY <1>21 DEF SupervisorCrash, SupervisorEnds, FinalInit, FinalInv
  <1>22. CASE LaunchFails \/ Launch \/ CoordinatorCrash \/ Listen \/ SpawnFailureKnown
           \/ RequestStop \/ RecordIntent \/ ExecuteStop \/ Acknowledge \/ ReadAfterStop
           \/ ConcludeStop \/ StopArrives
    BY <1>22, <1>1 DEF LaunchFails, Launch, CoordinatorCrash, Listen, SpawnFailureKnown,
       RequestStop, RecordIntent, ExecuteStop, Acknowledge, ReadAfterStop, ConcludeStop,
       StopArrives, StopUnchanged, process
  <1>23. ASSUME NEW c \in Client, NEW op, Observe(c, op) \/ Reconnect(c) \/ Mark(c) \/
        Abandon(c) \/ DeleteEvents(c) \/ DeleteRecord(c) \/ GiveUp(c)
    PROVE FinalInv'
    BY <1>23, <1>1 DEF Observe, Reconnect, Mark, Abandon, DeleteEvents, DeleteRecord,
       GiveUp, ClientUnchanged, process
  <1>. QED BY <1>1, <1>2, <1>3, <1>4, <1>5, <1>6, <1>7, <1>8, <1>9, <1>10, <1>11, <1>12,
       <1>13, <1>14, <1>15, <1>16, <1>17, <1>18, <1>19, <1>20, <1>21, <1>22, <1>23 DEF
       Next, StartStep, StopStep, FinalStep, Environment, ClientStep, vars, jobVars

\* No step makes the record terminal without evidence, or abandons a decided job.
LEMMA EvidenceStep ==
  ASSUME job \in JobRecord \cup {NoJob}, final \in Finalization, LaunchInv, FinalInv,
         EvidenceInv, EventInv, [Next]_vars
  PROVE  EvidenceInv'
  <1>. USE NoJobAssumption
  <1>1. CASE UNCHANGED <<job, coord, sup, child, group, closed, final>>
    BY <1>1 DEF EvidenceInv, Justified, Exists, IsTerminal
  <1>2. CASE LaunchFails
    BY <1>2 DEF LaunchFails, Put, Writable, Exists, process, EvidenceInv, LaunchInv,
       Ahead, Unstarted, JobRecord
  <1>3. CASE Launch
    BY <1>3 DEF Launch, stored, EvidenceInv, Exists, IsTerminal
  <1>4. CASE CoordinatorCrash
    BY <1>4 DEF CoordinatorCrash, stored, EvidenceInv, Exists, IsTerminal
  <1>5. CASE Boot
    BY <1>5 DEF Boot, Exists, IsTerminal, stored, EvidenceInv
  <1>6. CASE Announce
    BY <1>6 DEF Announce, Put, Writable, Exists, EvidenceInv, IsTerminal, Terminal,
       JobRecord
  <1>7. CASE Listen
    BY <1>7 DEF Listen, stored, EvidenceInv, Exists, IsTerminal
  <1>8. CASE Spawn
    BY <1>8 DEF Spawn, Exists, IsTerminal, stored, EvidenceInv
  <1>9. CASE Fenced
    BY <1>9 DEF Fenced, Exists, IsTerminal, stored, EvidenceInv
  <1>10. CASE SpawnFailed
    <2>1. sup = "spawned" /\ child \in Unstarted /\ ~IsTerminal /\ coord # "launching"
      BY <1>10 DEF SpawnFailed, EvidenceInv, LaunchInv, Unstarted
    <2>2. UNCHANGED <<coord, child, group, closed>> /\ sup' \in {"unspawned", "exited"}
      BY <1>10 DEF SpawnFailed, SupervisorEnds, process
    <2>3. \/ job' = job
          \/ Exists /\ Exists' /\ ~job.abandoned /\ job' = [job EXCEPT !.state = "failed"]
      BY <1>10 DEF SpawnFailed, Put, Writable, Exists, JobRecord, States, Terminal
    <2>4. ASSUME job' = job PROVE EvidenceInv'
      BY <2>1, <2>2, <2>4 DEF EvidenceInv, Exists
    <2>5. ASSUME Exists, Exists', ~job.abandoned, job' = [job EXCEPT !.state = "failed"]
          PROVE  EvidenceInv'
      <3>1. ~job.result /\ ~job'.result /\ ~job'.abandoned /\ job'.state = "failed"
        BY <2>1, <2>5 DEF EvidenceInv, Exists
      <3>. QED BY <2>1, <2>2, <3>1, <2>5 DEF EvidenceInv, IsTerminal
    <2>. QED BY <2>3, <2>4, <2>5
  <1>11. CASE SpawnFailureKnown
    BY <1>11 DEF SpawnFailureKnown, Exists, IsTerminal, stored, process, EvidenceInv,
       Justified
  <1>12. CASE PublishRunning
    BY <1>12 DEF PublishRunning, Put, Writable, Exists, EvidenceInv, IsTerminal,
       Terminal, JobRecord
  <1>13. CASE FinishStart
    BY <1>13 DEF FinishStart, stored, process, EvidenceInv, LaunchInv, FinalInv,
       Justified, Exists, IsTerminal
  <1>14. CASE FinishStop
    BY <1>14 DEF FinishStop, SupervisorEnds, stored, process, EvidenceInv, Justified,
       Exists, IsTerminal
  <1>15. CASE RecordIntent
    BY <1>15 DEF RecordIntent, Put, Writable, Exists, StopUnchanged, process,
       EvidenceInv, Justified, IsTerminal, JobRecord
  <1>16. CASE Acknowledge
    BY <1>16 DEF Acknowledge, Put, Writable, Exists, StopUnchanged, process,
       EvidenceInv, Justified, IsTerminal, JobRecord
  <1>17. CASE ScopeSettles
    BY <1>17 DEF ScopeSettles, stored, EvidenceInv, LaunchInv, Justified, Exists,
       IsTerminal, Unstarted, Finalization
  <1>18. CASE ConcludeStop
    BY <1>18 DEF ConcludeStop, Put, Writable, Exists, StopEnds, StopUnchanged, process,
       EvidenceInv, LaunchInv, FinalInv, EventInv, Justified, IsTerminal, JobRecord,
       Finalization
  <1>19. CASE AwaitScope
    BY <1>19 DEF AwaitScope, FinalUnchanged, stored, process, EvidenceInv, Justified,
       Exists, IsTerminal
  <1>20. CASE AwaitStop
    BY <1>20 DEF AwaitStop, FinalUnchanged, stored, process, EvidenceInv, Justified,
       Exists, IsTerminal
  <1>21. CASE Decide
    BY <1>21 DEF Decide, FinalUnchanged, stored, process, EvidenceInv, Justified,
       Exists, IsTerminal
  <1>22. CASE PublishEvent
    BY <1>22 DEF PublishEvent, Exists, FinalUnchanged, process, EvidenceInv, Justified,
       IsTerminal
  <1>23. CASE PublishOutcome
    <2>1. Exists /\ ~job.abandoned /\ final.outcome \in Terminal
          /\ Justified(final.outcome) /\ ~group /\ published /\ closed
      BY <1>23 DEF PublishOutcome, EventInv, FinalInv
    <2>2. /\ Exists' /\ ~job'.abandoned /\ job'.result
          /\ job'.state = final.outcome /\ final'.pc = "notify"
      BY <1>23, <2>1 DEF PublishOutcome, Exists, JobRecord, States, Finalization
    <2>3. coord # "launching" /\ sup \in Running
      BY <2>1 DEF LaunchInv, Running
    <2>4. UNCHANGED <<coord, sup, child, group, closed>>
      BY <1>23 DEF PublishOutcome, FinalUnchanged, process
    <2>. QED BY <2>1, <2>2, <2>3, <2>4 DEF EvidenceInv, IsTerminal, Justified, Running
  <1>24. CASE Notify
    BY <1>24 DEF Notify, Exists, IsTerminal, FinalUnchanged, stored, process,
       EvidenceInv, Justified
  <1>25. CASE Close
    BY <1>25 DEF Close, stored, EvidenceInv, Exists, IsTerminal
  <1>26. CASE IdleExit
    BY <1>26 DEF IdleExit, SupervisorEnds, stored, process, EvidenceInv, Justified,
       Exists, IsTerminal
  <1>27. CASE ChildExits
    BY <1>27 DEF ChildExits, stored, EvidenceInv, LaunchInv, Exists, IsTerminal, Ended,
       Unstarted
  <1>28. CASE GroupEnds
    BY <1>28 DEF GroupEnds, stored, EvidenceInv, Exists, IsTerminal
  <1>29. CASE SupervisorCrash
    BY <1>29 DEF SupervisorCrash, SupervisorEnds, stored, process, EvidenceInv,
       Justified, Exists, IsTerminal
  <1>30. ASSUME NEW c \in Client, Mark(c) PROVE EvidenceInv'
    BY <1>30 DEF Mark, Exists, ClientUnchanged, process, EvidenceInv, Justified,
       IsTerminal, Terminal, Uncertain, JobRecord
  <1>31. ASSUME NEW c \in Client, Abandon(c) PROVE EvidenceInv'
    BY <1>31 DEF Abandon, Writable, Exists, ClientUnchanged, process, EvidenceInv,
       Justified, IsTerminal, JobRecord
  <1>32. ASSUME NEW c \in Client, DeleteRecord(c) PROVE EvidenceInv'
    BY <1>32 DEF DeleteRecord, Exists, ClientUnchanged, process, EvidenceInv, Justified,
       IsTerminal
  <1>33. CASE RequestStop \/ ExecuteStop \/ ReadAfterStop \/ StopArrives
    BY <1>33, <1>1 DEF RequestStop, ExecuteStop, ReadAfterStop, StopArrives,
       StopUnchanged, process
  <1>34. ASSUME NEW c \in Client, NEW op, Observe(c, op) \/ Reconnect(c) \/
        DeleteEvents(c) \/ GiveUp(c)
    PROVE EvidenceInv'
    BY <1>34, <1>1 DEF Observe, Reconnect, DeleteEvents, GiveUp, ClientUnchanged,
       process, stored
  <1>. QED BY <1>1, <1>2, <1>3, <1>4, <1>5, <1>6, <1>7, <1>8, <1>9, <1>10, <1>11, <1>12,
       <1>13, <1>14, <1>15, <1>16, <1>17, <1>18, <1>19, <1>20, <1>21, <1>22, <1>23,
       <1>24, <1>25, <1>26, <1>27, <1>28, <1>29, <1>30, <1>31, <1>32, <1>33, <1>34 DEF
       Next, StartStep, StopStep, FinalStep, Environment, ClientStep, vars, jobVars

\* Nothing is announced that is not about to be recorded, or was left by an exit.
LEMMA EventStep ==
  ASSUME job \in JobRecord \cup {NoJob}, final \in Finalization,
         client \in [Client -> ClientState], LaunchInv, FinalInv, EvidenceInv,
         EventInv, [Next]_vars
  PROVE  EventInv'
  <1>. USE NoJobAssumption
  <1>1. CASE UNCHANGED <<job, event, publishing, sup, final, client>>
    BY <1>1 DEF EventInv, EvidenceInv, Exists, IsTerminal
  <1>2. CASE LaunchFails
    BY <1>2 DEF LaunchFails, Put, Writable, Exists, EventInv, EvidenceInv, LaunchInv,
       FinalInv
  <1>3. CASE Launch
    BY <1>3 DEF Launch, stored, EventInv, EvidenceInv, LaunchInv, Exists
  <1>4. CASE Boot
    BY <1>4 DEF Boot, Exists, IsTerminal, SupervisorEnds, stored, EventInv
  <1>5. CASE Announce
    BY <1>5 DEF Announce, Put, Writable, Refused, Exists, SupervisorEnds, EventInv,
       EvidenceInv
  <1>6. CASE Listen
    BY <1>6 DEF Listen, stored, EventInv, EvidenceInv, FinalInv, Exists
  <1>7. CASE Spawn
    BY <1>7 DEF Spawn, Writable, stored, EventInv
  <1>8. CASE Fenced
    BY <1>8 DEF Fenced, Exists, IsTerminal, SupervisorEnds, stored, FinalInit, EventInv
  <1>9. CASE SpawnFailed
    BY <1>9 DEF SpawnFailed, Put, Writable, Exists, SupervisorEnds, EventInv,
       EvidenceInv
  <1>10. CASE SpawnFailureKnown
    BY <1>10 DEF SpawnFailureKnown, Exists, IsTerminal, stored, EventInv
  <1>11. CASE PublishRunning
    BY <1>11 DEF PublishRunning, Put, Writable, Exists, SupervisorEnds, EventInv,
       EvidenceInv
  <1>12. CASE FinishStart
    BY <1>12 DEF FinishStart, SupervisorEnds, stored, EventInv, Exists, IsTerminal
  <1>13. CASE FinishStop
    BY <1>13 DEF FinishStop, SupervisorEnds, stored, EventInv, Exists, IsTerminal
  <1>14. CASE RecordIntent
    <2>1. job' = job \/ /\ ~publishing /\ Exists /\ Exists'
                        /\ job'.state = job.state /\ job'.abandoned = job.abandoned
      BY <1>14 DEF RecordIntent, Put, Writable, Exists, JobRecord, StopStates
    <2>2. UNCHANGED <<event, publishing, sup, final, client>>
      BY <1>14 DEF RecordIntent, StopUnchanged
    <2>. QED BY <2>1, <2>2 DEF EventInv, Exists, IsTerminal
  <1>15. CASE Acknowledge
    <2>1. job' = job \/ /\ ~publishing /\ Exists /\ Exists'
                        /\ job'.state = job.state /\ job'.abandoned = job.abandoned
      BY <1>15 DEF Acknowledge, Put, Writable, Exists, JobRecord, StopStates
    <2>2. UNCHANGED <<event, publishing, sup, final, client>>
      BY <1>15 DEF Acknowledge, StopUnchanged
    <2>. QED BY <2>1, <2>2 DEF EventInv, Exists, IsTerminal
  <1>16. CASE ScopeSettles
    BY <1>16 DEF ScopeSettles, stored, EventInv, Exists, IsTerminal
  <1>17. CASE ConcludeStop
    <2>1. job' = job \/ /\ ~publishing /\ Exists /\ Exists'
                        /\ job'.state = job.state /\ job'.abandoned = job.abandoned
      BY <1>17 DEF ConcludeStop, Put, Writable, Exists, JobRecord, Conclusion,
         StopStates
    <2>2. UNCHANGED <<event, publishing, sup, final, client>>
      BY <1>17 DEF ConcludeStop, StopUnchanged
    <2>. QED BY <2>1, <2>2 DEF EventInv, Exists, IsTerminal
  <1>18. CASE AwaitScope
    BY <1>18 DEF AwaitScope, FinalUnchanged, stored, EventInv, FinalInv, Exists,
       IsTerminal
  <1>19. CASE AwaitStop
    BY <1>19 DEF AwaitStop, FinalUnchanged, stored, EventInv, FinalInv, Exists,
       IsTerminal
  <1>20. CASE Decide
    BY <1>20 DEF Decide, FinalUnchanged, stored, EventInv, FinalInv, Exists, IsTerminal
  <1>21. CASE PublishEvent
    BY <1>21 DEF PublishEvent, Writable, Exists, FinalUnchanged, EventInv, EvidenceInv,
       LaunchInv, FinalInv, Running, Finalization
  <1>22. CASE PublishOutcome
    <2>1. Exists /\ final.outcome \in Terminal /\ final.pc = "record"
      BY <1>22 DEF PublishOutcome, EventInv, FinalInv
    <2>2. Exists' /\ IsTerminal' /\ ~publishing' /\ final'.pc = "notify"
      BY <1>22, <2>1 DEF PublishOutcome, Exists, IsTerminal, JobRecord, States,
         Finalization
    <2>. QED BY <1>22, <2>1, <2>2 DEF PublishOutcome, FinalUnchanged, EventInv
  <1>23. CASE Notify
    BY <1>23 DEF Notify, Exists, IsTerminal, FinalUnchanged, stored, EventInv, FinalInv
  <1>24. CASE IdleExit
    BY <1>24 DEF IdleExit, SupervisorEnds, stored, EventInv, Exists, IsTerminal
  <1>25. CASE SupervisorCrash
    BY <1>25 DEF SupervisorCrash, SupervisorEnds, stored, EventInv, Exists, IsTerminal
  <1>26. ASSUME NEW c \in Client, NEW op \in {"reconcile", "abandon"}, Observe(c, op)
        PROVE  EventInv'
    BY <1>26 DEF Observe, Exists, ClientUnchanged, stored, EventInv
  <1>27. ASSUME NEW c \in Client, Reconnect(c) PROVE EventInv'
    BY <1>27 DEF Reconnect, Exists, Resting, ClientUnchanged, stored, EventInv,
       IsTerminal
  <1>28. ASSUME NEW c \in Client, Mark(c) PROVE EventInv'
    <2>1. job' = job \/ /\ ~publishing /\ Exists /\ Exists'
                        /\ ~IsTerminal /\ ~IsTerminal' /\ job'.abandoned = job.abandoned
      BY <1>28 DEF Mark, Exists, IsTerminal, JobRecord, States, Terminal, Uncertain
    <2>2. UNCHANGED <<event, publishing, sup, final>>
      BY <1>28 DEF Mark, ClientUnchanged
    <2>3. \/ client' = [client EXCEPT ![c] = Resting]
          \/ ClientSays(c, "abandoning", client[c].seen)
          \/ ClientSays(c, "abandoning", job')
      BY <1>28 DEF Mark
    <2>4. \A d \in Client : client'[d].pc = "deleting" => client[d].pc = "deleting"
      <3>1. CASE client' = [client EXCEPT ![c] = Resting]
        BY <3>1 DEF Resting
      <3>2. CASE ClientSays(c, "abandoning", client[c].seen)
        BY <3>2 DEF ClientSays
      <3>3. CASE ClientSays(c, "abandoning", job')
        BY <3>3 DEF ClientSays
      <3>. QED BY <2>3, <3>1, <3>2, <3>3
    <2>. QED BY <2>1, <2>2, <2>4 DEF EventInv, Exists, IsTerminal
  <1>29. ASSUME NEW c \in Client, Abandon(c) PROVE EventInv'
    <2>1. job' = job \/ /\ ~publishing /\ Exists /\ Exists'
                        /\ ~IsTerminal /\ ~IsTerminal'
      BY <1>29 DEF Abandon, Writable, Exists, IsTerminal, JobRecord, Terminal, Uncertain
    <2>2. UNCHANGED <<event, publishing, sup, final>> /\ ~publishing
      BY <1>29 DEF Abandon, ClientUnchanged
    <2>3. \A d \in Client : client'[d].pc = "deleting" => client[d].pc = "deleting"
      BY <1>29 DEF Abandon, Resting
    <2>. QED BY <2>1, <2>2, <2>3 DEF EventInv, Exists, IsTerminal
  <1>30. ASSUME NEW c \in Client, DeleteEvents(c) PROVE EventInv'
    BY <1>30 DEF DeleteEvents, IsTerminal, EventInv, EvidenceInv, LaunchInv, FinalInv,
       Running
  <1>31. ASSUME NEW c \in Client, DeleteRecord(c) PROVE EventInv'
    BY <1>31 DEF DeleteRecord, Exists, EventInv, FinalInv, IsTerminal, Terminal
  <1>32. ASSUME NEW c \in Client, GiveUp(c) PROVE EventInv'
    BY <1>32 DEF GiveUp, Resting, ClientUnchanged, stored, EventInv, Exists, IsTerminal
  <1>33. CASE CoordinatorCrash \/ RequestStop \/ ExecuteStop \/ ReadAfterStop \/ Close
           \/ ChildExits \/ GroupEnds \/ StopArrives
    BY <1>33, <1>1 DEF CoordinatorCrash, RequestStop, ExecuteStop, ReadAfterStop, Close,
       ChildExits, GroupEnds, StopArrives, StopUnchanged, stored
  <1>. QED BY <1>1, <1>2, <1>3, <1>4, <1>5, <1>6, <1>7, <1>8, <1>9, <1>10, <1>11, <1>12,
       <1>13, <1>14, <1>15, <1>16, <1>17, <1>18, <1>19, <1>20, <1>21, <1>22, <1>23,
       <1>24, <1>25, <1>26, <1>27, <1>28, <1>29, <1>30, <1>31, <1>32, <1>33 DEF Next,
       StartStep, StopStep, FinalStep, Environment, ClientStep, vars, jobVars

\* The record is well-formed, or gone.
LEMMA JobTyped ==
  ASSUME job \in JobRecord \cup {NoJob}, FinalInv, EventInv, [Next]_vars
  PROVE  job' \in JobRecord \cup {NoJob}
  <1>1. CASE UNCHANGED <<job>>
    BY <1>1
  <1>2. CASE LaunchFails
    BY <1>2 DEF LaunchFails, Put, Writable, Exists, JobRecord, States, Terminal
  <1>3. CASE Announce
    BY <1>3 DEF Announce, Put, Writable, Exists, JobRecord, States, Live
  <1>4. CASE SpawnFailed
    BY <1>4 DEF SpawnFailed, Put, Writable, Exists, JobRecord, States, Terminal
  <1>5. CASE PublishRunning
    BY <1>5 DEF PublishRunning, Put, Writable, Exists, JobRecord, States, Live
  <1>6. CASE RecordIntent
    BY <1>6 DEF RecordIntent, Put, Writable, Exists, JobRecord, StopStates
  <1>7. CASE Acknowledge
    BY <1>7 DEF Acknowledge, Put, Writable, Exists, JobRecord, StopStates
  <1>8. CASE ConcludeStop
    BY <1>8 DEF ConcludeStop, Put, Writable, Exists, Conclusion, JobRecord, StopStates
  <1>9. CASE PublishOutcome
    <2>1. Exists /\ final.outcome \in Terminal
      BY <1>9 DEF PublishOutcome, EventInv, FinalInv
    <2>. QED BY <1>9, <2>1 DEF PublishOutcome, Exists, JobRecord, States
  <1>10. ASSUME NEW c \in Client, Mark(c) PROVE job' \in JobRecord \cup {NoJob}
    BY <1>10 DEF Mark, Exists, JobRecord, States, Uncertain
  <1>11. ASSUME NEW c \in Client, Abandon(c) PROVE job' \in JobRecord \cup {NoJob}
    BY <1>11 DEF Abandon, Writable, Exists, JobRecord
  <1>12. ASSUME NEW c \in Client, DeleteRecord(c) PROVE job' \in JobRecord \cup {NoJob}
    BY <1>12 DEF DeleteRecord
  <1>13. CASE Launch \/ CoordinatorCrash \/ Boot \/ Listen \/ Spawn \/ Fenced \/
           SpawnFailureKnown \/ FinishStart \/ FinishStop \/ RequestStop \/ ExecuteStop
           \/ ScopeSettles \/ ReadAfterStop \/ AwaitScope \/ AwaitStop \/ Decide \/
           PublishEvent \/ Notify \/ Close \/ IdleExit \/ ChildExits \/ GroupEnds \/
           StopArrives \/ SupervisorCrash
    BY <1>13, <1>1 DEF Launch, CoordinatorCrash, Boot, Listen, Spawn, Fenced,
       SpawnFailureKnown, FinishStart, FinishStop, RequestStop, ExecuteStop,
       ScopeSettles, ReadAfterStop, AwaitScope, AwaitStop, Decide, PublishEvent, Notify,
       Close, IdleExit, ChildExits, GroupEnds, StopArrives, SupervisorCrash, stored
  <1>14. ASSUME NEW c \in Client, NEW op, Observe(c, op) \/ Reconnect(c) \/
        DeleteEvents(c) \/ GiveUp(c)
    PROVE job' \in JobRecord \cup {NoJob}
    BY <1>14, <1>1 DEF Observe, Reconnect, DeleteEvents, GiveUp, stored
  <1>. QED BY <1>1, <1>2, <1>3, <1>4, <1>5, <1>6, <1>7, <1>8, <1>9, <1>10, <1>11, <1>12,
       <1>13, <1>14 DEF Next, StartStep, StopStep, FinalStep, Environment, ClientStep,
       vars, jobVars

\* The stop control is well-formed.
LEMMA StopTyped ==
  ASSUME stop \in StopControl, job \in JobRecord \cup {NoJob}, [Next]_vars
  PROVE  stop' \in StopControl
  <1>0. StopInit \in StopControl
    BY DEF StopInit, StopControl
  <1>1. CASE UNCHANGED <<stop>>
    BY <1>1
  <1>2. CASE Boot
    BY <1>0, <1>2 DEF Boot, SupervisorEnds
  <1>3. CASE Announce
    BY <1>0, <1>3 DEF Announce, SupervisorEnds
  <1>4. CASE Fenced
    BY <1>0, <1>4 DEF Fenced, SupervisorEnds
  <1>5. CASE SpawnFailed
    BY <1>0, <1>5 DEF SpawnFailed, SupervisorEnds
  <1>6. CASE PublishRunning
    BY <1>0, <1>6 DEF PublishRunning, SupervisorEnds
  <1>7. CASE FinishStart
    <2>1. stop' = StopInit \/ stop' = stop \/ stop' = [stop EXCEPT !.exec = "acknowledge"]
      BY <1>7 DEF FinishStart, SupervisorEnds
    <2>2. [stop EXCEPT !.exec = "acknowledge"] \in StopControl
      BY DEF StopControl
    <2>. QED BY <1>0, <2>1, <2>2
  <1>8. CASE FinishStop
    BY <1>0, <1>8 DEF FinishStop, SupervisorEnds
  <1>9. CASE RequestStop
    BY <1>9 DEF RequestStop, StopControl
  <1>10. CASE RecordIntent
    BY <1>10 DEF RecordIntent, StopControl
  <1>11. CASE ExecuteStop
    BY <1>11 DEF ExecuteStop, StopControl
  <1>12. CASE Acknowledge
    BY <1>12 DEF Acknowledge, StopControl
  <1>13. CASE ScopeSettles
    BY <1>13 DEF ScopeSettles, StopControl
  <1>14. CASE ReadAfterStop
    BY <1>14 DEF ReadAfterStop, Exists, StopControl, JobRecord
  <1>15. CASE ConcludeStop
    <2>1. \E how \in {"done", "exhausted", "failed"} : StopEnds(how)
      BY <1>15 DEF ConcludeStop
    <2>. QED BY <2>1 DEF StopEnds, StopControl
  <1>16. CASE AwaitStop
    BY <1>16 DEF AwaitStop, StopControl
  <1>17. CASE IdleExit
    BY <1>0, <1>17 DEF IdleExit, SupervisorEnds
  <1>18. CASE StopArrives
    BY <1>18 DEF StopArrives, StopControl
  <1>19. CASE SupervisorCrash
    BY <1>0, <1>19 DEF SupervisorCrash, SupervisorEnds
  <1>20. CASE LaunchFails \/ Launch \/ CoordinatorCrash \/ Listen \/ Spawn \/
           SpawnFailureKnown \/ AwaitScope \/ Decide \/ PublishEvent \/ PublishOutcome
           \/ Notify \/ Close \/ ChildExits \/ GroupEnds
    BY <1>20, <1>1 DEF LaunchFails, Launch, CoordinatorCrash, Listen, Spawn,
       SpawnFailureKnown, AwaitScope, Decide, PublishEvent, PublishOutcome, Notify,
       Close, ChildExits, GroupEnds
  <1>21. ASSUME NEW c \in Client, NEW op, Observe(c, op) \/ Reconnect(c) \/ Mark(c) \/
        Abandon(c) \/ DeleteEvents(c) \/ DeleteRecord(c) \/ GiveUp(c)
    PROVE stop' \in StopControl
    BY <1>21, <1>1 DEF Observe, Reconnect, Mark, Abandon, DeleteEvents, DeleteRecord,
       GiveUp, ClientUnchanged
  <1>. QED BY <1>1, <1>2, <1>3, <1>4, <1>5, <1>6, <1>7, <1>8, <1>9, <1>10, <1>11, <1>12,
       <1>13, <1>14, <1>15, <1>16, <1>17, <1>18, <1>19, <1>20, <1>21 DEF Next,
       StartStep, StopStep, FinalStep, Environment, ClientStep, vars, jobVars

\* The finalization is well-formed.
LEMMA FinalTyped ==
  ASSUME final \in Finalization, [Next]_vars
  PROVE  final' \in Finalization
  <1>0. FinalInit \in Finalization
    BY DEF FinalInit, Finalization
  <1>1. CASE UNCHANGED <<final>>
    BY <1>1
  <1>2. CASE Boot
    BY <1>0, <1>2 DEF Boot, SupervisorEnds
  <1>3. CASE Announce
    BY <1>0, <1>3 DEF Announce, SupervisorEnds
  <1>4. CASE Fenced
    BY <1>0, <1>4 DEF Fenced, SupervisorEnds
  <1>5. CASE SpawnFailed
    BY <1>0, <1>5 DEF SpawnFailed, SupervisorEnds
  <1>6. CASE PublishRunning
    BY <1>0, <1>6 DEF PublishRunning, SupervisorEnds
  <1>7. CASE FinishStart
    BY <1>0, <1>7 DEF FinishStart, SupervisorEnds
  <1>8. CASE FinishStop
    BY <1>0, <1>8 DEF FinishStop, SupervisorEnds
  <1>9. CASE ScopeSettles
    BY <1>9 DEF ScopeSettles, Finalization
  <1>10. CASE AwaitScope
    BY <1>10 DEF AwaitScope, Finalization
  <1>11. CASE AwaitStop
    BY <1>11 DEF AwaitStop, Finalization
  <1>12. CASE Decide
    BY <1>12 DEF Decide, Verdict, Finalization, Terminal
  <1>13. CASE PublishEvent
    BY <1>13 DEF PublishEvent, Finalization
  <1>14. CASE PublishOutcome
    BY <1>14 DEF PublishOutcome, Finalization
  <1>15. CASE Notify
    BY <1>15 DEF Notify, Finalization
  <1>16. CASE IdleExit
    BY <1>0, <1>16 DEF IdleExit, SupervisorEnds
  <1>17. CASE SupervisorCrash
    BY <1>0, <1>17 DEF SupervisorCrash, SupervisorEnds
  <1>18. CASE LaunchFails \/ Launch \/ CoordinatorCrash \/ Listen \/ Spawn \/
           SpawnFailureKnown \/ RequestStop \/ RecordIntent \/ ExecuteStop \/
           Acknowledge \/ ReadAfterStop \/ ConcludeStop \/ Close \/ ChildExits \/
           GroupEnds \/ StopArrives
    BY <1>18, <1>1 DEF LaunchFails, Launch, CoordinatorCrash, Listen, Spawn,
       SpawnFailureKnown, RequestStop, RecordIntent, ExecuteStop, Acknowledge,
       ReadAfterStop, ConcludeStop, Close, ChildExits, GroupEnds, StopArrives,
       StopUnchanged
  <1>19. ASSUME NEW c \in Client, NEW op, Observe(c, op) \/ Reconnect(c) \/ Mark(c) \/
        Abandon(c) \/ DeleteEvents(c) \/ DeleteRecord(c) \/ GiveUp(c)
    PROVE final' \in Finalization
    BY <1>19, <1>1 DEF Observe, Reconnect, Mark, Abandon, DeleteEvents, DeleteRecord,
       GiveUp, ClientUnchanged
  <1>. QED BY <1>1, <1>2, <1>3, <1>4, <1>5, <1>6, <1>7, <1>8, <1>9, <1>10, <1>11, <1>12,
       <1>13, <1>14, <1>15, <1>16, <1>17, <1>18, <1>19 DEF Next, StartStep, StopStep,
       FinalStep, Environment, ClientStep, vars, jobVars

\* What a client is doing is well-formed, the record it read included.
LEMMA ClientTyped ==
  ASSUME client \in [Client -> ClientState], job \in JobRecord \cup {NoJob}, job' \in
         JobRecord \cup {NoJob}, [Next]_vars
  PROVE  client' \in [Client -> ClientState]
  <1>1. CASE UNCHANGED <<client>>
    BY <1>1
  <1>2. ASSUME NEW c \in Client, NEW op \in {"reconcile", "abandon"}, Observe(c, op)
        PROVE  client' \in [Client -> ClientState]
    BY <1>2 DEF Observe, ClientState
  <1>3. ASSUME NEW c \in Client, Reconnect(c) PROVE client' \in [Client -> ClientState]
    BY <1>3 DEF Reconnect, Resting, ClientState
  <1>4. ASSUME NEW c \in Client, Mark(c) PROVE client' \in [Client -> ClientState]
    <2>1. \/ client' = [client EXCEPT ![c] = Resting]
          \/ ClientSays(c, "abandoning", client[c].seen)
          \/ ClientSays(c, "abandoning", job')
      BY <1>4 DEF Mark
    <2>2. /\ Resting \in ClientState
          /\ \A seen \in JobRecord \cup {NoJob} :
               [client[c] EXCEPT !.pc = "abandoning", !.seen = seen] \in ClientState
      BY DEF Resting, ClientState
    <2>3. client[c].seen \in JobRecord \cup {NoJob}
      BY DEF ClientState
    <2>. QED BY <2>1, <2>2, <2>3 DEF ClientSays
  <1>5. ASSUME NEW c \in Client, Abandon(c) PROVE client' \in [Client -> ClientState]
    BY <1>5 DEF Abandon, Resting, ClientState
  <1>6. ASSUME NEW c \in Client, DeleteEvents(c) PROVE client' \in [Client -> ClientState]
    BY <1>6 DEF DeleteEvents, ClientState
  <1>7. ASSUME NEW c \in Client, DeleteRecord(c) PROVE client' \in [Client -> ClientState]
    BY <1>7 DEF DeleteRecord, Resting, ClientState
  <1>8. ASSUME NEW c \in Client, GiveUp(c) PROVE client' \in [Client -> ClientState]
    BY <1>8 DEF GiveUp, Resting, ClientState
  <1>9. CASE LaunchFails \/ Launch \/ CoordinatorCrash \/ Boot \/ Announce \/ Listen \/
           Spawn \/ Fenced \/ SpawnFailed \/ SpawnFailureKnown \/ PublishRunning \/
           FinishStart \/ FinishStop \/ RequestStop \/ RecordIntent \/ ExecuteStop \/
           Acknowledge \/ ScopeSettles \/ ReadAfterStop \/ ConcludeStop \/ AwaitScope \/
           AwaitStop \/ Decide \/ PublishEvent \/ PublishOutcome \/ Notify \/ Close \/
           IdleExit \/ ChildExits \/ GroupEnds \/ StopArrives \/ SupervisorCrash
    BY <1>9, <1>1 DEF LaunchFails, Launch, CoordinatorCrash, Boot, Announce, Listen,
       Spawn, Fenced, SpawnFailed, SpawnFailureKnown, PublishRunning, FinishStart,
       FinishStop, RequestStop, RecordIntent, ExecuteStop, Acknowledge, ScopeSettles,
       ReadAfterStop, ConcludeStop, AwaitScope, AwaitStop, Decide, PublishEvent,
       PublishOutcome, Notify, Close, IdleExit, ChildExits, GroupEnds, StopArrives,
       SupervisorCrash, FinalUnchanged, StopUnchanged
  <1>. QED BY <1>1, <1>2, <1>3, <1>4, <1>5, <1>6, <1>7, <1>8, <1>9 DEF Next, StartStep,
              StopStep, FinalStep, Environment, ClientStep, vars, jobVars

-----------------------------------------------------------------------------

\* The rest of the type invariant.
LEMMA FlagsTyped ==
  ASSUME final \in Finalization, FlagsOK, [Next]_vars
  PROVE  FlagsOK'
  <1>1. CASE UNCHANGED <<event, publishing, coord, ipc, idle, published>>
    BY <1>1 DEF FlagsOK
  <1>2. CASE LaunchFails
    BY <1>2 DEF LaunchFails, FlagsOK
  <1>3. CASE Launch
    BY <1>3 DEF Launch, stored, FlagsOK
  <1>4. CASE CoordinatorCrash
    BY <1>4 DEF CoordinatorCrash, stored, FlagsOK
  <1>5. CASE Boot
    BY <1>5 DEF Boot, SupervisorEnds, stored, FlagsOK
  <1>6. CASE Announce
    BY <1>6 DEF Announce, SupervisorEnds, FlagsOK
  <1>7. CASE Listen
    BY <1>7 DEF Listen, stored, FlagsOK
  <1>8. CASE Fenced
    BY <1>8 DEF Fenced, SupervisorEnds, stored, FlagsOK
  <1>9. CASE SpawnFailed
    BY <1>9 DEF SpawnFailed, SupervisorEnds, FlagsOK
  <1>10. CASE SpawnFailureKnown
    BY <1>10 DEF SpawnFailureKnown, IsTerminal, stored, FlagsOK
  <1>11. CASE PublishRunning
    BY <1>11 DEF PublishRunning, SupervisorEnds, FlagsOK
  <1>12. CASE FinishStart
    BY <1>12 DEF FinishStart, SupervisorEnds, stored, FlagsOK
  <1>13. CASE FinishStop
    BY <1>13 DEF FinishStop, SupervisorEnds, stored, FlagsOK
  <1>14. CASE PublishEvent
    BY <1>14 DEF PublishEvent, FinalUnchanged, FlagsOK, Finalization
  <1>15. CASE PublishOutcome
    BY <1>15 DEF PublishOutcome, FinalUnchanged, FlagsOK
  <1>16. CASE Notify
    BY <1>16 DEF Notify, FinalUnchanged, stored, FlagsOK
  <1>17. CASE IdleExit
    BY <1>17 DEF IdleExit, SupervisorEnds, stored, FlagsOK
  <1>18. CASE SupervisorCrash
    BY <1>18 DEF SupervisorCrash, SupervisorEnds, stored, FlagsOK
  <1>19. ASSUME NEW c \in Client, DeleteEvents(c) PROVE FlagsOK'
    BY <1>19 DEF DeleteEvents, ClientUnchanged, FlagsOK
  <1>20. CASE Spawn \/ RequestStop \/ RecordIntent \/ ExecuteStop \/ Acknowledge \/
           ScopeSettles \/ ReadAfterStop \/ ConcludeStop \/ AwaitScope \/ AwaitStop \/
           Decide \/ Close \/ ChildExits \/ GroupEnds \/ StopArrives
    BY <1>20, <1>1 DEF Spawn, RequestStop, RecordIntent, ExecuteStop, Acknowledge,
       ScopeSettles, ReadAfterStop, ConcludeStop, AwaitScope, AwaitStop, Decide, Close,
       ChildExits, GroupEnds, StopArrives, FinalUnchanged, StopUnchanged, stored
  <1>21. ASSUME NEW c \in Client, NEW op, Observe(c, op) \/ Reconnect(c) \/ Mark(c) \/
        Abandon(c) \/ DeleteRecord(c) \/ GiveUp(c)
    PROVE FlagsOK'
    BY <1>21, <1>1 DEF Observe, Reconnect, Mark, Abandon, DeleteRecord, GiveUp,
       ClientUnchanged, stored
  <1>. QED BY <1>1, <1>2, <1>3, <1>4, <1>5, <1>6, <1>7, <1>8, <1>9, <1>10, <1>11, <1>12,
       <1>13, <1>14, <1>15, <1>16, <1>17, <1>18, <1>19, <1>20, <1>21 DEF Next,
       StartStep, StopStep, FinalStep, Environment, ClientStep, vars, jobVars

LEMMA ProcessTyped ==
  ASSUME ProcessOK, [Next]_vars
  PROVE  ProcessOK'
  <1>1. CASE UNCHANGED <<sup, child, group, closed>>
    BY <1>1 DEF ProcessOK
  <1>2. CASE Launch
    BY <1>2 DEF Launch, process, ProcessOK
  <1>3. CASE Boot
    BY <1>3 DEF Boot, SupervisorEnds, process, ProcessOK
  <1>4. CASE Announce
    BY <1>4 DEF Announce, SupervisorEnds, process, ProcessOK
  <1>5. CASE Listen
    BY <1>5 DEF Listen, process, ProcessOK
  <1>6. CASE Spawn
    BY <1>6 DEF Spawn, ProcessOK
  <1>7. CASE Fenced
    BY <1>7 DEF Fenced, SupervisorEnds, process, ProcessOK
  <1>8. CASE SpawnFailed
    BY <1>8 DEF SpawnFailed, SupervisorEnds, process, ProcessOK
  <1>9. CASE SpawnFailureKnown
    BY <1>9 DEF SpawnFailureKnown, process, ProcessOK
  <1>10. CASE PublishRunning
    BY <1>10 DEF PublishRunning, SupervisorEnds, process, ProcessOK
  <1>11. CASE FinishStart
    BY <1>11 DEF FinishStart, SupervisorEnds, process, ProcessOK
  <1>12. CASE FinishStop
    BY <1>12 DEF FinishStop, SupervisorEnds, process, ProcessOK
  <1>13. CASE ScopeSettles
    BY <1>13 DEF ScopeSettles, ProcessOK
  <1>14. CASE Close
    BY <1>14 DEF Close, ProcessOK
  <1>15. CASE IdleExit
    BY <1>15 DEF IdleExit, SupervisorEnds, process, ProcessOK
  <1>16. CASE ChildExits
    BY <1>16 DEF ChildExits, ProcessOK
  <1>17. CASE GroupEnds
    BY <1>17 DEF GroupEnds, ProcessOK
  <1>18. CASE SupervisorCrash
    BY <1>18 DEF SupervisorCrash, SupervisorEnds, process, ProcessOK
  <1>19. CASE LaunchFails \/ CoordinatorCrash \/ RequestStop \/ RecordIntent \/
           ExecuteStop \/ Acknowledge \/ ReadAfterStop \/ ConcludeStop \/ AwaitScope \/
           AwaitStop \/ Decide \/ PublishEvent \/ PublishOutcome \/ Notify \/
           StopArrives
    BY <1>19, <1>1 DEF LaunchFails, CoordinatorCrash, RequestStop, RecordIntent,
       ExecuteStop, Acknowledge, ReadAfterStop, ConcludeStop, AwaitScope, AwaitStop,
       Decide, PublishEvent, PublishOutcome, Notify, StopArrives, FinalUnchanged,
       StopUnchanged, process
  <1>20. ASSUME NEW c \in Client, NEW op, Observe(c, op) \/ Reconnect(c) \/ Mark(c) \/
        Abandon(c) \/ DeleteEvents(c) \/ DeleteRecord(c) \/ GiveUp(c)
    PROVE ProcessOK'
    BY <1>20, <1>1 DEF Observe, Reconnect, Mark, Abandon, DeleteEvents, DeleteRecord,
       GiveUp, ClientUnchanged, process
  <1>. QED BY <1>1, <1>2, <1>3, <1>4, <1>5, <1>6, <1>7, <1>8, <1>9, <1>10, <1>11, <1>12,
       <1>13, <1>14, <1>15, <1>16, <1>17, <1>18, <1>19, <1>20 DEF Next, StartStep,
       StopStep, FinalStep, Environment, ClientStep, vars, jobVars

\* The invariant holds in every behaviour, lives with faults included.
LEMMA Invariance == Spec => []IInv
  <1>1. Init => IInv
    <2> SUFFICES ASSUME Init PROVE IInv
      OBVIOUS
    <2>1. job = NewJob /\ NewJob \in JobRecord
      BY DEF Init, NewJob, JobRecord, States, StopStates, Live
    <2>2. Exists /\ ~IsTerminal
      BY <2>1, NoJobAssumption DEF NewJob, Exists, IsTerminal, Terminal
    <2>3. StopInit \in StopControl /\ FinalInit \in Finalization
          /\ Resting \in ClientState
      BY DEF StopInit, StopControl, FinalInit, Finalization, Resting, ClientState
    <2>4. TypeOK
      BY <2>1, <2>3, FaultsAssumption DEF Init, TypeOK
    <2>5. LaunchInv /\ FinalInv
      BY DEF Init, FinalInit, LaunchInv, FinalInv
    <2>6. EvidenceInv /\ EventInv
      BY <2>1, <2>2 DEF Init, NewJob, Resting, EvidenceInv, EventInv
    <2>. QED BY <2>4, <2>5, <2>6 DEF IInv
  <1>2. IInv /\ [Next]_vars => IInv'
    <2> SUFFICES ASSUME IInv, [Next]_vars PROVE IInv'
      OBVIOUS
    <2>1. /\ job \in JobRecord \cup {NoJob} /\ stop \in StopControl
          /\ final \in Finalization /\ client \in [Client -> ClientState]
          /\ LaunchInv /\ FinalInv /\ EvidenceInv /\ EventInv
      BY DEF IInv, TypeOK
    <2>2. job' \in JobRecord \cup {NoJob}
      BY <2>1, JobTyped
    <2>3. TypeOK'
      <3>1. stop' \in StopControl /\ final' \in Finalization
        BY <2>1, StopTyped, FinalTyped
      <3>2. client' \in [Client -> ClientState]
        BY <2>1, <2>2, ClientTyped
      <3>3. FlagsOK' /\ ProcessOK'
        BY <2>1, FlagsTyped, ProcessTyped DEF IInv, TypeOK, FlagsOK, ProcessOK
      <3>4. faulty' \in Faults
        BY DEF IInv, TypeOK, Next, vars
      <3>. QED BY <2>2, <3>1, <3>2, <3>3, <3>4 DEF TypeOK, FlagsOK, ProcessOK
    <2>4. LaunchInv' /\ FinalInv'
      BY <2>1, LaunchStep, FinalStepKeeps
    <2>5. EvidenceInv' /\ EventInv'
      BY <2>1, EvidenceStep, EventStep
    <2>. QED BY <2>3, <2>4, <2>5 DEF IInv
  <1>. QED BY <1>1, <1>2, PTL DEF Spec

-----------------------------------------------------------------------------
\* Every variable holds values of its type: the record is well-formed whenever
\* it exists, and so are the supervisor's controls and what a client read.
THEOREM ControlsAreTyped == Spec => []TypeOK
  <1>1. IInv => TypeOK
    BY DEF IInv
  <1>. QED BY <1>1, Invariance, PTL

\* A terminal state is backed by what happened to the workload, through every
\* race of the exit with a stop, a reconciliation or a crash.
THEOREM VerdictsHaveEvidence == Spec => []VerdictHasEvidence
  <1>1. IInv => VerdictHasEvidence
    BY DEF IInv, EvidenceInv, VerdictHasEvidence, IsTerminal, Justified, Unstarted
  <1>. QED BY <1>1, Invariance, PTL

-----------------------------------------------------------------------------
\* What an abandonment forbids.
Untouched == job' = job /\ event' = event /\ (child' = "live" => child = "live")

\* An abandoned record can only be met by updates that are refused, a deletion
\* that skips it, and a finalization that publishes nothing.
LEMMA TombstoneStep ==
  ASSUME Exists, job.abandoned, LaunchInv, FinalInv, EvidenceInv, EventInv, [Next]_vars
  PROVE  Untouched
  <1>1. CASE UNCHANGED <<job, event, child>>
    BY <1>1 DEF Untouched
  <1>2. CASE LaunchFails
    BY <1>2 DEF LaunchFails, Put, Writable, process, Untouched
  <1>3. CASE Announce
    BY <1>3 DEF Announce, Put, Writable, process, Untouched
  <1>4. CASE Spawn
    BY <1>4 DEF Spawn, Writable
  <1>5. CASE SpawnFailed
    BY <1>5 DEF SpawnFailed, Put, Writable, process, Untouched
  <1>6. CASE PublishRunning
    BY <1>6 DEF PublishRunning, Put, Writable, process, Untouched
  <1>7. CASE RecordIntent
    BY <1>7 DEF RecordIntent, Put, Writable, StopUnchanged, process, Untouched
  <1>8. CASE Acknowledge
    BY <1>8 DEF Acknowledge, Put, Writable, StopUnchanged, process, Untouched
  <1>9. CASE ScopeSettles
    BY <1>9 DEF ScopeSettles, stored, Untouched
  <1>10. CASE ConcludeStop
    BY <1>10 DEF ConcludeStop, Put, Writable, StopUnchanged, process, Untouched
  <1>11. CASE PublishEvent
    BY <1>11 DEF PublishEvent, Writable, FinalUnchanged, process, Untouched
  <1>12. CASE PublishOutcome
    BY <1>12 DEF PublishOutcome, FinalInv, EventInv
  <1>13. CASE ChildExits
    BY <1>13 DEF ChildExits, stored, Untouched
  <1>14. ASSUME NEW c \in Client, Mark(c) PROVE Untouched
    BY <1>14 DEF Mark, Writable, ClientUnchanged, process, Untouched
  <1>15. ASSUME NEW c \in Client, Abandon(c) PROVE Untouched
    BY <1>15 DEF Abandon, Writable, ClientUnchanged, process, Untouched
  <1>16. ASSUME NEW c \in Client, DeleteEvents(c) PROVE Untouched
    BY <1>16 DEF DeleteEvents, IsTerminal, EvidenceInv, Terminal, Uncertain
  <1>17. ASSUME NEW c \in Client, DeleteRecord(c) PROVE Untouched
    BY <1>17 DEF DeleteRecord, ClientUnchanged, process, Untouched
  <1>18. CASE Launch \/ CoordinatorCrash \/ Boot \/ Listen \/ Fenced \/
           SpawnFailureKnown \/ FinishStart \/ FinishStop \/ RequestStop \/ ExecuteStop
           \/ ReadAfterStop \/ AwaitScope \/ AwaitStop \/ Decide \/ Notify \/ Close \/
           IdleExit \/ GroupEnds \/ StopArrives \/ SupervisorCrash
    BY <1>18, <1>1 DEF Launch, CoordinatorCrash, Boot, Listen, Fenced,
       SpawnFailureKnown, FinishStart, FinishStop, RequestStop, ExecuteStop,
       ReadAfterStop, AwaitScope, AwaitStop, Decide, Notify, Close, IdleExit, GroupEnds,
       StopArrives, SupervisorCrash, FinalUnchanged, StopUnchanged, process, stored
  <1>19. ASSUME NEW c \in Client, NEW op, Observe(c, op) \/ Reconnect(c) \/ GiveUp(c)
    PROVE Untouched
    BY <1>19, <1>1 DEF Observe, Reconnect, GiveUp, ClientUnchanged, process, stored
  <1>. QED BY <1>1, <1>2, <1>3, <1>4, <1>5, <1>6, <1>7, <1>8, <1>9, <1>10, <1>11, <1>12,
       <1>13, <1>14, <1>15, <1>16, <1>17, <1>18, <1>19 DEF Next, StartStep, StopStep,
       FinalStep, Environment, ClientStep, vars, jobVars

\* Once an operator abandoned the job, its record is never written again, no
\* completion event appears, and no workload is started for it.
THEOREM AbandonmentIsFinal == Spec => AbandonedIsFinal
  <1>1. IInv /\ [Next]_vars => [Exists /\ job.abandoned => Untouched]_vars
    BY TombstoneStep DEF IInv
  <1>. QED BY <1>1, Invariance, PTL DEF Spec, AbandonedIsFinal, Untouched

-----------------------------------------------------------------------------
\* What a reader of the store sees of the job, and how it may change.
Shown == IF ~Exists THEN "deleted"
         ELSE IF job.abandoned THEN "abandoned"
         ELSE IF job.state \in Terminal THEN job.state ELSE "open"

Move ==
  \/ Shown' = Shown /\ event' = event
  \/ Shown = "open" /\ event = "none" /\ Shown' = "failed" /\ event' = event
  \/ Shown = "open" /\ Shown' = "abandoned" /\ event' = event
  \/ Shown \in Terminal /\ event' = "none" /\ Shown' \in {Shown, "deleted"}
  \/ Shown = "open" /\ event = "none" /\ event' \in Terminal /\ Shown' = Shown
  \/ Shown = "open" /\ event \in Terminal /\ Shown' = event /\ event' = event

\* Every step is one of the moves the store allows, or shows nothing.
LEMMA ShownStep ==
  ASSUME job \in JobRecord \cup {NoJob}, final \in Finalization, LaunchInv, FinalInv,
         EvidenceInv, EventInv, [Next]_vars
  PROVE  Move
  <1>. USE NoJobAssumption
  <1>1. CASE UNCHANGED <<job, event>>
    BY <1>1 DEF Move, Shown, Exists
  <1>2. CASE LaunchFails
    BY <1>2 DEF LaunchFails, Put, Writable, Exists, Move, Shown, EvidenceInv, LaunchInv,
       EventInv, IsTerminal, Terminal, JobRecord, States
  <1>3. CASE Announce
    <2>1. \/ job' = job
          \/ /\ Exists /\ ~job.abandoned /\ ~IsTerminal
             /\ Exists' /\ ~job'.abandoned /\ job'.state = "starting"
      <3>1. ~IsTerminal
        BY <1>3 DEF Announce, EvidenceInv
      <3>2. \/ job' = job
            \/ Writable /\ job' = [job EXCEPT !.state = "starting", !.nonce = TRUE]
        BY <1>3 DEF Announce, Put
      <3>3. Exists => [job EXCEPT !.state = "starting", !.nonce = TRUE] \in JobRecord
        BY DEF Exists, JobRecord, States, Live
      <3>. QED BY <3>1, <3>2, <3>3 DEF Writable, Exists, JobRecord
    <2>. QED BY <1>3, <2>1 DEF Announce, Move, Shown, Exists, IsTerminal, Terminal
  <1>4. CASE SpawnFailed
    BY <1>4 DEF SpawnFailed, Put, Writable, Exists, Move, Shown, EvidenceInv, EventInv,
       IsTerminal, Terminal, JobRecord, States
  <1>5. CASE PublishRunning
    BY <1>5 DEF PublishRunning, Put, Writable, Exists, Move, Shown, EvidenceInv,
       IsTerminal, Terminal, JobRecord, States, Live
  <1>6. CASE RecordIntent
    BY <1>6 DEF RecordIntent, Put, Writable, Exists, StopUnchanged, Move, Shown,
       JobRecord, StopStates
  <1>7. CASE Acknowledge
    BY <1>7 DEF Acknowledge, Put, Writable, Exists, StopUnchanged, Move, Shown,
       JobRecord, StopStates
  <1>8. CASE ConcludeStop
    BY <1>8 DEF ConcludeStop, Put, Writable, Exists, Conclusion, StopUnchanged, Move,
       Shown, JobRecord, StopStates
  <1>9. CASE PublishEvent
    BY <1>9 DEF PublishEvent, Writable, Exists, Move, Shown, EvidenceInv, LaunchInv,
       FinalInv, EventInv, IsTerminal, Running
  <1>10. CASE PublishOutcome
    BY <1>10 DEF PublishOutcome, Move, Shown, EvidenceInv, LaunchInv, FinalInv,
       EventInv, Exists, IsTerminal, Running, JobRecord, States
  <1>11. ASSUME NEW c \in Client, Mark(c) PROVE Move
    BY <1>11 DEF Mark, Exists, Move, Shown, Terminal, Uncertain, JobRecord, States
  <1>12. ASSUME NEW c \in Client, Abandon(c) PROVE Move
    <2>1. \/ job' = job
          \/ /\ Exists /\ ~job.abandoned /\ job.state \in Uncertain
             /\ Exists' /\ job'.abandoned
      BY <1>12 DEF Abandon, Writable, Exists, JobRecord
    <2>. QED BY <1>12, <2>1 DEF Abandon, Move, Shown, Exists, Terminal, Uncertain
  <1>13. ASSUME NEW c \in Client, DeleteEvents(c) PROVE Move
    BY <1>13 DEF DeleteEvents, IsTerminal, Move, Shown, EvidenceInv, Terminal, Uncertain
  <1>14. ASSUME NEW c \in Client, DeleteRecord(c) PROVE Move
    BY <1>14 DEF DeleteRecord, Exists, Move, Shown, EventInv, IsTerminal
  <1>15. CASE Launch \/ CoordinatorCrash \/ Boot \/ Listen \/ Spawn \/ Fenced \/
           SpawnFailureKnown \/ FinishStart \/ FinishStop \/ RequestStop \/ ExecuteStop
           \/ ScopeSettles \/ ReadAfterStop \/ AwaitScope \/ AwaitStop \/ Decide \/
           Notify \/ Close \/ IdleExit \/ ChildExits \/ GroupEnds \/ StopArrives \/
           SupervisorCrash
    BY <1>15, <1>1 DEF Launch, CoordinatorCrash, Boot, Listen, Spawn, Fenced,
       SpawnFailureKnown, FinishStart, FinishStop, RequestStop, ExecuteStop,
       ScopeSettles, ReadAfterStop, AwaitScope, AwaitStop, Decide, Notify, Close,
       IdleExit, ChildExits, GroupEnds, StopArrives, SupervisorCrash, StopUnchanged,
       stored
  <1>16. ASSUME NEW c \in Client, NEW op, Observe(c, op) \/ Reconnect(c) \/ GiveUp(c)
    PROVE Move
    BY <1>16, <1>1 DEF Observe, Reconnect, GiveUp, stored
  <1>. QED BY <1>1, <1>2, <1>3, <1>4, <1>5, <1>6, <1>7, <1>8, <1>9, <1>10, <1>11, <1>12,
       <1>13, <1>14, <1>15, <1>16 DEF Next, StartStep, StopStep, FinalStep, Environment,
       ClientStep, vars, jobVars

\* The supervisor, the coordinator and the clients together keep the promise of
\* the store: one outcome, announced before it is recorded, never contradicted.
THEOREM StoreKeepsItsPromise == Spec => ImplementsJobOutcome
  <1>1. Init => Outcomes!Init
    <2> SUFFICES ASSUME Init PROVE Outcomes!Init
      OBVIOUS
    <2>1. NewJob \in JobRecord
      BY DEF NewJob, JobRecord, States, StopStates, Live
    <2>2. Exists /\ job = NewJob
      BY <2>1, NoJobAssumption DEF Init, Exists
    <2>. QED BY <2>2 DEF Init, NewJob, Outcomes!Init, Terminal
  <1>2. IInv /\ [Next]_vars => [Outcomes!Next]_(Outcomes!vars)
    <2> SUFFICES ASSUME IInv, [Next]_vars PROVE [Outcomes!Next]_(Outcomes!vars)
      OBVIOUS
    <2>1. Move
      BY ShownStep DEF IInv, TypeOK
    <2>. QED BY <2>1 DEF Move, Shown, Outcomes!Next, Outcomes!vars, Outcomes!Fail,
                Outcomes!Abandon, Outcomes!Forget, Outcomes!Announce, Outcomes!Decide
  <1>. QED BY <1>1, <1>2, Invariance, PTL DEF Spec, ImplementsJobOutcome, Outcomes!Spec

=============================================================================
