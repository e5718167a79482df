# A verification development for agav

agav is a terminal coding agent. Most of its 999 files talk to a user, to a
model or to an external service; what has to be *correct under concurrency* is

* the background-job subsystem (`src/source/background-jobs`) and, on top of it,
  the workflow engine (`src/source/workflows`): several agav processes run at the
  same time on one machine (interactive sessions, `agav job` commands, detached
  supervisors, workflow runners, the unattended daemon), share nothing but files,
  and may be suspended or killed at any point;
* the turn of an interactive session (`src/source/agent`, `hooks/use-agent.ts`): the
  agent's loop, its subagents, their prompts and the keyboard, interleaved in one
  event loop;
* the delivery of a subagent's work into the checkout in which the user works too
  (`utils/worktree.ts`): a long sequence of git commands.

This directory models these parts.

All paths below are relative to `src/source/` unless they start with `docs/`.

## 1. Inventory

| Component | State it keeps | Operations | Interacts with | What is hard | What makes it correct |
|---|---|---|---|---|---|
| Single-writer locks (`storage/single-writer-lock.ts`, `platform/posix-common.ts`) | lock file, guard file, retirement claims, quarantine | acquire, release, recover a stale lock | everything that writes | a delayed recoverer, reused process ids and inodes, a crash at any step | exclusive; a live owner's file is never removed; stale locks are recovered |
| Coordinator admission (`coordinator/service.ts`, `admission.ts`, `launcher.ts`) | launch specifications by request id, job records | `start`, `deleteJob`, `abandonJob` | lock, supervisor, schedule engine | repeated requests, a crash between two writes, capacity | a request runs once; its specification stays; limits hold |
| Supervisor (`supervisor/lifecycle.ts`, `entry.ts`) | in memory: child, flows, stop control; on disk: job record, completion event | start, stop, finalize, serve, idle exit | coordinator (launch), clients (IPC, record), operating system | exit before publication, stop before start, descendants outliving the child, abandonment at any time | outcomes are true, unique, published; stops are carried out |
| Reconciliation (`recovery/reconcile.ts`) | none | `reconcileJob`, called by every reader of a job | record, IPC | deciding on a read that is stale when it is written | never overrules a supervisor or an operator |
| Schedule engine (`schedule/engine.ts`, `ownership.ts`, `occurrence-reservation.ts`) | schedule records, occurrence records | evaluate, fence, pause, resume, revoke, delete | admission, grants, locks | dispatchers suspended between reservation and launch, deletions in between | one active job; one launch per occurrence; revocation is final |
| Record repositories (`storage/repositories.ts`) | JSON files | create, update, delete, list | all of the above | updates that read and write without a lock | see the modules that use them |
| Completion mailbox (`mailbox/`) | events, acknowledgements, claims | poll, claim, acknowledge, subscribe | supervisor (events), deletion | two clients presenting one event, deletion under a claim | every completion is presented, to one client at a time |
| Authorization (`authorization/`) | grants | authorize, revoke, revalidate before dispatch | coordinator, schedules, the user | a revocation during a prompt or a dispatch | nothing runs on a revoked or different grant |
| Unattended daemon (`host/daemon.ts`) | daemon lock, timers | start, tick, stop | schedule engine, OS signals | stop during start, restart during stop | one daemon; a stop stops it |
| Supervisor IPC (`ipc/`) | connections, pending requests | hello, request, reply, close | supervisor, clients | timeouts against late replies, disconnects | a reply answers its own request |
| Logs (`logging/`) | segments, cursor | write, rotate, read, follow | supervisor, readers | rotation under a reader | nothing twice, losses are announced |
| Launch specification (`launch-spec/`), cron (`schedule/cron.ts`) | none | pure functions | coordinator, schedules | calendars, time zones | reference semantics |
| Workflow engine (`workflows/`) | run records, decisions, checkpoints | launch, run, park, decide, cancel, reconcile | jobs, locks, user | decisions made while a runner parks, relaunches judged from unlocked reads, cancellation, deadlines | one runner; what is saved reads back; a tool that was interrupted runs again only when that is approved; decisions are applied; the end is final |
| Agent loop (`agent/loop.ts`, `confirmation-queue.ts`) | conversation, shared iteration budget, confirmation queue | provider call, confirmation, parallel batch, reminder, end | user, tools, subagents | cancels at any await, edits and checks in one batch, prompts of several agents | every prompt is answered, by a key meant for it; calls and results are paired; no unverified edit goes unmentioned |
| Interactive session (`hooks/use-agent.ts`, `app.tsx`) | turn, pause, permission mode, displayed prompt | start and end of a turn, pause, cancel, answer | agent loop, user | the screen lags behind the queue; pause, then cancel | a turn ends, a cancel is carried out |
| Subagent tool, worktrees (`tools/subagent.ts`, `utils/worktree.ts`) | worktree and branch of each worker, working directory of the process | create, enter, commit, merge, roll back, remove | git, the user's checkout, other workers | the user and other workers commit between check and merge, a cancel during the merge | nothing of the user's or of another worker is lost; what is reported is so |
| UI, commands, CLI | React state | - | everything | - | - |
| MCP, account, agents/skills/plugins, tools, providers, configuration, enterprise policy, auto-update, voice, scripts | files, connections | - | external services | - | - |

`PROJECT.json` lists each of them with its sources and status, and, under
"hazards", what is hard to test in this code, at the line where it bites.

## 2. Modules

| Module | Models | Role |
|---|---|---|
| `LockService` | what `withJobLock` / `withCoordinatorLock` promise | abstract specification |
| `FileLock` | the lock-file protocol on directory entries and inodes | implements `LockService` |
| `MCFileLock`, `FileLockProofs`, `LockServiceProofs` | instance; proofs of the protocol, and of the refinement | |
| `JobOutcome` | what the store promises about the outcome of a job | abstract specification |
| `JobSupervisor` | one job: launch, supervisor, workload, reconciling/abandoning/deleting clients | implements `JobOutcome` |
| `JobSupervisorProofs` | proofs, the refinement included | |
| `Admission` | start / delete / abandon as transactions of many processes | |
| `MCAdmission`, `AdmissionProofs` | instance; proofs | |
| `ScheduleEngine` | evaluation, fencing and administration of one schedule | on the promise of `Admission` |
| `MCScheduleEngine`, `ScheduleEngineProofs` | instance; proofs | |
| `WorkflowNodes` | the scheduler's view of a run's nodes: which may run, what a reader of the record accepts | operators of `WorkflowRun` |
| `WorkflowRun` | one background workflow run: runner attempts, jobs, reconciling, launching, deciding and cancelling sessions | on the promise of `Admission` |
| `MCWorkflowRun`, `WorkflowRunProofs` | instance; proofs | |
| `ConfirmationQueue` | the methods of the confirmation queue | steps of `AgentTurn` |
| `AgentTurn` | the turns of a session: main loop, subagents, prompts, keyboard | |
| `MCAgentTurn`, `AgentTurnProofs` | instances; proofs | |
| `WorktreeDelivery` | subagent branches, the checkout, the user | |
| `MCWorktreeDelivery`, `WorktreeDeliveryProofs` | instance; proofs | |

They compose by their promises rather than by one product of all of them:
`FileLock` is shown to implement `LockService`, and the other modules use a lock
as a variable that is taken, released, and freed when its holder dies, which is
what `LockService` says (`Recover` merged with `Abandon`: a caller that waits
cannot tell them apart). `ScheduleEngine` sees admission as "the job of my
request is created at most once, or I am told that it failed", which `Admission`
establishes (`OneUnfinishedJob`); `Admission` sees the supervisor as a writer of the
job record that is fenced by an abandoned record, which `JobSupervisor`
establishes (`AbandonedIsFinal`). `WorkflowRun` sees a job as something that is live,
then ended, or out of sight; a repeated request id of a runner attempt starts one job
(`OneUnfinishedJob`). `AgentTurn` sees the delivery of a worker's branch as one step that
ends (`Delivers`); `WorktreeDelivery` is what happens inside it.

### FileLock

`at[path]` is the directory entry of the lock and of the guard, `claim[path][i]`
the hard link `<path>.retire-<dev>-<ino>`, `content[i]` the holder record in an inode,
`own` the handle a task keeps open, `snap` what a recoverer read. An inode is free for
reuse exactly when no entry and no open handle refers to it (`InUse`).

| Action | Code |
|---|---|
| `Acquire`, `Contend`, `Retry`, `WriteHolder`, `WriteFails`, `Release` | `acquireWithStaleRecovery`, `acquireExclusiveLockPosix` |
| `TakeGuard`, `GuardBusy`, `ReadGuard`, `ReadLock`, `Probe`, `ReleaseGuard` | `tryRecoverStaleLock` |
| `Claim`, `Verify`, `DropClaim`, `UnlinkStale`, `Retire` | `quarantineIfUnchanged` |
| `Gone` | `isLockOwnerGone`: positive evidence only |
| `Start`, `Crash` | the operating system |

Every system call that another process can observe is a step of its own. `Gone` is
evaluated atomically: it only ever errs towards "alive", and a process that is gone
stays gone.

### JobSupervisor

`job` is the record, `event` the completion event. The supervisor is one process with four
asynchronous flows, each with its own program counter: `sup` (`start()`), `stop` (`StopControl`: handler,
intent and latched execution), `final` (latched `handleChildExit`), `idle`. An
await between a read and a dependent write is a step boundary; `jobs.update()` reads
and writes under the job lock and is one step; the publication of the outcome holds the lock over two writes
(`publishing`). `child` and `group` are the workload: the direct child and
whether its process group still has members. `coord` is the launching process and
`client` a process that reconciles, abandons or deletes. `faulty` is chosen initially: in
such a life processes die and locks may stay held until an update throws.

### Admission

`specs` and `jobs` are the two stores, `lock` the coordinator lock, `op[p]` the
program counter and the arguments of process `p`, `sup` the supervisors that are
alive. `start()` is `Start`, `Acquire`, `CheckRequest`, `ReserveCapacity`, `PutSpec`, `CreateJob`,
`Launch` or `LaunchFails`; the steps in between are where a process may die (`Crash`).
Authorization (which may ask a human) and the `beforeAdmit` hook of schedules refuse by
throwing inside the transaction, which leaves the stores as `Crash` does.

### ScheduleEngine

`schedule` is the record, `occurrence[s]` the run record of the due instant `s` (`recent`: its
reservation is younger than `PENDING_DISPATCH_WINDOW_MS`), `job[r]` the job of
request `r`, `task[p]` what process `p` is doing and *what it has read*: most
hazards of this code are decisions on a value that is old when it is used. A revoked
record is one that is disabled without a pause time. `slotOf` and `interrupted` are
history variables, used by properties only.

### WorkflowRun

`run` is the record (status, attempt, checkpoints `cps` of the nodes), `dec` the decision file of each gate,
`runner[a]` the runner of attempt `a`, `job[a]` its background job as the coordinator shows it, `lockedBy` the run lock,
`busy` what a runner has outstanding, `ses[s]` what session `s` does *and the attempt and status it has read*: `reconcileRun`,
`launchRun`, `decideRunDecision` and the expiry decide on unlocked reads and write later.

| Action | Code |
|---|---|
| `RunnerEnters`, `RunnerTurnsAway` | `executeRun` up to the lock and the status check |
| `RunnerStopsJob`, `RunnerGivesUp`, `RunnerGivesUpAtOnce` | a failure found by a resumed runner |
| `RunnerRuns`, `RunnerAborts`, `RunnerChecks`, `RunnerSkips`, `RunnerDispatches`, `RunnerSettlesNode`, `RunnerRetries`, `RunnerGoesOn`, `RunnerParks`, `RunnerFindsNone`, `RunnerEnds`, `RunnerRechecks`, `RunnerCannotStop` | `runScope` and the executors |
| `ReconcileReads`, `ReconcileSees`, `ReconcileMissed`, `ReconcileMarksUnknown`, `ReconcileParks`, `ReconcileMarksDead` | `reconcileRun` |
| `LaunchReads`, `LaunchIntends`, `LaunchMissed`, `LaunchStarts`, `StartFails` | `launchRun` |
| `Decides`, `DeciderLooks`, `CancelMarks`, `CancelSettles`, `ExpiryReads`, `TimesOutParked` | `decideRunDecision`, `cancelRun`, the expiry of parked runs |
| `RunnerDies`, `JobEnds`, `JobLost`, `DeadlinePasses`, `SessionDies` | the environment |

`RunnerDispatches` picks any node that is ready (the code takes the first in order). Two behaviours seen
on the way are not promised otherwise by a property and are part of the model: a session that dies between
`markInterrupted` and the relaunch leaves the run `interrupted` below the relaunch bound, and a launch judged
from an old read rewrites a parked run to `queued` and uses up a relaunch. Both end in `OutOfAttempts`.

### AgentTurn and ConfirmationQueue

`loop[a]` is the loop of agent `a` (the main agent or a worker): the place it waits at, the calls left to confirm
(`todo`), running (`run`) and done (`did`), the verification evidence of its edits (`edited`, `ran`, `failed`,
`again`). The loop is a generator: at each yield it waits for its consumer, which for the main agent blocks while
the turn is paused (`Blocked`). `ConfirmationQueue` has the queue proper; `shown` is the prompt on the screen, which
lags behind `pending` until `Renders`, so a key may be meant for a prompt that is no longer active. `cwd`, `home` and
`trees` are the working directory of the process, the directory each worker returns to and the worktrees.

| Action | Code |
|---|---|
| `CallsProvider`, `StreamBreaks`, `Says`, `Concludes`, `TakesMessage` | `runAgentLoop` up to the complete message, the verification reminder, the last message |
| `Gates`, `Asks`, `Hears`, `StopsUnpaired`, `PairsAndStops` | confirmation of the calls, and the two ends of a cancel |
| `StartsWork`, `RunsEdit`, `RunsCheck`, `EndsWork` | the parallel batch and its evidence |
| `JobAuthorizes`, `JobAsks`, `JobHears` | the prompt of a background job |
| `AsksModel`, `HearsModel`, `SetsUp`, `Finishes`, `Delivers` | the subagent tool |
| `TurnStarts`, `Renders`, `Answers`, `TogglesPause`, `Cancels`, `CancelsWorker` | `use-agent.ts`, `app.tsx` |

The steps of `Gates` that need no prompt interleave although the code runs them synchronously; the loops of the workers are named
by the worker in each batch anew; the abort check before the stream is part of `StreamBreaks`. All three only add behaviours. A refused call is known by its content in the code and by its kind here: another call
of that kind may be asked for or refused again.

### WorktreeDelivery

Commits are a small graph: `first` (first parent) and `past` (what a commit contains); `head` is HEAD of the checkout, `local` the
user's uncommitted changes, `merging` an unfinished merge, `worker[w]` the place of `w`'s call with the HEAD it read (`seen`) and what was
reported (`told`). `cwd` is the directory the process is in. `Begins` reads it, some time before git is asked (`Creates`): it is the worker's
`parent`, the user's checkout (`Here`) or the worktree of a worker that was entered last, and `within` are the worktrees its own then lies in.
`Removes` deletes all that lies in a worktree with it; a worker whose parent is gone is `Stranded`. A worker created inside another's worktree
delivers into that one's branch, which is not followed: `DeliversElsewhere` is the whole delivery with any outcome. Of the others the
actions follow `applyWorktreeChanges` and its caller in `subagent.ts`: `EndsWork`, `ChecksBase`, `CommitsWork`, `FindsContained`, `ChecksIdle`, `ChecksClean`,
`ReadsHead`, `Previews`, `Merges`, `AbortsMerge`, `ChecksRestored`, `LooksForCancel`, `ChecksHead`, `RollsBack`, `Removes`. The
user commits, edits, merges and rewinds between any two of them; a commit over a worker's half-finished merge concludes it (`UserConcludes`). Git
itself is external, one command is one step.

## 3. Runs

All runs finish within three minutes with two workers.

| Run | Question | Result |
|---|---|---|
| `lock` | Is the lock exclusive, does a recoverer ever take a live owner's file, is a stale lock recovered, does the protocol implement `LockService`? | holds |
| `supervisor` | Is an outcome backed by what happened, unique, announced first, and never written over an abandonment, with crashes and failing updates? Without them, is an outcome published and an accepted stop carried out? | holds |
| `supervisor_leak` | "Once the job is terminal, the supervisor self-exits [...] so it can't leak forever" | violated (finding) |
| `admission` | Does a repeated request run once, keep its specification, and respect the limit? | holds |
| `schedule` | No overlap, no second launch, no launch after fencing, no revival of a revoked schedule? | holds, up to interrupted deletions |
| `schedule_relaunch` | "the same occurrence is never launched twice" | violated (finding) |
| `workflow` | One runner at a time, every saved record readable, gates follow their decision, nothing runs after the end, the end is final, with two sessions, deaths and a coordinator that loses sight of a runner? | holds |
| `workflow_live` | Is an interrupted tool repeated only after an approval of that interruption, and is a filed decision applied? | holds |
| `workflow_unreadable` | a node whose condition is false "is `skipped`", and stays readable | violated (finding) |
| `turn` | Is every prompt served and only by a key meant for it, the history paired, an edit verified or reminded of, the working directory restored; do cancels and turns end? | holds |
| `turn_isolation` | "Tasks whose description indicates file changes attempt to use an isolated Git worktree" | violated (finding) |
| `delivery` | Is nothing that the user committed or that was delivered lost, and is what is reported true, through deliveries, rollbacks and cancels? | holds, outside two windows and, for kept work, while the worktree around it stays |

What the properties say, beyond their names:

* `MutualExclusion`, `OwnFileInPlace`: the release closure unlinks its path without
  looking, so it is not enough that no two tasks believe they have the lock; each must
  still find *its* file there.
* `OnlyDeadQuarantined`: recovery acts only on processes that are really gone.
* `StaleLockRecovered`: with two named exceptions (`Stuck`): a file without holder
  record (its creator died before writing it) and a claim left behind by a crash. Both
  are never cleaned up by the code.
* `VerdictHasEvidence`: "completed" implies exit code 0 and an empty process group;
  a failure without an event implies that nothing was ever started.
* `AbandonedIsFinal`: after an abandonment there is no write to the record, no event, no
  new workload, whatever was about to happen.
* `ImplementsJobOutcome`: the history of record and event is one of `JobOutcome`.
* `OutcomeIsPublished`, `StopIsCarriedOut`: progress, see section 5.
* `OneUnfinishedJob`, `SpecOfUnfinishedJob`, `AdmittedWithinLimit`: idempotence, durability of the
  specification through deletions of older jobs of the same request, and capacity.
* `OneActiveJob`, `LaunchedOnce`, `FencedIsNotLaunched`, `RevokedForever`.
* `CheckpointReadable`: what any process saved is accepted by the validation in `store.ts`, for the definitions of the run.
* `NoReplay`: a tool that was running when its runner died does not run again unless *that* interruption was
  approved, not an earlier one. `DecisionIsApplied`: a filed decision does not stay without effect, unless the run ended,
  waits for another human answer or is out of relaunches (`OutOfAttempts`).
* `WaitersServed`: whoever waits for an answer has exactly one prompt in the queue, and a queue with prompts has an active one. `OnlyMeant`: the
  answer an agent hears was given to the prompt on the screen, and "always" is not widened past the floor.
* `PairedUnlessDropped`: outside a batch the history has a result for every call. The exception `dropped`
  is the code's: cancelling a paused turn closes the iterator before the loop pairs its calls (contrary to the comment at
  `use-agent.ts:1088`). `TurnEnds` excepts `Hidden`: a job prompt whose asker is gone, hidden when the display is cleared at the end of the
  turn, is active and invisible, and prompts behind it wait.
* `VerifiedOrReminded`: no final answer over edits without evidence unless the model was reminded as often as it may be. A check that ran beside
  an edit in one batch is no evidence.
* `RestsAtHome` holds with a single writing worker; with two it does not (finding 4).
* `BranchIsWhole`, `ReportIsTrue`: except after `raced`, which is set in two windows: HEAD moves between the rollback's check and its
  reset, or between the base check and the merge, where the source says "Full coordination between concurrent writers remains a separate
  concern". A merge that the user concludes is one of the second window if the base is gone by then. What was delivered, or is reported of the branch, is
  claimed for workers created from the user's checkout; that kept work has its worktree, for all, for as long as the worktree it was created in (finding 4
  says why not longer). A cancelled worker's commit may still come back through another worker that was based on it.

Each property is accompanied by a mutant (an operator marked "Mutant:" in the modules,
named in `PROJECT.json`): the definition it replaces, changed as a plausible bug
would, makes TLC find the property violated.

### Findings

1. **A deleted job leaks its supervisor** (`supervisor/lifecycle.ts:577`). After publishing the
   outcome the supervisor reads the record again and starts the idle-exit timer only if
   that record exists and is terminal. A job may be deleted as soon as its outcome is
   published. If the deletion wins, the timer never starts.
2. **An interrupted deletion of a schedule forgets launches** (`schedule/engine.ts:249`).
   The run records, which keep an occurrence from being launched twice, go first. A
   deletion that stops half-way leaves a paused schedule which may be resumed instead of deleted again;
   an occurrence that is due again (within the same minute, or after the clock was set back) is then
   launched a second time. The properties of run `schedule` exclude exactly this history
   (`interrupted`).

3. **A gate behind a false condition makes its run unreadable** (`workflows/runtime.ts:165`). `runScope` saves it as `skipped`, which
   `docs/docs/reference/workflows.md` promises for every node, but the validation of `workflows/store.ts:197` does not accept `skipped` for an
   approval: every later read of the run fails, and it can be neither resumed, decided nor cancelled.
4. **Two writing subagents share one working directory** (`tools/subagent.ts:279`). Each enters its worktree with
   `process.chdir`, and approved calls of one batch run in parallel: the edits of the first are resolved in the worktree of the second.
   For the same reason a writer that is created while another's `chdir` is in force (after it waited for the approval of its model,
   `subagent.ts:161-193`) gets that worktree as repository root, base and return directory (`worktree.ts:33-50`). It delivers into that worker's branch and
   not "back into the original checkout" (`docs/docs/features/plugins-and-subagents.md:52`), so it is told applied although its work
   is lost if the outer worker is cancelled or broken; and its worktree goes with the outer one (`worktree.ts:59`), kept work included, where line 69 of that page says
   that delivery "removes only that worker's directory and branch". Run `turn_isolation` shows the shared directory; `WorktreeDelivery` models the nesting and its properties except it by name.

## 4. Bounds

| Run | Bound | Why it is enough |
|---|---|---|
| `lock` | 3 processes with one task each, two of them with the same process id; 3 inodes; one machine | three roles meet in every known hazard: the dead owner, a delayed recoverer, a new owner; three inodes allow lock, guard and one quarantined file, so numbers are reused under pressure. Several machines only make `Gone` answer "alive" more often |
| `supervisor`, `supervisor_leak` | 1 job, 1 client | jobs do not interact outside admission. One client repeats any sequence of reconcile, abandon and delete. (Two clients, without faults, also pass, in four minutes: the coordinator lock and the comparison in `abandonJob` serialise them; this is too slow to keep as a run) |
| `admission` | 2 processes, 2 requests, 2 specifications of limits 1 and 2, 3 job ids | a retry needs two processes, a deletion under a retry a second job of the request, and limits matter when they differ; ids are never reused |
| `schedule` | 2 processes, 2 occurrences, 2 dispatches, 1 pause | overlap needs two occurrences, a second launch two requests for one; one pause time distinguishes "paused again" from "the pause I saw" |
| `workflow` | 2 sessions, 2 runner attempts, 1 relaunch, 2 faults (deaths, lost starts), 4 definitions of two nodes | a stale read needs a second session, a stale judgement a second attempt; the definitions pair every kind of node (gate, tool, job, agent) with a dependency, a tolerated failure or a condition |
| `workflow_live` | 1 session, 3 attempts, 2 faults, retries and a deadline, coordinator never loses a runner | an approval of an earlier interruption can only be mistaken with three attempts; a runner that is out of sight for good leaves nothing to promise |
| `turn` | 1 worker that writes, 1 that needs another model, 2 turns with budgets 1 and 3, 1 reminder (the code has 2), batches of at most two calls | two prompts of different agents at once, an edit beside a check, two workers side by side, a turn that ends over its budget and one that starts on what is left behind |
| `turn_isolation` | 2 writing workers, 1 turn | the second `chdir` suffices |
| `delivery` | 2 workers, 1 commit and 2 rewinds by the user | the workers race with each other and with the user, or one is created inside the other; a rewind of a merge and one of a commit. Deeper nesting is covered by the proofs |

Symmetry is used in `admission`, `schedule` (processes, requests and so on), `workflow` (sessions) and `delivery` (workers), whose
runs have only invariants and action properties.

## 5. Fairness

* `FileLock!FairSpec`: weak fairness of `Finish(t)` (a started acquisition runs on: each of its awaits
  settles) and of `Attempt(t)` (both callers that wait for a lock poll in a loop). Nothing is
  assumed of crashes or of the release: an owner may keep the lock.
* `JobSupervisor!Fairness`: weak fairness of each flow of the supervisor (the event loop) and of the delivery of `close`.
  Workloads need not end, clients need not act. Progress
  is claimed only for lives that are not `faulty`: the code retries an update that finds the lock held 20 times and then gives up
  for good, so that progress can only be promised while locks are eventually free; and a supervisor that
  dies publishes nothing.
* `WorkflowRun!FairSpec`: weak fairness of the steps of a runner (a process that runs) and of the end of a live job; per session, weak
  fairness of what it has begun and strong fairness of `ReconcileReads`: every listing of runs reconciles, so a session that is used looks
  again and again, whatever else it does in between. Nobody has to decide, cancel or launch by hand.
* `AgentTurn!Fairness`: weak fairness of the system's steps (the event loop runs something while there is anything to run; providers, tools and
  git return, the screen is drawn) and of answering a prompt that is on the screen. Pausing and cancelling are never fair; the turn that
  is paused promises nothing.
* `WorktreeDelivery` has safety only: each call ends with git's commands.
* `Admission` and `ScheduleEngine` have no liveness property: after a refusal or a failure nothing
  retries, the next attempt is the caller's.

Deadlock checking is off where the system may rest for good: all tasks dead (`FileLock`), the supervisor gone and
the job deleted, all ids, attempts, turns or commits used.

## 6. Proofs

Eight proof modules are checked by TLAPS for all values of the constants. Each proof has an invariant `IInv` (checked by TLC first), one
lemma per action or per part of the invariant, and theorems that follow from it.

**FileLock.** Assumption: `ConstantAssumption` (tasks belong to processes; the "no inode" and "nobody" values
are different from real ones). Nothing is assumed of hosts, process ids or start times: in particular ids may be
reused at will. Theorems: `TypeCorrect`, `LockIsExclusive`, `OwnersKeepTheirFile`, `QuarantineIsSound`, `RecoveryIsPrecise`.
`MutualExclusion` alone is not inductive. A recoverer unlinks a path in a step of its own, long after it compared; what makes
this safe is (a) the claim is a hard link created exclusively, so one recoverer at a time works on an inode (`ClaimExclusive`);
(b) the claim keeps the inode from being reused, so a file that matched under the claim *is* the file that was read
(`ClaimInv`); (c) the only others who might have removed that file are its owner, who is gone (`SnapInv`, from
`GoneIsDead`), and the holder of the same claim. `OwnInv` carries that an owner's file is in place and bears no other name, `WrittenInv` that a
holder record names a process that has lived, `DistinctFiles` that lock and guard are different inodes. The proof has one
lemma per action, each with one step per conjunct of `IInv`.

**LockService.** From the same invariant, `FilesImplementLock`: every step of the files is a step of the service or invisible. The holder is
read off the files and the tasks (the task that has the lock, "orphaned" when a file is left without one), so making the file is `Lock`, unlinking one's own is `Release`,
a death or a failed acquisition is `Abandon`, and unlinking under a claim is `Recover` only because the invariant says that the file's owner is gone.

**Admission.** Assumptions: `LimitAssumption`, `JobIdAssumption` (finitely many job ids, for cardinalities), `NoneAssumption`. Theorems: `TypeCorrect`,
`RequestsRunOnce`, `SpecsAreKept`, `LimitIsRespected`. The strengthening says what the transaction of `start()` has established at
each of its steps: only the lock holder is inside (`OneInside`), the request has no unfinished job from the check until the creation
(`NoRival`), capacity counted is capacity left until the creation, because every writer outside the lock only ever makes
jobs inactive (`CapacityLeft`, `FewerActive`), and a record about to be deleted is terminal (`Forgettable`).

**JobSupervisor.** Assumptions: `FaultsAssumption`, `NoJobAssumption` (the absent record is no record). Theorems: `ControlsAreTyped`, `VerdictsHaveEvidence`,
`AbandonmentIsFinal` and the refinement `StoreKeepsItsPromise`, for any number of clients. That a terminal record has evidence
is not inductive: it must be known how far the start can be when the record is terminal, or a launcher, a start or a
spawn failure might write over it (`LaunchInv`, `EvidenceInv`); that the verdict held in memory between `Decide` and its
publication stays justified and its group stays empty (`FinalInv`); and for the event, that a record being deleted is terminal, an announced
outcome is either about to be recorded or left by a supervisor that is gone, and the job was not abandoned while the publication holds its lock
(`EventInv`). The refinement needs no more: `ShownStep` classifies every step as one of the moves of `JobOutcome` or a stutter.

**ScheduleEngine.** Assumptions: `PausesAssumption`, `NoneAssumption`. Theorems: `StateIsTyped`, `AtMostOneActiveJob`, `NoOccurrenceLaunchedTwice`,
`GivenUpStaysGivenUp`, `RevocationIsPermanent`, for any processes, occurrences, requests and pauses. One open job at a time is not inductive, because a
reservation may become a job long after the schedule lock was given back. The invariant is about *live* requests instead: those whose job is open or may still be
admitted (`OneLive`). Only a reservation makes a request live (`LiveStep`), and it is made under the schedule lock by a process that has established in three
steps that no other is (`EvidenceInv`): the list it read is an upper bound of the occurrences, since nobody else reserves (`ListedStep`); classification finds every live request
active or expired (`EvidenceFound`); fencing under the coordinator lock leaves the expired ones dead or with a job, and an admission in progress holds that lock (`AdmitInv`).
No occurrence is vacated but by the deletion (`KeptUntilRemoved`), after which no request is live (`GoneIsQuiet`). These parts hold unless a deletion stopped half-way (`interrupted`),
which the run `schedule_relaunch` shows to be necessary.

**WorkflowRun.** Assumption: `WorkflowAssumption` (the definitions are well-formed and have a node, as the schema of `definition.ts` asks; the bounds are natural numbers). Theorems:
`StateIsTyped`, `OneRunnerAtATime`, `EndsStay`, `NothingIsLeftRunning`, `GatesFollowDecisions`, `CutOffToolsAreNotReplayed`, for any definitions, nodes, sessions,
attempts and faults. That one runner is alive is not inductive, because those who start runners act on reads that are stale when they write. The argument is that a new
attempt is recorded only when the job of the last one has ended, so the current attempt is the only one that can be alive (`AttemptInv`, `ProcessInv`), and that a
session's belief is such that it stays true however late it is used (`SessionInv`): a job seen to have ended stays ended, attempts only go up. Under the lock, the place of
the holder tells which nodes are recorded as running (`LockInv`, `WorkInv`: none, or the busy one), hence nothing runs when a run ends; without a holder, whoever cancels or
expires the run settles its running nodes in the same write. For the gates: only an applied decision settles one (`GateInv`), and the node that is executed or retried is no gate
(`ChoiceInv`). For a tool that was cut off: until its interruption is approved it waits, has failed, or is still recorded as running with no lock holder, and the next holder parks
it before it works (`CutOffInv`).

`CheckpointsReadBack` is the theorem that what any process saves is accepted by the reader. It has a hypothesis about the definitions, `GatesAreReached`: the gates and all they
depend on have no condition, and are under `stopOnFailure` or depend on nothing. Without it the theorem is false, as the run `workflow_unreadable` shows: a gate that is passed over is recorded as skipped,
which the reader refuses. `MCWorkflowRun` asserts that the definitions of the passing runs satisfy the hypothesis and the one of that run does not (`GatesInReach`). The validation speaks of a snapshot, and is not
inductive as it stands: that a node was begun after its dependencies passed says nothing of the next retry. `NodeInv` adds where the busy node is (`BusyInv`: parked or tried again only in its turn, and
perhaps to be tried again only while nothing that depends on it was begun), that the nodes of a set that is always reached are never skipped (`ReachedInv`), and what the two statuses the reader looks at imply (`StatusInv`:
nothing happens while pending; passed comes only from the end of a runner). `NodesMove` then classifies every step: a node stays, goes on from running or parked, is dispatched or passed over in its turn, or starts over
with nothing behind it; and `OrderKept` shows that nodes that move so, any number at once, keep their order (`OrderInv`), because what depends on a node that moves does not.

**AgentTurn.** Assumptions: `MainAssumption`, `AgentAssumption`. Theorems: `StateIsTyped`, `FinalAnswersAreVerified`, `HistoryIsPaired`,
`WaitersAreServed`, `AnswersAreMeant`, `OneWriterRestsAtHome` (at most one writing worker), for any agents, batches, budgets and floors. `FinalAnswersAreVerified`
rests on `LoopsAreGood`: every loop is in a consistent place, and edits that are not covered by evidence are owed a check or, within a batch, will be by its
outcome; a loop at its last message was reminded as often as it may be. `OneWriterRestsAtHome` rests on `Homely`: who has a worktree, where it returns to, and that only
the one writer moves the process; its part `Live`, that a worker lives only within the batch that called it, needs no bound on the writers and serves the queue too.
That everyone who waits has one entry counts entries, and counts are not inductive. The invariant `Attended` relates the row of entries (the active one, then the queue) to the loops
place by place: an entry stands for a loop that listens for that kind of prompt and has no answer yet, no two entries for the same one, and every listener without an answer has its
entry (`Listed`); an answer waits only for who listens (`Heard`); a job is asked for only within its batch (`Jobs`); the display has the active entry (`Screen`). What the methods
of the queue do to the row is stated once: filtering keeps the other entries, each once and in their order (`Filtered`, `Shifted`), `dequeue` shows the first of what is left, `enqueue` adds one or
answers at once. When a turn ends, its workers are over, so an entry left active is nobody's (`NobodyListens`), which is why wiping the display strands no one. `AnswersAreMeant` follows with
`Floor`: a blanket approval is in force only where the floor lets one be given.

**WorktreeDelivery.** Assumption: `DeliveryAssumption`. Theorems: `WorkersHaveWorktrees`, `BranchStaysWhole`, `ReportsAreTrue`, for any workers,
created inside each other's worktrees or not, and any number of commits. The invariant says that nothing is reported before the end and kept work keeps its tree (`AllHeld`), and, unless
`raced`, that the graph is sound (a commit contains its parent's past, commits not made yet are in no past), that what the user has is in the past of HEAD
(`UserWhole`), and that every worker's place agrees with the branch (`AllHonest`). How the worktrees lie in each other is its part `Places`: what is entered was created before, and what
lies in a worktree lies in all that one lies in. From it `TreeStays` follows: a worktree goes by its own worker's removal, or with its parent's. A merge left
half-way is its worker's, which still recovers or left it for the user, so that whoever concludes it adds a commit that did not exist (`Held`, `Sound`). A merge makes the past of HEAD grow, a rollback or a rewind
makes it shrink to the first parent: two lemmas each show what such a step does to the honesty of the other workers.

Every invariant and action property of the passing runs is proved. Only model-checked: liveness (`StaleLockRecovered`, `OutcomeIsPublished`, `StopIsCarriedOut`, `DecisionIsApplied`, `CancelsEnd`, `TurnEnds`). Liveness under fairness, ENABLED and induction over recursive definitions are out of the prover's reach.

## 7. Not modelled, and why

* Windows: the lock keeps its protocol with another probe; the supervisor's fallback without process groups is a different
  program and is left out.
* Contents: specifications are known by their consent hash, occurrences by their key, outputs not at all.
* Torn files: a write is a temporary file and a rename; the quarantine of unreadable records is left out.
* Workflows: loop nodes, tool consent, node timeouts, the runner pool, the execution cap, notifications, pruning, the force override, required
  environment names and sandboxes, `allowSkipped`.
* Agent turn: compaction, steers, hooks, test repair and repeated-failure prompts, allow lists and deny-writes mode, plan continuation, the pool
  limit of workers, jobs asked for by workers, prompts of workflows, MCP and context windows. A worker whose siblings exhaust the shared budget skips its summary; the
  model has the end, not the wording.
* Worktree delivery: what the preview says about untracked files is a choice; manual integration of kept branches; merge options. What happens
  on the branch of another worker is not followed (`DeliversElsewhere`), and a removal is done as a whole or not at all. `AgentTurn` has the directories of nested workers (`home`), but its removals
  delete one worktree each.
* IPC framing; the logs; cron arithmetic; grants and their validation (choices of the environment).
* `poll`, `log`, `wait`, `list` of the coordinator change no state, except that they reconcile, which is modelled.
* UI, providers, MCP, voice and scripts: no protocol that TLC could say something about, or I/O.

## 8. Plan

In this order, the most important behaviour first; items 1-7 are done.

1. `LockService`, `FileLock` and proofs, the refinement included.
2. `JobOutcome`, `JobSupervisor` and proofs.
3. `Admission` and proofs.
4. `ScheduleEngine` and proofs.
5. `WorkflowRun`: one run with its runners, decisions, cancellation and reconciliation, over the promise of `Admission`, and proofs.
6. `ConfirmationQueue`, `AgentTurn` and proofs.
7. `WorktreeDelivery` and proofs.

What the project does not reach yet, in the order in which it would be taken up:

* `Daemon`: start, tick, stop over `LockService`; one daemon at a time, a stop that reports success has stopped it.
* `Mailbox`: claims and acknowledgements of completion events by several clients against deletion; abstract
  specification: each event is presented to one client at a time until acknowledged.
* `Grants`: authorize, revoke and revalidate around prompts and dispatches.
* `Ipc`: replies against timeouts and disconnects of one connection.
