------------------------------ MODULE AgentTurn ------------------------------
(* The turns of an interactive session.  The main agent's loop calls the    *)
(* provider, asks for what it may run, runs the approved calls in parallel, *)
(* and goes around until an answer without calls; a call may be a subagent, *)
(* which is a loop of its own, in a worktree when its task writes.  The     *)
(* loop is a generator: at each event it waits for its consumer, the hook   *)
(* of the user interface for the main agent, the subagent tool for a        *)
(* worker.  The user answers prompts, pauses, cancels the turn or a single  *)
(* worker, at any moment the keyboard is not taken by a prompt.             *)
EXTENDS ConfirmationQueue

CONSTANTS
  Worker,          \* subagents
  Writers,         \* the ones whose task asks for a worktree
  Foreign,         \* the ones asked to use another model
  MainBatches,     \* what a main response may call: sequences of calls
  WorkerBatches,   \* the same for a worker
  Floors,          \* permission floors to consider
  MaxIterations,   \* turn -> the iteration budget it shares with its workers
  MaxReprompts,    \* MAX_VERIFY_REPROMPTS
  MaxTurns         \* bound: turns the model looks at

Call == {"edit", "check", "job"} \cup Worker

ASSUME AgentAssumption ==
  /\ Agent = Worker \cup {Main} /\ Main \notin Worker
  /\ Worker \cap {"edit", "check", "job"} = {}
  /\ Writers \subseteq Worker /\ Foreign \subseteq Worker
  /\ MainBatches \subseteq Seq(Call) /\ WorkerBatches \subseteq Seq({"edit", "check"})
  /\ Floors \subseteq {"none", "ask"}
  /\ MaxIterations \in [1..MaxTurns -> Nat] /\ MaxReprompts \in Nat /\ MaxTurns \in Nat

VARIABLES
  turn,     \* turns submitted so far
  loop,     \* agent -> its loop (and its life, for a worker)
  budget,   \* iterationsBudget.remaining
  open,     \* the history ends in tool calls without results
  aborted,  \* agents whose signal is aborted
  paused,
  session,  \* sessionPermissionMode
  shown,    \* the prompt on the screen, which lags behind pending
  cwd,      \* the process's working directory: Main's checkout or a worktree
  home,     \* worker -> originalCwd
  trees,    \* worktrees that exist
  dropped   \* history: the interface closed a loop between calls and results

turnVars == <<turn, loop, budget, open, aborted, paused, session, cwd, home, trees, dropped>>
placeVars == <<cwd, home, trees>>
vars == <<turnVars, queueVars, floor, shown>>

Idle == [pc |-> "off", todo |-> <<>>, run |-> {}, did |-> {}, mode |-> "ask",
         denied |-> {}, job |-> "no", edited |-> FALSE, ran |-> FALSE,
         failed |-> FALSE, again |-> 0, dirty |-> FALSE]

\* The prompt on the screen is gone, and the screen not drawn again yet.
Stale == [who |-> Main, what |-> "stale"]

Init ==
  /\ turn = 0 /\ budget = 0 /\ loop = [a \in Agent |-> Idle]
  /\ open = FALSE /\ aborted = {} /\ paused = FALSE /\ session = "ask"
  /\ active = None /\ queue = <<>> /\ pending = None /\ autoAccept = FALSE
  /\ answer = [a \in Agent |-> "none"] /\ floor \in Floors /\ shown = None
  /\ cwd = Main /\ home = [w \in Worker |-> Main] /\ trees = {} /\ dropped = FALSE

At(a, where) == loop[a].pc = where
Goto(a, where) == loop' = [loop EXCEPT ![a].pc = where]

\* The consumer of the main loop's events waits here while the turn is paused.
Blocked(a) == a = Main /\ paused

KeepsScreen ==
  shown' = IF shown = None \/ shown \in Entries' THEN shown ELSE Stale

-----------------------------------------------------------------------------
(* The end of a loop, as its consumer handles it.                           *)

TurnOver ==
  /\ loop' = [loop EXCEPT ![Main] = Idle]
  /\ aborted' = {} /\ paused' = FALSE /\ pending' = None
  /\ UNCHANGED <<turn, budget, session, placeVars, active, queue, autoAccept, answer,
                 floor, shown>>

\* The subagent call has its result.
Returns(w) ==
  /\ loop' = [loop EXCEPT ![w] = Idle, ![Main].run = @ \ {w}]
  /\ aborted' = aborted \ {w}
  /\ UNCHANGED <<turn, budget, paused, session, home, floor>>

\* chdir(originalCwd) throws when another worker's worktree was there and is gone.
Stranded(w) == w \in Writers /\ home[w] \notin trees \cup {Main}

\* Mutant: the process stays in the worktree.
StaysThere(w) == UNCHANGED cwd

GoesHome(w) == cwd' = IF w \in Writers /\ ~Stranded(w) THEN home[w] ELSE cwd

\* A worker that is over without delivering: its worktree is discarded.
Discards(w) ==
  /\ Returns(w) /\ GoesHome(w)
  /\ trees' = IF Stranded(w) THEN trees ELSE trees \ {w}
  /\ UNCHANGED <<queueVars, shown>>

\* The loop of a has ended, and what waited for it goes on.
Over(a) == (a = Main /\ TurnOver) \/ (a # Main /\ Discards(a))
Closes(a) == Over(a) /\ UNCHANGED <<open, dropped>>

\* Its consumer breaks off between the calls and their results.
Drops(a) == Over(a) /\ UNCHANGED open /\ dropped' = (dropped \/ a = Main)

-----------------------------------------------------------------------------
(* runAgentLoop.                                                            *)

CallsProvider(a) ==
  /\ At(a, "call")
  /\ \/ /\ budget > 0 /\ budget' = budget - 1 /\ Goto(a, "stream")
        /\ UNCHANGED <<turn, open, aborted, paused, session, placeVars, dropped,
                       queueVars, floor, shown>>
     \/ budget = 0 /\ ~Blocked(a) /\ Closes(a)

\* The provider fails, or the abort is noticed while it streams.
StreamBreaks(a) == At(a, "stream") /\ ~Blocked(a) /\ Closes(a)

\* A provider rejects a history whose calls have no results.
Accepted(a) == a = Main => ~open

Says(a) ==
  /\ At(a, "stream") /\ Accepted(a)
  /\ \E b \in (IF a = Main THEN MainBatches ELSE WorkerBatches) \ {<<>>} :
       loop' = [loop EXCEPT ![a].pc = "said", ![a].todo = b]
  /\ open' = (open \/ a = Main)
  /\ UNCHANGED <<turn, budget, aborted, paused, session, placeVars, dropped,
                 queueVars, floor, shown>>

Unverified(a) == loop[a].edited /\ (~loop[a].ran \/ loop[a].failed)

\* Mutant: the reminders are not counted.
AlwaysReminds(a) ==
  /\ At(a, "stream") /\ Accepted(a) /\ a \notin aborted
  /\ IF Unverified(a) THEN loop' = [loop EXCEPT ![a].pc = "call", ![a].again = @ + 1]
                      ELSE Goto(a, "last")
  /\ UNCHANGED <<turn, budget, open, aborted, paused, session, placeVars, dropped,
                 queueVars, floor, shown>>

\* A response without calls: reminded of the verification, or done.
Concludes(a) ==
  /\ At(a, "stream") /\ Accepted(a)
  /\ \/ a \in aborted /\ ~Blocked(a) /\ Closes(a)
     \/ /\ a \notin aborted
        /\ \/ /\ Unverified(a) /\ loop[a].again < MaxReprompts
              /\ loop' = [loop EXCEPT ![a].pc = "call", ![a].again = @ + 1]
           \/ ~(Unverified(a) /\ loop[a].again < MaxReprompts) /\ Goto(a, "last")
        /\ UNCHANGED <<turn, budget, open, aborted, paused, session, placeVars, dropped,
                       queueVars, floor, shown>>

\* The consumer takes the complete message; an abort closes the loop here.
TakesMessage(a) ==
  /\ At(a, "said") /\ ~Blocked(a)
  /\ \/ a \in aborted /\ Drops(a)
     \/ /\ a \notin aborted /\ Goto(a, "gate")
        /\ UNCHANGED <<turn, budget, open, aborted, paused, session, placeVars, dropped,
                       queueVars, floor, shown>>

NeedsConfirm(a, c) == c # "job" /\ loop[a].mode # "auto"

\* The next call is approved without asking, refused as before, or asked for:
\* after a refusal the same call is not asked for again, but another one of its
\* kind is.
Gates(a) ==
  /\ At(a, "gate") /\ a \notin aborted /\ loop[a].todo # <<>>
  /\ LET c == Head(loop[a].todo)
     IN \/ /\ ~NeedsConfirm(a, c)
           /\ loop' = [loop EXCEPT ![a].todo = Tail(@), ![a].run = @ \cup {c}]
        \/ /\ NeedsConfirm(a, c) /\ c \in loop[a].denied
           /\ loop' = [loop EXCEPT ![a].todo = Tail(@)]
        \/ NeedsConfirm(a, c) /\ Goto(a, "request")
  /\ UNCHANGED <<turn, budget, open, aborted, paused, session, placeVars, dropped,
                 queueVars, floor, shown>>

\* The consumer takes the request and the loop asks; an abort closes the loop.
Asks(a) ==
  /\ At(a, "request") /\ ~Blocked(a)
  /\ \/ a \in aborted /\ Drops(a)
     \/ /\ a \notin aborted
        /\ Enqueue([who |-> a, what |-> "tool"]) /\ Goto(a, "wait")
        /\ UNCHANGED <<turn, budget, open, aborted, paused, session, placeVars, dropped,
                       floor, shown>>

Hears(a) ==
  /\ At(a, "wait") /\ answer[a] # "none" /\ a \notin aborted
  /\ LET c == Head(loop[a].todo)
         next == [loop[a] EXCEPT !.pc = "gate", !.todo = Tail(@)]
     IN loop' = [loop EXCEPT ![a] =
          CASE answer[a] = "no" -> [next EXCEPT !.denied = @ \cup {c}]
            [] answer[a] = "yes" -> [next EXCEPT !.run = @ \cup {c}]
            [] answer[a] = "always" ->
                 [next EXCEPT !.run = @ \cup {c}, !.mode = IF floor = "none" THEN "auto" ELSE @]]
  /\ answer' = [answer EXCEPT ![a] = "none"]
  /\ UNCHANGED <<turn, budget, open, aborted, paused, session, placeVars, dropped,
                 active, queue, pending, autoAccept, floor, shown>>

\* Mutant: the calls are left without results.
StopsUnpaired(a) == a \in aborted /\ ~Blocked(a) /\ At(a, "gate") /\ Closes(a)

\* The abort is found by the loop itself: every call gets its result first.
PairsAndStops(a) ==
  /\ a \in aborted /\ ~Blocked(a)
  /\ At(a, "gate") \/ (At(a, "wait") /\ answer[a] # "none")
  /\ \/ /\ a = Main /\ loop' = [loop EXCEPT ![Main] = Idle]
        /\ aborted' = {} /\ paused' = FALSE /\ pending' = None /\ open' = FALSE
        /\ UNCHANGED <<turn, budget, session, placeVars, dropped>>
     \/ /\ a # Main /\ Returns(a) /\ GoesHome(a)
        /\ trees' = IF Stranded(a) THEN trees ELSE trees \ {a}
        /\ UNCHANGED <<open, dropped, pending>>
  /\ answer' = [answer EXCEPT ![a] = "none"]
  /\ UNCHANGED <<active, queue, autoAccept, floor, shown>>

\* How a worker begins: a writer first sets up its worktree.
Beginning(w) == [Idle EXCEPT !.pc = IF w \in Writers THEN "setup" ELSE "call"]

\* Every approved call is dispatched at once; a worker starts with it, unless
\* its model has to be looked up first.
StartsWork(a) ==
  /\ At(a, "gate") /\ a \notin aborted /\ loop[a].todo = <<>>
  /\ LET started == loop[a].run \cap (Worker \ Foreign)
     IN /\ loop' = [b \in Agent |->
                      IF b = a THEN [loop[a] EXCEPT !.pc = "work", !.did = {}]
                      ELSE IF b \in started THEN Beginning(b) ELSE loop[b]]
        /\ home' = [w \in Worker |-> IF w \in started THEN cwd ELSE home[w]]
  /\ UNCHANGED <<turn, budget, open, aborted, paused, session, cwd, trees, dropped,
                 queueVars, floor, shown>>

Ready(a, c) == At(a, "work") /\ c \in loop[a].run

RunsEdit(a) ==
  /\ Ready(a, "edit")
  /\ \E ok \in BOOLEAN :
       loop' = [loop EXCEPT ![a].run = @ \ {"edit"},
                            ![a].did = IF ok THEN @ \cup {"edit"} ELSE @,
                            ![a].dirty = @ \/ ok]
  /\ UNCHANGED <<turn, budget, open, aborted, paused, session, placeVars, dropped,
                 queueVars, floor, shown>>

\* A command or a test run; it vouches for the edits made before it started.
RunsCheck(a) ==
  /\ Ready(a, "check")
  /\ \E out \in {"pass", "fail", "inconclusive"} :
       loop' = [loop EXCEPT ![a].run = @ \ {"check"}, ![a].did = @ \cup {out},
                            ![a].dirty = IF out = "pass" THEN "edit" \in loop[a].did ELSE @]
  /\ UNCHANGED <<turn, budget, open, aborted, paused, session, placeVars, dropped,
                 queueVars, floor, shown>>

\* Mutant: a check counts even when edits ran beside it.
EvidenceFromSameBatch(l) ==
  [l EXCEPT !.edited = @ \/ "edit" \in l.did,
            !.ran = (@ /\ "edit" \notin l.did) \/ l.did \cap {"pass", "fail"} # {},
            !.failed = "fail" \in l.did]

\* An edit voids the evidence, the checks of its own batch included.
Evidence(l) ==
  IF "edit" \in l.did THEN [l EXCEPT !.edited = TRUE, !.ran = FALSE, !.failed = FALSE]
  ELSE IF l.edited /\ l.did \cap {"pass", "fail"} # {}
       THEN [l EXCEPT !.ran = TRUE, !.failed = "fail" \in l.did]
       ELSE l

EndsWork(a) ==
  /\ At(a, "work") /\ loop[a].run = {} /\ ~Blocked(a)
  /\ \/ a \in aborted /\ Over(a) /\ open' = (open /\ a # Main) /\ UNCHANGED dropped
     \/ /\ a \notin aborted
        /\ loop' = [loop EXCEPT ![a] = [Evidence(@) EXCEPT !.pc = "call", !.did = {}]]
        /\ open' = (open /\ a # Main)
        /\ UNCHANGED <<turn, budget, aborted, paused, session, placeVars, dropped,
                       queueVars, floor, shown>>

-----------------------------------------------------------------------------
(* A background job: the consent is asked while the call runs.              *)

JobDone(a) == loop' = [loop EXCEPT ![a].run = @ \ {"job"}, ![a].job = "no"]

\* authorize looks for a grant, unless the turn is cancelled already.
JobAuthorizes(a) ==
  /\ Ready(a, "job") /\ loop[a].job = "no"
  /\ IF a \in aborted THEN JobDone(a) ELSE loop' = [loop EXCEPT ![a].job = "looking"]
  /\ UNCHANGED <<turn, budget, open, aborted, paused, session, placeVars, dropped,
                 queueVars, floor, shown>>

\* A grant is found; or the user is asked, and after a cancel nobody listens.
JobAsks(a) ==
  /\ Ready(a, "job") /\ loop[a].job = "looking"
  /\ \/ JobDone(a) /\ UNCHANGED queueVars
     \/ /\ a \notin aborted /\ Enqueue([who |-> a, what |-> "job"])
        /\ loop' = [loop EXCEPT ![a].job = "asked"]
     \/ /\ a \in aborted /\ Enqueue([who |-> a, what |-> "orphan"])
        /\ JobDone(a)
  /\ UNCHANGED <<turn, budget, open, aborted, paused, session, placeVars, dropped,
                 floor, shown>>

JobHears(a) ==
  /\ Ready(a, "job") /\ loop[a].job = "asked" /\ answer[a] # "none"
  /\ JobDone(a) /\ answer' = [answer EXCEPT ![a] = "none"]
  /\ UNCHANGED <<turn, budget, open, aborted, paused, session, placeVars, dropped,
                 active, queue, pending, autoAccept, floor, shown>>

-----------------------------------------------------------------------------
(* A subagent call.                                                         *)

\* The explicit approval of another model, withdrawn with the turn.
AsksModel(w) ==
  /\ Ready(Main, w) /\ At(w, "off") /\ w \in Foreign
  /\ EnqueueUnless(Main \in aborted, [who |-> w, what |-> "model"]) /\ Goto(w, "model")
  /\ UNCHANGED <<turn, budget, open, aborted, paused, session, placeVars, dropped,
                 floor, shown>>

\* Approved, the worker starts; its controller follows the turn's signal.
HearsModel(w) ==
  /\ At(w, "model") /\ answer[w] # "none"
  /\ answer' = [answer EXCEPT ![w] = "none"]
  /\ \/ /\ answer[w] = "yes" /\ home' = [home EXCEPT ![w] = cwd]
        /\ IF Main \in aborted /\ w \notin Writers
           THEN /\ loop' = [loop EXCEPT ![w] = Idle, ![Main].run = @ \ {w}]
                /\ UNCHANGED aborted
           ELSE /\ loop' = [loop EXCEPT ![w] = Beginning(w)]
                /\ aborted' = IF Main \in aborted THEN aborted \cup {w} ELSE aborted
        /\ UNCHANGED <<turn, budget, open, paused, session, cwd, trees, dropped, floor,
                       shown>>
     \/ answer[w] # "yes" /\ Returns(w) /\ UNCHANGED <<open, cwd, trees, dropped, shown>>
  /\ UNCHANGED <<active, queue, pending, autoAccept>>

SetsUp(w) ==
  /\ At(w, "setup")
  /\ \/ Returns(w) /\ UNCHANGED <<cwd, trees>>
     \/ /\ w \in aborted /\ Returns(w)
        /\ IF Stranded(w) THEN cwd' = w /\ trees' = trees \cup {w}
                          ELSE cwd' = home[w] /\ UNCHANGED trees
     \/ /\ w \notin aborted /\ trees' = trees \cup {w} /\ cwd' = w /\ Goto(w, "call")
        /\ UNCHANGED <<turn, budget, aborted, paused, session, home, floor>>
  /\ UNCHANGED <<open, dropped, queueVars, shown>>

\* The loop has answered: the turn is complete, or the worker's work is merged.
Finishes(a) ==
  /\ At(a, "last") /\ ~Blocked(a)
  /\ \/ (a \in aborted \cup {Main} \/ a \notin Writers \/ Stranded(a)) /\ Closes(a)
     \/ /\ a \notin aborted /\ a \in Writers /\ ~Stranded(a)
        /\ loop' = [loop EXCEPT ![a] = [Idle EXCEPT !.pc = "delivering"]] /\ GoesHome(a)
        /\ UNCHANGED <<turn, budget, open, aborted, paused, session, home, trees, dropped,
                       queueVars, floor, shown>>

\* Merged or rolled back and removed; or kept, for the user, when that failed.
Delivers(w) ==
  /\ At(w, "delivering") /\ Returns(w)
  /\ \/ UNCHANGED cwd /\ trees' = trees \ {w}
     \/ GoesHome(w) /\ UNCHANGED trees
  /\ UNCHANGED <<open, dropped, queueVars, shown>>

-----------------------------------------------------------------------------
(* The user and the display.                                                *)

TurnStarts ==
  /\ At(Main, "off") /\ turn < MaxTurns
  /\ turn' = turn + 1 /\ budget' = MaxIterations[turn']
  /\ loop' = [loop EXCEPT ![Main] = [Idle EXCEPT !.pc = "call", !.mode = session]]
  /\ UNCHANGED <<open, aborted, paused, session, placeVars, dropped, queueVars, floor, shown>>

Renders ==
  /\ shown # pending /\ shown' = pending
  /\ UNCHANGED <<turnVars, queueVars, floor>>

Answers(choice) ==
  /\ shown # None /\ Resolve(choice, shown)
  /\ session' = IF Effective(choice) = "always" THEN "auto" ELSE session
  /\ KeepsScreen
  /\ UNCHANGED <<turn, loop, budget, open, aborted, paused, placeVars, dropped, floor>>

\* The keys below are read only while no prompt is on the screen.
Keyboard == ~At(Main, "off") /\ shown = None

TogglesPause ==
  /\ Keyboard /\ paused' = ~paused
  /\ UNCHANGED <<turn, loop, budget, open, aborted, session, placeVars, dropped,
                 queueVars, floor, shown>>

Started(w) == loop[w].pc \notin {"off", "model"}

Cancels ==
  /\ Keyboard
  /\ aborted' = aborted \cup {Main} \cup {w \in Worker : Started(w)}
  /\ Clear /\ paused' = FALSE
  /\ UNCHANGED <<turn, loop, budget, open, session, placeVars, dropped, floor, shown>>

CancelsWorker(w) ==
  /\ Keyboard /\ Started(w)
  /\ aborted' = aborted \cup {w}
  /\ RejectBySubagent(w) /\ KeepsScreen
  /\ UNCHANGED <<turn, loop, budget, open, paused, session, placeVars, dropped, floor>>

-----------------------------------------------------------------------------
LoopStep(a) ==
  \/ CallsProvider(a) \/ StreamBreaks(a) \/ Says(a) \/ Concludes(a) \/ TakesMessage(a)
  \/ Gates(a) \/ Asks(a) \/ Hears(a) \/ PairsAndStops(a) \/ StartsWork(a)
  \/ RunsEdit(a) \/ RunsCheck(a) \/ EndsWork(a) \/ Finishes(a)
  \/ JobAuthorizes(a) \/ JobAsks(a) \/ JobHears(a)

WorkerStep(w) ==
  AsksModel(w) \/ HearsModel(w) \/ SetsUp(w) \/ Delivers(w)

UserAnswers == \E c \in {"yes", "always", "no"} : Answers(c)

Next ==
  \/ \E a \in Agent : LoopStep(a)
  \/ \E w \in Worker : WorkerStep(w) \/ CancelsWorker(w)
  \/ TurnStarts \/ Renders \/ UserAnswers \/ TogglesPause \/ Cancels

Spec == Init /\ [][Next]_vars

SystemStep ==
  \/ \E a \in Agent : LoopStep(a)
  \/ \E w \in Worker : WorkerStep(w)
  \/ Renders

\* The event loop runs something while there is anything to run, providers and
\* tools return, and a prompt that is on the screen is answered in the end.
Fairness == WF_vars(SystemStep) /\ WF_vars(UserAnswers)

FairSpec == Spec /\ Fairness

-----------------------------------------------------------------------------
LoopState ==
  [pc : {"off", "call", "stream", "said", "gate", "request", "wait", "work", "last",
         "model", "setup", "delivering"},
   todo : Seq(Call), run : SUBSET Call,
   did : SUBSET {"edit", "pass", "fail", "inconclusive"}, mode : {"ask", "auto"},
   denied : SUBSET Call, job : {"no", "looking", "asked"}, edited : BOOLEAN,
   ran : BOOLEAN, failed : BOOLEAN, again : 0..MaxReprompts, dirty : BOOLEAN]

TypeOK ==
  /\ turn \in 0..MaxTurns /\ budget \in Nat /\ loop \in [Agent -> LoopState]
  /\ open \in BOOLEAN /\ aborted \subseteq Agent /\ paused \in BOOLEAN
  /\ session \in {"ask", "auto"} /\ floor \in {"none", "ask"}
  /\ active \in Prompt \cup {None} /\ pending \in Prompt \cup {None}
  /\ queue \in Seq(Prompt) /\ shown \in Prompt \cup {None, Stale}
  /\ autoAccept \in BOOLEAN /\ answer \in [Agent -> {"none", "yes", "always", "no"}]
  /\ cwd \in Agent /\ home \in [Worker -> Agent] /\ trees \subseteq Worker
  /\ dropped \in BOOLEAN


\* Whoever waits for the user has exactly one entry in the queue, and only
\* they; the active entry is the one given to the display, save for a job
\* prompt nobody listens to, which the end of a turn wipes from the display
\* and leaves active.  (confirmation-queue.ts: an entry that is lost, or one
\* left behind by clear or a rejection, would hold an agent or the display.)
Waits(a) ==
  answer[a] = "none" /\ (At(a, "wait") \/ At(a, "model") \/ loop[a].job = "asked")
AllEntries == (IF active = None THEN <<>> ELSE <<active>>) \o queue
WaitersServed ==
  /\ \A a \in Agent :
       Cardinality({i \in 1..Len(AllEntries) :
                      AllEntries[i].who = a /\ AllEntries[i].what # "orphan"})
         = IF Waits(a) THEN 1 ELSE 0
  /\ active = None => queue = <<>>
  /\ pending = active \/ (pending = None /\ active.what = "orphan")

\* The loop itself never leaves calls without results: outside a batch the
\* history is paired, unless the interface broke the loop off between the two.
PairedUnlessDropped ==
  open => dropped \/ loop[Main].pc \in {"said", "gate", "request", "wait", "work"}

\* An agent gives its final answer over edits no check has vouched for since
\* only when it was reminded as often as the loop reminds (loop.ts:528-540).
VerifiedOrReminded ==
  \A a \in Agent : At(a, "last") /\ loop[a].dirty => loop[a].again = MaxReprompts

\* When a single worker writes, the process is back in the checkout once no
\* worker is left, whichever way each of them ended (subagent.ts:276-500).
RestsAtHome == (\A w \in Worker : At(w, "off")) => cwd = Main

\* Nobody waits for a user who cannot see the prompt: an agent goes ahead on
\* the user's answer to its own prompt while it was the one on the screen, or
\* on an "always" meant for tool calls where the floor allows one.
OnlyMeant ==
  [][\A a \in Agent : answer[a] = "none" /\ answer'[a] \in {"yes", "always"} =>
       \/ shown = active /\ shown.who = a
       \/ /\ loop'[a].pc = "wait" /\ answer'[a] = "always" /\ floor = "none"
          /\ autoAccept']_vars

\* What is cancelled comes to an end: a turn, unless it is paused again, and a
\* worker cancelled alone or with its turn, whatever prompt it waited behind.
Cancelled(a) == a \in aborted /\ ~Blocked(a)
CancelsEnd == (\E a \in Agent : Cancelled(a)) ~> (\A a \in Agent : ~Cancelled(a))

\* A turn ends when its prompts are answered, unless it is paused, or a job
\* prompt nobody listens to hides the others.
Hidden == pending = None /\ active # None
TurnEnds == turn > 0 ~> (At(Main, "off") \/ paused \/ Hidden)

\* "If Git cannot create the worktree, the task stops with an error instead of
\* running in the parent checkout": an edit, whose path is resolved when it is
\* dispatched (file-edit.ts:36), is in the worktree of the worker that edits.
WorkersStayHome ==
  [][\A w \in Writers :
       At(w, "gate") /\ loop'[w].pc = "work" /\ "edit" \in loop[w].run => cwd = w]_vars
=============================================================================
