-------------------------- MODULE AgentTurnProofs --------------------------
(***************************************************************************)
(* Whatever the agents, their batches and their budgets: no loop gives a   *)
(* final answer over unverified edits before it was reminded often enough, *)
(* no loop leaves calls without results by itself, one writer leaves the   *)
(* process in the checkout, whoever waits for the user is in the queue,    *)
(* once, and an approval goes to the one it was meant for.                 *)
(***************************************************************************)
EXTENDS AgentTurn, FiniteSetTheorems, TLAPS

\* What the loop remembers of its edits and checks is what happened to them.
Owed(l) == l.edited /\ (~l.ran \/ l.failed)
Evident(l) ==
  /\ l.pc # "work" => (l.dirty => Owed(l))
  /\ l.pc = "work" => /\ l.dirty /\ "edit" \notin l.did => Owed(l)
                      /\ "pass" \in l.did /\ "edit" \notin l.did => ~l.dirty
  /\ l.pc = "last" /\ l.dirty => l.again = MaxReprompts
  /\ l.pc \in {"request", "wait"} => l.todo # <<>>

GoodLoop == {l \in LoopState : Evident(l)}
AllGood == loop \in [Agent -> GoodLoop]

\* The answers and modes a loop takes over are among the ones it knows.
Known ==
  /\ answer \in [Agent -> {"none", "yes", "always", "no"}]
  /\ session \in {"ask", "auto"}

-----------------------------------------------------------------------------
(* Updates of one loop that keep it good.                                   *)

\* A loop that has not begun has nothing to answer for.
LEMMA IdleGood ==
  \A m \in {"ask", "auto"}, p \in {"off", "call", "model", "setup", "delivering"} :
     [Idle EXCEPT !.pc = p, !.mode = m] \in GoodLoop
  <1>1. Idle \in LoopState
    BY AgentAssumption DEF Idle, LoopState
  <1> QED  BY <1>1 DEF Idle, LoopState, GoodLoop, Evident, Owed

\* The same for the forms the actions use.
LEMMA IdleForms ==
  /\ Idle \in GoodLoop
  /\ \A w : Beginning(w) \in GoodLoop
  /\ [Idle EXCEPT !.pc = "delivering"] \in GoodLoop
  <1>1. Idle \in LoopState
    BY AgentAssumption DEF Idle, LoopState
  <1> QED  BY <1>1 DEF Idle, Beginning, LoopState, GoodLoop, Evident, Owed

\* What Evident looks at.
View(l) == <<l.pc, l.dirty, l.edited, l.ran, l.failed, l.did, l.again, l.todo>>

\* Another loop that looks the same to Evident is as good.
LEMMA GoodByFields ==
  ASSUME NEW l \in GoodLoop, NEW k \in LoopState, View(k) = View(l)
  PROVE  k \in GoodLoop
  BY DEF View, GoodLoop, Evident, Owed

\* A call that has its result changes nothing else of the loop that made it.
LEMMA CallDone ==
  ASSUME NEW l \in GoodLoop, NEW c
  PROVE  [l EXCEPT !.run = @ \ {c}] \in GoodLoop
  <1> DEFINE k == [l EXCEPT !.run = @ \ {c}]
  <1>1. l \in LoopState /\ l.run \ {c} \in SUBSET Call
    BY DEF GoodLoop, LoopState
  <1>2. k \in LoopState /\ View(k) = View(l)
    BY <1>1 DEF LoopState, View
  <1> QED  BY <1>2, GoodByFields

\* A step of the consent to a job leaves the rest of the loop alone.
LEMMA JobMoves ==
  ASSUME NEW l \in GoodLoop, NEW j \in {"no", "looking", "asked"}
  PROVE  [l EXCEPT !.job = j] \in GoodLoop /\ [l EXCEPT !.run = @ \ {"job"}, !.job = j] \in GoodLoop
  <1> DEFINE k == [l EXCEPT !.job = j]
             n == [l EXCEPT !.run = @ \ {"job"}, !.job = j]
  <1>1. l \in LoopState /\ l.run \ {"job"} \in SUBSET Call
    BY DEF GoodLoop, LoopState
  <1>2. k \in LoopState /\ View(k) = View(l)
    BY <1>1 DEF LoopState, View
  <1>3. n \in LoopState /\ View(n) = View(l)
    BY <1>1 DEF LoopState, View
  <1> HIDE DEF k, n
  <1>4. k \in GoodLoop
    BY <1>2, GoodByFields
  <1>5. n \in GoodLoop
    BY <1>3, GoodByFields
  <1> QED  BY <1>4, <1>5 DEF k, n

\* Between batches the program counter moves freely, as long as a question is
\* about a call; a batch begins with nothing done.
LEMMA Moves ==
  ASSUME NEW l \in GoodLoop, l.pc # "work"
  PROVE  /\ \A p \in {"off", "call", "stream", "said", "gate"} : [l EXCEPT !.pc = p] \in GoodLoop
         /\ \A p \in {"request", "wait"} : l.todo # <<>> => [l EXCEPT !.pc = p] \in GoodLoop
         /\ [l EXCEPT !.pc = "work", !.did = {}] \in GoodLoop
         /\ ~(l.edited /\ (~l.ran \/ l.failed) /\ l.again < MaxReprompts)
              => [l EXCEPT !.pc = "last"] \in GoodLoop
  <1>1. l \in LoopState /\ (l.dirty => Owed(l))
    BY DEF GoodLoop, Evident
  <1>2. ASSUME NEW p \in {"off", "call", "stream", "said", "gate", "request", "wait"},
               p \in {"request", "wait"} => l.todo # <<>>
        PROVE  [l EXCEPT !.pc = p] \in GoodLoop
    BY <1>1, <1>2 DEF GoodLoop, LoopState, Evident, Owed
  <1>3. [l EXCEPT !.pc = "work", !.did = {}] \in GoodLoop
    BY <1>1 DEF GoodLoop, LoopState, Evident, Owed
  <1>4. ASSUME ~(l.edited /\ (~l.ran \/ l.failed) /\ l.again < MaxReprompts)
        PROVE  [l EXCEPT !.pc = "last"] \in GoodLoop
    <2>1. l.dirty => l.again = MaxReprompts
      BY <1>1, <1>4, AgentAssumption DEF Owed, LoopState
    <2> QED  BY <1>1, <2>1 DEF GoodLoop, LoopState, Evident, Owed
  <1> QED  BY <1>2, <1>3, <1>4

\* A reminder is counted.
LEMMA Reminded ==
  ASSUME NEW l \in GoodLoop, l.pc # "work", l.again < MaxReprompts
  PROVE  [l EXCEPT !.pc = "call", !.again = @ + 1] \in GoodLoop
  <1>1. l \in LoopState /\ (l.dirty => Owed(l))
    BY DEF GoodLoop, Evident
  <1>2. l.again + 1 \in 0..MaxReprompts
    BY <1>1, AgentAssumption DEF LoopState
  <1> QED  BY <1>1, <1>2 DEF GoodLoop, LoopState, Evident, Owed

\* The outcomes of a batch, judged together when it ends.
LEMMA Judged ==
  ASSUME NEW l \in GoodLoop, l.pc = "work"
  PROVE  [Evidence(l) EXCEPT !.pc = "call", !.did = {}] \in GoodLoop
  <1>1. l \in LoopState /\ Evident(l)
    BY DEF GoodLoop
  <1>2. CASE "edit" \in l.did
    BY <1>1, <1>2 DEF Evidence, GoodLoop, LoopState, Evident, Owed
  <1>3. CASE "edit" \notin l.did /\ l.edited /\ l.did \cap {"pass", "fail"} # {}
    <2>1. l.dirty => "fail" \in l.did
      BY <1>1, <1>3 DEF LoopState, Evident
    <2>2. CASE "fail" \in l.did
      <3>1. ("fail" \in l.did) = TRUE
        BY <2>2
      <3>2. Evidence(l) = [l EXCEPT !.ran = TRUE, !.failed = TRUE]
        BY <1>3, <3>1 DEF Evidence
      <3> QED  BY <1>1, <1>3, <3>2 DEF GoodLoop, LoopState, Evident, Owed
    <2>3. CASE "fail" \notin l.did
      <3>1. ("fail" \in l.did) = FALSE
        BY <2>3
      <3>2. Evidence(l) = [l EXCEPT !.ran = TRUE, !.failed = FALSE]
        BY <1>3, <3>1 DEF Evidence
      <3> QED  BY <1>1, <2>1, <2>3, <3>2 DEF GoodLoop, LoopState, Evident, Owed
    <2> QED  BY <2>2, <2>3
  <1>4. CASE "edit" \notin l.did /\ ~(l.edited /\ l.did \cap {"pass", "fail"} # {})
    <2>1. Evidence(l) = l
      BY <1>4 DEF Evidence
    <2> QED  BY <1>1, <1>4, <2>1 DEF GoodLoop, LoopState, Evident, Owed
  <1> QED  BY <1>2, <1>3, <1>4

\* Work under way: an edit that runs, or a check.
LEMMA Works ==
  ASSUME NEW l \in GoodLoop, l.pc = "work"
  PROVE  /\ \A ok \in BOOLEAN :
              [l EXCEPT !.run = @ \ {"edit"}, !.did = IF ok THEN @ \cup {"edit"} ELSE @,
                        !.dirty = @ \/ ok] \in GoodLoop
         /\ \A out \in {"pass", "fail", "inconclusive"} :
              [l EXCEPT !.run = @ \ {"check"}, !.did = @ \cup {out},
                        !.dirty = IF out = "pass" THEN "edit" \in l.did ELSE @] \in GoodLoop
  <1>1. l \in LoopState /\ Evident(l) /\ \A c : l.run \ {c} \in SUBSET Call
    BY DEF GoodLoop, LoopState
  <1>2. [l EXCEPT !.run = @ \ {"edit"}, !.did = @ \cup {"edit"}, !.dirty = TRUE] \in GoodLoop
    BY <1>1 DEF GoodLoop, LoopState, Evident, Owed
  <1>3. ASSUME NEW ok \in BOOLEAN
        PROVE  [l EXCEPT !.run = @ \ {"edit"}, !.did = IF ok THEN @ \cup {"edit"} ELSE @,
                         !.dirty = @ \/ ok] \in GoodLoop
    <2>1. CASE ok = TRUE
      <3>1. (l.dirty \/ ok) = TRUE
        BY <2>1, <1>1 DEF LoopState
      <3> QED  BY <1>2, <2>1, <3>1
    <2>2. CASE ok = FALSE
      <3>1. (l.dirty \/ ok) = l.dirty
        BY <2>2, <1>1 DEF LoopState
      <3>2. [l EXCEPT !.run = @ \ {"edit"}]
              = [l EXCEPT !.run = @ \ {"edit"}, !.did = @, !.dirty = @]
        BY <1>1 DEF LoopState
      <3> QED  BY CallDone, <2>2, <3>1, <3>2
    <2> QED  BY <2>1, <2>2
  <1>4. ASSUME NEW out \in {"pass", "fail", "inconclusive"}
        PROVE  [l EXCEPT !.run = @ \ {"check"}, !.did = @ \cup {out},
                         !.dirty = IF out = "pass" THEN "edit" \in l.did ELSE @] \in GoodLoop
    <2>1. CASE out # "pass"
      BY <1>1, <2>1 DEF GoodLoop, LoopState, Evident, Owed
    <2>2. CASE out = "pass" /\ "edit" \in l.did
      <3>1. ("edit" \in l.did) = TRUE
        BY <2>2
      <3>2. [l EXCEPT !.run = @ \ {"check"}, !.did = @ \cup {"pass"}, !.dirty = TRUE] \in GoodLoop
        BY <1>1, <2>2 DEF GoodLoop, LoopState, Evident, Owed
      <3> QED  BY <2>2, <3>1, <3>2
    <2>3. CASE out = "pass" /\ "edit" \notin l.did
      <3>1. ("edit" \in l.did) = FALSE
        BY <2>3
      <3>2. [l EXCEPT !.run = @ \ {"check"}, !.did = @ \cup {"pass"}, !.dirty = FALSE] \in GoodLoop
        BY <1>1, <2>3 DEF GoodLoop, LoopState, Evident, Owed
      <3> QED  BY <2>3, <3>1, <3>2
    <2> QED  BY <2>1, <2>2, <2>3
  <1> QED  BY <1>3, <1>4

-----------------------------------------------------------------------------
(* No step spoils a loop.                                                   *)

\* The end of a worker leaves every loop good.
LEMMA ReturnsGood ==
  ASSUME AllGood, NEW w \in Agent, Returns(w)
  PROVE  AllGood'
  <1>1. loop[Main] \in GoodLoop
    BY MainAssumption DEF AllGood
  <1>2. [loop[Main] EXCEPT !.run = @ \ {w}] \in GoodLoop
    BY <1>1, CallDone
  <1>3. [Idle EXCEPT !.run = @ \ {w}] \in GoodLoop
    BY IdleForms, CallDone
  <1> QED  BY <1>2, <1>3, IdleForms, MainAssumption DEF AllGood, Returns

\* The same for the end of any loop, as its consumer handles it.
LEMMA OverGood ==
  ASSUME AllGood, NEW a \in Agent, Over(a)
  PROVE  AllGood'
  <1>1. CASE a = Main /\ TurnOver
    BY <1>1, IdleForms, MainAssumption DEF AllGood, TurnOver
  <1>2. CASE a # Main /\ Discards(a)
    BY <1>2, ReturnsGood DEF Discards
  <1> QED  BY <1>1, <1>2 DEF Over

\* The steps of a loop between batches.
LEMMA TalkGood ==
  ASSUME AllGood, NEW a \in Agent,
         \/ CallsProvider(a) \/ StreamBreaks(a) \/ Says(a) \/ Concludes(a) \/ TakesMessage(a)
  PROVE  AllGood'
  <1>1. loop[a] \in GoodLoop /\ loop[a] \in LoopState
    BY DEF AllGood, GoodLoop
  <1>2. CASE CallsProvider(a)
    <2>1. CASE Closes(a)
      BY <2>1, OverGood DEF Closes
    <2>2. CASE ~Closes(a)
      <3>1. Goto(a, "stream") /\ loop[a].pc = "call"
        BY <1>2, <2>2 DEF CallsProvider, At
      <3> QED  BY <1>1, <3>1, Moves DEF AllGood, Goto
    <2> QED  BY <2>1, <2>2
  <1>3. CASE StreamBreaks(a)
    BY <1>3, OverGood DEF StreamBreaks, Closes
  <1>4. CASE Says(a)
    <2>1. PICK b \in (IF a = Main THEN MainBatches ELSE WorkerBatches) \ {<<>>} :
            loop' = [loop EXCEPT ![a].pc = "said", ![a].todo = b]
      BY <1>4 DEF Says
    <2>2. b \in Seq(Call)
      <3>1. CASE a = Main
        BY <2>1, <3>1, AgentAssumption
      <3>2. CASE a # Main
        <4>1. b \in Seq({"edit", "check"})
          BY <2>1, <3>2, AgentAssumption
        <4> QED  BY <4>1 DEF Call
      <3> QED  BY <3>1, <3>2
    <2>3. [loop[a] EXCEPT !.pc = "said", !.todo = b] \in GoodLoop
      BY <1>1, <1>4, <2>2 DEF Says, At, GoodLoop, LoopState, Evident, Owed
    <2> QED  BY <2>1, <2>3 DEF AllGood
  <1>5. CASE Concludes(a)
    <2>1. CASE Closes(a)
      BY <2>1, OverGood DEF Closes
    <2>2. CASE Unverified(a) /\ loop[a].again < MaxReprompts
               /\ loop' = [loop EXCEPT ![a].pc = "call", ![a].again = @ + 1]
      <3>1. [loop[a] EXCEPT !.pc = "call", !.again = @ + 1] \in GoodLoop
        BY <1>1, <1>5, <2>2, Reminded DEF Concludes, At
      <3> QED  BY <2>2, <3>1 DEF AllGood
    <2>3. CASE ~(Unverified(a) /\ loop[a].again < MaxReprompts) /\ Goto(a, "last")
      <3>1. [loop[a] EXCEPT !.pc = "last"] \in GoodLoop
        BY <1>1, <1>5, <2>3, Moves DEF Concludes, At, Unverified
      <3> QED  BY <2>3, <3>1 DEF AllGood, Goto
    <2> QED  BY <1>5, <2>1, <2>2, <2>3 DEF Concludes
  <1>6. CASE TakesMessage(a)
    <2>1. CASE Drops(a)
      BY <2>1, OverGood DEF Drops
    <2>2. CASE Goto(a, "gate")
      BY <1>1, <1>6, <2>2, Moves DEF AllGood, Goto, TakesMessage, At
    <2> QED  BY <1>6, <2>1, <2>2 DEF TakesMessage
  <1> QED  BY <1>2, <1>3, <1>4, <1>5, <1>6

\* The steps that decide what a batch may run.
LEMMA GateGood ==
  ASSUME AllGood, Known, NEW a \in Agent,
         Gates(a) \/ Asks(a) \/ Hears(a) \/ PairsAndStops(a)
  PROVE  AllGood'
  <1>1. loop[a] \in GoodLoop /\ loop[a] \in LoopState
    BY DEF AllGood, GoodLoop
  <1>c. loop[a].todo # <<>> => Head(loop[a].todo) \in Call /\ Tail(loop[a].todo) \in Seq(Call)
    BY <1>1 DEF LoopState
  <1>2. CASE Gates(a)
    <2> DEFINE c == Head(loop[a].todo)
    <2>1. c \in Call /\ Tail(loop[a].todo) \in Seq(Call) /\ loop[a].pc = "gate"
      BY <1>2, <1>c DEF Gates, At
    <2>2. [loop[a] EXCEPT !.todo = Tail(@)] \in GoodLoop
      BY <1>1, <2>1 DEF GoodLoop, LoopState, Evident, Owed
    <2>3. [loop[a] EXCEPT !.todo = Tail(@), !.run = @ \cup {c}] \in GoodLoop
      BY <1>1, <2>1 DEF GoodLoop, LoopState, Evident, Owed
    <2>4. [loop[a] EXCEPT !.pc = "request"] \in GoodLoop
      BY <1>1, <1>2, <2>1, Moves DEF Gates
    <2>5. \/ loop' = [loop EXCEPT ![a].todo = Tail(@), ![a].run = @ \cup {c}]
          \/ loop' = [loop EXCEPT ![a].todo = Tail(@)]
          \/ loop' = [loop EXCEPT ![a].pc = "request"]
      BY <1>2 DEF Gates, Goto
    <2> QED  BY <2>2, <2>3, <2>4, <2>5 DEF AllGood
  <1>3. CASE Asks(a)
    <2>1. CASE Drops(a)
      BY <2>1, OverGood DEF Drops
    <2>2. CASE Goto(a, "wait")
      <3>1. loop[a].pc = "request" /\ loop[a].todo # <<>>
        BY <1>1, <1>3 DEF Asks, At, GoodLoop, Evident
      <3> QED  BY <1>1, <3>1, <2>2, Moves DEF AllGood, Goto
    <2> QED  BY <1>3, <2>1, <2>2 DEF Asks
  <1>4. CASE Hears(a)
    <2> DEFINE c == Head(loop[a].todo)
               next == [loop[a] EXCEPT !.pc = "gate", !.todo = Tail(@)]
    <2>1. loop[a].pc = "wait" /\ c \in Call /\ Tail(loop[a].todo) \in Seq(Call)
      BY <1>1, <1>4, <1>c DEF Hears, At, GoodLoop, Evident
    <2>2. [next EXCEPT !.denied = @ \cup {c}] \in GoodLoop
      BY <1>1, <2>1 DEF GoodLoop, LoopState, Evident, Owed
    <2>3. [next EXCEPT !.run = @ \cup {c}] \in GoodLoop
      BY <1>1, <2>1 DEF GoodLoop, LoopState, Evident, Owed
    <2>4. [next EXCEPT !.run = @ \cup {c},
                       !.mode = IF floor = "none" THEN "auto" ELSE @] \in GoodLoop
      BY <1>1, <2>1 DEF GoodLoop, LoopState, Evident, Owed
    <2> HIDE DEF next, c
    <2>5. answer[a] \in {"no", "yes", "always"}
      BY <1>4 DEF Hears, Known
    <2>6. loop' = [loop EXCEPT ![a] =
            CASE answer[a] = "no" -> [next EXCEPT !.denied = @ \cup {c}]
              [] answer[a] = "yes" -> [next EXCEPT !.run = @ \cup {c}]
              [] answer[a] = "always" ->
                   [next EXCEPT !.run = @ \cup {c}, !.mode = IF floor = "none" THEN "auto" ELSE @]]
      BY <1>4 DEF Hears, next, c
    <2>7. \E k \in GoodLoop : loop' = [loop EXCEPT ![a] = k]
      BY <2>2, <2>3, <2>4, <2>5, <2>6
    <2> QED  BY <2>7 DEF AllGood
  <1>5. CASE PairsAndStops(a)
    BY <1>5, IdleForms, ReturnsGood DEF PairsAndStops, AllGood
  <1> QED  BY <1>2, <1>3, <1>4, <1>5

\* The steps of a batch and of the consent to its job.
LEMMA WorkGood ==
  ASSUME AllGood, NEW a \in Agent,
         \/ StartsWork(a) \/ RunsEdit(a) \/ RunsCheck(a) \/ EndsWork(a)
         \/ JobAuthorizes(a) \/ JobAsks(a) \/ JobHears(a)
  PROVE  AllGood'
  <1>1. loop[a] \in GoodLoop
    BY DEF AllGood
  <1>2. CASE StartsWork(a)
    <2>1. [loop[a] EXCEPT !.pc = "work", !.did = {}] \in GoodLoop
      BY <1>1, <1>2, Moves DEF StartsWork, At
    <2>2. \A b \in Agent : Beginning(b) \in GoodLoop /\ loop[b] \in GoodLoop
      BY IdleForms DEF AllGood
    <2> QED  BY <1>2, <2>1, <2>2 DEF StartsWork, AllGood
  <1>3. CASE RunsEdit(a)
    <2>1. PICK ok \in BOOLEAN :
            loop' = [loop EXCEPT ![a].run = @ \ {"edit"},
                                 ![a].did = IF ok THEN @ \cup {"edit"} ELSE @,
                                 ![a].dirty = @ \/ ok]
      BY <1>3 DEF RunsEdit
    <2>2. [loop[a] EXCEPT !.run = @ \ {"edit"}, !.did = IF ok THEN @ \cup {"edit"} ELSE @,
                          !.dirty = @ \/ ok] \in GoodLoop
      BY <1>1, <1>3, Works DEF RunsEdit, Ready, At
    <2> QED  BY <2>1, <2>2 DEF AllGood
  <1>4. CASE RunsCheck(a)
    <2>1. PICK out \in {"pass", "fail", "inconclusive"} :
            loop' = [loop EXCEPT ![a].run = @ \ {"check"}, ![a].did = @ \cup {out},
                                 ![a].dirty = IF out = "pass" THEN "edit" \in loop[a].did ELSE @]
      BY <1>4 DEF RunsCheck
    <2>2. [loop[a] EXCEPT !.run = @ \ {"check"}, !.did = @ \cup {out},
                          !.dirty = IF out = "pass" THEN "edit" \in loop[a].did ELSE @] \in GoodLoop
      BY <1>1, <1>4, Works DEF RunsCheck, Ready, At
    <2> QED  BY <2>1, <2>2 DEF AllGood
  <1>5. CASE EndsWork(a)
    <2>1. CASE Over(a)
      BY <2>1, OverGood
    <2>2. CASE loop' = [loop EXCEPT ![a] = [Evidence(@) EXCEPT !.pc = "call", !.did = {}]]
      <3>1. [Evidence(loop[a]) EXCEPT !.pc = "call", !.did = {}] \in GoodLoop
        BY <1>1, <1>5, Judged DEF EndsWork, At
      <3> QED  BY <2>2, <3>1 DEF AllGood
    <2> QED  BY <1>5, <2>1, <2>2 DEF EndsWork
  <1>6. CASE JobAuthorizes(a) \/ JobAsks(a) \/ JobHears(a)
    <2>1. \/ \E j \in {"looking", "asked"} : loop' = [loop EXCEPT ![a].job = j]
          \/ JobDone(a)
      BY <1>6 DEF JobAuthorizes, JobAsks, JobHears
    <2>2. \A j \in {"looking", "asked"} : [loop[a] EXCEPT !.job = j] \in GoodLoop
      BY <1>1, JobMoves
    <2>3. [loop[a] EXCEPT !.run = @ \ {"job"}, !.job = "no"] \in GoodLoop
      BY <1>1, JobMoves
    <2> QED  BY <2>1, <2>2, <2>3 DEF JobDone, AllGood
  <1> QED  BY <1>2, <1>3, <1>4, <1>5, <1>6

\* The steps of a subagent call.
LEMMA WorkerGood ==
  ASSUME AllGood, NEW w \in Worker, WorkerStep(w)
  PROVE  AllGood'
  <1>1. w \in Agent /\ loop[w] \in GoodLoop /\ Main \in Agent /\ loop[Main] \in GoodLoop
    BY AgentAssumption, MainAssumption DEF AllGood
  <1>2. CASE AsksModel(w)
    <2>1. [loop[w] EXCEPT !.pc = "model"] \in GoodLoop
      BY <1>1, <1>2 DEF AsksModel, At, GoodLoop, LoopState, Evident, Owed
    <2> QED  BY <1>2, <2>1 DEF AsksModel, Goto, AllGood
  <1>3. CASE HearsModel(w)
    <2>1. CASE Returns(w)
      BY <1>1, <2>1, ReturnsGood
    <2>2. CASE loop' = [loop EXCEPT ![w] = Idle, ![Main].run = @ \ {w}]
      <3>1. [loop[Main] EXCEPT !.run = @ \ {w}] \in GoodLoop
        BY <1>1, CallDone
      <3>2. Main # w
        BY AgentAssumption
      <3> QED  BY <1>1, <2>2, <3>1, <3>2, IdleForms DEF AllGood
    <2>3. CASE loop' = [loop EXCEPT ![w] = Beginning(w)]
      BY <2>3, IdleForms DEF AllGood
    <2> QED  BY <1>3, <2>1, <2>2, <2>3 DEF HearsModel
  <1>4. CASE SetsUp(w)
    <2>1. CASE Returns(w)
      BY <1>1, <2>1, ReturnsGood
    <2>2. CASE Goto(w, "call")
      BY <1>1, <1>4, <2>2, Moves DEF SetsUp, At, Goto, AllGood
    <2> QED  BY <1>4, <2>1, <2>2 DEF SetsUp
  <1>5. CASE Delivers(w)
    BY <1>1, <1>5, ReturnsGood DEF Delivers
  <1> QED  BY <1>2, <1>3, <1>4, <1>5 DEF WorkerStep

\* A final answer, delivered or not, is the end of a loop.
LEMMA FinishesGood ==
  ASSUME AllGood, NEW a \in Agent, Finishes(a)
  PROVE  AllGood'
  <1>1. CASE Closes(a)
    BY <1>1, OverGood DEF Closes
  <1>2. CASE loop' = [loop EXCEPT ![a] = [Idle EXCEPT !.pc = "delivering"]]
    BY <1>2, IdleForms DEF AllGood
  <1> QED  BY <1>1, <1>2 DEF Finishes

\* The user's steps leave the loops alone; a new turn takes the session's mode.
LEMMA UserGood ==
  ASSUME AllGood, Known,
         \/ TurnStarts \/ Renders \/ UserAnswers \/ TogglesPause \/ Cancels
         \/ \E w \in Worker : CancelsWorker(w)
  PROVE  AllGood'
  <1>1. CASE TurnStarts
    <2>1. [Idle EXCEPT !.pc = "call", !.mode = session] \in GoodLoop
      BY IdleGood DEF Known
    <2> QED  BY <1>1, <2>1 DEF TurnStarts, AllGood
  <1>2. CASE ~TurnStarts
    BY <1>2 DEF Renders, UserAnswers, Answers, TogglesPause, Cancels, CancelsWorker,
                turnVars, AllGood
  <1> QED  BY <1>1, <1>2

\* Every reply is one of the choices.
LEMMA KnownKept ==
  ASSUME Known, [Next]_vars
  PROVE  Known'
  <1> DEFINE Choice == {"none", "yes", "always", "no"}
  <1>1. \A ps : \A c \in Choice : Reply(ps, c) => answer' \in [Agent -> Choice]
    BY DEF Reply, Known
  <1>2. \A c \in {"yes", "always", "no"} : Effective(c) \in {"yes", "no", "always"}
    BY DEF Effective
  <1>3. \A c \in {"yes", "always", "no"} : \A e : Resolve(c, e) => answer' \in [Agent -> Choice]
    <2>1. ASSUME NEW c \in {"yes", "always", "no"}, NEW e, Resolve(c, e)
          PROVE  answer' \in [Agent -> Choice]
      <3>1. PICK flushed :
              answer' = [a \in Agent |->
                           IF a = active.who /\ active.what # "orphan" THEN Effective(c)
                           ELSE IF \E p \in flushed : p.who = a /\ p.what # "orphan" THEN "always"
                           ELSE answer[a]]
        BY <2>1 DEF Resolve
      <3> QED  BY <1>2, <3>1 DEF Known
    <2> QED  BY <2>1
  <1>4. \A p : Enqueue(p) => answer' \in [Agent -> Choice]
    BY <1>1 DEF Enqueue, Known
  <1>5. \A b, p : EnqueueUnless(b, p) => answer' \in [Agent -> Choice]
    BY <1>1, <1>4 DEF EnqueueUnless
  <1>6. answer' = answer /\ session' = session => Known'
    BY DEF Known
  <1>7. \A a : answer' = [answer EXCEPT ![a] = "none"] => answer' \in [Agent -> Choice]
    BY DEF Known
  <1>8. ASSUME NEW a \in Agent, LoopStep(a)
        PROVE  Known'
    <2>1. answer' \in [Agent -> Choice]
      BY <1>4, <1>7, <1>8 DEF LoopStep, CallsProvider, StreamBreaks, Says, Concludes,
        TakesMessage, Gates, Asks, Hears, PairsAndStops, StartsWork, RunsEdit, RunsCheck,
        EndsWork, Finishes, JobAuthorizes, JobAsks, JobHears, Closes, Drops, Over, TurnOver,
        Discards, queueVars, Known
    <2>2. session' = session
      BY <1>8 DEF LoopStep, CallsProvider, StreamBreaks, Says, Concludes,
        TakesMessage, Gates, Asks, Hears, PairsAndStops, StartsWork, RunsEdit, RunsCheck,
        EndsWork, Finishes, JobAuthorizes, JobAsks, JobHears, Closes, Drops, Over, TurnOver,
        Discards, Returns
    <2> QED  BY <2>1, <2>2 DEF Known
  <1>9. ASSUME NEW w \in Worker, WorkerStep(w) \/ CancelsWorker(w)
        PROVE  Known'
    <2>1. RejectBySubagent(w) => answer' \in [Agent -> Choice]
      BY <1>1 DEF RejectBySubagent, Known
    <2>2. answer' \in [Agent -> Choice]
      BY <1>5, <1>7, <1>9, <2>1 DEF WorkerStep, CancelsWorker, AsksModel, HearsModel, SetsUp,
        Delivers, queueVars, Known
    <2>3. session' = session
      BY <1>9 DEF WorkerStep, CancelsWorker, AsksModel, HearsModel, SetsUp, Delivers, Returns
    <2> QED  BY <2>2, <2>3 DEF Known
  <1>10. ASSUME NEW c \in {"yes", "always", "no"}, Answers(c)
         PROVE  Known'
    BY <1>3, <1>10 DEF Answers, Known
  <1>11. CASE Cancels
    BY <1>1, <1>11 DEF Cancels, Clear, Known
  <1>12. CASE TurnStarts \/ Renders \/ TogglesPause \/ UNCHANGED vars
    BY <1>6, <1>12 DEF TurnStarts, Renders, TogglesPause, vars, turnVars, queueVars
  <1> QED  BY <1>8, <1>9, <1>10, <1>11, <1>12 DEF Next, UserAnswers

\* The choices and modes are right at the start; so is every loop.
LEMMA InitGood == Init => AllGood /\ Known
  BY IdleForms DEF Init, AllGood, Known

\* No step makes a loop bad.
LEMMA AllGoodKept ==
  ASSUME AllGood, Known, [Next]_vars
  PROVE  AllGood'
  <1>1. ASSUME NEW a \in Agent, LoopStep(a)
        PROVE  AllGood'
    BY <1>1, TalkGood, GateGood, WorkGood, FinishesGood DEF LoopStep
  <1>2. ASSUME NEW w \in Worker, WorkerStep(w)
        PROVE  AllGood'
    BY <1>2, WorkerGood
  <1>3. CASE \/ TurnStarts \/ Renders \/ UserAnswers \/ TogglesPause \/ Cancels
             \/ \E w \in Worker : CancelsWorker(w)
    BY <1>3, UserGood
  <1>4. CASE UNCHANGED vars
    BY <1>4 DEF vars, turnVars, AllGood
  <1> QED  BY <1>1, <1>2, <1>3, <1>4 DEF Next

\* Every loop is well formed, and remembers of its edits and checks what
\* happened to them, however calls, prompts and cancels interleave.
THEOREM LoopsAreGood == Spec => [](AllGood /\ Known)
  <1>1. AllGood /\ Known /\ [Next]_vars => (AllGood /\ Known)'
    BY AllGoodKept, KnownKept
  <1> QED  BY <1>1, InitGood, PTL DEF Spec

\* No final answer over edits that no check has vouched for since, unless the
\* loop was reminded as often as it may be (loop.ts:528-540).
THEOREM FinalAnswersAreVerified == Spec => []VerifiedOrReminded
  <1>1. AllGood => VerifiedOrReminded
    BY DEF AllGood, GoodLoop, Evident, VerifiedOrReminded, At
  <1> QED  BY <1>1, LoopsAreGood, PTL

-----------------------------------------------------------------------------
(* The history of the main agent's loop.                                    *)

InBatch == {"said", "gate", "request", "wait", "work"}
Paired == PairedUnlessDropped /\ open \in BOOLEAN /\ dropped \in BOOLEAN

\* Whoever else moves, the main loop's counter, its history and what became of
\* it stay as they are.
LEMMA OthersKeepMain ==
  ASSUME AllGood, Paired, NEW w \in Agent, w # Main,
         LoopStep(w) \/ (w \in Worker /\ WorkerStep(w))
  PROVE  loop'[Main].pc = loop[Main].pc /\ open' = open /\ dropped' = dropped
  <1>0. Main \in Agent /\ loop \in [Agent -> GoodLoop] /\ loop[Main] \in LoopState
    BY MainAssumption DEF AllGood, GoodLoop
  <1>b. open \in BOOLEAN /\ dropped \in BOOLEAN
    BY DEF Paired
  <1>1. Returns(w) => loop'[Main].pc = loop[Main].pc
    <2>1. [loop[Main] EXCEPT !.run = @ \ {w}].pc = loop[Main].pc
      BY <1>0 DEF LoopState
    <2> QED  BY <1>0, <2>1 DEF Returns
  <1>2. Over(w) => loop'[Main].pc = loop[Main].pc
    BY <1>1 DEF Over, Discards
  <1>3. Closes(w) \/ Drops(w) =>
          loop'[Main].pc = loop[Main].pc /\ open' = open /\ dropped' = dropped
    <2>1. Drops(w) => dropped' = dropped
      BY <1>b DEF Drops
    <2> QED  BY <1>2, <2>1 DEF Closes, Drops
  <1>4. \A p : Goto(w, p) => loop'[Main].pc = loop[Main].pc
    BY <1>0 DEF Goto
  <1>6. CASE CallsProvider(w) \/ StreamBreaks(w) \/ TakesMessage(w) \/ Asks(w)
    BY <1>3, <1>4, <1>6 DEF CallsProvider, StreamBreaks, TakesMessage, Asks
  <1>7. CASE Says(w)
    <2>1. open' = open
      BY <1>b, <1>7 DEF Says
    <2> QED  BY <1>0, <1>7, <2>1 DEF Says
  <1>8. CASE Concludes(w)
    BY <1>0, <1>3, <1>4, <1>8 DEF Concludes
  <1>9. CASE Gates(w) \/ Hears(w)
    BY <1>0, <1>4, <1>9 DEF Gates, Hears
  <1>10. CASE PairsAndStops(w)
    BY <1>1, <1>10 DEF PairsAndStops
  <1>11. CASE StartsWork(w)
    BY <1>0, <1>11, AgentAssumption DEF StartsWork
  <1>12. CASE RunsEdit(w) \/ RunsCheck(w)
    BY <1>0, <1>12 DEF RunsEdit, RunsCheck
  <1>13. CASE EndsWork(w)
    <2>1. open' = open
      BY <1>b, <1>13 DEF EndsWork
    <2> QED  BY <1>0, <1>2, <1>13, <2>1 DEF EndsWork
  <1>14. CASE Finishes(w)
    BY <1>0, <1>3, <1>14 DEF Finishes
  <1>15. CASE JobAuthorizes(w) \/ JobAsks(w) \/ JobHears(w)
    BY <1>0, <1>15 DEF JobAuthorizes, JobAsks, JobHears, JobDone
  <1>16. CASE w \in Worker /\ WorkerStep(w)
    <2>1. CASE AsksModel(w) \/ Delivers(w) \/ SetsUp(w)
      BY <1>1, <1>4, <2>1 DEF AsksModel, Delivers, SetsUp
    <2>2. CASE HearsModel(w)
      <3>1. loop' = [loop EXCEPT ![w] = Idle, ![Main].run = @ \ {w}] =>
              loop'[Main].pc = loop[Main].pc
        <4>1. [loop[Main] EXCEPT !.run = @ \ {w}].pc = loop[Main].pc
          BY <1>0 DEF LoopState
        <4> QED  BY <1>0, <4>1
      <3> QED  BY <1>0, <1>1, <2>2, <3>1 DEF HearsModel
    <2> QED  BY <1>16, <2>1, <2>2 DEF WorkerStep
  <1> QED  BY <1>6, <1>7, <1>8, <1>9, <1>10, <1>11, <1>12, <1>13, <1>14, <1>15, <1>16 DEF LoopStep

\* The main loop leaves its batch with every call answered, or by being dropped.
LEMMA MainKeepsPaired ==
  ASSUME AllGood, Known, Paired, LoopStep(Main)
  PROVE  Paired'
  <1>0. Main \in Agent /\ loop \in [Agent -> GoodLoop] /\ loop[Main] \in LoopState
    BY MainAssumption DEF AllGood, GoodLoop
  <1>b. open \in BOOLEAN /\ dropped \in BOOLEAN /\ PairedUnlessDropped
    BY DEF Paired
  <1>1. loop[Main].pc \notin InBatch => (open => dropped)
    BY <1>b DEF PairedUnlessDropped, InBatch
  <1>2. CASE Closes(Main) /\ loop[Main].pc \notin InBatch
    BY <1>1, <1>2, <1>b DEF Closes, Paired, PairedUnlessDropped
  <1>3. CASE Drops(Main)
    BY <1>3, <1>b DEF Drops, Paired, PairedUnlessDropped
  <1>4. ASSUME NEW p \in InBatch, loop'[Main].pc = p, open' \in BOOLEAN, dropped' = dropped
        PROVE  Paired'
    BY <1>4, <1>b DEF Paired, PairedUnlessDropped, InBatch
  <1>5. ASSUME loop[Main].pc \notin InBatch, open' = open, dropped' = dropped
        PROVE  Paired'
    BY <1>1, <1>5, <1>b DEF Paired, PairedUnlessDropped
  <1>6. ASSUME open' = FALSE, dropped' = dropped
        PROVE  Paired'
    BY <1>6, <1>b DEF Paired, PairedUnlessDropped
  <1>7. CASE CallsProvider(Main) \/ StreamBreaks(Main) \/ Finishes(Main) \/ Concludes(Main)
    <2>1. loop[Main].pc \notin InBatch
      BY <1>7 DEF CallsProvider, StreamBreaks, Finishes, Concludes, At, InBatch
    <2>2. open' = open /\ dropped' = dropped
      BY <1>7 DEF CallsProvider, StreamBreaks, Finishes, Concludes, Closes
    <2> QED  BY <1>5, <2>1, <2>2
  <1>8. CASE Says(Main)
    <2>1. loop'[Main].pc = "said"
      BY <1>0, <1>8 DEF Says, LoopState
    <2>2. open' = TRUE /\ dropped' = dropped
      BY <1>8 DEF Says
    <2> QED  BY <1>4, <2>1, <2>2 DEF InBatch
  <1>9. CASE TakesMessage(Main) \/ Asks(Main)
    <2>1. CASE Goto(Main, "gate") /\ open' = open /\ dropped' = dropped
      BY <1>0, <1>4, <1>b, <2>1 DEF Goto, InBatch, LoopState
    <2>2. CASE Goto(Main, "wait") /\ open' = open /\ dropped' = dropped
      BY <1>0, <1>4, <1>b, <2>2 DEF Goto, InBatch, LoopState
    <2> QED  BY <1>3, <1>9, <2>1, <2>2 DEF TakesMessage, Asks
  <1>10. CASE Gates(Main)
    <2>1. loop'[Main].pc \in {"gate", "request"}
      BY <1>0, <1>10 DEF Gates, Goto, At, LoopState
    <2> QED  BY <1>4, <1>10, <1>b, <2>1 DEF Gates, InBatch
  <1>11. CASE Hears(Main)
    <2> DEFINE c == Head(loop[Main].todo)
               next == [loop[Main] EXCEPT !.pc = "gate", !.todo = Tail(@)]
               new == CASE answer[Main] = "no" -> [next EXCEPT !.denied = @ \cup {c}]
                        [] answer[Main] = "yes" -> [next EXCEPT !.run = @ \cup {c}]
                        [] answer[Main] = "always" ->
                             [next EXCEPT !.run = @ \cup {c},
                                          !.mode = IF floor = "none" THEN "auto" ELSE @]
    <2>1. answer[Main] \in {"no", "yes", "always"}
      BY <1>0, <1>11 DEF Hears, Known
    <2>2. new.pc = "gate"
      BY <1>0, <2>1 DEF LoopState
    <2>3. loop' = [loop EXCEPT ![Main] = new]
      BY <1>11 DEF Hears
    <2> HIDE DEF new
    <2>4. loop'[Main].pc = "gate"
      BY <1>0, <2>2, <2>3
    <2> QED  BY <1>4, <1>11, <1>b, <2>4 DEF Hears, InBatch
  <1>12. CASE PairsAndStops(Main)
    BY <1>6, <1>12 DEF PairsAndStops
  <1>13. CASE StartsWork(Main)
    <2>1. loop'[Main].pc = "work"
      BY <1>0, <1>13 DEF StartsWork, LoopState
    <2> QED  BY <1>4, <1>13, <1>b, <2>1 DEF StartsWork, InBatch
  <1>14. CASE \/ RunsEdit(Main) \/ RunsCheck(Main) \/ JobAuthorizes(Main)
              \/ JobAsks(Main) \/ JobHears(Main)
    <2>1. loop'[Main].pc = loop[Main].pc
      <3>1. CASE RunsEdit(Main)
        BY <1>0, <3>1 DEF RunsEdit, LoopState
      <3>2. CASE RunsCheck(Main)
        BY <1>0, <3>2 DEF RunsCheck, LoopState
      <3>3. CASE JobAuthorizes(Main) \/ JobAsks(Main) \/ JobHears(Main)
        BY <1>0, <3>3 DEF JobAuthorizes, JobAsks, JobHears, JobDone, LoopState
      <3> QED  BY <1>14, <3>1, <3>2, <3>3
    <2>2. open' = open /\ dropped' = dropped
      BY <1>14 DEF RunsEdit, RunsCheck, JobAuthorizes, JobAsks, JobHears
    <2> QED  BY <1>b, <2>1, <2>2 DEF Paired, PairedUnlessDropped
  <1>15. CASE EndsWork(Main)
    BY <1>6, <1>15 DEF EndsWork
  <1> QED  BY <1>7, <1>8, <1>9, <1>10, <1>11, <1>12, <1>13, <1>14, <1>15 DEF LoopStep

\* The user's steps: a new turn begins with an unpaired history only when the
\* last one was dropped.
LEMMA UserKeepsPaired ==
  ASSUME AllGood, Paired,
         \/ TurnStarts \/ Renders \/ UserAnswers \/ TogglesPause \/ Cancels
         \/ \E w \in Worker : CancelsWorker(w)
  PROVE  Paired'
  <1>1. CASE TurnStarts
    <2>1. open => dropped
      BY <1>1 DEF TurnStarts, At, Paired, PairedUnlessDropped
    <2> QED  BY <1>1, <2>1 DEF TurnStarts, Paired, PairedUnlessDropped
  <1>2. CASE ~TurnStarts
    BY <1>2 DEF Renders, UserAnswers, Answers, TogglesPause, Cancels, CancelsWorker,
                turnVars, Paired, PairedUnlessDropped
  <1> QED  BY <1>1, <1>2

\* Outside a batch the history of the main agent is paired, unless the interface
\* broke the loop off between a call and its result (loop.ts:684-695,
\* use-agent.ts:1086-1092).
THEOREM HistoryIsPaired == Spec => []PairedUnlessDropped
  <1>1. Init => Paired
    BY DEF Init, Paired, PairedUnlessDropped
  <1>2. AllGood /\ Known /\ Paired /\ [Next]_vars => Paired'
    <2> SUFFICES ASSUME AllGood, Known, Paired, [Next]_vars PROVE Paired'
      OBVIOUS
    <2>1. CASE LoopStep(Main)
      BY <2>1, MainKeepsPaired
    <2>2. ASSUME NEW a \in Agent, a # Main, LoopStep(a) \/ (a \in Worker /\ WorkerStep(a))
          PROVE  Paired'
      BY <2>2, OthersKeepMain DEF Paired, PairedUnlessDropped
    <2>3. CASE \/ TurnStarts \/ Renders \/ UserAnswers \/ TogglesPause \/ Cancels
               \/ \E w \in Worker : CancelsWorker(w)
      BY <2>3, UserKeepsPaired
    <2>4. CASE UNCHANGED vars
      BY <2>4 DEF vars, turnVars, Paired, PairedUnlessDropped
    <2> QED  BY <2>1, <2>2, <2>3, <2>4, AgentAssumption DEF Next
  <1>3. Paired => PairedUnlessDropped
    BY DEF Paired
  <1> QED  BY <1>1, <1>2, <1>3, LoopsAreGood, PTL DEF Spec

-----------------------------------------------------------------------------
(* What filter leaves of a queue.                                           *)

\* r holds the entries of q at the places K, each once.
Keeps(q, r, K) ==
  /\ K \subseteq 1..Len(q)
  /\ \E h \in [1..Len(r) -> K] :
       /\ \A k \in 1..Len(r) : r[k] = q[h[k]]
       /\ \A i \in K : \E k \in 1..Len(r) : h[k] = i
       /\ \A j, k \in 1..Len(r) : h[j] = h[k] => j = k

\* What filter leaves is what it should keep, and nothing twice.
LEMMA Filtered ==
  ASSUME NEW T, NEW q \in Seq(T), NEW S
  PROVE  Without(q, S) \in Seq(T) /\ Keeps(q, Without(q, S), {i \in 1..Len(q) : q[i] \notin S})
  <1>. DEFINE kept == {i \in 1..Len(q) : q[i] \notin S}
              upTo(i) == {j \in kept : j <= i}
              rank == [i \in kept |-> Cardinality(upTo(i))]
              at(k) == CHOOSE i \in kept : Cardinality(upTo(i)) = k
              n == Cardinality(kept)
  <1>0. Len(q) \in Nat /\ kept \subseteq 1..Len(q) /\ \A i \in 1..Len(q) : q[i] \in T
    OBVIOUS
  <1>1. IsFiniteSet(kept) /\ n \in Nat
    <2>1. IsFiniteSet(1..Len(q))
      BY <1>0, FS_Interval
    <2>2. IsFiniteSet(kept)
      BY <1>0, <2>1, FS_Subset
    <2>. QED BY <2>2, FS_CardinalityType
  <1>2. \A i \in kept : IsFiniteSet(upTo(i)) /\ Cardinality(upTo(i)) \in 1..n
    <2>. TAKE i \in kept
    <2>1. upTo(i) \subseteq kept /\ i \in upTo(i)
      OBVIOUS
    <2>2. IsFiniteSet(upTo(i)) /\ Cardinality(upTo(i)) \in Nat /\ Cardinality(upTo(i)) <= n
      BY <1>1, <2>1, FS_Subset, FS_CardinalityType
    <2>3. Cardinality(upTo(i)) # 0
      BY <2>1, <2>2, FS_EmptySet
    <2>. QED BY <1>1, <2>2, <2>3
  <1>3. ASSUME NEW i \in kept, NEW j \in kept, i < j
        PROVE  Cardinality(upTo(i)) < Cardinality(upTo(j))
    <2>1. upTo(i) \subseteq upTo(j) /\ j \in upTo(j) /\ j \notin upTo(i)
      BY <1>3
    <2>2. IsFiniteSet(upTo(j)) /\ upTo(i) # upTo(j)
      BY <1>2, <2>1
    <2>. DEFINE A == upTo(i)
                B == upTo(j)
    <2>. HIDE DEF A, B
    <2>3. Cardinality(A) <= Cardinality(B) /\ (Cardinality(A) = Cardinality(B) => A = B)
      <3>1. IsFiniteSet(B) /\ A \subseteq B
        BY <2>1, <2>2 DEF A, B
      <3>. QED BY <3>1, FS_Subset
    <2>4. A # B
      BY <2>2 DEF A, B
    <2>5. Cardinality(A) \in 1..n /\ Cardinality(B) \in 1..n
      BY <1>2 DEF A, B
    <2>. HIDE DEF n
    <2>6. Cardinality(A) < Cardinality(B)
      BY <1>1, <2>3, <2>4, <2>5
    <2>. QED BY <2>6 DEF A, B
  <1>4. \A i, j \in kept : rank[i] = rank[j] => i = j
    <2>. SUFFICES ASSUME NEW i \in kept, NEW j \in kept, i # j
                  PROVE  Cardinality(upTo(i)) # Cardinality(upTo(j))
      OBVIOUS
    <2>1. i \in Int /\ j \in Int
      BY <1>0
    <2>2. i < j \/ j < i
      BY <2>1
    <2>3. Cardinality(upTo(i)) \in Int /\ Cardinality(upTo(j)) \in Int
      <3>. HIDE DEF n, upTo, kept
      <3>. QED BY <1>1, <1>2
    <2>. DEFINE A == Cardinality(upTo(i))
                B == Cardinality(upTo(j))
    <2>4. A < B \/ B < A
      BY <1>3, <2>2
    <2>. HIDE DEF A, B
    <2>5. A # B
      BY <2>3, <2>4 DEF A, B
    <2>. QED BY <2>5 DEF A, B
  <1>5. rank \in Injection(kept, 1..n)
    BY <1>2, <1>4 DEF Injection, IsInjective
  <1>6. rank \in Surjection(kept, 1..n)
    <2>. HIDE DEF n
    <2>1. IsFiniteSet(1..n) /\ Cardinality(1..n) = n
      <3>1. 1 \in Int /\ n \in Int /\ n - 1 + 1 = n /\ (1 > n => n = 0)
        BY <1>1
      <3>2. IsFiniteSet(1..n) /\ Cardinality(1..n) = IF 1 > n THEN 0 ELSE n - 1 + 1
        BY <3>1, FS_Interval
      <3>. QED BY <3>1, <3>2
    <2>2. Cardinality(kept) = Cardinality(1..n)
      BY <2>1 DEF n
    <2>. HIDE DEF rank, kept
    <2>. QED BY <1>5, <2>1, <2>2, FS_Injection
  <1>7. \A k \in 1..n : at(k) \in kept /\ rank[at(k)] = k
    BY <1>6 DEF Surjection
  <1>8. \A i \in kept : at(rank[i]) = i
    BY <1>2, <1>4, <1>7
  <1>9. Without(q, S) = [k \in 1..n |-> q[at(k)]]
    BY DEF Without
  <1>10. Without(q, S) \in Seq(T) /\ Len(Without(q, S)) = n
    <2>1. \A k \in 1..n : q[at(k)] \in T
      <3>. HIDE DEF at, kept
      <3>1. \A k \in 1..n : at(k) \in 1..Len(q)
        BY <1>0, <1>7
      <3>. QED BY <1>0, <3>1
    <2>. DEFINE f == [k \in 1..n |-> q[at(k)]]
    <2>2. \A k \in 1..n : f[k] \in T
      BY <2>1
    <2>. HIDE DEF at, n
    <2>3. f \in Seq(T) /\ Len(f) = n
      BY <1>1, <2>2
    <2>. QED BY <1>9, <2>3
  <1>11. [k \in 1..n |-> at(k)] \in [1..n -> kept]
    BY <1>7
  <1>. HIDE DEF at, rank, n
  <1>12. \A i \in kept : rank[i] \in 1..n
    BY <1>2 DEF rank
  <1>. DEFINE h == [k \in 1..n |-> at(k)]
  <1>13. /\ h \in [1..Len(Without(q, S)) -> kept]
         /\ \A k \in 1..Len(Without(q, S)) : Without(q, S)[k] = q[h[k]]
         /\ \A i \in kept : \E k \in 1..Len(Without(q, S)) : h[k] = i
         /\ \A j, k \in 1..Len(Without(q, S)) : h[j] = h[k] => j = k
    <2>1. \A k \in 1..n : h[k] = at(k)
      OBVIOUS
    <2>2. \A i \in kept : h[rank[i]] = i
      BY <1>8, <1>12
    <2>3. \A j, k \in 1..n : at(j) = at(k) => j = k
      BY <1>7
    <2>4. \A k \in 1..n : Without(q, S)[k] = q[at(k)]
      BY <1>9
    <2>. HIDE DEF h
    <2>. QED BY <1>10, <1>11, <1>12, <2>1, <2>2, <2>3, <2>4 DEF h
  <1>. HIDE DEF h, kept
  <1>14. Keeps(q, Without(q, S), kept)
    BY <1>0, <1>13 DEF Keeps
  <1>. QED BY <1>10, <1>14 DEF kept

-----------------------------------------------------------------------------
(* Every variable keeps its type.                                           *)

\* The parts of the type invariant that AllGood and Known do not state.
CountsOK ==
  /\ turn \in 0..MaxTurns /\ budget \in Nat /\ aborted \subseteq Agent
  /\ open \in BOOLEAN /\ paused \in BOOLEAN /\ dropped \in BOOLEAN /\ floor \in {"none", "ask"}
PlacesOK == cwd \in Agent /\ home \in [Worker -> Agent] /\ trees \subseteq Worker
ScreenOK ==
  /\ active \in Prompt \cup {None} /\ pending \in Prompt \cup {None}
  /\ queue \in Seq(Prompt) /\ autoAccept \in BOOLEAN
ShownOK == shown \in Prompt \cup {None, Stale}

\* The next entry is an entry, or none.
LEMMA DequeueTyped ==
  ASSUME NEW rest \in Seq(Prompt), Dequeue(rest)
  PROVE  active' \in Prompt \cup {None} /\ pending' = active' /\ queue' \in Seq(Prompt)
  BY DEF Dequeue, Show

\* The methods of the queue keep it a queue.
LEMMA EnqueueTyped ==
  ASSUME ScreenOK, NEW p \in Prompt, NEW b \in BOOLEAN,
         Enqueue(p) \/ EnqueueUnless(b, p)
  PROVE  ScreenOK'
  BY DEF Enqueue, EnqueueUnless, Show, ScreenOK

\* resolve leaves a queue of prompts.
LEMMA ResolveTyped ==
  ASSUME ScreenOK, NEW c, NEW e, Resolve(c, e)
  PROVE  ScreenOK'
  <1>1. PICK S : Dequeue(Without(queue, S))
    BY DEF Resolve
  <1>2. Without(queue, S) \in Seq(Prompt)
    BY Filtered DEF ScreenOK
  <1>3. autoAccept' \in BOOLEAN
    BY DEF Resolve, ScreenOK
  <1>. QED BY <1>1, <1>2, <1>3, DequeueTyped DEF ScreenOK

\* So does rejectBySubagentId.
LEMMA RejectTyped ==
  ASSUME ScreenOK, NEW w, RejectBySubagent(w)
  PROVE  ScreenOK'
  <1>. DEFINE p == [who |-> w, what |-> "tool"]
              rest == Without(queue, {p})
  <1>1. rest \in Seq(Prompt)
    BY Filtered DEF ScreenOK
  <1>2. UNCHANGED autoAccept /\ (Dequeue(rest) \/ (queue' = rest /\ UNCHANGED <<active, pending>>))
    BY DEF RejectBySubagent
  <1>. HIDE DEF rest
  <1>. QED BY <1>1, <1>2, DequeueTyped DEF ScreenOK

\* Every step leaves a queue of prompts.
LEMMA ScreenTyped ==
  ASSUME ScreenOK, [Next]_vars
  PROVE  ScreenOK'
  <1>1. CASE UNCHANGED queueVars
    BY <1>1 DEF queueVars, ScreenOK
  <1>2. CASE UNCHANGED <<active, queue, autoAccept>> /\ pending' \in {pending, None}
    BY <1>2 DEF ScreenOK
  <1>3. ASSUME NEW a \in Agent, LoopStep(a) PROVE ScreenOK'
    <2>1. CASE JobAsks(a)
      <3>1. [who |-> a, what |-> "job"] \in Prompt /\ [who |-> a, what |-> "orphan"] \in Prompt
        BY DEF Prompt
      <3>. QED BY <1>1, <2>1, <3>1, EnqueueTyped DEF JobAsks
    <2>2. CASE Asks(a)
      <3>1. [who |-> a, what |-> "tool"] \in Prompt
        BY DEF Prompt
      <3>2. CASE Drops(a)
        BY <1>1, <1>2, <3>2 DEF Drops, Over, TurnOver, Discards, queueVars
      <3>. QED BY <2>2, <3>1, <3>2, EnqueueTyped DEF Asks
    <2>3. CASE ~JobAsks(a) /\ ~Asks(a)
      BY <1>1, <1>2, <1>3, <2>3 DEF LoopStep, CallsProvider, StreamBreaks, Says, Concludes,
        TakesMessage, Gates, Hears, PairsAndStops, StartsWork, RunsEdit, RunsCheck, EndsWork,
        Finishes, JobAuthorizes, JobHears, Closes, Drops, Over, TurnOver, Discards, queueVars
    <2>. QED BY <2>1, <2>2, <2>3
  <1>4. ASSUME NEW w \in Worker, WorkerStep(w) \/ CancelsWorker(w) PROVE ScreenOK'
    <2>1. CASE AsksModel(w)
      <3>1. [who |-> w, what |-> "model"] \in Prompt /\ (Main \in aborted) \in BOOLEAN
        BY AgentAssumption DEF Prompt
      <3>. QED BY <2>1, <3>1, EnqueueTyped DEF AsksModel
    <2>2. CASE CancelsWorker(w)
      BY <2>2, RejectTyped DEF CancelsWorker
    <2>. QED BY <1>1, <1>2, <1>4, <2>1, <2>2 DEF WorkerStep, HearsModel, SetsUp, Delivers,
           queueVars
  <1>5. CASE UserAnswers
    BY <1>5, ResolveTyped DEF UserAnswers, Answers
  <1>6. CASE Cancels
    <2>1. <<>> \in Seq(Prompt)
      OBVIOUS
    <2>2. active' = None /\ pending' = None /\ queue' = <<>> /\ autoAccept' = FALSE
      BY <1>6 DEF Cancels, Clear, Show
    <2>. QED BY <2>1, <2>2 DEF ScreenOK
  <1>7. CASE TurnStarts \/ Renders \/ TogglesPause \/ UNCHANGED vars
    BY <1>1, <1>7 DEF TurnStarts, Renders, TogglesPause, vars
  <1>. QED BY <1>3, <1>4, <1>5, <1>6, <1>7 DEF Next

\* The prompt on the screen is a prompt, none, or one that is gone.
LEMMA ShownTyped ==
  ASSUME ScreenOK, ShownOK, [Next]_vars
  PROVE  ShownOK'
  <1>1. KeepsScreen => ShownOK'
    BY DEF KeepsScreen, ShownOK
  <1>2. ASSUME NEW a \in Agent, LoopStep(a) PROVE UNCHANGED shown
    <2>1. ASSUME NEW b \in Agent, Over(b) PROVE UNCHANGED shown
      BY <2>1 DEF Over, TurnOver, Discards
    <2>. QED BY <1>2, <2>1 DEF LoopStep, CallsProvider, StreamBreaks, Says, Concludes,
           TakesMessage, Gates, Asks, Hears, PairsAndStops, StartsWork, RunsEdit, RunsCheck,
           EndsWork, Finishes, JobAuthorizes, JobAsks, JobHears, Closes, Drops
  <1>3. ASSUME NEW w \in Worker, WorkerStep(w) \/ CancelsWorker(w)
        PROVE  UNCHANGED shown \/ KeepsScreen
    BY <1>3 DEF WorkerStep, AsksModel, HearsModel, SetsUp, Delivers, CancelsWorker
  <1>4. CASE TurnStarts \/ Renders \/ UserAnswers \/ TogglesPause \/ Cancels \/ UNCHANGED vars
    <2>1. UNCHANGED shown \/ shown' = pending \/ KeepsScreen
      BY <1>4 DEF TurnStarts, Renders, UserAnswers, Answers, TogglesPause, Cancels, vars
    <2>. QED BY <1>1, <2>1 DEF ScreenOK, ShownOK
  <1>. QED BY <1>1, <1>2, <1>3, <1>4 DEF ShownOK, Next

\* The process is in the checkout or in a worktree.
LEMMA PlacesTyped ==
  ASSUME PlacesOK, [Next]_vars
  PROVE  PlacesOK'
  <1>1. CASE UNCHANGED placeVars
    BY <1>1 DEF placeVars, PlacesOK
  <1>2. \A w \in Worker : GoesHome(w) => cwd' \in Agent
    BY DEF GoesHome, PlacesOK
  <1>3. ASSUME NEW w \in Worker, GoesHome(w), home' = home, trees' \subseteq trees
        PROVE  PlacesOK'
    BY <1>2, <1>3 DEF PlacesOK
  <1>4. ASSUME NEW a \in Agent, Over(a) PROVE PlacesOK'
    BY <1>1, <1>3, <1>4, AgentAssumption DEF Over, TurnOver, Discards, Returns
  <1>5. ASSUME NEW a \in Agent, LoopStep(a) PROVE PlacesOK'
    <2>1. CASE StartsWork(a)
      BY <2>1 DEF StartsWork, PlacesOK
    <2>2. CASE PairsAndStops(a)
      BY <1>1, <1>3, <2>2, AgentAssumption DEF PairsAndStops, Returns
    <2>3. CASE Finishes(a)
      BY <1>3, <1>4, <2>3, AgentAssumption DEF Finishes, Closes
    <2>. QED BY <1>1, <1>4, <1>5, <2>1, <2>2, <2>3 DEF LoopStep, CallsProvider, StreamBreaks,
           Says, Concludes, TakesMessage, Gates, Asks, Hears, RunsEdit, RunsCheck, EndsWork,
           JobAuthorizes, JobAsks, JobHears, Closes, Drops
  <1>6. ASSUME NEW w \in Worker, WorkerStep(w) \/ CancelsWorker(w) PROVE PlacesOK'
    <2>1. CASE AsksModel(w) \/ CancelsWorker(w)
      BY <1>1, <2>1 DEF AsksModel, CancelsWorker
    <2>2. CASE HearsModel(w)
      BY <2>2 DEF HearsModel, Returns, PlacesOK
    <2>3. CASE SetsUp(w)
      BY <2>3, AgentAssumption DEF SetsUp, Returns, PlacesOK
    <2>4. CASE Delivers(w)
      BY <1>2, <2>4 DEF Delivers, Returns, PlacesOK
    <2>. QED BY <1>6, <2>1, <2>2, <2>3, <2>4 DEF WorkerStep
  <1>7. CASE TurnStarts \/ Renders \/ UserAnswers \/ TogglesPause \/ Cancels \/ UNCHANGED vars
    BY <1>1, <1>7 DEF TurnStarts, Renders, UserAnswers, Answers, TogglesPause, Cancels, vars,
      turnVars, placeVars
  <1>. QED BY <1>5, <1>6, <1>7 DEF Next

\* The counters and flags of the session keep their types.
LEMMA CountsTyped ==
  ASSUME CountsOK, [Next]_vars
  PROVE  CountsOK'
  <1>1. CASE UNCHANGED <<turn, budget, open, aborted, paused, dropped, floor>>
    BY <1>1 DEF CountsOK
  <1>2. ASSUME NEW a \in Agent, Over(a)
        PROVE  UNCHANGED <<turn, budget, floor>> /\ aborted' \subseteq Agent /\ paused' \in BOOLEAN
    BY <1>2 DEF Over, TurnOver, Discards, Returns, CountsOK
  <1>3. ASSUME NEW a \in Agent, LoopStep(a) PROVE CountsOK'
    <2>1. CASE CallsProvider(a)
      <3>1. CASE /\ budget > 0 /\ budget' = budget - 1
                 /\ UNCHANGED <<turn, open, aborted, paused, dropped, floor>>
        BY <3>1 DEF CountsOK
      <3>. QED BY <1>2, <2>1, <3>1 DEF CallsProvider, Closes, CountsOK
    <2>2. CASE StreamBreaks(a) \/ Concludes(a) \/ TakesMessage(a) \/ Asks(a) \/ Finishes(a)
      BY <1>1, <1>2, <2>2 DEF StreamBreaks, Concludes, TakesMessage, Asks, Finishes, Closes,
        Drops, CountsOK
    <2>3. CASE Says(a)
      BY <2>3 DEF Says, CountsOK
    <2>4. CASE EndsWork(a)
      BY <1>2, <2>4 DEF EndsWork, CountsOK
    <2>5. CASE PairsAndStops(a)
      BY <2>5 DEF PairsAndStops, Returns, CountsOK
    <2>. QED BY <1>1, <1>3, <2>1, <2>2, <2>3, <2>4, <2>5 DEF LoopStep, Gates, Hears,
           StartsWork, RunsEdit, RunsCheck, JobAuthorizes, JobAsks, JobHears
  <1>4. ASSUME NEW w \in Worker, WorkerStep(w) \/ CancelsWorker(w) PROVE CountsOK'
    <2>1. w \in Agent
      BY AgentAssumption
    <2>. QED BY <1>4, <2>1 DEF WorkerStep, AsksModel, HearsModel, SetsUp, Delivers,
           CancelsWorker, Returns, CountsOK
  <1>5. CASE TurnStarts
    BY <1>5, AgentAssumption DEF TurnStarts, CountsOK
  <1>6. CASE Cancels
    BY <1>6, AgentAssumption, MainAssumption DEF Cancels, CountsOK
  <1>7. CASE Renders \/ UserAnswers \/ TogglesPause \/ UNCHANGED vars
    BY <1>7 DEF Renders, UserAnswers, Answers, TogglesPause, vars, turnVars, CountsOK
  <1>. QED BY <1>3, <1>4, <1>5, <1>6, <1>7 DEF Next

\* Every step keeps every type.
LEMMA TypeStep ==
  ASSUME AllGood, Known, TypeOK, [Next]_vars
  PROVE  TypeOK'
  <1>1. TypeOK <=> /\ CountsOK /\ PlacesOK /\ ScreenOK /\ ShownOK /\ Known
                   /\ loop \in [Agent -> LoopState]
    BY DEF TypeOK, CountsOK, PlacesOK, ScreenOK, ShownOK, Known
  <1>2. TypeOK' <=> (/\ CountsOK /\ PlacesOK /\ ScreenOK /\ ShownOK /\ Known
                     /\ loop \in [Agent -> LoopState])'
    BY DEF TypeOK, CountsOK, PlacesOK, ScreenOK, ShownOK, Known
  <1>3. loop' \in [Agent -> LoopState]
    BY AllGoodKept DEF AllGood, GoodLoop
  <1>. QED BY <1>1, <1>2, <1>3, KnownKept, CountsTyped, PlacesTyped, ScreenTyped, ShownTyped

\* Every variable of the session keeps its type.
THEOREM StateIsTyped == Spec => []TypeOK
  <1>1. Init => TypeOK
    <2>1. Idle \in LoopState
      BY IdleForms DEF GoodLoop
    <2>2. <<>> \in Seq(Prompt) /\ 0 \in 0..MaxTurns
      BY AgentAssumption
    <2>3. Floors \subseteq {"none", "ask"} /\ Main \in Agent
      BY AgentAssumption, MainAssumption
    <2>. SUFFICES ASSUME Init PROVE TypeOK
      OBVIOUS
    <2>4. turn \in 0..MaxTurns /\ budget \in Nat /\ loop \in [Agent -> LoopState]
      BY <2>1, <2>2 DEF Init
    <2>5. /\ open \in BOOLEAN /\ aborted \subseteq Agent /\ paused \in BOOLEAN
          /\ session \in {"ask", "auto"} /\ floor \in {"none", "ask"} /\ autoAccept \in BOOLEAN
          /\ cwd \in Agent /\ home \in [Worker -> Agent] /\ trees \subseteq Worker
          /\ dropped \in BOOLEAN
      BY <2>3 DEF Init
    <2>6. /\ active \in Prompt \cup {None} /\ pending \in Prompt \cup {None}
          /\ queue \in Seq(Prompt) /\ shown \in Prompt \cup {None, Stale}
          /\ answer \in [Agent -> {"none", "yes", "always", "no"}]
      BY <2>2 DEF Init
    <2>. QED BY <2>4, <2>5, <2>6 DEF TypeOK
  <1>2. AllGood /\ Known /\ TypeOK /\ [Next]_vars => TypeOK'
    BY TypeStep
  <1>. QED BY <1>1, <1>2, LoopsAreGood, PTL DEF Spec

-----------------------------------------------------------------------------
(* Where the process is.  The working directory is the process's own, so a  *)
(* worker that enters its worktree takes everyone along; with one writer it *)
(* also takes everyone back.                                                *)

OneWriter == \A v, w \in Writers : v = w

Own == {"edit", "check"}
Away == {"call", "stream", "said", "gate", "request", "wait", "work", "last"}

\* A worker lives only within the batch that called it, calls no other worker,
\* and is set up or merged only when it writes; the process is away from the
\* checkout only in the worktree of a writer that is at work.
Live == \A w \in Worker :
  /\ loop[w].pc # "off" => loop[Main].pc = "work" /\ w \in loop[Main].run
  /\ loop[w].run \subseteq Own /\ loop[w].todo \in Seq(Own)
  /\ loop[w].pc \in {"setup", "delivering"} => w \in Writers
Placed ==
  /\ \A w \in Writers : home[w] = Main
  /\ cwd # Main => cwd \in Writers /\ loop[cwd].pc \in Away
Home == OneWriter => Placed
Homely == AllGood /\ Known /\ TypeOK /\ Live /\ Home

\* A step of a worker's own loop.
LEMMA WorkerMoves ==
  ASSUME Homely, NEW w \in Worker, NEW k, loop' = [loop EXCEPT ![w] = k],
         k.pc \in Away, k.run \subseteq Own, k.todo \in Seq(Own),
         loop[w].pc # "off", UNCHANGED <<cwd, home>>
  PROVE  Live' /\ Home'
  <1>1. w \in Agent /\ w # Main /\ loop'[w] = k /\ \A b \in Agent \ {w} : loop'[b] = loop[b]
    BY AgentAssumption DEF Homely, AllGood
  <1>2. Live'
    BY <1>1, AgentAssumption, MainAssumption DEF Homely, Live, Away
  <1>3. Home'
    BY <1>1, AgentAssumption DEF Homely, Home, Placed, OneWriter
  <1> QED  BY <1>2, <1>3

\* A step of the main loop: none of its workers lives, or they all stay called.
LEMMA MainMoves ==
  ASSUME Homely, NEW k, loop' = [loop EXCEPT ![Main] = k],
         loop[Main].pc = "work" => \/ loop[Main].run = {}
                                   \/ k.pc = "work" /\ loop[Main].run \cap Worker \subseteq k.run,
         UNCHANGED <<cwd, home>>
  PROVE  Live' /\ Home'
  <1>1. loop'[Main] = k /\ \A w \in Worker : loop'[w] = loop[w]
    BY AgentAssumption, MainAssumption DEF Homely, AllGood
  <1>2. Live'
    BY <1>1 DEF Homely, Live
  <1>3. Home'
    BY <1>1, AgentAssumption DEF Homely, Home, Placed, OneWriter
  <1> QED  BY <1>2, <1>3

\* The end of a worker, which leaves the process in the checkout if it wrote.
LEMMA WorkerLeaves ==
  ASSUME Homely, NEW w \in Worker, loop' = [loop EXCEPT ![w] = Idle, ![Main].run = @ \ {w}],
         home' = home, OneWriter => (cwd' = cwd /\ cwd # w) \/ cwd' = Main
  PROVE  Live' /\ Home'
  <1>0. Main \in Agent /\ Main # w /\ w \in Agent /\ loop[Main] \in LoopState
    BY AgentAssumption, MainAssumption DEF Homely, AllGood, GoodLoop
  <1>1. /\ loop'[w] = Idle /\ \A b \in Worker \ {w} : loop'[b] = loop[b]
        /\ loop'[Main].pc = loop[Main].pc /\ loop'[Main].run = loop[Main].run \ {w}
    BY <1>0, AgentAssumption DEF Homely, AllGood, LoopState
  <1>2. Idle.pc = "off" /\ Idle.run = {} /\ Idle.todo = <<>> /\ <<>> \in Seq(Own)
    BY DEF Idle
  <1>3. Live'
    BY <1>1, <1>2 DEF Homely, Live
  <1>4. Home'
    BY <1>1, AgentAssumption DEF Homely, Home, Placed, OneWriter
  <1> QED  BY <1>3, <1>4

\* No writer is stranded: what it left was the checkout.
LEMMA NoneStranded ==
  ASSUME Homely, OneWriter, NEW w \in Worker
  PROVE  /\ ~Stranded(w)
         /\ GoesHome(w) => IF w \in Writers THEN cwd' = Main ELSE cwd' = cwd /\ cwd # w
  <1>1. ~Stranded(w)
    BY DEF Homely, Home, Placed, Stranded
  <1>2. w \notin Writers => cwd # w
    BY AgentAssumption DEF Homely, Home, Placed
  <1> QED  BY <1>1, <1>2 DEF GoesHome, Homely, Home, Placed

\* A worker that is over without delivering leaves the process in place.
LEMMA DiscardsAtHome ==
  ASSUME Homely, NEW w \in Worker, Returns(w), GoesHome(w)
  PROVE  Live' /\ Home'
  <1>1. OneWriter => (cwd' = cwd /\ cwd # w) \/ cwd' = Main
    BY NoneStranded
  <1> QED  BY <1>1, WorkerLeaves DEF Returns

\* The end of a loop; the main agent's only when none of its workers lives.
LEMMA OverAtHome ==
  ASSUME Homely, NEW a \in Agent, Over(a), a = Main => loop[Main].pc # "work" \/ loop[Main].run = {}
  PROVE  Live' /\ Home'
  <1>1. CASE a = Main /\ TurnOver
    BY <1>1, MainMoves DEF TurnOver, placeVars
  <1>2. CASE a # Main /\ Discards(a)
    BY <1>2, DiscardsAtHome, AgentAssumption DEF Discards
  <1> QED  BY <1>1, <1>2 DEF Over

\* A loop's own steps, the main agent's: it never forgets a worker that lives.
LEMMA MainAtHome ==
  ASSUME Homely, LoopStep(Main)
  PROVE  Live' /\ Home'
  <1>0. Main \in Agent /\ loop[Main] \in LoopState
    BY MainAssumption DEF Homely, AllGood, GoodLoop
  <1>1. ASSUME Over(Main), loop[Main].pc # "work" \/ loop[Main].run = {}
        PROVE  Live' /\ Home'
    BY <1>0, <1>1, OverAtHome
  <1>2. ASSUME NEW k, loop' = [loop EXCEPT ![Main] = k], loop[Main].pc # "work",
               UNCHANGED placeVars
        PROVE  Live' /\ Home'
    BY <1>2, MainMoves DEF placeVars
  <1>3. CASE CallsProvider(Main) \/ StreamBreaks(Main) \/ TakesMessage(Main) \/ Asks(Main)
             \/ Finishes(Main) \/ Concludes(Main)
    <2>1. loop[Main].pc # "work"
      BY <1>3 DEF CallsProvider, StreamBreaks, TakesMessage, Asks, Finishes, Concludes, At
    <2>2. CASE Over(Main)
      BY <1>1, <2>1, <2>2
    <2>3. CASE ~Over(Main)
      <3>1. UNCHANGED placeVars
        BY <1>3, <2>3, AgentAssumption DEF CallsProvider, StreamBreaks, TakesMessage, Asks,
          Finishes, Concludes,
          Closes, Drops
      <3>2. \/ \E p : Goto(Main, p)
            \/ loop' = [loop EXCEPT ![Main] = [Idle EXCEPT !.pc = "delivering"]]
            \/ loop' = [loop EXCEPT ![Main] = [loop[Main] EXCEPT !.pc = "call", !.again = @ + 1]]
        BY <1>3, <2>3 DEF CallsProvider, StreamBreaks, TakesMessage, Asks, Finishes, Concludes,
          Closes, Drops
      <3>3. \E k : loop' = [loop EXCEPT ![Main] = k]
        BY <3>2 DEF Goto
      <3> QED  BY <1>2, <2>1, <3>1, <3>3
    <2> QED  BY <2>2, <2>3
  <1>4. CASE Says(Main) \/ Gates(Main) \/ Hears(Main)
    <2>1. loop[Main].pc # "work" /\ UNCHANGED placeVars
      BY <1>4 DEF Says, Gates, Hears, At
    <2>2. \E k : loop' = [loop EXCEPT ![Main] = k]
      BY <1>4 DEF Says, Gates, Hears, Goto
    <2> QED  BY <1>2, <2>1, <2>2
  <1>5. CASE PairsAndStops(Main)
    <2>1. loop[Main].pc # "work" /\ UNCHANGED placeVars /\ loop' = [loop EXCEPT ![Main] = Idle]
      BY <1>5 DEF PairsAndStops, At
    <2> QED  BY <1>2, <2>1
  <1>6. CASE StartsWork(Main)
    <2> DEFINE started == loop[Main].run \cap (Worker \ Foreign)
    <2>1. \A w \in Worker : loop[w].pc = "off"
      BY <1>6 DEF StartsWork, At, Homely, Live
    <2>2. (OneWriter => cwd = Main) /\ cwd' = cwd
      BY <1>6, <2>1, AgentAssumption DEF StartsWork, Homely, Home, Placed, Away
    <2>3. /\ loop'[Main].pc = "work" /\ loop'[Main].run = loop[Main].run
          /\ \A w \in Worker : loop'[w] = IF w \in started THEN Beginning(w) ELSE loop[w]
      BY <1>0, <1>6, AgentAssumption DEF StartsWork, LoopState
    <2>4. \A w : /\ Beginning(w).run = {} /\ Beginning(w).todo = <<>> /\ <<>> \in Seq(Own)
                 /\ Beginning(w).pc = "setup" => w \in Writers
                 /\ Beginning(w).pc # "delivering"
      BY DEF Beginning, Idle
    <2>5. Live'
      BY <2>1, <2>3, <2>4 DEF Homely, Live
    <2>6. Home'
      <3>1. home' = [w \in Worker |-> IF w \in started THEN cwd ELSE home[w]]
        BY <1>6 DEF StartsWork
      <3> HIDE DEF started
      <3> QED  BY <1>0, <2>2, <3>1, AgentAssumption DEF Homely, Home, Placed, OneWriter
    <2> QED  BY <2>5, <2>6
  <1>7. CASE \/ RunsEdit(Main) \/ RunsCheck(Main) \/ JobAuthorizes(Main)
             \/ JobAsks(Main) \/ JobHears(Main)
    <2>1. loop[Main].pc = "work" /\ UNCHANGED <<cwd, home>>
      BY <1>7 DEF RunsEdit, RunsCheck, JobAuthorizes, JobAsks, JobHears, Ready, At, placeVars
    <2>2. \E k : /\ loop' = [loop EXCEPT ![Main] = k]
                 /\ k.pc = "work" /\ loop[Main].run \cap Worker \subseteq k.run
      <3>1. CASE RunsEdit(Main)
        <4>1. PICK ok \in BOOLEAN :
                loop' = [loop EXCEPT ![Main] = [loop[Main] EXCEPT !.run = @ \ {"edit"},
                           !.did = IF ok THEN @ \cup {"edit"} ELSE @, !.dirty = @ \/ ok]]
          BY <3>1 DEF RunsEdit
        <4> DEFINE k == [loop[Main] EXCEPT !.run = @ \ {"edit"},
                           !.did = IF ok THEN @ \cup {"edit"} ELSE @, !.dirty = @ \/ ok]
        <4>2. k.pc = "work" /\ loop[Main].run \cap Worker \subseteq k.run
          BY <1>0, <2>1, AgentAssumption DEF LoopState
        <4> QED  BY <4>1, <4>2
      <3>2. CASE RunsCheck(Main)
        <4>1. PICK out \in {"pass", "fail", "inconclusive"} :
                loop' = [loop EXCEPT ![Main] = [loop[Main] EXCEPT
                           !.run = @ \ {"check"}, !.did = @ \cup {out},
                           !.dirty = IF out = "pass" THEN "edit" \in loop[Main].did ELSE @]]
          BY <3>2 DEF RunsCheck
        <4> DEFINE k == [loop[Main] EXCEPT !.run = @ \ {"check"}, !.did = @ \cup {out},
                           !.dirty = IF out = "pass" THEN "edit" \in loop[Main].did ELSE @]
        <4>2. k.pc = "work" /\ loop[Main].run \cap Worker \subseteq k.run
          BY <1>0, <2>1, AgentAssumption DEF LoopState
        <4> QED  BY <4>1, <4>2
      <3>3. CASE JobAuthorizes(Main) \/ JobAsks(Main) \/ JobHears(Main)
        <4>1. \/ \E j \in {"looking", "asked"} :
                    loop' = [loop EXCEPT ![Main] = [loop[Main] EXCEPT !.job = j]]
              \/ loop' = [loop EXCEPT ![Main] =
                            [loop[Main] EXCEPT !.run = @ \ {"job"}, !.job = "no"]]
          BY <3>3 DEF JobAuthorizes, JobAsks, JobHears, JobDone
        <4>2. \A j : /\ [loop[Main] EXCEPT !.job = j].pc = "work"
                     /\ [loop[Main] EXCEPT !.job = j].run = loop[Main].run
          BY <1>0, <2>1 DEF LoopState
        <4>3. LET k == [loop[Main] EXCEPT !.run = @ \ {"job"}, !.job = "no"]
              IN  k.pc = "work" /\ loop[Main].run \cap Worker \subseteq k.run
          BY <1>0, <2>1, AgentAssumption DEF LoopState
        <4> QED  BY <4>1, <4>2, <4>3
      <3> QED  BY <1>7, <3>1, <3>2, <3>3
    <2> QED  BY <2>1, <2>2, MainMoves
  <1>8. CASE EndsWork(Main)
    <2>1. loop[Main].run = {}
      BY <1>8 DEF EndsWork
    <2>2. CASE Over(Main)
      BY <1>1, <2>1, <2>2
    <2>3. CASE /\ loop' = [loop EXCEPT ![Main] = [Evidence(@) EXCEPT !.pc = "call", !.did = {}]]
               /\ UNCHANGED placeVars
      BY <2>1, <2>3, MainMoves DEF placeVars
    <2> QED  BY <1>8, <2>2, <2>3 DEF EndsWork
  <1> QED  BY <1>3, <1>4, <1>5, <1>6, <1>7, <1>8 DEF LoopStep

\* What a batch has shown changes no call of the loop.
LEMMA EvidenceKeeps ==
  ASSUME NEW l \in LoopState
  PROVE  LET k == [Evidence(l) EXCEPT !.pc = "call", !.did = {}]
         IN  k.pc = "call" /\ k.run = l.run /\ k.todo = l.todo /\ k.job = l.job
  <1>1. \A e, r, f : LET k == [[l EXCEPT !.edited = e, !.ran = r, !.failed = f]
                                 EXCEPT !.pc = "call", !.did = {}]
                     IN  k.pc = "call" /\ k.run = l.run /\ k.todo = l.todo /\ k.job = l.job
    BY DEF LoopState
  <1>2. \A r, f : LET k == [[l EXCEPT !.ran = r, !.failed = f] EXCEPT !.pc = "call", !.did = {}]
                  IN  k.pc = "call" /\ k.run = l.run /\ k.todo = l.todo /\ k.job = l.job
    BY DEF LoopState
  <1>3. LET k == [l EXCEPT !.pc = "call", !.did = {}]
        IN  k.pc = "call" /\ k.run = l.run /\ k.todo = l.todo /\ k.job = l.job
    BY DEF LoopState
  <1>4. \/ Evidence(l) = [l EXCEPT !.edited = TRUE, !.ran = FALSE, !.failed = FALSE]
        \/ \E f : Evidence(l) = [l EXCEPT !.ran = TRUE, !.failed = f]
        \/ Evidence(l) = l
    BY Zenon DEF Evidence
  <1>5. CASE Evidence(l) = [l EXCEPT !.edited = TRUE, !.ran = FALSE, !.failed = FALSE]
    BY <1>1, <1>5
  <1>6. CASE \E f : Evidence(l) = [l EXCEPT !.ran = TRUE, !.failed = f]
    BY <1>2, <1>6
  <1>7. CASE Evidence(l) = l
    BY <1>3, <1>7
  <1> QED  BY <1>4, <1>5, <1>6, <1>7

\* A worker's loop stays at work with what its kind of batch may hold, or ends.
LEMMA WorkerLoopAtHome ==
  ASSUME Homely, NEW w \in Worker, LoopStep(w)
  PROVE  Live' /\ Home'
  <1>0. /\ w \in Agent /\ w # Main /\ loop \in [Agent -> GoodLoop]
        /\ loop[w] \in GoodLoop /\ loop[w] \in LoopState
    BY AgentAssumption DEF Homely, AllGood, GoodLoop
  <1>1. loop[w].run \subseteq Own /\ loop[w].todo \in Seq(Own)
    BY DEF Homely, Live
  <1>2. ASSUME Over(w)
        PROVE  Live' /\ Home'
    BY <1>0, <1>2, OverAtHome
  <1>3. ASSUME NEW k, loop' = [loop EXCEPT ![w] = k], loop[w].pc # "off", UNCHANGED placeVars,
               k.pc \in Away, k.run \subseteq Own, k.todo \in Seq(Own)
        PROVE  Live' /\ Home'
    BY <1>3, WorkerMoves DEF placeVars
  <1>4. ASSUME NEW p \in Away, Goto(w, p), loop[w].pc # "off", UNCHANGED placeVars
        PROVE  Live' /\ Home'
    <2>1. LET k == [loop[w] EXCEPT !.pc = p]
          IN  k.pc \in Away /\ k.run \subseteq Own /\ k.todo \in Seq(Own)
      BY <1>0, <1>1, <1>4 DEF LoopState
    <2> QED  BY <1>3, <1>4, <2>1 DEF Goto
  <1>5. CASE CallsProvider(w)
    BY <1>2, <1>4, <1>5 DEF CallsProvider, Closes, At, Away
  <1>6. CASE StreamBreaks(w)
    BY <1>2, <1>6 DEF StreamBreaks, Closes
  <1>7. CASE TakesMessage(w)
    BY <1>2, <1>4, <1>7 DEF TakesMessage, Drops, At, Away
  <1>8. CASE Asks(w)
    BY <1>2, <1>4, <1>8 DEF Asks, Drops, At, Away
  <1>9. CASE Says(w)
    <2>1. PICK b \in WorkerBatches :
            loop' = [loop EXCEPT ![w] = [loop[w] EXCEPT !.pc = "said", !.todo = b]]
      BY <1>0, <1>9 DEF Says
    <2>2. b \in Seq(Own)
      BY <2>1, AgentAssumption DEF Own
    <2>3. LET k == [loop[w] EXCEPT !.pc = "said", !.todo = b]
          IN  k.pc \in Away /\ k.run \subseteq Own /\ k.todo \in Seq(Own)
      BY <1>0, <1>1, <2>2 DEF LoopState, Away
    <2>4. loop[w].pc # "off" /\ UNCHANGED placeVars
      BY <1>9 DEF Says, At
    <2> QED  BY <1>3, <2>1, <2>3, <2>4
  <1>10. CASE Concludes(w)
    <2>1. loop[w].pc # "off"
      BY <1>10 DEF Concludes, At
    <2>2. CASE Closes(w)
      BY <1>2, <2>2 DEF Closes
    <2>3. CASE Goto(w, "last") /\ UNCHANGED placeVars
      BY <1>4, <2>1, <2>3 DEF Away
    <2>4. CASE /\ loop' = [loop EXCEPT ![w] = [loop[w] EXCEPT !.pc = "call", !.again = @ + 1]]
               /\ UNCHANGED placeVars
      <3>1. LET k == [loop[w] EXCEPT !.pc = "call", !.again = @ + 1]
            IN  k.pc \in Away /\ k.run \subseteq Own /\ k.todo \in Seq(Own)
        BY <1>0, <1>1 DEF LoopState, Away
      <3> QED  BY <1>3, <2>1, <2>4, <3>1
    <2> QED  BY <1>10, <2>2, <2>3, <2>4 DEF Concludes
  <1>h. loop[w].todo # <<>> => Head(loop[w].todo) \in Own /\ Tail(loop[w].todo) \in Seq(Own)
    BY <1>1
  <1>11. CASE Gates(w)
    <2> DEFINE c == Head(loop[w].todo)
    <2>1. loop[w].pc = "gate" /\ c \in Own /\ Tail(loop[w].todo) \in Seq(Own) /\ UNCHANGED placeVars
      BY <1>11, <1>h DEF Gates, At
    <2>2. \/ loop' = [loop EXCEPT ![w] = [loop[w] EXCEPT !.todo = Tail(@), !.run = @ \cup {c}]]
          \/ loop' = [loop EXCEPT ![w] = [loop[w] EXCEPT !.todo = Tail(@)]]
          \/ Goto(w, "request")
      BY <1>11 DEF Gates
    <2>3. LET k == [loop[w] EXCEPT !.todo = Tail(@), !.run = @ \cup {c}]
          IN  k.pc \in Away /\ k.run \subseteq Own /\ k.todo \in Seq(Own)
      BY <1>0, <1>1, <2>1 DEF LoopState, Away
    <2>4. LET k == [loop[w] EXCEPT !.todo = Tail(@)]
          IN  k.pc \in Away /\ k.run \subseteq Own /\ k.todo \in Seq(Own)
      BY <1>0, <1>1, <2>1 DEF LoopState, Away
    <2>5. "request" \in Away /\ loop[w].pc # "off"
      BY <2>1 DEF Away
    <2> QED  BY <1>3, <1>4, <2>1, <2>2, <2>3, <2>4, <2>5
  <1>12. CASE Hears(w)
    <2> DEFINE c == Head(loop[w].todo)
               next == [loop[w] EXCEPT !.pc = "gate", !.todo = Tail(@)]
               new == CASE answer[w] = "no" -> [next EXCEPT !.denied = @ \cup {c}]
                        [] answer[w] = "yes" -> [next EXCEPT !.run = @ \cup {c}]
                        [] answer[w] = "always" ->
                             [next EXCEPT !.run = @ \cup {c},
                                          !.mode = IF floor = "none" THEN "auto" ELSE @]
    <2>1. loop[w].pc = "wait" /\ c \in Own /\ Tail(loop[w].todo) \in Seq(Own) /\ UNCHANGED placeVars
      BY <1>0, <1>12, <1>h DEF Hears, At, GoodLoop, Evident
    <2>2. answer[w] \in {"no", "yes", "always"}
      BY <1>0, <1>12 DEF Hears, Homely, Known
    <2>3. new.pc \in Away /\ new.run \subseteq Own /\ new.todo \in Seq(Own)
      BY <1>0, <1>1, <2>1, <2>2 DEF LoopState, Away
    <2>4. loop' = [loop EXCEPT ![w] = new]
      BY <1>12 DEF Hears
    <2> HIDE DEF new
    <2> QED  BY <1>3, <2>1, <2>3, <2>4
  <1>13. CASE PairsAndStops(w)
    BY <1>0, <1>13, DiscardsAtHome DEF PairsAndStops
  <1>14. CASE StartsWork(w)
    <2>1. loop[w].run \cap (Worker \ Foreign) = {}
      BY <1>1, AgentAssumption DEF Own
    <2>2. loop' = [loop EXCEPT ![w] = [loop[w] EXCEPT !.pc = "work", !.did = {}]]
      BY <1>0, <1>14, <2>1 DEF StartsWork
    <2>3. UNCHANGED placeVars /\ loop[w].pc # "off"
      BY <1>14, <2>1 DEF StartsWork, At, placeVars, Homely, TypeOK
    <2>4. LET k == [loop[w] EXCEPT !.pc = "work", !.did = {}]
          IN  k.pc \in Away /\ k.run \subseteq Own /\ k.todo \in Seq(Own)
      BY <1>0, <1>1 DEF LoopState, Away
    <2> QED  BY <1>3, <2>2, <2>3, <2>4
  <1>15. CASE RunsEdit(w)
    <2>1. PICK ok \in BOOLEAN :
            loop' = [loop EXCEPT ![w] = [loop[w] EXCEPT !.run = @ \ {"edit"},
                       !.did = IF ok THEN @ \cup {"edit"} ELSE @, !.dirty = @ \/ ok]]
      BY <1>15 DEF RunsEdit
    <2>2. LET k == [loop[w] EXCEPT !.run = @ \ {"edit"},
                      !.did = IF ok THEN @ \cup {"edit"} ELSE @, !.dirty = @ \/ ok]
          IN  k.pc \in Away /\ k.run \subseteq Own /\ k.todo \in Seq(Own)
      BY <1>0, <1>1, <1>15 DEF RunsEdit, Ready, At, LoopState, Away
    <2>3. loop[w].pc # "off" /\ UNCHANGED placeVars
      BY <1>15 DEF RunsEdit, Ready, At
    <2> QED  BY <1>3, <2>1, <2>2, <2>3
  <1>16. CASE RunsCheck(w)
    <2>1. PICK out \in {"pass", "fail", "inconclusive"} :
            loop' = [loop EXCEPT ![w] = [loop[w] EXCEPT !.run = @ \ {"check"}, !.did = @ \cup {out},
                       !.dirty = IF out = "pass" THEN "edit" \in loop[w].did ELSE @]]
      BY <1>16 DEF RunsCheck
    <2>2. LET k == [loop[w] EXCEPT !.run = @ \ {"check"}, !.did = @ \cup {out},
                      !.dirty = IF out = "pass" THEN "edit" \in loop[w].did ELSE @]
          IN  k.pc \in Away /\ k.run \subseteq Own /\ k.todo \in Seq(Own)
      BY <1>0, <1>1, <1>16 DEF RunsCheck, Ready, At, LoopState, Away
    <2>3. loop[w].pc # "off" /\ UNCHANGED placeVars
      BY <1>16 DEF RunsCheck, Ready, At
    <2> QED  BY <1>3, <2>1, <2>2, <2>3
  <1>17. CASE EndsWork(w)
    <2>1. CASE Over(w)
      BY <1>2, <2>1
    <2>2. CASE /\ loop' = [loop EXCEPT ![w] = [Evidence(@) EXCEPT !.pc = "call", !.did = {}]]
               /\ UNCHANGED placeVars
      <3>1. LET k == [Evidence(loop[w]) EXCEPT !.pc = "call", !.did = {}]
            IN  k.pc = "call" /\ k.run = loop[w].run /\ k.todo = loop[w].todo
        BY <1>0, EvidenceKeeps
      <3>2. LET k == [Evidence(loop[w]) EXCEPT !.pc = "call", !.did = {}]
            IN  k.pc \in Away /\ k.run \subseteq Own /\ k.todo \in Seq(Own)
        BY <1>1, <3>1 DEF Away
      <3>3. loop[w].pc # "off"
        BY <1>17 DEF EndsWork, At
      <3> QED  BY <1>3, <2>2, <3>2, <3>3
    <2> QED  BY <1>17, <2>1, <2>2 DEF EndsWork
  <1>18. CASE JobAuthorizes(w) \/ JobAsks(w) \/ JobHears(w)
    <2>1. "job" \in loop[w].run
      BY <1>18 DEF JobAuthorizes, JobAsks, JobHears, Ready
    <2> QED  BY <1>1, <2>1 DEF Own
  <1>19. CASE Finishes(w)
    <2>1. CASE Closes(w)
      BY <1>2, <2>1 DEF Closes
    <2>2. CASE /\ w \in Writers /\ GoesHome(w) /\ UNCHANGED home
               /\ loop' = [loop EXCEPT ![w] = [Idle EXCEPT !.pc = "delivering"]]
      <3>1. OneWriter => cwd' = Main
        BY <2>2, NoneStranded
      <3>2. LET k == [Idle EXCEPT !.pc = "delivering"]
            IN  k.pc = "delivering" /\ k.run = {} /\ k.todo = <<>> /\ <<>> \in Seq(Own)
        BY DEF Idle
      <3>3. /\ loop'[w] = [Idle EXCEPT !.pc = "delivering"]
            /\ \A b \in Agent \ {w} : loop'[b] = loop[b]
        BY <1>0, <2>2
      <3>4. loop[w].pc # "off"
        BY <1>19 DEF Finishes, At
      <3>5. Live'
        BY <1>0, <2>2, <3>2, <3>3, <3>4, AgentAssumption, MainAssumption DEF Homely, Live
      <3>6. Home'
        BY <2>2, <3>1 DEF Homely, Home, Placed, OneWriter
      <3> QED  BY <3>5, <3>6
    <2> QED  BY <1>19, <2>1, <2>2 DEF Finishes
  <1> QED  BY <1>5, <1>6, <1>7, <1>8, <1>9, <1>10, <1>11, <1>12, <1>13, <1>14, <1>15, <1>16,
              <1>17, <1>18, <1>19 DEF LoopStep

\* The steps of a subagent call.
LEMMA CallAtHome ==
  ASSUME Homely, NEW w \in Worker, WorkerStep(w)
  PROVE  Live' /\ Home'
  <1>0. /\ w \in Agent /\ w # Main /\ Main \in Agent
        /\ loop \in [Agent -> GoodLoop] /\ loop[w] \in LoopState
    BY AgentAssumption, MainAssumption DEF Homely, AllGood, GoodLoop
  <1>1. ASSUME NEW k, loop' = [loop EXCEPT ![w] = k]
        PROVE  loop'[w] = k /\ \A b \in Agent \ {w} : loop'[b] = loop[b]
    BY <1>0, <1>1
  <1>2. CASE AsksModel(w)
    <2>1. loop'[w].pc = "model" /\ loop'[w].run = loop[w].run /\ loop'[w].todo = loop[w].todo
          /\ \A b \in Agent \ {w} : loop'[b] = loop[b]
      BY <1>0, <1>2 DEF AsksModel, Goto, LoopState
    <2>2. Live'
      BY <1>0, <1>2, <2>1, AgentAssumption DEF AsksModel, Ready, At, Homely, Live
    <2>3. OneWriter => cwd # w
      BY <1>0, <1>2 DEF AsksModel, At, Homely, Home, Placed, Away
    <2>4. Home'
      BY <1>2, <2>1, <2>3, AgentAssumption DEF AsksModel, placeVars, Homely, Home, Placed,
         OneWriter
    <2> QED  BY <2>2, <2>4
  <1>3. CASE HearsModel(w)
    <2>1. (OneWriter => cwd # w) /\ loop[w].pc # "off"
      BY <1>0, <1>3 DEF HearsModel, At, Homely, Home, Placed, Away
    <2>2. OneWriter =>
            home' = home \/ ((w \in Writers => cwd = Main) /\ home' = [home EXCEPT ![w] = cwd])
      BY <1>3, <2>1 DEF HearsModel, Returns, Homely, Home, Placed, OneWriter
    <2>3. OneWriter => \A v \in Writers : home'[v] = Main
      BY <1>0, <2>2, AgentAssumption DEF Homely, TypeOK, Home, Placed
    <2>4. cwd' = cwd
      BY <1>3 DEF HearsModel
    <2>5. CASE loop' = [loop EXCEPT ![w] = Beginning(w)]
      <3>1. /\ Beginning(w).run = {} /\ Beginning(w).todo = <<>> /\ <<>> \in Seq(Own)
            /\ Beginning(w).pc \in {"setup", "call"} /\ (Beginning(w).pc = "setup" => w \in Writers)
        BY DEF Beginning, Idle
      <3>2. loop'[w] = Beginning(w) /\ \A b \in Agent \ {w} : loop'[b] = loop[b]
        BY <1>1, <2>5
      <3>3. loop'[Main] = loop[Main] /\ loop[Main].pc = "work" /\ w \in loop[Main].run
        BY <1>0, <2>1, <3>2 DEF Homely, Live
      <3>4. ASSUME NEW v \in Worker \ {w}
            PROVE  loop'[v] = loop[v] /\ loop'[Main] = loop[Main]
        BY <3>2, <3>3, AgentAssumption
      <3>5. Live'
        BY <3>1, <3>2, <3>3, <3>4 DEF Homely, Live
      <3>6. Home'
        BY <1>1, <2>1, <2>3, <2>4, <2>5, AgentAssumption DEF Homely, Home, Placed, OneWriter
      <3> QED  BY <3>5, <3>6
    <2>6. CASE loop' = [loop EXCEPT ![w] = Idle, ![Main].run = @ \ {w}]
      <3>0. loop[Main] \in LoopState
        BY <1>0 DEF GoodLoop
      <3>1. /\ loop'[w] = Idle /\ \A b \in Worker \ {w} : loop'[b] = loop[b]
            /\ loop'[Main].pc = loop[Main].pc /\ loop'[Main].run = loop[Main].run \ {w}
        BY <1>0, <2>6, <3>0, AgentAssumption DEF LoopState
      <3>2. Idle.pc = "off" /\ Idle.run = {} /\ Idle.todo = <<>> /\ <<>> \in Seq(Own)
        BY DEF Idle
      <3>3. Live'
        BY <3>1, <3>2 DEF Homely, Live
      <3>4. Home'
        BY <2>1, <2>3, <2>4, <3>1, AgentAssumption DEF Homely, Home, Placed, OneWriter
      <3> QED  BY <3>3, <3>4
    <2> QED  BY <1>3, <2>5, <2>6 DEF HearsModel, Returns
  <1>4. CASE SetsUp(w)
    <2>0. (OneWriter => cwd # w) /\ w \in Writers /\ loop[w].pc # "off"
      BY <1>0, <1>4 DEF SetsUp, At, Homely, Live, Home, Placed, Away
    <2>1. OneWriter => home[w] = Main /\ ~Stranded(w)
      BY <2>0, NoneStranded DEF Homely, Home, Placed
    <2>2. CASE Returns(w) /\ (UNCHANGED cwd \/ (IF Stranded(w) THEN cwd' = w ELSE cwd' = home[w]))
      <3>1. OneWriter => (cwd' = cwd /\ cwd # w) \/ cwd' = Main
        BY <2>0, <2>1, <2>2
      <3> QED  BY <2>2, <3>1, WorkerLeaves DEF Returns
    <2>3. CASE cwd' = w /\ Goto(w, "call") /\ UNCHANGED home
      <3>1. loop'[w].pc = "call" /\ loop'[w].run = loop[w].run /\ loop'[w].todo = loop[w].todo
            /\ \A b \in Agent \ {w} : loop'[b] = loop[b]
        BY <1>0, <2>3 DEF Goto, LoopState
      <3>2. Live'
        BY <1>0, <2>0, <3>1, AgentAssumption DEF Homely, Live
      <3>3. Home'
        BY <2>0, <2>3, <3>1 DEF Homely, Home, Placed, Away, OneWriter
      <3> QED  BY <3>2, <3>3
    <2> QED  BY <1>4, <2>2, <2>3 DEF SetsUp
  <1>5. CASE Delivers(w)
    <2>0. OneWriter => cwd # w
      BY <1>0, <1>5 DEF Delivers, At, Homely, Home, Placed, Away
    <2>1. CASE UNCHANGED cwd
      BY <1>5, <2>0, <2>1, WorkerLeaves DEF Delivers, Returns
    <2>2. CASE GoesHome(w)
      BY <1>5, <2>2, DiscardsAtHome DEF Delivers
    <2> QED  BY <1>5, <2>1, <2>2 DEF Delivers
  <1> QED  BY <1>2, <1>3, <1>4, <1>5 DEF WorkerStep
\* The user moves nobody; a turn begins when no worker lives.
LEMMA UserAtHome ==
  ASSUME Homely,
         \/ TurnStarts \/ Renders \/ UserAnswers \/ TogglesPause \/ Cancels
         \/ \E w \in Worker : CancelsWorker(w)
  PROVE  Live' /\ Home'
  <1>1. CASE TurnStarts
    <2>1. loop[Main].pc # "work" /\ UNCHANGED <<cwd, home>>
      BY <1>1 DEF TurnStarts, At, placeVars
    <2>2. \E k : loop' = [loop EXCEPT ![Main] = k]
      BY <1>1 DEF TurnStarts
    <2> QED  BY <2>1, <2>2, MainMoves
  <1>2. CASE ~TurnStarts
    <2>1. UNCHANGED <<loop, cwd, home>>
      BY <1>2 DEF Renders, UserAnswers, Answers, TogglesPause, Cancels, CancelsWorker,
                  turnVars, placeVars
    <2> QED  BY <2>1 DEF Homely, Live, Home, Placed, OneWriter
  <1> QED  BY <1>1, <1>2

\* The places of the agents at the start.
LEMMA InitAtHome == Init => Live /\ Home
  <1>1. Idle.pc = "off" /\ Idle.run = {} /\ Idle.todo = <<>> /\ <<>> \in Seq(Own)
    BY DEF Idle
  <1>2. Init => Live
    BY <1>1, AgentAssumption DEF Init, Live
  <1>3. Init => Home
    BY AgentAssumption DEF Init, Home, Placed
  <1> QED  BY <1>2, <1>3

\* Every step leaves the agents in place.
LEMMA AtHomeKept ==
  ASSUME Homely, [Next]_vars
  PROVE  Live' /\ Home'
  <1>1. CASE UNCHANGED vars
    BY <1>1 DEF vars, turnVars, placeVars, Homely, Live, Home, Placed, OneWriter
  <1>2. CASE Next
    BY <1>2, MainAtHome, WorkerLoopAtHome, CallAtHome, UserAtHome, AgentAssumption DEF Next
  <1> QED  BY <1>1, <1>2

\* A worker lives only within the batch that called it; and with a single writer
\* the process is away from the checkout only while it is in its worktree.
THEOREM AgentsStayInPlace == Spec => []Homely
  <1>1. Init => Live /\ Home
    BY InitAtHome
  <1>2. AllGood /\ Known /\ TypeOK /\ Live /\ Home /\ [Next]_vars => Live' /\ Home'
    BY AtHomeKept DEF Homely
  <1>3. AllGood /\ Known /\ TypeOK /\ Live /\ Home => Homely
    BY DEF Homely
  <1> QED  BY <1>1, <1>2, <1>3, LoopsAreGood, StateIsTyped, PTL DEF Spec

\* With a single writer the process is back in the checkout whenever no worker
\* is left, whichever way each of them ended (subagent.ts:276-500).
THEOREM OneWriterRestsAtHome == OneWriter /\ Spec => []RestsAtHome
  <1> SUFFICES ASSUME OneWriter PROVE Spec => []RestsAtHome
    OBVIOUS
  <1>1. Homely => RestsAtHome
    BY AgentAssumption DEF Homely, Home, Placed, RestsAtHome, At, Away
  <1> QED  BY <1>1, AgentsStayInPlace, PTL

-----------------------------------------------------------------------------
(* Who waits for the user, and the entries of the queue.                    *)

\* The kind of prompt a loop listens to.
Ear(l) == IF l.pc = "wait" THEN "tool" ELSE IF l.pc = "model" THEN "model"
          ELSE IF l.job = "asked" THEN "job" ELSE "none"

\* A job is asked for within its batch.
JobOK(l) == l.job # "no" => l.pc = "work" /\ "job" \in l.run

\* An entry stands for the one who listens to it, and the other way round; who
\* has an answer has no entry any more.
Listed ==
  /\ \A i \in 1..Len(AllEntries) :
       LET p == AllEntries[i]
       IN p.what # "orphan" => answer[p.who] = "none" /\ p.what = Ear(loop[p.who])
  /\ \A i, j \in 1..Len(AllEntries) :
       AllEntries[i].what # "orphan" /\ AllEntries[j].what # "orphan"
         /\ AllEntries[i].who = AllEntries[j].who => i = j
  /\ \A a \in Agent : Ear(loop[a]) # "none" /\ answer[a] = "none" =>
       \E i \in 1..Len(AllEntries) : AllEntries[i] = [who |-> a, what |-> Ear(loop[a])]
Heard == \A a \in Agent : answer[a] # "none" => Ear(loop[a]) # "none"
Jobs == \A a \in Agent : JobOK(loop[a])
Screen ==
  /\ active = None => queue = <<>>
  /\ pending = active \/ (pending = None /\ active.what = "orphan")

Attended == Listed /\ Heard /\ Jobs /\ Screen

\* The entries in their order: the active one, then the queue.
LEMMA EntriesInOrder ==
  ASSUME ScreenOK, Screen
  PROVE  /\ AllEntries \in Seq(Prompt)
         /\ active = None => AllEntries = <<>> /\ queue = <<>>
         /\ active # None => /\ Len(AllEntries) = Len(queue) + 1 /\ AllEntries[1] = active
                             /\ \A i \in 1..Len(queue) : AllEntries[i + 1] = queue[i]
  <1>1. CASE active = None
    <2>1. queue = <<>> /\ AllEntries = <<>> \o queue
      BY <1>1 DEF Screen, AllEntries
    <2>2. <<>> \o <<>> = <<>> /\ <<>> \in Seq(Prompt)
      OBVIOUS
    <2>. QED BY <1>1, <2>1, <2>2
  <1>2. CASE active # None
    <2>1. active \in Prompt /\ queue \in Seq(Prompt) /\ AllEntries = <<active>> \o queue
      BY <1>2 DEF ScreenOK, AllEntries
    <2>2. <<active>> \in Seq(Prompt) /\ Len(<<active>>) = 1 /\ <<active>>[1] = active
      BY <2>1
    <2>3. Len(queue) \in Nat
      BY <2>1
    <2>4. AllEntries \in Seq(Prompt) /\ Len(AllEntries) = Len(queue) + 1
      BY <2>1, <2>2
    <2>5. AllEntries[1] = active
      BY <2>1, <2>2, <2>3
    <2>6. \A i \in 1..Len(queue) : AllEntries[i + 1] = queue[i]
      BY <2>1, <2>2, <2>3
    <2>. QED BY <1>2, <2>4, <2>5, <2>6
  <1>. QED BY <1>1, <1>2

\* An entry of the queue, found by its value or by its place.
LEMMA EntriesSet ==
  ASSUME ScreenOK, Screen, NEW p \in Prompt
  PROVE  p \in Entries <=> \E i \in 1..Len(AllEntries) : AllEntries[i] = p
  <1>1. p # None
    BY DEF Prompt, None
  <1>2. p \in Entries <=> p = active \/ \E i \in 1..Len(queue) : queue[i] = p
    BY <1>1 DEF Entries, ToSet, ScreenOK
  <1>3. Len(queue) \in Nat /\ queue \in Seq(Prompt)
    BY DEF ScreenOK
  <1>4. CASE active = None
    BY <1>1, <1>2, <1>4, EntriesInOrder
  <1>5. CASE active # None
    <2>1. ASSUME NEW i \in 1..Len(queue), queue[i] = p
          PROVE  \E j \in 1..Len(AllEntries) : AllEntries[j] = p
      <3>1. i + 1 \in 1..Len(AllEntries) /\ AllEntries[i + 1] = p
        BY <1>3, <1>5, <2>1, EntriesInOrder
      <3>. QED BY <3>1
    <2>2. ASSUME NEW j \in 1..Len(AllEntries), AllEntries[j] = p, j # 1
          PROVE  \E i \in 1..Len(queue) : queue[i] = p
      <3>1. j - 1 \in 1..Len(queue) /\ (j - 1) + 1 = j
        BY <1>3, <1>5, <2>2, EntriesInOrder
      <3>. QED BY <1>5, <2>2, <3>1, EntriesInOrder
    <2>3. 1 \in 1..Len(AllEntries) /\ AllEntries[1] = active
      BY <1>3, <1>5, EntriesInOrder
    <2>. QED BY <1>2, <2>1, <2>2, <2>3
  <1>. QED BY <1>4, <1>5

\* dequeue brings up what is left of the queue.
LEMMA DequeueEffect ==
  ASSUME NEW rest \in Seq(Prompt), Dequeue(rest)
  PROVE  AllEntries' = rest /\ Screen'
  <1>1. CASE rest = <<>>
    BY <1>1 DEF Dequeue, Show, AllEntries, Screen
  <1>2. CASE rest # <<>>
    <2>1. Head(rest) \in Prompt /\ Head(rest) # None
      <3>1. Head(rest) \in Prompt
        BY <1>2
      <3>. QED BY <3>1 DEF Prompt, None
    <2>3. <<Head(rest)>> \o Tail(rest) = rest
      <3>. DEFINE T == Prompt
      <3>. HIDE DEF T
      <3>1. rest \in Seq(T) /\ rest # <<>>
        BY <1>2 DEF T
      <3>. QED BY <3>1
    <2>2. active' = Head(rest) /\ pending' = Head(rest) /\ queue' = Tail(rest)
      BY <1>2 DEF Dequeue, Show
    <2>. QED BY <2>1, <2>2, <2>3 DEF AllEntries, Screen
  <1>. QED BY <1>1, <1>2

\* enqueue puts an entry at the end, or answers it at once.
LEMMA EnqueueEffect ==
  ASSUME ScreenOK, Screen, NEW p \in Prompt, Enqueue(p)
  PROVE  /\ Screen' /\ UNCHANGED autoAccept
         /\ \/ AllEntries' = Append(AllEntries, p) /\ UNCHANGED answer
            \/ /\ autoAccept /\ p.what = "tool" /\ AllEntries' = AllEntries
               /\ answer' = [a \in Agent |-> IF a = p.who THEN "always" ELSE answer[a]]
  <1>0. p # None
    BY DEF Prompt, None
  <1>1. CASE autoAccept /\ Blanket(p)
    <2>1. UNCHANGED <<active, queue, pending, autoAccept>> /\ p.what = "tool"
      BY <1>1 DEF Enqueue, Blanket
    <2>2. answer' = [a \in Agent |-> IF a = p.who THEN "always" ELSE answer[a]]
      BY <1>1, <2>1 DEF Enqueue, Reply
    <2>. QED BY <1>1, <2>1, <2>2 DEF AllEntries, Screen
  <1>2. CASE ~(autoAccept /\ Blanket(p)) /\ active = None
    <2>1. active' = p /\ pending' = p /\ queue' = <<>> /\ UNCHANGED <<answer, autoAccept>>
      BY <1>2, EntriesInOrder DEF Enqueue, Show
    <2>2. AllEntries = <<>> /\ AllEntries' = <<p>> \o <<>>
      BY <1>0, <1>2, <2>1, EntriesInOrder DEF AllEntries
    <2>3. <<p>> \o <<>> = Append(<<>>, p)
      OBVIOUS
    <2>. QED BY <1>0, <2>1, <2>2, <2>3 DEF Screen
  <1>3. CASE ~(autoAccept /\ Blanket(p)) /\ active # None
    <2>1. UNCHANGED <<active, pending, answer, autoAccept>> /\ queue' = Append(queue, p)
      BY <1>3 DEF Enqueue
    <2>2. active \in Prompt /\ queue \in Seq(Prompt)
      BY <1>3 DEF ScreenOK
    <2>3. <<active>> \o Append(queue, p) = Append(<<active>> \o queue, p)
      BY <2>2
    <2>4. AllEntries = <<active>> \o queue /\ AllEntries' = <<active>> \o Append(queue, p)
      BY <1>3, <2>1 DEF AllEntries
    <2>. QED BY <1>3, <2>1, <2>3, <2>4 DEF Screen
  <1>. QED BY <1>1, <1>2, <1>3

\* What is left of a row when the first entry goes, or stays, and the queue is
\* filtered.
LEMMA Shifted ==
  ASSUME ScreenOK, Screen, active # None, NEW S, NEW b \in BOOLEAN,
         NEW r, r = IF b THEN <<active>> \o Without(queue, S) ELSE Without(queue, S)
  PROVE  Keeps(AllEntries, r, {i \in 1..Len(AllEntries) :
                                 IF i = 1 THEN b ELSE AllEntries[i] \notin S})
  <1>. DEFINE E == AllEntries
              f == Without(queue, S)
              K == {i \in 1..Len(queue) : queue[i] \notin S}
              L == {i \in 1..Len(E) : IF i = 1 THEN b ELSE E[i] \notin S}
  <1>1. queue \in Seq(Prompt) /\ Len(queue) \in Nat /\ active \in Prompt
    BY DEF ScreenOK
  <1>2. f \in Seq(Prompt) /\ Keeps(queue, f, K)
    BY <1>1, Filtered
  <1>3. PICK h \in [1..Len(f) -> K] :
          /\ \A k \in 1..Len(f) : f[k] = queue[h[k]]
          /\ \A i \in K : \E k \in 1..Len(f) : h[k] = i
          /\ \A j, k \in 1..Len(f) : h[j] = h[k] => j = k
    BY <1>2 DEF Keeps
  <1>4. Len(E) = Len(queue) + 1 /\ E[1] = active /\ \A i \in 1..Len(queue) : E[i + 1] = queue[i]
    BY EntriesInOrder
  <1>5. \A i \in 1..Len(queue) : i + 1 \in L <=> i \in K
    BY <1>1, <1>4
  <1>6. \A l \in L : l # 1 => l - 1 \in K /\ (l - 1) + 1 = l
    <2>. SUFFICES ASSUME NEW l \in L, l # 1 PROVE l - 1 \in K /\ (l - 1) + 1 = l
      OBVIOUS
    <2>1. l \in 1..Len(E) /\ E[l] \notin S
      OBVIOUS
    <2>. HIDE DEF L, E
    <2>2. l - 1 \in 1..Len(queue) /\ (l - 1) + 1 = l
      BY <1>1, <1>4, <2>1
    <2>. QED BY <1>4, <2>1, <2>2
  <1>7. 1 \in L <=> b
    BY <1>1, <1>4
  <1>8. K \subseteq 1..Len(queue) /\ L \subseteq 1..Len(E) /\ Len(f) \in Nat
    BY <1>2
  <1>. HIDE DEF E, f, K, L
  <1>0. \A k \in 1..Len(f) : h[k] \in K /\ h[k] \in 1..Len(queue) /\ h[k] \in Nat \ {0}
    <2>1. \A i \in 1..Len(queue) : i \in Nat \ {0}
      BY <1>1
    <2>. QED BY <1>8, <2>1
  <1>9. CASE b
    <2>1. r = <<active>> \o f /\ Len(<<active>>) = 1 /\ <<active>> \in Seq(Prompt)
      BY <1>1, <1>9 DEF f
    <2>2. Len(r) = Len(f) + 1 /\ r[1] = active /\ \A k \in 1..Len(f) : r[k + 1] = f[k]
      BY <1>2, <1>8, <2>1
    <2>. DEFINE g == [k \in 1..Len(r) |-> IF k = 1 THEN 1 ELSE h[k - 1] + 1]
    <2>3. \A k \in 1..Len(r) : k # 1 => k - 1 \in 1..Len(f) /\ (k - 1) + 1 = k
      BY <1>8, <2>2
    <2>4. \A k \in 1..Len(r) : k # 1 =>
            h[k - 1] \in K /\ h[k - 1] \in 1..Len(queue) /\ h[k - 1] \in Nat \ {0}
      BY <1>0, <2>3
    <2>5. g \in [1..Len(r) -> L]
      BY <1>5, <1>7, <1>8, <1>9, <2>4
    <2>6. \A k \in 1..Len(r) : r[k] = E[g[k]]
      <3>. TAKE k \in 1..Len(r)
      <3>1. CASE k = 1
        BY <1>4, <2>2, <3>1
      <3>2. CASE k # 1
        <4>1. r[k] = f[k - 1] /\ f[k - 1] = queue[h[k - 1]]
          BY <1>3, <2>2, <2>3, <3>2
        <4>2. g[k] = h[k - 1] + 1
          BY <3>2
        <4>. QED BY <1>4, <2>4, <3>2, <4>1, <4>2
      <3>. QED BY <3>1, <3>2
    <2>7. \A l \in L : \E k \in 1..Len(r) : g[k] = l
      <3>. TAKE l \in L
      <3>1. CASE l = 1
        <4>1. 1 \in 1..Len(r)
          BY <1>8, <2>2
        <4>. QED BY <3>1, <4>1
      <3>2. CASE l # 1
        <4>1. PICK k \in 1..Len(f) : h[k] = l - 1
          BY <1>3, <1>6, <3>2
        <4>2. k + 1 \in 1..Len(r) /\ k + 1 # 1 /\ (k + 1) - 1 = k
          BY <1>8, <2>2
        <4>3. g[k + 1] = l
          BY <1>6, <3>2, <4>1, <4>2
        <4>. QED BY <4>2, <4>3
      <3>. QED BY <3>1, <3>2
    <2>8. \A j, k \in 1..Len(r) : g[j] = g[k] => j = k
      <3>. SUFFICES ASSUME NEW j \in 1..Len(r), NEW k \in 1..Len(r), g[j] = g[k] PROVE j = k
        OBVIOUS
      <3>1. CASE j = 1 \/ k = 1
        BY <2>4, <3>1
      <3>2. CASE j # 1 /\ k # 1
        <4>1. h[j - 1] = h[k - 1]
          BY <2>4, <3>2
        <4>2. j - 1 = k - 1
          <5>1. j - 1 \in 1..Len(f) /\ k - 1 \in 1..Len(f)
            BY <2>3, <3>2
          <5>. QED BY <1>3, <4>1, <5>1
        <4>. QED BY <2>3, <3>2, <4>2
      <3>. QED BY <3>1, <3>2
    <2>. HIDE DEF g
    <2>9. Keeps(E, r, L)
      BY <1>8, <2>5, <2>6, <2>7, <2>8 DEF Keeps
    <2>. QED BY <2>9 DEF E, L
  <1>10. CASE ~b
    <2>1. r = f
      BY <1>10 DEF f
    <2>. DEFINE g == [k \in 1..Len(f) |-> h[k] + 1]
    <2>2. \A k \in 1..Len(f) : h[k] \in K /\ h[k] \in Nat /\ h[k] \in 1..Len(queue)
      BY <1>0
    <2>3. g \in [1..Len(f) -> L]
      BY <1>5, <2>2
    <2>4. \A k \in 1..Len(f) : f[k] = E[g[k]]
      BY <1>3, <1>4, <2>2
    <2>5. \A l \in L : \E k \in 1..Len(f) : g[k] = l
      <3>. TAKE l \in L
      <3>1. l # 1
        BY <1>7, <1>10
      <3>2. PICK k \in 1..Len(f) : h[k] = l - 1
        BY <1>3, <1>6, <3>1
      <3>. QED BY <1>6, <3>1, <3>2
    <2>6. \A j, k \in 1..Len(f) : g[j] = g[k] => j = k
      BY <1>3, <2>2
    <2>. HIDE DEF g
    <2>7. Keeps(E, f, L)
      BY <1>8, <2>3, <2>4, <2>5, <2>6 DEF Keeps
    <2>. QED BY <2>1, <2>7 DEF E, L
  <1>. QED BY <1>9, <1>10

\* Whoever is in the row is an agent.
LEMMA EntriesArePrompts ==
  ASSUME ScreenOK, Screen
  PROVE  \A i \in 1..Len(AllEntries) : AllEntries[i] \in Prompt /\ AllEntries[i].who \in Agent
  <1>1. AllEntries \in Seq(Prompt)
    BY EntriesInOrder
  <1>2. \A i \in 1..Len(AllEntries) : AllEntries[i] \in Prompt
    BY <1>1
  <1>. QED BY <1>2 DEF Prompt

\* The others listen as before.
SameEars(A) == \A b \in A : Ear(loop'[b]) = Ear(loop[b])

\* Nothing happens to the prompts.
LEMMA PromptsStay ==
  ASSUME TypeOK, Attended, SameEars(Agent), AllEntries' = AllEntries, answer' = answer
  PROVE  Listed' /\ Heard'
  <1>1. AllEntries \in Seq(Prompt)
    BY EntriesInOrder DEF TypeOK, ScreenOK, Attended
  <1>2. \A i \in 1..Len(AllEntries) : AllEntries[i] \in Prompt /\ AllEntries[i].who \in Agent
    BY EntriesArePrompts DEF TypeOK, ScreenOK, Attended
  <1>3. Listed'
    BY <1>2 DEF Attended, Listed, SameEars
  <1>4. Heard'
    BY DEF Attended, Heard, SameEars
  <1>. QED BY <1>3, <1>4

\* Who has the answer listens no longer.
LEMMA AnswerIsTaken ==
  ASSUME TypeOK, Attended, NEW a \in Agent, answer[a] # "none", SameEars(Agent \ {a}),
         Ear(loop'[a]) = "none", AllEntries' = AllEntries,
         answer' = [answer EXCEPT ![a] = "none"]
  PROVE  Listed' /\ Heard'
  <1>1. AllEntries \in Seq(Prompt)
    BY EntriesInOrder DEF TypeOK, ScreenOK, Attended
  <1>2. \A i \in 1..Len(AllEntries) : AllEntries[i] \in Prompt /\ AllEntries[i].who \in Agent
    BY EntriesArePrompts DEF TypeOK, ScreenOK, Attended
  <1>3. answer'[a] = "none" /\ \A b \in Agent \ {a} : answer'[b] = answer[b]
    BY DEF TypeOK
  <1>4. \A i \in 1..Len(AllEntries) : AllEntries[i].what # "orphan" => AllEntries[i].who # a
    BY DEF Attended, Listed
  <1>5. Listed'
    <2>1. \A i \in 1..Len(AllEntries)' :
            LET p == AllEntries'[i]
            IN p.what # "orphan" => answer'[p.who] = "none" /\ p.what = Ear(loop'[p.who])
      BY <1>2, <1>3, <1>4 DEF Attended, Listed, SameEars
    <2>2. \A b \in Agent : Ear(loop'[b]) # "none" /\ answer'[b] = "none" =>
            \E i \in 1..Len(AllEntries)' : AllEntries'[i] = [who |-> b, what |-> Ear(loop'[b])]
      BY <1>3 DEF Attended, Listed, SameEars
    <2>. QED BY <2>1, <2>2 DEF Attended, Listed
  <1>6. Heard'
    BY <1>3 DEF Attended, Heard, SameEars
  <1>. QED BY <1>5, <1>6

\* Who asks listens, and has an entry or the answer.
LEMMA PromptIsAsked ==
  ASSUME TypeOK, Attended, NEW p \in Prompt, p.what # "orphan", Ear(loop[p.who]) = "none",
         Ear(loop'[p.who]) = p.what, SameEars(Agent \ {p.who}),
         \/ AllEntries' = Append(AllEntries, p) /\ UNCHANGED answer
         \/ /\ AllEntries' = AllEntries
            /\ \E c \in {"yes", "always", "no"} :
                 answer' = [a \in Agent |-> IF a = p.who THEN c ELSE answer[a]]
  PROVE  Listed' /\ Heard'
  <1>1. AllEntries \in Seq(Prompt) /\ Len(AllEntries) \in Nat
    BY EntriesInOrder DEF TypeOK, ScreenOK, Attended
  <1>2. \A i \in 1..Len(AllEntries) : AllEntries[i] \in Prompt /\ AllEntries[i].who \in Agent
    BY EntriesArePrompts DEF TypeOK, ScreenOK, Attended
  <1>3. p.who \in Agent /\ p.what # "none" /\ p = [who |-> p.who, what |-> p.what]
    BY DEF Prompt
  <1>4. answer[p.who] = "none"
    BY <1>3 DEF Attended, Heard
  <1>5. \A i \in 1..Len(AllEntries) :
          AllEntries[i].what # "orphan" => AllEntries[i].who # p.who
    <2>. SUFFICES ASSUME NEW i \in 1..Len(AllEntries), AllEntries[i].what # "orphan",
                         AllEntries[i].who = p.who
                  PROVE  FALSE
      OBVIOUS
    <2>1. AllEntries[i].what = "none"
      BY DEF Attended, Listed
    <2>2. AllEntries[i] \in Prompt
      BY <1>1
    <2>. QED BY <2>1, <2>2 DEF Prompt
  <1>6. CASE AllEntries' = Append(AllEntries, p) /\ UNCHANGED answer
    <2>1. Len(AllEntries)' = Len(AllEntries) + 1 /\ AllEntries'[Len(AllEntries) + 1] = p
      BY <1>1, <1>6
    <2>2. \A i \in 1..Len(AllEntries) : AllEntries'[i] = AllEntries[i]
      BY <1>1, <1>6
    <2>3. \A i \in 1..Len(AllEntries)' : i \in 1..Len(AllEntries) \/ i = Len(AllEntries) + 1
      BY <1>1, <2>1
    <2>4. 1..Len(AllEntries) \subseteq 1..Len(AllEntries)'
          /\ Len(AllEntries) + 1 \in 1..Len(AllEntries)'
      BY <1>1, <2>1
    <2>. DEFINE m == Len(AllEntries)
                n == Len(AllEntries)'
    <2>. HIDE DEF m, n
    <2>5. \A i \in 1..n :
            LET e == AllEntries'[i]
            IN e.what # "orphan" => answer'[e.who] = "none" /\ e.what = Ear(loop'[e.who])
      <3>. SUFFICES ASSUME NEW i \in 1..n, AllEntries'[i].what # "orphan"
                    PROVE  /\ answer'[AllEntries'[i].who] = "none"
                           /\ AllEntries'[i].what = Ear(loop'[AllEntries'[i].who])
        OBVIOUS
      <3>1. CASE i \in 1..m
        BY <1>2, <1>5, <1>6, <2>2, <3>1 DEF Attended, Listed, SameEars, m
      <3>2. CASE i = m + 1
        BY <1>4, <1>6, <2>1, <3>2 DEF m
      <3>. QED BY <2>3, <3>1, <3>2 DEF m, n
    <2>6. \A i, j \in 1..n :
            AllEntries'[i].what # "orphan" /\ AllEntries'[j].what # "orphan"
              /\ AllEntries'[i].who = AllEntries'[j].who => i = j
      <3>. SUFFICES ASSUME NEW i \in 1..n, NEW j \in 1..n,
                           AllEntries'[i].what # "orphan", AllEntries'[j].what # "orphan",
                           AllEntries'[i].who = AllEntries'[j].who
                    PROVE  i = j
        OBVIOUS
      <3>1. CASE i \in 1..m /\ j \in 1..m
        BY <2>2, <3>1 DEF Attended, Listed, m
      <3>2. CASE i = m + 1 /\ j \in 1..m
        BY <1>5, <2>1, <2>2, <3>2 DEF m
      <3>3. CASE i \in 1..m /\ j = m + 1
        BY <1>5, <2>1, <2>2, <3>3 DEF m
      <3>. QED BY <2>3, <3>1, <3>2, <3>3 DEF m, n
    <2>7. \A b \in Agent : Ear(loop'[b]) # "none" /\ answer'[b] = "none" =>
            \E i \in 1..n : AllEntries'[i] = [who |-> b, what |-> Ear(loop'[b])]
      <3>. SUFFICES ASSUME NEW b \in Agent, Ear(loop'[b]) # "none", answer'[b] = "none"
                    PROVE  \E i \in 1..n : AllEntries'[i] = [who |-> b, what |-> Ear(loop'[b])]
        OBVIOUS
      <3>1. CASE b = p.who
        BY <1>3, <2>1, <2>4, <3>1 DEF n
      <3>2. CASE b # p.who
        <4>1. PICK i \in 1..m : AllEntries[i] = [who |-> b, what |-> Ear(loop[b])]
          BY <1>6, <3>2 DEF Attended, Listed, SameEars, m
        <4>. QED BY <2>2, <2>4, <3>2, <4>1 DEF SameEars, m, n
      <3>. QED BY <3>1, <3>2
    <2>8. Listed'
      BY <2>5, <2>6, <2>7 DEF Listed, n
    <2>9. Heard'
      BY <1>3, <1>4, <1>6 DEF Attended, Heard, SameEars
    <2>. QED BY <2>8, <2>9
  <1>7. ASSUME AllEntries' = AllEntries, NEW c \in {"yes", "always", "no"},
               answer' = [a \in Agent |-> IF a = p.who THEN c ELSE answer[a]]
        PROVE  Listed' /\ Heard'
    <2>1. answer'[p.who] # "none" /\ \A b \in Agent \ {p.who} : answer'[b] = answer[b]
      BY <1>3, <1>7
    <2>2. Listed'
      <3>1. \A i \in 1..Len(AllEntries)' :
              LET e == AllEntries'[i]
              IN e.what # "orphan" => answer'[e.who] = "none" /\ e.what = Ear(loop'[e.who])
        BY <1>2, <1>5, <1>7, <2>1 DEF Attended, Listed, SameEars
      <3>2. \A b \in Agent : Ear(loop'[b]) # "none" /\ answer'[b] = "none" =>
              \E i \in 1..Len(AllEntries)' : AllEntries'[i] = [who |-> b, what |-> Ear(loop'[b])]
        BY <1>7, <2>1 DEF Attended, Listed, SameEars
      <3>. QED BY <1>7, <3>1, <3>2 DEF Attended, Listed
    <2>3. Heard'
      BY <1>3, <2>1 DEF Attended, Heard, SameEars
    <2>. QED BY <2>2, <2>3
  <1>. QED BY <1>6, <1>7

\* A job prompt nobody listens to.
LEMMA OrphanIsLeft ==
  ASSUME TypeOK, Attended, NEW p \in Prompt, p.what = "orphan", SameEars(Agent),
         AllEntries' = Append(AllEntries, p), UNCHANGED answer
  PROVE  Listed' /\ Heard'
  <1>1. AllEntries \in Seq(Prompt) /\ Len(AllEntries) \in Nat
    BY EntriesInOrder DEF TypeOK, ScreenOK, Attended
  <1>2. \A i \in 1..Len(AllEntries) : AllEntries[i] \in Prompt /\ AllEntries[i].who \in Agent
    BY EntriesArePrompts DEF TypeOK, ScreenOK, Attended
  <1>3. Len(AllEntries)' = Len(AllEntries) + 1 /\ AllEntries'[Len(AllEntries) + 1] = p
    BY <1>1
  <1>4. \A i \in 1..Len(AllEntries) : AllEntries'[i] = AllEntries[i]
    BY <1>1
  <1>5. \A i \in 1..Len(AllEntries)' :
          AllEntries'[i].what # "orphan" => i \in 1..Len(AllEntries)
    BY <1>1, <1>3
  <1>6. 1..Len(AllEntries) \subseteq 1..Len(AllEntries)'
    BY <1>1, <1>3
  <1>7. Listed'
    <2>1. \A i \in 1..Len(AllEntries)' :
            LET e == AllEntries'[i]
            IN e.what # "orphan" => answer'[e.who] = "none" /\ e.what = Ear(loop'[e.who])
      BY <1>2, <1>4, <1>5 DEF Attended, Listed, SameEars
    <2>2. \A i, j \in 1..Len(AllEntries)' :
            AllEntries'[i].what # "orphan" /\ AllEntries'[j].what # "orphan"
              /\ AllEntries'[i].who = AllEntries'[j].who => i = j
      BY <1>4, <1>5 DEF Attended, Listed
    <2>3. \A b \in Agent : Ear(loop'[b]) # "none" /\ answer'[b] = "none" =>
            \E i \in 1..Len(AllEntries)' : AllEntries'[i] = [who |-> b, what |-> Ear(loop'[b])]
      BY <1>4, <1>6 DEF Attended, Listed, SameEars
    <2>. QED BY <2>1, <2>2, <2>3 DEF Listed
  <1>8. Heard'
    BY DEF Attended, Heard, SameEars
  <1>. QED BY <1>7, <1>8

\* Entries go, and their askers, and nobody else, have an answer.
LEMMA EntriesGo ==
  ASSUME TypeOK, Attended, SameEars(Agent), NEW K, Keeps(AllEntries, AllEntries', K),
         answer' \in [Agent -> {"none", "yes", "always", "no"}],
         \A a \in Agent :
           IF \E i \in 1..Len(AllEntries) : /\ i \notin K /\ AllEntries[i].who = a
                                            /\ AllEntries[i].what # "orphan"
             THEN answer'[a] # "none" ELSE answer'[a] = answer[a]
  PROVE  Listed' /\ Heard'
  <1>1. AllEntries \in Seq(Prompt) /\ Len(AllEntries) \in Nat
    BY EntriesInOrder DEF TypeOK, ScreenOK, Attended
  <1>2. \A i \in 1..Len(AllEntries) : AllEntries[i] \in Prompt /\ AllEntries[i].who \in Agent
    BY EntriesArePrompts DEF TypeOK, ScreenOK, Attended
  <1>3. PICK h \in [1..Len(AllEntries') -> K] :
          /\ \A k \in 1..Len(AllEntries') : AllEntries'[k] = AllEntries[h[k]]
          /\ \A i \in K : \E k \in 1..Len(AllEntries') : h[k] = i
          /\ \A j, k \in 1..Len(AllEntries') : h[j] = h[k] => j = k
    BY DEF Keeps
  <1>4. K \subseteq 1..Len(AllEntries)
    BY DEF Keeps
  <1>5. \A k \in 1..Len(AllEntries') : h[k] \in K /\ h[k] \in 1..Len(AllEntries)
    BY <1>4
  <1>6. ASSUME NEW k \in 1..Len(AllEntries'), AllEntries'[k].what # "orphan"
        PROVE  answer'[AllEntries'[k].who] = answer[AllEntries'[k].who]
    <2>1. h[k] \in K /\ h[k] \in 1..Len(AllEntries) /\ AllEntries'[k] = AllEntries[h[k]]
      BY <1>3, <1>5
    <2>2. ~\E i \in 1..Len(AllEntries) : /\ i \notin K /\ AllEntries[i].who = AllEntries[h[k]].who
                                         /\ AllEntries[i].what # "orphan"
      BY <1>6, <2>1 DEF Attended, Listed
    <2>. QED BY <1>2, <2>1, <2>2
  <1>7. \A k \in 1..Len(AllEntries') :
          LET e == AllEntries'[k]
          IN e.what # "orphan" => answer'[e.who] = "none" /\ e.what = Ear(loop'[e.who])
    BY <1>2, <1>3, <1>5, <1>6 DEF Attended, Listed, SameEars
  <1>8. \A j, k \in 1..Len(AllEntries') :
          AllEntries'[j].what # "orphan" /\ AllEntries'[k].what # "orphan"
            /\ AllEntries'[j].who = AllEntries'[k].who => j = k
    BY <1>3, <1>5 DEF Attended, Listed
  <1>9. ASSUME NEW b \in Agent, Ear(loop'[b]) # "none", answer'[b] = "none"
        PROVE  \E k \in 1..Len(AllEntries') :
                 AllEntries'[k] = [who |-> b, what |-> Ear(loop'[b])]
    <2>1. answer[b] = "none" /\ Ear(loop[b]) = Ear(loop'[b])
      BY <1>9 DEF SameEars
    <2>2. PICK i \in 1..Len(AllEntries) : AllEntries[i] = [who |-> b, what |-> Ear(loop[b])]
      BY <1>9, <2>1 DEF Attended, Listed
    <2>3. AllEntries[i].who = b /\ AllEntries[i].what # "orphan"
      BY <2>2 DEF Ear
    <2>4. i \in K
      BY <1>9, <2>3
    <2>5. PICK k \in 1..Len(AllEntries') : h[k] = i
      BY <1>3, <2>4
    <2>. QED BY <1>3, <2>1, <2>2, <2>5
  <1>10. Listed'
    BY <1>7, <1>8, <1>9 DEF Listed
  <1>11. Heard'
    <2>. SUFFICES ASSUME NEW a \in Agent, answer'[a] # "none" PROVE Ear(loop'[a]) # "none"
      BY DEF Heard
    <2>1. CASE answer[a] # "none"
      BY <2>1 DEF Attended, Heard, SameEars
    <2>2. CASE answer[a] = "none"
      <3>1. PICK i \in 1..Len(AllEntries) : /\ i \notin K /\ AllEntries[i].who = a
                                            /\ AllEntries[i].what # "orphan"
        BY <2>2
      <3>2. AllEntries[i].what = Ear(loop[a])
        BY <3>1 DEF Attended, Listed
      <3>. QED BY <1>2, <3>2 DEF Prompt, SameEars
    <2>. QED BY <2>1, <2>2
  <1>. QED BY <1>10, <1>11

-----------------------------------------------------------------------------
(* What each step does to listeners and entries.                            *)

\* A loop that asks for nothing.
Silent(l) == l.job = "no" /\ l.pc \notin {"wait", "model"}

\* It listens to nothing, and no job of it is asked for.
LEMMA SilentHearsNothing ==
  ASSUME NEW l, Silent(l)
  PROVE  Ear(l) = "none" /\ JobOK(l)
  BY DEF Silent, Ear, JobOK

\* Outside a batch no job is asked for.
LEMMA OthersAreSilent ==
  ASSUME NEW l \in LoopState, JobOK(l), l.pc \notin {"wait", "model"},
         l.pc # "work" \/ l.run = {}
  PROVE  Silent(l)
  BY DEF JobOK, Silent

\* A loop that begins, or is over, asks for nothing.
LEMMA IdleIsSilent ==
  /\ Silent(Idle) /\ (\A w : Silent(Beginning(w)))
  /\ Silent([Idle EXCEPT !.pc = "delivering"])
  /\ \A m : Silent([Idle EXCEPT !.pc = "call", !.mode = m])
  BY DEF Idle, Beginning, Silent

\* One loop moves, and asks for what it asked for before.
LEMMA OneMoves ==
  ASSUME TypeOK, Attended, NEW a \in Agent, NEW k, loop' = [loop EXCEPT ![a] = k], JobOK(k)
  PROVE  SameEars(Agent \ {a}) /\ Jobs' /\ loop'[a] = k
         /\ (Ear(k) = Ear(loop[a]) => SameEars(Agent))
  <1>1. loop'[a] = k /\ \A b \in Agent \ {a} : loop'[b] = loop[b]
    BY DEF TypeOK
  <1>. QED BY <1>1 DEF SameEars, Attended, Jobs

\* A worker that is over asks for nothing, and the others go on.
LEMMA ReturnsEars ==
  ASSUME TypeOK, Attended, NEW w \in Worker,
         loop' = [loop EXCEPT ![w] = Idle, ![Main].run = @ \ {w}]
  PROVE  SameEars(Agent \ {w}) /\ Ear(loop'[w]) = "none" /\ Jobs'
         /\ (Ear(loop[w]) = "none" => SameEars(Agent))
  <1>1. w \in Agent /\ Main \in Agent /\ w # Main /\ w # "job"
    BY AgentAssumption, MainAssumption
  <1>2. loop[Main] \in LoopState
    BY <1>1 DEF TypeOK
  <1>3. /\ loop'[w] = Idle /\ \A b \in Agent \ {w, Main} : loop'[b] = loop[b]
        /\ loop'[Main] = [loop[Main] EXCEPT !.run = @ \ {w}]
    BY <1>1 DEF TypeOK
  <1>4. LET k == [loop[Main] EXCEPT !.run = @ \ {w}]
        IN  k.pc = loop[Main].pc /\ k.job = loop[Main].job /\ k.run = loop[Main].run \ {w}
    BY <1>2 DEF LoopState
  <1>5. Ear(loop'[Main]) = Ear(loop[Main]) /\ JobOK(loop'[Main])
    BY <1>1, <1>3, <1>4 DEF Ear, JobOK, Attended, Jobs
  <1>6. Ear(Idle) = "none" /\ JobOK(Idle)
    BY IdleIsSilent, SilentHearsNothing
  <1>. QED BY <1>3, <1>5, <1>6 DEF SameEars, Attended, Jobs

\* A step that leaves the queue alone.
LEMMA QuietStep ==
  ASSUME TypeOK, Attended, SameEars(Agent), Jobs', UNCHANGED <<active, queue, answer>>,
         pending' = pending \/ (pending' = None /\ (active = None \/ active.what = "orphan"))
  PROVE  Attended'
  <1>1. AllEntries' = AllEntries
    BY DEF AllEntries
  <1>2. Screen'
    BY DEF Attended, Screen
  <1>. QED BY <1>1, <1>2, PromptsStay DEF Attended

\* When nobody listens, the active entry is nobody's.
LEMMA NobodyListens ==
  ASSUME TypeOK, Attended, \A w \in Worker : loop[w].pc = "off",
         Ear(loop[Main]) = "none" \/ answer[Main] # "none"
  PROVE  active = None \/ active.what = "orphan"
  <1>. SUFFICES ASSUME active # None, active.what # "orphan" PROVE FALSE
    OBVIOUS
  <1>1. ScreenOK /\ Screen /\ active \in Prompt
    BY DEF TypeOK, ScreenOK, Attended
  <1>2. 1 \in 1..Len(AllEntries) /\ AllEntries[1] = active
    <2>1. Len(AllEntries) = Len(queue) + 1 /\ AllEntries[1] = active
      BY <1>1, EntriesInOrder
    <2>2. Len(queue) \in Nat
      BY <1>1 DEF ScreenOK
    <2>. QED BY <2>1, <2>2
  <1>3. answer[active.who] = "none" /\ active.what = Ear(loop[active.who])
    BY <1>2 DEF Attended, Listed
  <1>4. active.who \in Agent /\ active.what # "none"
    BY <1>1 DEF Prompt
  <1>5. ASSUME NEW w \in Worker PROVE Ear(loop[w]) = "none"
    <2>1. w \in Agent /\ loop[w].pc = "off"
      BY AgentAssumption
    <2>2. loop[w].job # "asked"
      BY <2>1 DEF Attended, Jobs, JobOK
    <2>. QED BY <2>1, <2>2 DEF Ear
  <1>. QED BY <1>3, <1>4, <1>5, AgentAssumption

\* A loop that is over asked for nothing any more.
LEMMA OverAttended ==
  ASSUME Homely, Attended, NEW a \in Agent, Over(a), Silent(loop[a]),
         a = Main => loop[Main].pc # "work" \/ loop[Main].run = {}
  PROVE  Attended'
  <1>1. Ear(loop[a]) = "none" /\ JobOK(Idle) /\ Ear(Idle) = "none" /\ TypeOK
    BY SilentHearsNothing, IdleIsSilent DEF Homely
  <1>2. CASE a = Main /\ TurnOver
    <2>1. SameEars(Agent) /\ Jobs'
      BY <1>1, <1>2, OneMoves DEF TurnOver
    <2>2. \A w \in Worker : loop[w].pc = "off"
      BY <1>2 DEF Homely, Live
    <2>3. active = None \/ active.what = "orphan"
      BY <1>1, <1>2, <2>2, NobodyListens
    <2>. QED BY <1>1, <1>2, <2>1, <2>3, QuietStep DEF TurnOver
  <1>3. CASE a # Main /\ Discards(a)
    <2>1. SameEars(Agent) /\ Jobs'
      BY <1>1, <1>3, ReturnsEars, AgentAssumption DEF Discards, Returns
    <2>. QED BY <1>1, <1>3, <2>1, QuietStep DEF Discards, queueVars
  <1>. QED BY <1>2, <1>3 DEF Over

\* What the queue looks at, in a step that asks nobody.
Unasked == UNCHANGED <<active, queue, pending, answer>>

\* A loop that goes from one silent point to another.
LEMMA SilentMove ==
  ASSUME TypeOK, Attended, NEW a \in Agent, NEW k, loop' = [loop EXCEPT ![a] = k],
         Silent(loop[a]), Silent(k), Unasked
  PROVE  Attended'
  <1>1. Ear(loop[a]) = "none" /\ Ear(k) = "none" /\ JobOK(k)
    BY SilentHearsNothing
  <1>2. SameEars(Agent) /\ Jobs'
    BY <1>1, OneMoves
  <1>. QED BY <1>2, QuietStep DEF Unasked

\* The same when only the place in the loop changes.
LEMMA SilentGoto ==
  ASSUME TypeOK, Attended, NEW a \in Agent, NEW p, p \notin {"wait", "model"}, Goto(a, p),
         Silent(loop[a]), Unasked
  PROVE  Attended'
  <1>1. Silent([loop[a] EXCEPT !.pc = p])
    BY DEF Silent, TypeOK, LoopState
  <1>. QED BY <1>1, SilentMove DEF Goto

\* The steps of a loop between its provider and its calls.
LEMMA TalkAttended ==
  ASSUME Homely, Attended, NEW a \in Agent,
         \/ CallsProvider(a) \/ StreamBreaks(a) \/ Says(a) \/ Concludes(a)
         \/ TakesMessage(a) \/ Finishes(a) \/ Gates(a)
  PROVE  Attended'
  <1>1. loop[a] \in LoopState /\ JobOK(loop[a]) /\ TypeOK
    BY DEF Homely, TypeOK, Attended, Jobs
  <1>2. loop[a].pc \in {"call", "stream", "said", "last", "gate"}
    BY DEF CallsProvider, StreamBreaks, Says, Concludes, TakesMessage, Finishes, Gates, At
  <1>3. Silent(loop[a])
    BY <1>1, <1>2, OthersAreSilent
  <1>4. CASE Over(a)
    BY <1>2, <1>3, <1>4, OverAttended
  <1>5. CASE Unasked /\ \E p \in {"stream", "last", "gate", "request"} : Goto(a, p)
    BY <1>1, <1>3, <1>5, SilentGoto
  <1>6. ASSUME Unasked, NEW k, loop' = [loop EXCEPT ![a] = k], Silent(k) PROVE Attended'
    BY <1>1, <1>3, <1>6, SilentMove
  <1>7. CASE CallsProvider(a) \/ StreamBreaks(a) \/ TakesMessage(a)
    BY <1>4, <1>5, <1>7 DEF CallsProvider, StreamBreaks, TakesMessage, Closes, Drops,
      queueVars, Unasked
  <1>8. CASE Says(a)
    <2>1. Unasked /\ \E b : loop' = [loop EXCEPT ![a] = [loop[a] EXCEPT !.pc = "said", !.todo = b]]
      BY <1>8 DEF Says, queueVars, Unasked
    <2>2. \A b : Silent([loop[a] EXCEPT !.pc = "said", !.todo = b])
      BY <1>1, <1>3 DEF Silent, LoopState
    <2>. QED BY <1>6, <2>1, <2>2
  <1>9. CASE Concludes(a)
    <2>1. Silent([loop[a] EXCEPT !.pc = "call", !.again = @ + 1])
      BY <1>1, <1>3 DEF Silent, LoopState
    <2>2. \/ Over(a)
          \/ Unasked /\ Goto(a, "last")
          \/ Unasked /\ loop' = [loop EXCEPT ![a] = [loop[a] EXCEPT !.pc = "call", !.again = @ + 1]]
      BY <1>9 DEF Concludes, Closes, queueVars, Unasked
    <2>. QED BY <1>4, <1>5, <1>6, <2>1, <2>2
  <1>10. CASE Finishes(a)
    <2>1. Over(a) \/ (Unasked /\ loop' = [loop EXCEPT ![a] = [Idle EXCEPT !.pc = "delivering"]])
      BY <1>10 DEF Finishes, Closes, queueVars, Unasked
    <2>. QED BY <1>4, <1>6, <2>1, IdleIsSilent
  <1>11. CASE Gates(a)
    <2>1. /\ Unasked
          /\ \/ \E c : loop' = [loop EXCEPT ![a] =
                                   [loop[a] EXCEPT !.todo = Tail(@), !.run = @ \cup {c}]]
             \/ loop' = [loop EXCEPT ![a] = [loop[a] EXCEPT !.todo = Tail(@)]]
             \/ Goto(a, "request")
      BY <1>11 DEF Gates, queueVars, Unasked
    <2>2. /\ \A c : Silent([loop[a] EXCEPT !.todo = Tail(@), !.run = @ \cup {c}])
          /\ Silent([loop[a] EXCEPT !.todo = Tail(@)])
      BY <1>1, <1>3 DEF Silent, LoopState
    <2>. QED BY <1>5, <1>6, <2>1, <2>2
  <1>. QED BY <1>7, <1>8, <1>9, <1>10, <1>11

\* The calls of a batch: what runs beside a job leaves its consent alone.
LEMMA BatchAttended ==
  ASSUME Homely, Attended, NEW a \in Agent,
         StartsWork(a) \/ RunsEdit(a) \/ RunsCheck(a) \/ EndsWork(a) \/ JobAuthorizes(a)
  PROVE  Attended'
  <1>1. loop[a] \in LoopState /\ JobOK(loop[a]) /\ TypeOK /\ loop \in [Agent -> LoopState]
    BY DEF Homely, TypeOK, Attended, Jobs
  <1>2. ASSUME Unasked, NEW k, loop' = [loop EXCEPT ![a] = k], JobOK(k), Ear(k) = Ear(loop[a])
        PROVE  Attended'
    BY <1>1, <1>2, OneMoves, QuietStep DEF Unasked
  <1>3. CASE StartsWork(a)
    <2>. DEFINE started == loop[a].run \cap (Worker \ Foreign)
    <2>1. Unasked /\ loop[a].pc = "gate"
      BY <1>3 DEF StartsWork, At, queueVars, Unasked
    <2>2. Silent(loop[a])
      BY <1>1, <2>1, OthersAreSilent
    <2>3. Silent([loop[a] EXCEPT !.pc = "work", !.did = {}])
      BY <1>1, <2>2 DEF Silent, LoopState
    <2>4. ASSUME NEW w \in started PROVE w \in Agent /\ loop[w].pc = "off"
      <3>1. CASE a = Main
        BY <2>1, <3>1, AgentAssumption DEF Homely, Live
      <3>2. CASE a # Main
        <4>1. a \in Worker /\ w \in Own
          BY <3>2, AgentAssumption DEF Homely, Live
        <4>. QED BY <4>1, AgentAssumption DEF Own
      <3>. QED BY <3>1, <3>2
    <2>5. \A w \in started : Silent(loop[w])
      BY <1>1, <2>4, OthersAreSilent DEF Attended, Jobs
    <2>6. \A b \in Agent : loop'[b] = IF b = a THEN [loop[a] EXCEPT !.pc = "work", !.did = {}]
                                      ELSE IF b \in started THEN Beginning(b) ELSE loop[b]
      BY <1>3 DEF StartsWork
    <2>. HIDE DEF started
    <2>7. \A b \in Agent : loop'[b] = loop[b] \/ (Silent(loop[b]) /\ Silent(loop'[b]))
      BY <2>2, <2>3, <2>5, <2>6, IdleIsSilent
    <2>8. SameEars(Agent) /\ Jobs'
      BY <2>7, SilentHearsNothing DEF SameEars, Attended, Jobs
    <2>. QED BY <1>1, <2>1, <2>8, QuietStep DEF Unasked
  <1>4. CASE RunsEdit(a)
    <2>1. PICK ok \in BOOLEAN :
            loop' = [loop EXCEPT ![a] = [loop[a] EXCEPT !.run = @ \ {"edit"},
                       !.did = IF ok THEN @ \cup {"edit"} ELSE @, !.dirty = @ \/ ok]]
      BY <1>4 DEF RunsEdit
    <2>2. LET k == [loop[a] EXCEPT !.run = @ \ {"edit"},
                       !.did = IF ok THEN @ \cup {"edit"} ELSE @, !.dirty = @ \/ ok]
          IN  JobOK(k) /\ Ear(k) = Ear(loop[a])
      BY <1>1 DEF JobOK, Ear, LoopState
    <2>3. Unasked
      BY <1>4 DEF RunsEdit, queueVars, Unasked
    <2>. QED BY <1>2, <2>1, <2>2, <2>3
  <1>5. CASE RunsCheck(a)
    <2>1. PICK out \in {"pass", "fail", "inconclusive"} :
            loop' = [loop EXCEPT ![a] = [loop[a] EXCEPT !.run = @ \ {"check"}, !.did = @ \cup {out},
                       !.dirty = IF out = "pass" THEN "edit" \in loop[a].did ELSE @]]
      BY <1>5 DEF RunsCheck
    <2>2. LET k == [loop[a] EXCEPT !.run = @ \ {"check"}, !.did = @ \cup {out},
                       !.dirty = IF out = "pass" THEN "edit" \in loop[a].did ELSE @]
          IN  JobOK(k) /\ Ear(k) = Ear(loop[a])
      BY <1>1 DEF JobOK, Ear, LoopState
    <2>3. Unasked
      BY <1>5 DEF RunsCheck, queueVars, Unasked
    <2>. QED BY <1>2, <2>1, <2>2, <2>3
  <1>6. CASE EndsWork(a)
    <2>1. loop[a].run = {} /\ loop[a].pc = "work"
      BY <1>6 DEF EndsWork, At
    <2>2. Silent(loop[a])
      BY <1>1, <2>1, OthersAreSilent
    <2>3. CASE Over(a)
      BY <2>1, <2>2, <2>3, OverAttended
    <2>4. CASE /\ loop' = [loop EXCEPT ![a] = [Evidence(@) EXCEPT !.pc = "call", !.did = {}]]
               /\ Unasked
      <3>1. Silent([Evidence(loop[a]) EXCEPT !.pc = "call", !.did = {}])
        BY <1>1, <2>2, EvidenceKeeps DEF Silent
      <3>. QED BY <1>1, <2>2, <2>4, <3>1, SilentMove
    <2>. QED BY <1>6, <2>3, <2>4 DEF EndsWork, queueVars, Unasked
  <1>7. CASE JobAuthorizes(a)
    <2>1. Unasked /\ loop[a].job = "no" /\ loop[a].pc = "work" /\ "job" \in loop[a].run
      BY <1>7 DEF JobAuthorizes, Ready, At, queueVars, Unasked
    <2>2. \/ loop' = [loop EXCEPT ![a] = [loop[a] EXCEPT !.run = @ \ {"job"}, !.job = "no"]]
          \/ loop' = [loop EXCEPT ![a] = [loop[a] EXCEPT !.job = "looking"]]
      BY <1>7 DEF JobAuthorizes, JobDone
    <2>3. LET k == [loop[a] EXCEPT !.run = @ \ {"job"}, !.job = "no"]
          IN  JobOK(k) /\ Ear(k) = Ear(loop[a])
      BY <1>1, <2>1 DEF JobOK, Ear, LoopState
    <2>4. LET k == [loop[a] EXCEPT !.job = "looking"]
          IN  JobOK(k) /\ Ear(k) = Ear(loop[a])
      BY <1>1, <2>1 DEF JobOK, Ear, LoopState
    <2>. QED BY <1>2, <2>1, <2>2, <2>3, <2>4
  <1>. QED BY <1>3, <1>4, <1>5, <1>6, <1>7

\* A prompt that a step adds.
LEMMA EnqueueAttended ==
  ASSUME TypeOK, Attended, NEW p \in Prompt, p.what # "orphan", Ear(loop[p.who]) = "none",
         Ear(loop'[p.who]) = p.what, SameEars(Agent \ {p.who}), Jobs',
         \E b \in BOOLEAN : EnqueueUnless(b, p)
  PROVE  Attended'
  <1>1. ScreenOK /\ Screen
    BY DEF TypeOK, ScreenOK, Attended
  <1>2. PICK b \in BOOLEAN : EnqueueUnless(b, p)
    OBVIOUS
  <1>3. CASE b
    <2>1. UNCHANGED <<active, queue, pending>>
      BY <1>2, <1>3 DEF EnqueueUnless
    <2>2. answer' = [a \in Agent |-> IF a = p.who THEN "no" ELSE answer[a]]
      BY <1>2, <1>3 DEF EnqueueUnless, Reply
    <2>3. AllEntries' = AllEntries /\ Screen'
      BY <2>1, <1>1 DEF AllEntries, Screen
    <2>. QED BY <2>2, <2>3, PromptIsAsked DEF Attended
  <1>4. CASE ~b
    <2>1. Enqueue(p)
      BY <1>2, <1>4 DEF EnqueueUnless
    <2>2. /\ Screen'
          /\ \/ AllEntries' = Append(AllEntries, p) /\ UNCHANGED answer
             \/ /\ AllEntries' = AllEntries
                /\ answer' = [a \in Agent |-> IF a = p.who THEN "always" ELSE answer[a]]
      BY <1>1, <2>1, EnqueueEffect
    <2>. QED BY <2>2, PromptIsAsked DEF Attended
  <1>. QED BY <1>3, <1>4

\* A loop asks, and hears.
LEMMA AskingAttended ==
  ASSUME Homely, Attended, NEW a \in Agent, Asks(a) \/ JobAsks(a)
  PROVE  Attended'
  <1>1. loop[a] \in LoopState /\ JobOK(loop[a]) /\ TypeOK /\ ScreenOK /\ Screen
    BY DEF Homely, TypeOK, ScreenOK, Attended, Jobs
  <1>2. CASE Asks(a)
    <2>1. loop[a].pc = "request"
      BY <1>2 DEF Asks, At
    <2>2. Silent(loop[a])
      BY <1>1, <2>1, OthersAreSilent
    <2>3. CASE Drops(a)
      BY <2>1, <2>2, <2>3, OverAttended DEF Drops
    <2>4. CASE Enqueue([who |-> a, what |-> "tool"]) /\ Goto(a, "wait")
      <3>. DEFINE p == [who |-> a, what |-> "tool"]
                  k == [loop[a] EXCEPT !.pc = "wait"]
      <3>1. p \in Prompt /\ p.what = "tool" /\ p.who = a
        BY DEF Prompt
      <3>2. Ear(k) = "tool" /\ JobOK(k) /\ loop' = [loop EXCEPT ![a] = k]
        BY <1>1, <2>2, <2>4 DEF Goto, Silent, Ear, JobOK, LoopState
      <3>3. Ear(loop[a]) = "none"
        BY <2>2, SilentHearsNothing
      <3>. HIDE DEF k
      <3>4. SameEars(Agent \ {a}) /\ Jobs' /\ loop'[a] = k
        BY <1>1, <3>2, OneMoves
      <3>5. EnqueueUnless(FALSE, p)
        BY <2>4 DEF EnqueueUnless
      <3>. HIDE DEF p
      <3>. QED BY <1>1, <3>1, <3>2, <3>3, <3>4, <3>5, EnqueueAttended
    <2>. QED BY <1>2, <2>3, <2>4 DEF Asks
  <1>3. CASE JobAsks(a)
    <2>1. loop[a].pc = "work" /\ "job" \in loop[a].run /\ loop[a].job = "looking"
      BY <1>3 DEF JobAsks, Ready, At
    <2>2. Ear(loop[a]) = "none"
      BY <2>1 DEF Ear
    <2>. DEFINE done == [loop[a] EXCEPT !.run = @ \ {"job"}, !.job = "no"]
                k == [loop[a] EXCEPT !.job = "asked"]
    <2>3. Ear(done) = "none" /\ JobOK(done) /\ Ear(k) = "job" /\ JobOK(k)
      BY <1>1, <2>1 DEF Ear, JobOK, LoopState
    <2>4. ASSUME JobDone(a) PROVE SameEars(Agent) /\ Jobs'
      <3>1. loop' = [loop EXCEPT ![a] = done]
        BY <2>4 DEF JobDone
      <3>. HIDE DEF done
      <3>. QED BY <1>1, <2>2, <2>3, <3>1, OneMoves
    <2>5. CASE JobDone(a) /\ UNCHANGED queueVars
      BY <1>1, <2>4, <2>5, QuietStep DEF queueVars
    <2>6. CASE Enqueue([who |-> a, what |-> "job"]) /\ loop' = [loop EXCEPT ![a] = k]
      <3>. DEFINE p == [who |-> a, what |-> "job"]
      <3>1. p \in Prompt /\ p.what = "job" /\ p.who = a
        BY DEF Prompt
      <3>. HIDE DEF k
      <3>2. SameEars(Agent \ {a}) /\ Jobs' /\ loop'[a] = k
        BY <1>1, <2>3, <2>6, OneMoves
      <3>3. EnqueueUnless(FALSE, p)
        BY <2>6 DEF EnqueueUnless
      <3>. HIDE DEF p
      <3>. QED BY <1>1, <2>2, <2>3, <3>1, <3>2, <3>3, EnqueueAttended
    <2>7. CASE Enqueue([who |-> a, what |-> "orphan"]) /\ JobDone(a)
      <3>. DEFINE p == [who |-> a, what |-> "orphan"]
      <3>1. p \in Prompt /\ p.what = "orphan"
        BY DEF Prompt
      <3>2. Enqueue(p)
        BY <2>7
      <3>. HIDE DEF p
      <3>3. Screen' /\ AllEntries' = Append(AllEntries, p) /\ UNCHANGED answer
        BY <1>1, <3>1, <3>2, EnqueueEffect
      <3>. QED BY <1>1, <2>4, <2>7, <3>1, <3>3, OrphanIsLeft DEF Attended
    <2>. QED BY <1>3, <2>5, <2>6, <2>7 DEF JobAsks
  <1>. QED BY <1>2, <1>3

\* Who takes its answer.
LEMMA HearingAttended ==
  ASSUME TypeOK, Attended, NEW a \in Agent, answer[a] # "none", SameEars(Agent \ {a}), Jobs',
         Ear(loop'[a]) = "none", answer' = [answer EXCEPT ![a] = "none"],
         UNCHANGED <<active, queue>>,
         pending' = pending \/ (pending' = None /\ (active = None \/ active.what = "orphan"))
  PROVE  Attended'
  <1>1. AllEntries' = AllEntries
    BY DEF AllEntries
  <1>2. Screen'
    BY DEF Attended, Screen
  <1>. QED BY <1>1, <1>2, AnswerIsTaken DEF Attended

\* Who hears the answer has taken it, and listens no more.
LEMMA AnswersTaken ==
  ASSUME Homely, Attended, NEW a \in Agent, Hears(a) \/ JobHears(a)
  PROVE  Attended'
  <1>1. loop[a] \in LoopState /\ JobOK(loop[a]) /\ TypeOK
    BY DEF Homely, TypeOK, Attended, Jobs
  <1>2. CASE Hears(a)
    <2>. DEFINE c == Head(loop[a].todo)
                next == [loop[a] EXCEPT !.pc = "gate", !.todo = Tail(@)]
                new == CASE answer[a] = "no" -> [next EXCEPT !.denied = @ \cup {c}]
                         [] answer[a] = "yes" -> [next EXCEPT !.run = @ \cup {c}]
                         [] answer[a] = "always" ->
                              [next EXCEPT !.run = @ \cup {c},
                                           !.mode = IF floor = "none" THEN "auto" ELSE @]
    <2>1. loop[a].job = "no" /\ answer[a] # "none"
      BY <1>1, <1>2 DEF Hears, At, JobOK
    <2>2. answer[a] \in {"no", "yes", "always"}
      BY <1>1, <2>1 DEF TypeOK
    <2>3. Silent(new)
      BY <1>1, <2>1, <2>2 DEF LoopState, Silent
    <2>4. loop' = [loop EXCEPT ![a] = new]
      BY <1>2 DEF Hears
    <2>. HIDE DEF new
    <2>5. SameEars(Agent \ {a}) /\ Jobs' /\ Ear(loop'[a]) = "none"
      BY <1>1, <2>3, <2>4, OneMoves, SilentHearsNothing
    <2>. QED BY <1>1, <1>2, <2>1, <2>5, HearingAttended DEF Hears
  <1>3. CASE JobHears(a)
    <2>. DEFINE done == [loop[a] EXCEPT !.run = @ \ {"job"}, !.job = "no"]
    <2>1. loop[a].pc = "work" /\ loop' = [loop EXCEPT ![a] = done]
      BY <1>3 DEF JobHears, JobDone, Ready, At
    <2>2. Silent(done)
      BY <1>1, <2>1 DEF LoopState, Silent
    <2>. HIDE DEF done
    <2>3. SameEars(Agent \ {a}) /\ Jobs' /\ Ear(loop'[a]) = "none"
      BY <1>1, <2>1, <2>2, OneMoves, SilentHearsNothing
    <2>. QED BY <1>1, <1>3, <2>3, HearingAttended DEF JobHears
  <1>. QED BY <1>2, <1>3

\* A loop that stops by itself: its answer, if it waited for one, was there.
LEMMA StoppingAttended ==
  ASSUME Homely, Attended, NEW a \in Agent, PairsAndStops(a)
  PROVE  Attended'
  <1>1. loop[a] \in LoopState /\ JobOK(loop[a]) /\ TypeOK
    BY DEF Homely, TypeOK, Attended, Jobs
  <1>2. loop[a].pc = "gate" \/ (loop[a].pc = "wait" /\ answer[a] # "none")
    BY DEF PairsAndStops, At
  <1>3. Ear(loop[a]) = "none" \/ answer[a] # "none"
    BY <1>1, <1>2 DEF Ear, JobOK
  <1>4. /\ SameEars(Agent \ {a}) /\ Ear(loop'[a]) = "none" /\ Jobs'
        /\ Ear(loop[a]) = "none" => SameEars(Agent)
        /\ pending' = pending \/ (pending' = None /\ (active = None \/ active.what = "orphan"))
    <2>1. CASE a = Main /\ loop' = [loop EXCEPT ![Main] = Idle] /\ pending' = None
      <3>1. Ear(Idle) = "none" /\ JobOK(Idle)
        BY IdleIsSilent, SilentHearsNothing
      <3>2. \A w \in Worker : loop[w].pc = "off"
        BY <1>2, <2>1 DEF Homely, Live
      <3>3. active = None \/ active.what = "orphan"
        BY <1>1, <1>3, <2>1, <3>2, NobodyListens
      <3>. QED BY <1>1, <2>1, <3>1, <3>3, OneMoves
    <2>2. CASE a # Main /\ Returns(a) /\ UNCHANGED pending
      BY <1>1, <2>2, ReturnsEars, AgentAssumption DEF Returns
    <2>. QED BY <2>1, <2>2 DEF PairsAndStops
  <1>5. UNCHANGED <<active, queue>> /\ answer' = [answer EXCEPT ![a] = "none"]
    BY DEF PairsAndStops
  <1>6. CASE answer[a] # "none"
    BY <1>1, <1>4, <1>5, <1>6, HearingAttended
  <1>7. CASE answer[a] = "none"
    <2>1. UNCHANGED answer
      BY <1>1, <1>5, <1>7 DEF TypeOK
    <2>. QED BY <1>1, <1>3, <1>4, <1>5, <1>7, <2>1, QuietStep
  <1>. QED BY <1>6, <1>7

\* The steps of a subagent call.
LEMMA CallAttended ==
  ASSUME Homely, Attended, NEW w \in Worker, WorkerStep(w)
  PROVE  Attended'
  <1>1. w \in Agent /\ w # Main /\ loop[w] \in LoopState /\ JobOK(loop[w]) /\ TypeOK
    BY AgentAssumption DEF Homely, TypeOK, Attended, Jobs
  <1>2. CASE AsksModel(w)
    <2>. DEFINE p == [who |-> w, what |-> "model"]
                k == [loop[w] EXCEPT !.pc = "model"]
    <2>1. p \in Prompt /\ p.what = "model" /\ p.who = w
      BY <1>1 DEF Prompt
    <2>2. loop[w].pc = "off" /\ loop' = [loop EXCEPT ![w] = k]
      BY <1>2 DEF AsksModel, At, Goto
    <2>3. Ear(loop[w]) = "none" /\ Ear(k) = "model" /\ JobOK(k)
      BY <1>1, <2>2 DEF Ear, JobOK, LoopState
    <2>. HIDE DEF k
    <2>4. SameEars(Agent \ {w}) /\ Jobs' /\ loop'[w] = k
      BY <1>1, <2>2, <2>3, OneMoves
    <2>5. EnqueueUnless(Main \in aborted, p) /\ (Main \in aborted) \in BOOLEAN
      BY <1>2 DEF AsksModel
    <2>. HIDE DEF p
    <2>. QED BY <1>1, <2>1, <2>3, <2>4, <2>5, EnqueueAttended
  <1>3. CASE HearsModel(w)
    <2>1. \/ loop' = [loop EXCEPT ![w] = Idle, ![Main].run = @ \ {w}]
          \/ loop' = [loop EXCEPT ![w] = Beginning(w)]
      BY <1>3 DEF HearsModel, Returns
    <2>2. Ear(Beginning(w)) = "none" /\ JobOK(Beginning(w))
      BY IdleIsSilent, SilentHearsNothing
    <2>3. SameEars(Agent \ {w}) /\ Jobs' /\ Ear(loop'[w]) = "none"
      <3>1. CASE loop' = [loop EXCEPT ![w] = Idle, ![Main].run = @ \ {w}]
        BY <1>1, <3>1, ReturnsEars
      <3>2. CASE loop' = [loop EXCEPT ![w] = Beginning(w)]
        <4>. DEFINE k == Beginning(w)
        <4>. HIDE DEF k
        <4>1. loop' = [loop EXCEPT ![w] = k] /\ Ear(k) = "none" /\ JobOK(k)
          BY <2>2, <3>2 DEF k
        <4>. QED BY <1>1, <4>1, OneMoves
      <3>. QED BY <2>1, <3>1, <3>2
    <2>. QED BY <1>1, <1>3, <2>3, HearingAttended DEF HearsModel
  <1>4. CASE SetsUp(w) \/ Delivers(w)
    <2>1. Silent(loop[w])
      BY <1>1, <1>4, OthersAreSilent DEF SetsUp, Delivers, At
    <2>2. Ear(loop[w]) = "none" /\ Unasked
      BY <1>4, <2>1, SilentHearsNothing DEF SetsUp, Delivers, queueVars, Unasked
    <2>3. CASE Returns(w)
      <3>1. SameEars(Agent) /\ Jobs'
        BY <1>1, <2>2, <2>3, ReturnsEars DEF Returns
      <3>. QED BY <1>1, <2>2, <3>1, QuietStep DEF Unasked
    <2>4. CASE Goto(w, "call")
      BY <1>1, <2>1, <2>2, <2>4, SilentGoto
    <2>. QED BY <1>4, <2>3, <2>4 DEF SetsUp, Delivers
  <1>. QED BY <1>2, <1>3, <1>4 DEF WorkerStep

\* The prompts that go are answered, and nobody else is.
LEMMA AnsweredAttended ==
  ASSUME TypeOK, TypeOK', Attended, UNCHANGED loop, Screen',
         NEW K, Keeps(AllEntries, AllEntries', K),
         \A a \in Agent :
           IF \E i \in 1..Len(AllEntries) : /\ i \notin K /\ AllEntries[i].who = a
                                            /\ AllEntries[i].what # "orphan"
             THEN answer'[a] # "none" ELSE answer'[a] = answer[a]
  PROVE  Attended'
  <1>1. SameEars(Agent) /\ Jobs'
    BY DEF SameEars, Attended, Jobs
  <1>2. answer' \in [Agent -> {"none", "yes", "always", "no"}]
    BY DEF TypeOK
  <1>. QED BY <1>1, <1>2, EntriesGo DEF Attended

\* resolve, the user's answer.
LEMMA ResolveAttended ==
  ASSUME TypeOK, TypeOK', Attended, UNCHANGED loop,
         NEW c \in {"yes", "always", "no"}, NEW e, Resolve(c, e)
  PROVE  Attended'
  <1>. DEFINE all == Effective(c) = "always"
              flushed == {p \in ToSet(queue) : all /\ Blanket(p)}
              K == {i \in 1..Len(AllEntries) :
                      IF i = 1 THEN FALSE ELSE AllEntries[i] \notin flushed}
  <1>1. ScreenOK /\ Screen /\ active # None /\ queue \in Seq(Prompt) /\ Len(queue) \in Nat
    BY DEF TypeOK, ScreenOK, Attended, Resolve
  <1>2. Dequeue(Without(queue, flushed))
    BY DEF Resolve
  <1>3. answer' = [a \in Agent |->
                     IF a = active.who /\ active.what # "orphan" THEN Effective(c)
                     ELSE IF \E p \in flushed : p.who = a /\ p.what # "orphan" THEN "always"
                     ELSE answer[a]]
    BY DEF Resolve
  <1>4. Effective(c) # "none"
    BY DEF Effective
  <1>5. Len(AllEntries) = Len(queue) + 1 /\ AllEntries[1] = active
        /\ \A i \in 1..Len(queue) : AllEntries[i + 1] = queue[i]
    BY <1>1, EntriesInOrder
  <1>6. \A p \in flushed : \E i \in 1..Len(AllEntries) : i # 1 /\ AllEntries[i] = p
    <2>. SUFFICES ASSUME NEW p \in flushed
                  PROVE  \E i \in 1..Len(AllEntries) : i # 1 /\ AllEntries[i] = p
      OBVIOUS
    <2>1. PICK j \in 1..Len(queue) : queue[j] = p
      BY DEF ToSet
    <2>. HIDE DEF flushed
    <2>2. j + 1 \in 1..Len(AllEntries) /\ j + 1 # 1
      BY <1>1, <1>5
    <2>. QED BY <1>5, <2>1, <2>2
  <1>7. 1 \in 1..Len(AllEntries)
    BY <1>1, <1>5
  <1>. HIDE DEF flushed
  <1>8. AllEntries' = Without(queue, flushed) /\ Screen'
    <2>1. Without(queue, flushed) \in Seq(Prompt)
      BY <1>1, Filtered
    <2>. QED BY <1>2, <2>1, DequeueEffect
  <1>9. Keeps(AllEntries, AllEntries', K)
    <2>. DEFINE b == FALSE
                r == Without(queue, flushed)
    <2>1. r = IF b THEN <<active>> \o Without(queue, flushed) ELSE Without(queue, flushed)
      OBVIOUS
    <2>2. b \in BOOLEAN
      OBVIOUS
    <2>. HIDE DEF b, r
    <2>3. Keeps(AllEntries, r, {i \in 1..Len(AllEntries) :
                                  IF i = 1 THEN b ELSE AllEntries[i] \notin flushed})
      BY <1>1, <2>1, <2>2, Shifted
    <2>. QED BY <1>8, <2>3 DEF b, r
  <1>10. \A i \in 1..Len(AllEntries) : i \notin K <=> (i = 1 \/ AllEntries[i] \in flushed)
    OBVIOUS
  <1>. HIDE DEF K
  <1>11. ASSUME NEW a \in Agent
         PROVE  IF \E i \in 1..Len(AllEntries) : /\ i \notin K /\ AllEntries[i].who = a
                                                 /\ AllEntries[i].what # "orphan"
                  THEN answer'[a] # "none" ELSE answer'[a] = answer[a]
    <2>1. CASE a = active.who /\ active.what # "orphan"
      <3>1. answer'[a] # "none"
        BY <1>3, <1>4, <2>1
      <3>. QED BY <1>5, <1>7, <1>10, <2>1, <3>1
    <2>2. CASE ~(a = active.who /\ active.what # "orphan")
               /\ \E p \in flushed : p.who = a /\ p.what # "orphan"
      <3>1. answer'[a] # "none"
        BY <1>3, <2>2
      <3>. QED BY <1>6, <1>10, <2>2, <3>1
    <2>3. CASE ~(a = active.who /\ active.what # "orphan")
               /\ ~\E p \in flushed : p.who = a /\ p.what # "orphan"
      <3>1. answer'[a] = answer[a]
        BY <1>3, <2>3
      <3>2. ~\E i \in 1..Len(AllEntries) : /\ i \notin K /\ AllEntries[i].who = a
                                           /\ AllEntries[i].what # "orphan"
        BY <1>5, <1>10, <2>3
      <3>. QED BY <3>1, <3>2
    <2>. QED BY <2>1, <2>2, <2>3
  <1>. QED BY <1>8, <1>9, <1>11, AnsweredAttended

\* rejectBySubagentId, when a worker is cancelled.
LEMMA RejectAttended ==
  ASSUME TypeOK, TypeOK', Attended, UNCHANGED loop, NEW w \in Worker, RejectBySubagent(w)
  PROVE  Attended'
  <1>. DEFINE p == [who |-> w, what |-> "tool"]
              rest == Without(queue, {p})
              b == active # p
              K == {i \in 1..Len(AllEntries) : IF i = 1 THEN b ELSE AllEntries[i] \notin {p}}
  <1>0. w \in Agent /\ p \in Prompt /\ p # None /\ p.who = w /\ p.what # "orphan"
    BY AgentAssumption DEF Prompt, None
  <1>1. ScreenOK /\ Screen /\ queue \in Seq(Prompt) /\ Len(queue) \in Nat
    BY DEF TypeOK, ScreenOK, Attended
  <1>2. rest \in Seq(Prompt)
        /\ Keeps(queue, rest, {i \in 1..Len(queue) : queue[i] \notin {p}})
    BY <1>1, Filtered
  <1>3. /\ p \in Entries => answer' = [a \in Agent |-> IF a = w THEN "no" ELSE answer[a]]
        /\ p \notin Entries => UNCHANGED answer
    BY <1>0 DEF RejectBySubagent, Reply
  <1>4. IF active = p THEN Dequeue(rest) ELSE queue' = rest /\ UNCHANGED <<active, pending>>
    BY DEF RejectBySubagent
  <1>5. p \in Entries <=> \E i \in 1..Len(AllEntries) : AllEntries[i] = p
    BY <1>0, <1>1, EntriesSet
  <1>6. CASE active = None
    <2>1. queue = <<>> /\ AllEntries = <<>>
      BY <1>1, <1>6, EntriesInOrder
    <2>2. rest = <<>>
      <3>. HIDE DEF rest
      <3>1. Len(rest) \in Nat /\ Len(queue) = 0
        BY <1>2, <2>1
      <3>2. \A k \in 1..Len(rest) : FALSE
        BY <1>2, <3>1 DEF Keeps
      <3>3. Len(rest) = 0
        BY <3>1, <3>2
      <3>. QED BY <1>2, <3>3
    <2>3. p \notin Entries
      BY <1>5, <2>1
    <2>4. UNCHANGED <<active, queue, pending, answer>>
      BY <1>0, <1>3, <1>4, <1>6, <2>1, <2>2, <2>3
    <2>5. SameEars(Agent) /\ Jobs'
      BY DEF SameEars, Attended, Jobs
    <2>. QED BY <2>4, <2>5, QuietStep
  <1>7. CASE active # None
    <2>1. 1 \in 1..Len(AllEntries) /\ AllEntries[1] = active
      <3>1. Len(AllEntries) = Len(queue) + 1 /\ AllEntries[1] = active
        BY <1>1, <1>7, EntriesInOrder
      <3>. QED BY <1>1, <3>1
    <2>. HIDE DEF p, rest
    <2>2. /\ Screen'
          /\ AllEntries' = IF b THEN <<active>> \o rest ELSE rest
      <3>1. CASE active = p
        BY <1>2, <1>4, <3>1, DequeueEffect
      <3>2. CASE active # p
        BY <1>1, <1>4, <1>7, <3>2 DEF AllEntries, Screen
      <3>. QED BY <3>1, <3>2
    <2>3. Keeps(AllEntries, AllEntries', K)
      <3>. DEFINE r == AllEntries'
      <3>1. r = IF b THEN <<active>> \o Without(queue, {p}) ELSE Without(queue, {p})
        BY <2>2 DEF rest
      <3>2. b \in BOOLEAN
        OBVIOUS
      <3>. HIDE DEF b, r
      <3>3. Keeps(AllEntries, r, {i \in 1..Len(AllEntries) :
                                    IF i = 1 THEN b ELSE AllEntries[i] \notin {p}})
        BY <1>1, <1>7, <3>1, <3>2, Shifted
      <3>. QED BY <3>3 DEF r
    <2>4. \A i \in 1..Len(AllEntries) : i \notin K <=> AllEntries[i] = p
      BY <2>1
    <2>. HIDE DEF K, b
    <2>5. ASSUME NEW a \in Agent
          PROVE  IF \E i \in 1..Len(AllEntries) : /\ i \notin K /\ AllEntries[i].who = a
                                                  /\ AllEntries[i].what # "orphan"
                   THEN answer'[a] # "none" ELSE answer'[a] = answer[a]
      <3>1. CASE p \in Entries
        <4>1. answer'[a] = IF a = w THEN "no" ELSE answer[a]
          BY <1>3, <3>1
        <4>. QED BY <1>0, <1>5, <2>4, <3>1, <4>1 DEF p
      <3>2. CASE p \notin Entries
        <4>1. answer'[a] = answer[a]
          BY <1>3, <3>2
        <4>. QED BY <1>5, <2>4, <3>2, <4>1
      <3>. QED BY <3>1, <3>2
    <2>. QED BY <2>2, <2>3, <2>5, AnsweredAttended
  <1>. QED BY <1>6, <1>7

\* clear, when the turn is cancelled.
LEMMA ClearAttended ==
  ASSUME TypeOK, TypeOK', Attended, UNCHANGED loop, Clear
  PROVE  Attended'
  <1>1. ScreenOK /\ Screen
    BY DEF TypeOK, ScreenOK, Attended
  <1>2. AllEntries' = <<>> /\ Screen'
    BY DEF Clear, Show, AllEntries, Screen
  <1>3. Keeps(AllEntries, AllEntries', {})
    <2>1. Len(<<>>) = 0 /\ 1..0 = {} /\ [i \in {} |-> i] \in [{} -> {}]
      OBVIOUS
    <2>. QED BY <1>2, <2>1 DEF Keeps
  <1>4. answer' = [a \in Agent |-> IF \E p \in Entries : p.who = a /\ p.what # "orphan"
                                   THEN "no" ELSE answer[a]]
    BY DEF Clear, Reply
  <1>5. Entries \subseteq Prompt
    BY <1>1 DEF Entries, ToSet, ScreenOK
  <1>6. ASSUME NEW a \in Agent
        PROVE  IF \E i \in 1..Len(AllEntries) : /\ i \notin {} /\ AllEntries[i].who = a
                                                /\ AllEntries[i].what # "orphan"
                 THEN answer'[a] # "none" ELSE answer'[a] = answer[a]
    <2>1. (\E p \in Entries : p.who = a /\ p.what # "orphan") <=>
          \E i \in 1..Len(AllEntries) : AllEntries[i].who = a /\ AllEntries[i].what # "orphan"
      BY <1>1, <1>5, EntriesSet, EntriesArePrompts
    <2>. QED BY <1>4, <2>1
  <1>. QED BY <1>2, <1>3, <1>6, AnsweredAttended

\* The user and the display.
LEMMA UserAttended ==
  ASSUME Homely, TypeOK', Attended,
         \/ TurnStarts \/ Renders \/ UserAnswers \/ TogglesPause \/ Cancels
         \/ \E w \in Worker : CancelsWorker(w)
  PROVE  Attended'
  <1>1. TypeOK
    BY DEF Homely
  <1>2. CASE TurnStarts
    <2>1. Main \in Agent /\ loop[Main] \in LoopState /\ JobOK(loop[Main]) /\ loop[Main].pc = "off"
      BY <1>1, <1>2, MainAssumption DEF TypeOK, Attended, Jobs, TurnStarts, At
    <2>2. Silent(loop[Main])
      BY <2>1, OthersAreSilent
    <2>3. Unasked /\ loop' = [loop EXCEPT ![Main] = [Idle EXCEPT !.pc = "call", !.mode = session]]
      BY <1>2 DEF TurnStarts, queueVars, Unasked
    <2>. QED BY <1>1, <2>1, <2>2, <2>3, IdleIsSilent, SilentMove
  <1>3. CASE Renders \/ TogglesPause
    <2>1. Unasked /\ UNCHANGED loop
      BY <1>3 DEF Renders, TogglesPause, queueVars, turnVars, Unasked
    <2>2. SameEars(Agent) /\ Jobs'
      BY <2>1 DEF SameEars, Attended, Jobs
    <2>. QED BY <1>1, <2>1, <2>2, QuietStep DEF Unasked
  <1>4. CASE UserAnswers
    BY <1>1, <1>4, ResolveAttended DEF UserAnswers, Answers
  <1>5. CASE Cancels
    BY <1>1, <1>5, ClearAttended DEF Cancels
  <1>6. CASE \E w \in Worker : CancelsWorker(w)
    BY <1>1, <1>6, RejectAttended DEF CancelsWorker
  <1>. QED BY <1>2, <1>3, <1>4, <1>5, <1>6

\* Every step keeps listeners and entries together.
LEMMA AttendedKept ==
  ASSUME Homely, TypeOK', Attended, [Next]_vars
  PROVE  Attended'
  <1>1. CASE UNCHANGED vars
    <2>1. Unasked /\ UNCHANGED loop
      BY <1>1 DEF vars, queueVars, turnVars, Unasked
    <2>2. SameEars(Agent) /\ Jobs'
      BY <2>1 DEF SameEars, Attended, Jobs
    <2>. QED BY <2>1, <2>2, QuietStep DEF Unasked, Homely
  <1>2. ASSUME NEW a \in Agent, LoopStep(a) PROVE Attended'
    BY <1>2, TalkAttended, BatchAttended, AskingAttended, AnswersTaken, StoppingAttended
       DEF LoopStep
  <1>. QED BY <1>1, <1>2, CallAttended, UserAttended DEF Next

-----------------------------------------------------------------------------
(* The theorems about prompts and answers.                                  *)

\* A blanket approval is in force only where the floor lets one be given.
Floor == autoAccept => floor = "none"

\* Only an "always" the floor lets pass widens the approval.
LEMMA FloorKept ==
  ASSUME TypeOK, Floor, [Next]_vars
  PROVE  Floor'
  <1>1. CASE UNCHANGED <<floor, autoAccept>>
    BY <1>1 DEF Floor
  <1>2. ASSUME NEW a \in Agent, LoopStep(a) PROVE UNCHANGED <<floor, autoAccept>>
    <2>1. ASSUME NEW b \in Agent, Over(b) PROVE UNCHANGED <<floor, autoAccept>>
      BY <2>1 DEF Over, TurnOver, Discards, Returns, queueVars
    <2>2. CASE CallsProvider(a) \/ StreamBreaks(a) \/ Says(a) \/ Concludes(a) \/ TakesMessage(a)
               \/ Gates(a) \/ Asks(a) \/ Hears(a) \/ PairsAndStops(a)
      BY <2>1, <2>2 DEF CallsProvider, StreamBreaks, Says, Concludes, TakesMessage, Gates,
        Asks, Hears, PairsAndStops, Closes, Drops, Enqueue, Returns, queueVars
    <2>3. CASE StartsWork(a) \/ RunsEdit(a) \/ RunsCheck(a) \/ EndsWork(a) \/ Finishes(a)
               \/ JobAuthorizes(a) \/ JobAsks(a) \/ JobHears(a)
      BY <2>1, <2>3 DEF StartsWork, RunsEdit, RunsCheck, EndsWork, Finishes, JobAuthorizes,
        JobAsks, JobHears, Closes, Enqueue, queueVars
    <2>. QED BY <1>2, <2>2, <2>3 DEF LoopStep
  <1>3. ASSUME NEW w \in Worker, WorkerStep(w) \/ CancelsWorker(w)
        PROVE  UNCHANGED <<floor, autoAccept>>
    BY <1>3 DEF WorkerStep, AsksModel, HearsModel, SetsUp, Delivers, CancelsWorker, Returns,
      EnqueueUnless, Enqueue, RejectBySubagent, queueVars
  <1>4. CASE UserAnswers
    <2>1. PICK c \in {"yes", "always", "no"} : Answers(c)
      BY <1>4 DEF UserAnswers
    <2>2. Effective(c) = "always" => floor # "ask"
      BY DEF Effective
    <2>3. autoAccept' = (autoAccept \/ Effective(c) = "always") /\ UNCHANGED floor
      BY <2>1 DEF Answers, Resolve
    <2>. QED BY <2>2, <2>3 DEF Floor, TypeOK
  <1>5. CASE Cancels
    BY <1>5 DEF Cancels, Clear, Floor
  <1>6. CASE TurnStarts \/ Renders \/ TogglesPause \/ UNCHANGED vars
    BY <1>1, <1>6 DEF TurnStarts, Renders, TogglesPause, vars, queueVars
  <1>. QED BY <1>1, <1>2, <1>3, <1>4, <1>5, <1>6 DEF Next

\* At the start nobody waits and nothing is queued.
LEMMA InitAttended == Init => Attended /\ Floor
  <1>. SUFFICES ASSUME Init PROVE Attended /\ Floor
    OBVIOUS
  <1>1. AllEntries = <<>> /\ Len(AllEntries) = 0
    BY DEF Init, AllEntries
  <1>2. \A a \in Agent : answer[a] = "none" /\ Ear(loop[a]) = "none" /\ JobOK(loop[a])
    BY IdleIsSilent, SilentHearsNothing DEF Init
  <1>3. Listed
    BY <1>1, <1>2 DEF Listed
  <1>4. Screen /\ Floor
    BY DEF Init, Screen, Floor
  <1>. QED BY <1>2, <1>3, <1>4 DEF Attended, Heard, Jobs

\* Every entry of the queue stands for the one who listens to it, and every
\* listener has an entry or its answer; a blanket approval respects the floor.
THEOREM ListenersAreListed == Spec => [](Attended /\ Floor)
  <1>1. Init => Attended /\ Floor
    BY InitAttended
  <1>2. Homely /\ TypeOK' /\ Attended /\ Floor /\ [Next]_vars => Attended' /\ Floor'
    BY AttendedKept, FloorKept DEF Homely
  <1>. QED BY <1>1, <1>2, AgentsStayInPlace, StateIsTyped, PTL DEF Spec

\* Whoever waits for the user has exactly one entry in the queue, and only they;
\* the active entry is the one given to the display (confirmation-queue.ts).
THEOREM WaitersAreServed == Spec => []WaitersServed
  <1>1. TypeOK /\ Attended => WaitersServed
    <2>. SUFFICES ASSUME TypeOK, Attended PROVE WaitersServed
      OBVIOUS
    <2>. DEFINE Of(a) == {i \in 1..Len(AllEntries) :
                            AllEntries[i].who = a /\ AllEntries[i].what # "orphan"}
    <2>1. ASSUME NEW a \in Agent PROVE Cardinality(Of(a)) = IF Waits(a) THEN 1 ELSE 0
      <3>1. Waits(a) <=> answer[a] = "none" /\ Ear(loop[a]) # "none"
        BY DEF Waits, At, Ear
      <3>2. CASE Waits(a)
        <4>1. PICK i \in 1..Len(AllEntries) : AllEntries[i] = [who |-> a, what |-> Ear(loop[a])]
          BY <3>1, <3>2 DEF Attended, Listed
        <4>2. AllEntries[i].who = a /\ AllEntries[i].what # "orphan"
          BY <4>1 DEF Ear
        <4>3. Of(a) = {i}
          BY <4>2 DEF Attended, Listed
        <4>. QED BY <3>2, <4>3, FS_Singleton
      <3>3. CASE ~Waits(a)
        <4>1. ASSUME NEW i \in Of(a) PROVE FALSE
          <5>1. answer[a] = "none" /\ AllEntries[i].what = Ear(loop[a])
            BY DEF Attended, Listed
          <5>2. AllEntries[i].what # "none"
            BY EntriesArePrompts DEF TypeOK, ScreenOK, Attended, Prompt
          <5>. QED BY <3>1, <3>3, <5>1, <5>2
        <4>2. Of(a) = {}
          BY <4>1
        <4>. QED BY <3>3, <4>2, FS_EmptySet
      <3>. QED BY <3>2, <3>3
    <2>2. Screen
      BY DEF Attended
    <2>. QED BY <2>1, <2>2 DEF WaitersServed, Screen
  <1>. QED BY <1>1, ListenersAreListed, StateIsTyped, PTL

\* The step's own part of OnlyMeant.
Meant(a) ==
  \/ shown = active /\ shown.who = a
  \/ loop'[a].pc = "wait" /\ answer'[a] = "always" /\ floor = "none" /\ autoAccept'

\* enqueue answers at once only a tool call, under a blanket approval.
LEMMA EnqueueMeant ==
  ASSUME TypeOK, NEW p \in Prompt, NEW b \in BOOLEAN, EnqueueUnless(b, p), NEW a \in Agent,
         answer[a] = "none", answer'[a] \in {"yes", "always"}
  PROVE  a = p.who /\ p.what = "tool" /\ autoAccept /\ autoAccept' /\ answer'[a] = "always"
  <1>1. CASE b
    BY <1>1 DEF EnqueueUnless, Reply
  <1>2. CASE ~b /\ autoAccept /\ Blanket(p)
    BY <1>2 DEF EnqueueUnless, Enqueue, Reply, Blanket
  <1>3. CASE ~b /\ ~(autoAccept /\ Blanket(p))
    BY <1>3 DEF EnqueueUnless, Enqueue
  <1>. QED BY <1>1, <1>2, <1>3

\* resolve answers the prompt on the screen, and flushes tool calls only.
LEMMA ResolveMeant ==
  ASSUME TypeOK, Attended, NEW c, Resolve(c, shown), UNCHANGED loop, NEW a \in Agent,
         answer[a] = "none", answer'[a] \in {"yes", "always"}
  PROVE  Meant(a)
  <1>. DEFINE all == Effective(c) = "always"
              flushed == {p \in ToSet(queue) : all /\ Blanket(p)}
  <1>1. shown = active /\ active # None /\ autoAccept' = (autoAccept \/ all)
    BY DEF Resolve
  <1>2. answer' = [d \in Agent |->
                     IF d = active.who /\ active.what # "orphan" THEN Effective(c)
                     ELSE IF \E p \in flushed : p.who = d /\ p.what # "orphan" THEN "always"
                     ELSE answer[d]]
    BY DEF Resolve
  <1>3. CASE a = active.who
    BY <1>1, <1>3 DEF Meant
  <1>4. CASE a # active.who
    <2>1. PICK p \in flushed : p.who = a /\ p.what # "orphan"
      BY <1>2, <1>4
    <2>2. answer'[a] = "always" /\ all /\ p.what = "tool" /\ p \in ToSet(queue)
      BY <1>2, <1>4, <2>1 DEF Blanket
    <2>3. floor = "none"
      BY <2>2 DEF Effective, TypeOK
    <2>4. PICK j \in 1..Len(queue) : queue[j] = p
      BY <2>2 DEF ToSet
    <2>5. \E i \in 1..Len(AllEntries) : AllEntries[i] = p
      <3>1. ScreenOK /\ Screen /\ queue \in Seq(Prompt)
        BY DEF TypeOK, ScreenOK, Attended
      <3>2. Len(AllEntries) = Len(queue) + 1 /\ AllEntries[j + 1] = p
        BY <1>1, <2>4, <3>1, EntriesInOrder
      <3>3. j + 1 \in 1..Len(AllEntries)
        BY <3>1, <3>2
      <3>. QED BY <3>2, <3>3
    <2>6. Ear(loop[a]) = "tool"
      BY <2>1, <2>2, <2>5 DEF Attended, Listed
    <2>7. loop'[a].pc = "wait"
      BY <2>6 DEF Ear
    <2>. QED BY <1>1, <2>2, <2>3, <2>7 DEF Meant
  <1>. QED BY <1>3, <1>4

\* A loop's step approves nothing but its own call, under a blanket approval.
LEMMA LoopMeant ==
  ASSUME TypeOK, Attended, Floor, NEW b \in Agent, LoopStep(b), NEW a \in Agent,
         answer[a] = "none", answer'[a] \in {"yes", "always"}
  PROVE  Meant(a)
  <1>1. CASE UNCHANGED queueVars \/ UNCHANGED answer \/ answer' = [answer EXCEPT ![b] = "none"]
    BY <1>1 DEF queueVars, TypeOK
  <1>2. CASE Asks(b)
    <2>1. CASE Drops(b)
      BY <1>1, <2>1 DEF Drops, Over, TurnOver, Discards
    <2>2. CASE Enqueue([who |-> b, what |-> "tool"]) /\ Goto(b, "wait")
      <3>. DEFINE p == [who |-> b, what |-> "tool"]
      <3>1. p \in Prompt /\ EnqueueUnless(FALSE, p) /\ p.who = b
        BY <2>2 DEF Prompt, EnqueueUnless
      <3>. HIDE DEF p
      <3>2. a = b /\ autoAccept /\ autoAccept' /\ answer'[a] = "always"
        BY <3>1, EnqueueMeant
      <3>3. loop'[a].pc = "wait"
        BY <2>2, <3>2 DEF Goto, TypeOK, LoopState
      <3>. QED BY <3>2, <3>3 DEF Floor, Meant
    <2>. QED BY <1>2, <2>1, <2>2 DEF Asks
  <1>3. CASE JobAsks(b)
    <2>1. ASSUME NEW k \in {"job", "orphan"}, Enqueue([who |-> b, what |-> k]) PROVE FALSE
      <3>. DEFINE p == [who |-> b, what |-> k]
      <3>1. p \in Prompt /\ EnqueueUnless(FALSE, p) /\ p.what # "tool"
        BY <2>1 DEF Prompt, EnqueueUnless
      <3>. HIDE DEF p
      <3>. QED BY <3>1, EnqueueMeant
    <2>. QED BY <1>1, <1>3, <2>1 DEF JobAsks
  <1>4. CASE ~Asks(b) /\ ~JobAsks(b)
    BY <1>1, <1>4 DEF LoopStep, CallsProvider, StreamBreaks, Says, Concludes, TakesMessage,
      Gates, Hears, PairsAndStops, StartsWork, RunsEdit, RunsCheck, EndsWork, Finishes,
      JobAuthorizes, JobHears, Closes, Drops, Over, TurnOver, Discards, queueVars
  <1>. QED BY <1>2, <1>3, <1>4

\* No other step approves anything.
LEMMA StepsAreMeant ==
  ASSUME TypeOK, Attended, Floor, [Next]_vars, NEW a \in Agent,
         answer[a] = "none", answer'[a] \in {"yes", "always"}
  PROVE  Meant(a)
  <1>1. CASE \E b \in Agent : LoopStep(b)
    BY <1>1, LoopMeant
  <1>2. ASSUME NEW w \in Worker, WorkerStep(w) \/ CancelsWorker(w) PROVE FALSE
    <2>1. CASE AsksModel(w)
      <3>. DEFINE p == [who |-> w, what |-> "model"]
      <3>1. /\ p \in Prompt /\ p.what # "tool"
            /\ EnqueueUnless(Main \in aborted, p) /\ (Main \in aborted) \in BOOLEAN
        BY <2>1, AgentAssumption DEF Prompt, AsksModel
      <3>. HIDE DEF p
      <3>. QED BY <3>1, EnqueueMeant
    <2>2. CASE CancelsWorker(w)
      BY <2>2 DEF CancelsWorker, RejectBySubagent, Reply
    <2>3. CASE HearsModel(w)
      BY <2>3 DEF HearsModel, TypeOK
    <2>4. CASE SetsUp(w) \/ Delivers(w)
      BY <2>4 DEF SetsUp, Delivers, queueVars
    <2>. QED BY <1>2, <2>1, <2>2, <2>3, <2>4 DEF WorkerStep
  <1>3. CASE UserAnswers
    BY <1>3, ResolveMeant DEF UserAnswers, Answers
  <1>4. CASE Cancels
    BY <1>4 DEF Cancels, Clear, Reply
  <1>5. CASE TurnStarts \/ Renders \/ TogglesPause \/ UNCHANGED vars
    BY <1>5 DEF TurnStarts, Renders, TogglesPause, vars, queueVars
  <1>. QED BY <1>1, <1>2, <1>3, <1>4, <1>5 DEF Next

\* Nobody goes ahead on an answer that was not meant for it: it is the answer to
\* its own prompt while that was on the screen, or an "always" the floor allows.
THEOREM AnswersAreMeant == Spec => OnlyMeant
  <1>1. TypeOK /\ Attended /\ Floor /\ [Next]_vars =>
          [\A a \in Agent : answer[a] = "none" /\ answer'[a] \in {"yes", "always"} =>
             \/ shown = active /\ shown.who = a
             \/ /\ loop'[a].pc = "wait" /\ answer'[a] = "always" /\ floor = "none"
                /\ autoAccept']_vars
    BY StepsAreMeant DEF Meant
  <1>. QED BY <1>1, ListenersAreListed, StateIsTyped, PTL DEF Spec, OnlyMeant
=============================================================================
