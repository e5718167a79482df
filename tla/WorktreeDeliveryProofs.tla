----------------------- MODULE WorktreeDeliveryProofs -----------------------
(* What is committed stays and what is reported is so, for any workers,     *)
(* created inside each other's worktrees or not, and any number of commits  *)
(* and rewinds.  Both follow from one invariant about the shape of the      *)
(* history; it is given up together with the properties when a merge or a   *)
(* rollback hits a branch that has moved (`raced').  That work left for the *)
(* user stays rests on how the worktrees lie in each other.                 *)
EXTENDS WorktreeDelivery, TLAPS

Fresh == {"away", "making", "working", "elsewhere", "base", "stage", "contained"}
Early == Fresh \cup {"idle", "clean", "head", "preview", "merge"}
Late  == {"merged", "broken", "restored", "check", "reset"}

Exists(c) == c \in past[c]
Unmade(c) == \A d \in Commit : c \notin past[d]

\* What a commit contains, it contains with all of that one's past.
Closed == \A c \in Commit : \A d \in past[c] : Exists(d) /\ past[d] \subseteq past[c]

\* A commit contains its first parent; a worker's adds only itself to it.
Parented ==
  \A c \in Commit \ {Root} : Exists(c) =>
    /\ Exists(first[c]) /\ past[first[c]] \subseteq past[c]
    /\ c \in Worker => past[c] \subseteq past[first[c]] \cup {c}

Sound ==
  /\ Exists(Root) /\ Exists(head) /\ Closed /\ Parented
  /\ merging \in Worker => Unmade(merging)
  /\ \A n \in 1..MaxCommits : n > made => Unmade(n)

\* The user's commits are there, or were taken back.
UserWhole == (1..made) \cup concluded \subseteq past[head] \cup undone

\* A worker's commit comes with its merge, is not in what was read before, and
\* is on the branch as reported.
Honest(w) ==
  /\ Exists(worker[w].base) /\ Exists(worker[w].seen)
  /\ worker[w].pc \in Early => Unmade(w)
  /\ worker[w].pc \in Late => w \notin past[worker[w].seen]
  /\ worker[w].pc = "reset" => first[w] = worker[w].seen
  /\ worker[w].work /\ (worker[w].pc = "merged" \/ worker[w].told = "applied")
       => w \in past[head] \cup undone
  /\ worker[w].told \in {"cancelled", "unmerged"} => w \notin past[head]

\* What is entered was created, and what lies inside another worktree lies in
\* all that one lies in.
Begun(w) == worker[w].pc \notin {"away", "making"}
HasTree(w) == w \in trees \/ Stranded(w)

Placed(w) ==
  LET p == worker[w].parent
  IN IF p = User THEN worker[w].within = {}
     ELSE Begun(p) /\ worker[w].within = {p} \cup worker[p].within

Places == (cwd # User => Begun(cwd)) /\ \A w \in Worker : Placed(w)

\* Nothing is reported before the end, and what is left for the user stays; a
\* merge is unfinished only while its worker recovers, or could not.
Held(w) ==
  /\ worker[w].pc \in Fresh => ~worker[w].work
  /\ worker[w].pc \notin {"remove", "over"} => worker[w].told = "nothing"
  /\ worker[w].told \in {"unmerged", "inspect", "retained"} =>
       worker[w].pc = "over" /\ HasTree(w)
  /\ merging = w => worker[w].pc = "broken" \/ worker[w].told \in {"inspect", "retained"}
  /\ w \in concluded => worker[w].pc \in {"broken", "restored", "remove", "over"}

AllHeld == \A w \in Worker : Held(w)
AllHonest == \A w \in Worker : Honest(w)
History == raced \/ (Sound /\ UserWhole /\ AllHonest)

IInv == TypeOK /\ Places /\ AllHeld /\ History

-----------------------------------------------------------------------------
(* Where workers are, and where their worktrees lie.                        *)

\* What a step of a worker does to its own record, to the directory, and to
\* the worktrees.
Moves(w) ==
  /\ \A v \in Worker \ {w} : worker'[v] = worker[v]
  /\ worker'[w].parent = worker[w].parent /\ worker'[w].within = worker[w].within
  /\ Begun(w) => Begun(w)'
  /\ cwd' \in {cwd, worker[w].parent} \/ (cwd' = w /\ Begun(w)')
  /\ trees' = trees \/ Creates(w) \/ Removes(w)
  /\ worker'[w].pc \notin {"making", "over"} =>
       (Begun(w) /\ worker[w].pc # "over") \/ w \in trees' \/ worker'[w].pc = "away"

LEMMA WorkerMoves ==
  ASSUME TypeOK, NEW w \in Worker, DeliveryStep(w) \/ Cancels(w)
  PROVE  Begins(w) \/ Moves(w)
  <1>. USE DEF TypeOK, Moves, Begun
  <1>1. CASE Creates(w)
    BY <1>1 DEF Creates, At
  <1>2. CASE EndsWork(w)
    BY <1>2 DEF EndsWork, At, Keeps
  <1>3. CASE DeliversElsewhere(w)
    BY <1>3 DEF DeliversElsewhere, At, Keeps, Drops
  <1>4. CASE ChecksBase(w)
    BY <1>4 DEF ChecksBase, At, Goto, Keeps, Fails, Throws
  <1>5. CASE CommitsWork(w)
    BY <1>5 DEF CommitsWork, At, Goto, Keeps, Drops, Fails
  <1>6. CASE FindsContained(w)
    BY <1>6 DEF FindsContained, At, Keeps, Fails
  <1>7. CASE ChecksIdle(w)
    BY <1>7 DEF ChecksIdle, At, Goto, Keeps, Fails, Throws
  <1>8. CASE ChecksClean(w)
    BY <1>8 DEF ChecksClean, At, Goto, Keeps, Fails
  <1>9. CASE ReadsHead(w)
    BY <1>9 DEF ReadsHead, At, Keeps, Fails
  <1>10. CASE Previews(w)
    BY <1>10 DEF Previews, At, Goto, Keeps, Drops, Fails, Throws
  <1>11. CASE Merges(w)
    <2>1. At(w, "merge") /\ (Goto(w, "merged") \/ Goto(w, "broken")) /\ UNCHANGED trees
      BY <1>11 DEF Merges
    <2>. QED BY <2>1 DEF At, Goto
  <1>12. CASE AbortsMerge(w)
    BY <1>12 DEF AbortsMerge, At, Goto, Keeps, Throws
  <1>13. CASE ChecksRestored(w)
    BY <1>13 DEF ChecksRestored, At, Keeps, Drops, Fails
  <1>14. CASE LooksForCancel(w)
    BY <1>14 DEF LooksForCancel, At, Goto, Drops
  <1>15. CASE ChecksHead(w)
    BY <1>15 DEF ChecksHead, At, Goto, Keeps
  <1>16. CASE RollsBack(w)
    BY <1>16 DEF RollsBack, At, Keeps, Drops
  <1>17. CASE Removes(w)
    BY <1>17 DEF Removes, At, Goto
  <1>18. CASE Cancels(w)
    BY <1>18 DEF Cancels
  <1>. QED BY <1>1, <1>2, <1>3, <1>4, <1>5, <1>6, <1>7, <1>8, <1>9, <1>10, <1>11, <1>12,
     <1>13, <1>14, <1>15, <1>16, <1>17, <1>18 DEF DeliveryStep

LEMMA NotNone == "none" \notin Worker /\ User \notin Worker
  BY DeliveryAssumption

\* Another worker's move leaves a worker what it is.
LEMMA OthersStay ==
  ASSUME TypeOK, NEW w \in Worker, DeliveryStep(w) \/ Cancels(w), NEW v \in Worker \ {w}
  PROVE  worker'[v] = worker[v]
  BY WorkerMoves DEF Moves, Begins, TypeOK

\* The user moves no worker.
LEMMA UserStays ==
  ASSUME UNCHANGED vars \/ UserStep PROVE UNCHANGED <<trees, cwd, aborted, worker>>
  BY DEF vars, UserStep, UserCommits, UserConcludes, UserEdits, UserMerges, UserRewinds,
     OnlyUser

LEMMA PlacesStep == ASSUME TypeOK, Places, [Next]_vars PROVE Places'
  <1>1. CASE UNCHANGED vars \/ UserStep
    <2>1. UNCHANGED <<cwd, worker>>
      BY <1>1, UserStays
    <2>. QED BY <2>1 DEF Places, Placed, Begun
  <1>2. ASSUME NEW w \in Worker, DeliveryStep(w) \/ Cancels(w) PROVE Places'
    <2>1. \A v \in Worker \ {w} : worker'[v] = worker[v]
      BY <1>2, OthersStay
    <2>2. Begins(w) \/ Moves(w)
      BY <1>2, WorkerMoves
    <2>3. \A v \in Worker : Begun(v) =>
            /\ worker'[v].within = worker[v].within /\ Begun(v)'
      BY <2>1, <2>2 DEF Moves, Begins, Begun, At
    <2>4. \A v \in Worker : worker[v].parent \in {User} \cup Worker
      BY DEF TypeOK
    <2>5. ASSUME NEW v \in Worker, worker'[v].parent = worker[v].parent,
                 worker'[v].within = worker[v].within
          PROVE  Placed(v)'
      BY <2>3, <2>4, <2>5 DEF Places, Placed
    <2>6. Placed(w)'
      <3>1. CASE Begins(w)
        <4>1. /\ worker'[w].parent = cwd
              /\ worker'[w].within = IF cwd = User THEN {} ELSE {cwd} \cup worker[cwd].within
          BY <3>1 DEF Begins, TypeOK
        <4>. QED BY <4>1, <2>3 DEF TypeOK, Places, Placed
      <3>2. CASE Moves(w)
        BY <2>5, <3>2 DEF Moves
      <3>. QED BY <2>2, <3>1, <3>2
    <2>7. cwd' # User => Begun(cwd)'
      <3>1. CASE Begins(w)
        <4>1. cwd' = cwd /\ cwd \in {User} \cup Worker /\ (cwd # User => Begun(cwd))
          BY <3>1 DEF Begins, TypeOK, Places
        <4>. QED BY <4>1, <2>3 DEF Begun
      <3>2. CASE Moves(w)
        <4>1. worker[w].parent # User => Begun(worker[w].parent)
          BY DEF Places, Placed
        <4>2. cwd \in {User} \cup Worker /\ (cwd # User => Begun(cwd))
          BY DEF TypeOK, Places
        <4>. QED BY <3>2, <4>1, <4>2, <2>3, <2>4 DEF Moves, Begun
      <3>. QED BY <2>2, <3>1, <3>2
    <2>. QED BY <2>1, <2>5, <2>6, <2>7 DEF Places
  <1>. QED BY <1>1, <1>2 DEF Next

\* A worktree goes by its own worker's removal, or with the one it lies in.
LEMMA TreeStays ==
  ASSUME TypeOK, Places, [Next]_vars, NEW v \in Worker, Begun(v), HasTree(v)
  PROVE  HasTree(v)' \/ Removes(v)
  <1>. DEFINE p == worker[v].parent
  <1>1. CASE UNCHANGED vars \/ UserStep
    BY <1>1, UserStays DEF HasTree, Stranded
  <1>2. ASSUME NEW w \in Worker, DeliveryStep(w) \/ Cancels(w)
        PROVE  HasTree(v)' \/ Removes(v)
    <2>1. worker'[v].parent = p
      BY <1>2, OthersStay, WorkerMoves DEF Moves, Begins, Begun, At
    <2>2. p \in {User} \cup Worker /\ trees \subseteq Worker
      BY DEF TypeOK
    <2>3. p # User => Begun(p) /\ worker[v].within = {p} \cup worker[p].within
      BY DEF Places, Placed
    <2>4. CASE trees' = trees
      BY <2>1, <2>4 DEF HasTree, Stranded
    <2>5. CASE Creates(w)
      <3>1. ~Begun(w) /\ trees \subseteq trees' /\ trees' \subseteq trees \cup {w}
        BY <2>5 DEF Creates, At, Begun
      <3>. QED BY <2>1, <2>3, <3>1 DEF HasTree, Stranded
    <2>6. CASE Removes(w)
      <3>1. CASE w = v
        BY <2>6, <3>1
      <3>2. CASE w # v
        <4>1. \/ trees' = trees
              \/ trees' = trees \ {u \in Worker : u = w \/ w \in worker[u].within}
          BY <2>6 DEF Removes
        <4>2. CASE w \in worker[v].within
          <5>1. p # User
            <6>1. p = User => worker[v].within = {}
              BY DEF Places, Placed
            <6>. QED BY <6>1, <4>2
          <5>2. p = w \/ w \in worker[p].within
            BY <2>3, <4>2, <5>1
          <5>. QED BY <2>1, <2>2, <4>1, <5>1, <5>2 DEF HasTree, Stranded
        <4>3. CASE w \notin worker[v].within
          BY <2>1, <3>2, <4>1, <4>3 DEF HasTree, Stranded
        <4>. QED BY <4>2, <4>3
      <3>. QED BY <3>1, <3>2
    <2>7. Begins(w) => trees' = trees
      BY DEF Begins
    <2>. QED BY <1>2, <2>4, <2>5, <2>6, <2>7, WorkerMoves DEF Moves
  <1>. QED BY <1>1, <1>2 DEF Next

\* Whoever is to work or deliver has a worktree.
LEMMA TreesStep ==
  ASSUME TypeOK, Places, [Next]_vars, NEW v \in Worker,
         worker'[v].pc \notin {"away", "making", "over"}
  PROVE  HasTree(v)'
  <1>1. Removes(v) => worker'[v].pc = "over"
    BY DEF Removes, Goto, TypeOK
  <1>2. Begun(v) /\ worker[v].pc # "over" => HasTree(v)
    BY DEF TypeOK, Begun, HasTree
  <1>3. (Begun(v) /\ worker[v].pc # "over") \/ v \in trees'
    <2>1. CASE UNCHANGED vars \/ UserStep
      BY <2>1, UserStays DEF Begun
    <2>2. ASSUME NEW w \in Worker, DeliveryStep(w) \/ Cancels(w)
          PROVE  (Begun(v) /\ worker[v].pc # "over") \/ v \in trees'
      <3>1. CASE v # w
        BY <2>2, <3>1, OthersStay DEF Begun
      <3>2. CASE v = w
        <4>1. Begins(v) => worker'[v].pc = "making"
          BY DEF Begins, TypeOK
        <4>. QED BY <2>2, <3>2, <4>1, WorkerMoves DEF Moves
      <3>. QED BY <3>1, <3>2
    <2>. QED BY <2>1, <2>2 DEF Next
  <1>. QED BY <1>1, <1>2, <1>3, TreeStays DEF HasTree

-----------------------------------------------------------------------------
(* Types.                                                                   *)

LEMMA TypeStep == ASSUME TypeOK, Places, [Next]_vars PROVE TypeOK'
  <1>0. \A v \in Worker :
          worker'[v].pc \notin {"away", "making", "over"} => (v \in trees \/ Stranded(v))'
    BY TreesStep DEF HasTree
  <1>. USE <1>0, DeliveryAssumption DEF Commit, Root
  <1>1. CASE UNCHANGED vars
    BY <1>1 DEF TypeOK, vars, repoVars, auxVars
  <1>2. CASE UserCommits
    BY <1>2 DEF TypeOK, UserCommits, OnlyUser, auxVars
  <1>3. CASE UserConcludes
    <2>1. /\ head' \in Commit /\ first' \in [Commit -> Commit]
          /\ past' \in [Commit -> SUBSET Commit] /\ raced' \in BOOLEAN
      BY <1>3 DEF TypeOK, UserConcludes, NewMerge
    <2>2. concluded' \subseteq Worker
      BY <1>3 DEF TypeOK, UserConcludes
    <2>. QED BY <1>3, <2>1, <2>2 DEF TypeOK, UserConcludes, OnlyUser
  <1>4. CASE UserEdits
    BY <1>4 DEF TypeOK, UserEdits, auxVars, OnlyUser
  <1>5. CASE UserMerges
    BY <1>5 DEF TypeOK, UserMerges, User, auxVars, OnlyUser
  <1>6. CASE UserRewinds
    <2>1. head' \in Commit
      BY <1>6 DEF TypeOK, UserRewinds
    <2>2. undone' \subseteq Commit
      BY <1>6 DEF TypeOK, UserRewinds
    <2>3. rewinds' \in 0..MaxRewinds
      BY <1>6 DEF TypeOK, UserRewinds
    <2>. QED BY <1>6, <2>1, <2>2, <2>3 DEF TypeOK, UserRewinds, OnlyUser
  <1>7. ASSUME NEW w \in Worker, DeliveryStep(w) \/ Cancels(w) PROVE TypeOK'
    <2>1. CASE Begins(w)
      <3>. DEFINE places == IF cwd = User THEN {} ELSE {cwd} \cup worker[cwd].within
      <3>1. places \in SUBSET Worker /\ cwd \in {User} \cup Worker
        BY DEF TypeOK
      <3>. HIDE DEF places
      <3>2. worker' = [worker EXCEPT ![w].pc = "making", ![w].parent = cwd,
                                     ![w].within = places]
        BY <2>1 DEF Begins, places
      <3>3. UNCHANGED <<repoVars, trees, cwd, aborted, auxVars>>
        BY <2>1 DEF Begins
      <3>. DEFINE entered == [worker[w] EXCEPT !.pc = "making", !.parent = cwd,
                                               !.within = places]
                  Record ==
                    [pc : {"away", "making", "working", "elsewhere", "base", "stage",
                           "contained", "idle", "clean", "head", "preview", "merge",
                           "merged", "broken", "restored", "check", "reset", "remove",
                           "over"},
                     parent : {User} \cup Worker, within : SUBSET Worker,
                     work : BOOLEAN, base : Commit, seen : Commit,
                     told : {"nothing", "error", "applied", "cancelled", "unmerged",
                             "inspect", "retained"}]
      <3>4. worker \in [Worker -> Record] /\ worker[w] \in Record
        BY DEF TypeOK
      <3>5. entered \in Record
        BY <3>1, <3>4
      <3>6. worker' = [worker EXCEPT ![w] = entered]
        BY <3>2
      <3>7. worker' \in [Worker -> Record]
        <4>. HIDE DEF entered, Record
        <4>. QED BY <3>4, <3>5, <3>6
      <3>. QED BY <3>3, <3>7 DEF TypeOK, repoVars, auxVars
    <2>2. CASE Creates(w)
      BY <2>2 DEF TypeOK, Creates, At, repoVars, auxVars
    <2>3. CASE EndsWork(w)
      BY <2>3 DEF TypeOK, EndsWork, At, Keeps, repoVars, auxVars
    <2>4. CASE DeliversElsewhere(w)
      BY <2>4 DEF TypeOK, DeliversElsewhere, At, Keeps, Drops, repoVars, auxVars
    <2>5. CASE ChecksBase(w)
      BY <2>5 DEF TypeOK, ChecksBase, At, Goto, Keeps, Fails, Throws, repoVars, auxVars
    <2>6. CASE CommitsWork(w)
      BY <2>6 DEF TypeOK, CommitsWork, At, Goto, Keeps, Drops, Fails, repoVars, auxVars
    <2>7. CASE FindsContained(w)
      BY <2>7 DEF TypeOK, FindsContained, At, Keeps, Fails, repoVars, auxVars
    <2>8. CASE ChecksIdle(w)
      BY <2>8 DEF TypeOK, ChecksIdle, At, Goto, Keeps, Fails, Throws, repoVars, auxVars
    <2>9. CASE ChecksClean(w)
      BY <2>9 DEF TypeOK, ChecksClean, At, Goto, Keeps, Fails, repoVars, auxVars
    <2>10. CASE ReadsHead(w)
      BY <2>10 DEF TypeOK, ReadsHead, At, Keeps, Fails, repoVars, auxVars
    <2>11. CASE Previews(w)
      BY <2>11 DEF TypeOK, Previews, At, Goto, Keeps, Drops, Fails, Throws, repoVars,
         auxVars
    <2>12. CASE Merges(w)
      <3>1. /\ head' \in Commit /\ first' \in [Commit -> Commit]
            /\ past' \in [Commit -> SUBSET Commit] /\ raced' \in BOOLEAN
        <4>1. CASE NewMerge(w)
          BY <4>1 DEF TypeOK, NewMerge
        <4>2. CASE UNCHANGED <<head, first, past, raced>>
          BY <4>2 DEF TypeOK
        <4>. QED BY <2>12, <4>1, <4>2 DEF Merges
      <3>2. merging' \in {"none", User} \cup Worker
        BY <2>12 DEF TypeOK, Merges
      <3>3. Goto(w, "merged") \/ Goto(w, "broken")
        BY <2>12 DEF Merges
      <3>4. UNCHANGED <<made, local, trees, aborted, concluded, undone, rewinds>>
        BY <2>12 DEF Merges
      <3>. QED BY <3>1, <3>2, <3>3, <3>4 DEF TypeOK, Goto
    <2>13. CASE AbortsMerge(w)
      BY <2>13 DEF TypeOK, AbortsMerge, At, Goto, Keeps, Throws, auxVars
    <2>14. CASE ChecksRestored(w)
      BY <2>14 DEF TypeOK, ChecksRestored, At, Keeps, Drops, Fails, repoVars, auxVars
    <2>15. CASE LooksForCancel(w)
      BY <2>15 DEF TypeOK, LooksForCancel, At, Goto, Drops, repoVars, auxVars
    <2>16. CASE ChecksHead(w)
      BY <2>16 DEF TypeOK, ChecksHead, At, Goto, Keeps, repoVars, auxVars
    <2>17. CASE RollsBack(w)
      <3>1. /\ head' \in Commit /\ merging' \in {"none", User} \cup Worker
            /\ local' \in {"none", "edited", "staged"} /\ raced' \in BOOLEAN
        BY <2>17 DEF TypeOK, RollsBack
      <3>2. Drops(w, "cancelled") \/ Keeps(w, "inspect")
        BY <2>17 DEF RollsBack
      <3>3. UNCHANGED <<first, past, made, trees, aborted, concluded, undone, rewinds>>
        BY <2>17 DEF RollsBack
      <3>. QED BY <3>1, <3>2, <3>3 DEF TypeOK, Drops, Keeps
    <2>18. CASE Removes(w)
      BY <2>18 DEF TypeOK, Removes, At, Goto, repoVars, auxVars
    <2>19. CASE Cancels(w)
      BY <2>19 DEF TypeOK, Cancels, repoVars, auxVars
    <2>. QED BY <1>7, <2>1, <2>2, <2>3, <2>4, <2>5, <2>6, <2>7, <2>8, <2>9, <2>10, <2>11, <2>12,
       <2>13, <2>14, <2>15, <2>16, <2>17, <2>18, <2>19 DEF DeliveryStep
  <1>. QED BY <1>1, <1>2, <1>3, <1>4, <1>5, <1>6, <1>7 DEF Next, UserStep

-----------------------------------------------------------------------------
(* What is reported, and what is left for the user.                         *)

LEMMA HeldStep == ASSUME TypeOK, Places, AllHeld, [Next]_vars PROVE AllHeld'
  <1>0. \A v \in Worker :
          Begun(v) /\ worker[v].pc # "remove" /\ HasTree(v) => HasTree(v)'
    BY TreeStays DEF Removes, At
  <1>1. CASE UNCHANGED vars \/ UserStep
    <2>1. /\ UNCHANGED worker /\ merging' \in {merging, "none", User}
          /\ concluded' \in {concluded, concluded \cup {merging}}
      BY <1>1, UserStays DEF vars, repoVars, auxVars, UserStep, UserCommits, UserConcludes,
         UserEdits, UserMerges, UserRewinds
    <2>. QED BY <1>0, <2>1, NotNone DEF AllHeld, Held, Begun
  <1>2. ASSUME NEW w \in Worker, DeliveryStep(w) \/ Cancels(w) PROVE AllHeld'
    <2>1. merging' \in {merging, "none", w} /\ concluded' = concluded
      BY <1>2 DEF DeliveryStep, Begins, Creates, EndsWork, DeliversElsewhere, ChecksBase,
         CommitsWork, FindsContained, ChecksIdle, ChecksClean, ReadsHead, Previews, Merges,
         AbortsMerge, ChecksRestored, LooksForCancel, ChecksHead, RollsBack, Removes, Cancels,
         repoVars, auxVars
    <2>2. ASSUME NEW v \in Worker \ {w} PROVE Held(v)'
      <3>1. worker'[v] = worker[v] /\ Held(v) /\ (merging' = v => merging = v)
        BY <1>2, <2>1, OthersStay, NotNone DEF AllHeld
      <3>. QED BY <1>0, <2>1, <3>1 DEF Held, Begun
    <2>3. Held(w)'
      <3>1. Held(w) /\ (worker[w].pc \notin {"away", "making", "over"} => HasTree(w))
        BY DEF AllHeld, TypeOK, HasTree
      <3>2. Begun(w) /\ worker[w].pc # "remove" /\ HasTree(w) => HasTree(w)'
        BY <1>0
      <3>. USE <3>1, <3>2, <2>1, NotNone DEF Held, Begun, TypeOK, Fresh
      <3>3. CASE Begins(w)
        BY <3>3 DEF Begins, At, repoVars
      <3>4. CASE Creates(w)
        BY <3>4 DEF Creates, At, repoVars
      <3>5. CASE EndsWork(w)
        BY <3>5 DEF EndsWork, At, Keeps, repoVars
      <3>6. CASE DeliversElsewhere(w)
        BY <3>6 DEF DeliversElsewhere, At, Keeps, Drops, repoVars
      <3>7. CASE ChecksBase(w)
        BY <3>7 DEF ChecksBase, At, Goto, Keeps, Fails, Throws, repoVars
      <3>8. CASE CommitsWork(w)
        BY <3>8 DEF CommitsWork, At, Goto, Keeps, Drops, Fails, repoVars
      <3>9. CASE FindsContained(w)
        BY <3>9 DEF FindsContained, At, Keeps, Fails, repoVars
      <3>10. CASE ChecksIdle(w)
        BY <3>10 DEF ChecksIdle, At, Goto, Keeps, Fails, Throws, repoVars
      <3>11. CASE ChecksClean(w)
        BY <3>11 DEF ChecksClean, At, Goto, Keeps, Fails, repoVars
      <3>12. CASE ReadsHead(w)
        BY <3>12 DEF ReadsHead, At, Keeps, Fails, repoVars
      <3>13. CASE Previews(w)
        BY <3>13 DEF Previews, At, Goto, Keeps, Drops, Fails, Throws, repoVars
      <3>14. CASE Merges(w)
        <4>1. /\ At(w, "merge") /\ (Goto(w, "merged") \/ Goto(w, "broken"))
              /\ merging' = w => merging = w \/ Goto(w, "broken")
          BY <3>14 DEF Merges
        <4>. QED BY <4>1 DEF At, Goto
      <3>15. CASE AbortsMerge(w)
        <4>1. /\ At(w, "broken") /\ merging' \in {merging, "none"}
              /\ \/ Goto(w, "restored") /\ merging' = "none"
                 \/ Keeps(w, "inspect") \/ Keeps(w, "retained")
          BY <3>15 DEF AbortsMerge, Throws
        <4>. QED BY <4>1 DEF At, Goto, Keeps
      <3>16. CASE ChecksRestored(w)
        BY <3>16 DEF ChecksRestored, At, Keeps, Drops, Fails, repoVars
      <3>17. CASE LooksForCancel(w)
        BY <3>17 DEF LooksForCancel, At, Goto, Drops, repoVars
      <3>18. CASE ChecksHead(w)
        BY <3>18 DEF ChecksHead, At, Goto, Keeps, repoVars
      <3>19. CASE RollsBack(w)
        BY <3>19 DEF RollsBack, At, Keeps, Drops
      <3>20. CASE Removes(w)
        BY <3>20 DEF Removes, At, Goto, repoVars
      <3>21. CASE Cancels(w)
        BY <3>21 DEF Cancels, repoVars
      <3>. QED BY <1>2, <3>3, <3>4, <3>5, <3>6, <3>7, <3>8, <3>9, <3>10, <3>11, <3>12,
         <3>13, <3>14, <3>15, <3>16, <3>17, <3>18, <3>19, <3>20, <3>21 DEF DeliveryStep
    <2>. QED BY <2>2, <2>3 DEF AllHeld
  <1>. QED BY <1>1, <1>2 DEF Next

-----------------------------------------------------------------------------
(* The history: how it grows, and how the branch goes back.                 *)

\* A new commit contains itself and the commit the branch was on.
LEMMA Grows ==
  ASSUME TypeOK, Sound, NEW c \in Commit \ {Root}, Unmade(c), head' = c,
         first' = [first EXCEPT ![c] = head],
         past' = [past EXCEPT ![c] = past[head] \cup {c}],
         \A n \in 1..MaxCommits : n > made' => n > made /\ n # c, merging' = "none"
  PROVE  /\ Sound'
         /\ \A d \in Commit : d \in past[d] => d # c /\ past'[d] = past[d]
         /\ \A d \in Commit : d # c /\ Unmade(d) => Unmade(d)'
         /\ past'[head'] = past[head] \cup {c}
  <1>1. /\ head \in Commit /\ first \in [Commit -> Commit]
        /\ past \in [Commit -> SUBSET Commit] /\ made \in 0..MaxCommits /\ c \in Commit
    BY DEF TypeOK
  <1>2. past'[c] = past[head] \cup {c} /\ \A d \in Commit \ {c} : past'[d] = past[d]
    BY <1>1
  <1>3. \A d \in Commit : c \notin past[d]
    BY DEF Unmade
  <1>4. \A d \in Commit : d \in past[d] => d # c /\ past'[d] = past[d]
    BY <1>2, <1>3
  <1>5. head \in past[head] /\ head # c
    BY <1>1, <1>3 DEF Sound, Exists
  <1>6. \A d \in Commit : d # c /\ Unmade(d) => Unmade(d)'
    BY <1>1, <1>2 DEF Unmade
  <1>7. Closed'
    <2> SUFFICES ASSUME NEW d \in Commit, NEW e \in past'[d]
                 PROVE  e \in past'[e] /\ past'[e] \subseteq past'[d]
      BY DEF Closed, Exists
    <2>1. CASE e = c
      BY <1>2, <1>3, <2>1
    <2>2. CASE e # c
      <3>1. e \in past[IF d = c THEN head ELSE d]
        BY <1>2, <2>2
      <3>2. e \in Commit
        BY <1>1, <3>1
      <3>3. e \in past[e] /\ past[e] \subseteq past[IF d = c THEN head ELSE d]
        BY <1>1, <3>1 DEF Sound, Closed, Exists
      <3>. QED BY <1>2, <2>2, <3>2, <3>3
    <2>. QED BY <2>1, <2>2
  <1>8. Parented'
    <2> SUFFICES ASSUME NEW d \in Commit \ {Root}, d \in past'[d]
                 PROVE  /\ first'[d] \in past'[first'[d]]
                        /\ past'[first'[d]] \subseteq past'[d]
                        /\ d \in Worker => past'[d] \subseteq past'[first'[d]] \cup {d}
      BY DEF Parented, Exists
    <2>1. CASE d = c
      BY <1>1, <1>2, <1>5, <2>1
    <2>2. CASE d # c
      <3>1. d \in past[d] /\ first'[d] = first[d] /\ past'[d] = past[d]
        BY <1>1, <1>2, <2>2
      <3>2. /\ first[d] \in past[first[d]] /\ past[first[d]] \subseteq past[d]
            /\ d \in Worker => past[d] \subseteq past[first[d]] \cup {d}
        BY <3>1 DEF Sound, Parented, Exists
      <3>3. past'[first[d]] = past[first[d]]
        BY <1>1, <1>4, <3>2
      <3>. QED BY <3>1, <3>2, <3>3
    <2>. QED BY <2>1, <2>2
  <1>9. \A n \in 1..MaxCommits : n > made' => Unmade(n)'
    <2> SUFFICES ASSUME NEW n \in 1..MaxCommits, n > made' PROVE Unmade(n)'
      OBVIOUS
    <2>1. n \in Commit
      BY DeliveryAssumption DEF Commit
    <2>. QED BY <1>6, <2>1 DEF Sound
  <1>10. head' \in past'[head']
    BY <1>2
  <1>11. Exists(Root)' /\ ~(merging' \in Worker)
    BY <1>4, NotNone DEF Sound, Exists, Root, Commit
  <1>. QED BY <1>2, <1>4, <1>6, <1>7, <1>8, <1>9, <1>10, <1>11 DEF Sound, Exists

\* The branch goes back to a commit it contains.
LEMMA GoesBack ==
  ASSUME Sound, Exists(head'), UNCHANGED <<first, past, made>>, merging' = "none"
  PROVE  Sound'
  BY NotNone DEF Sound, Exists, Closed, Parented, Unmade

\* A worker that does nothing stays honest when the branch grows ...
LEMMA HonestWhenGrown ==
  ASSUME TypeOK, NEW w \in Worker, NEW c \in Commit \ {w}, Honest(w), worker'[w] = worker[w],
         \A d \in Commit : d \in past[d] => past'[d] = past[d],
         \A d \in Commit : d # c /\ Unmade(d) => Unmade(d)',
         past'[head'] = past[head] \cup {c}, first'[w] = first[w], undone' = undone
  PROVE  Honest(w)'
  <1>1. worker[w].base \in Commit /\ worker[w].seen \in Commit /\ w \in Commit
    BY DEF TypeOK, Commit
  <1>. QED BY <1>1 DEF Honest, Exists

\* ... and when it goes back over commits the user took back, or another's.
LEMMA HonestWhenBack ==
  ASSUME TypeOK, NEW w \in Worker, Honest(w), worker'[w] = worker[w],
         UNCHANGED <<first, past>>, past[head'] \subseteq past[head],
         w \in past[head] => w \in past[head'] \cup undone', undone \subseteq undone'
  PROVE  Honest(w)'
  BY DEF Honest, Exists, Unmade

-----------------------------------------------------------------------------
(* Who only looks, changes no history.                                      *)

LEMMA LookIsHonest ==
  ASSUME TypeOK, AllHonest, Sound, UserWhole, NEW w \in Worker,
         UNCHANGED <<head, first, past, made, undone, concluded>>,
         merging' \in {merging, "none"} \/ (merging' = w /\ Unmade(w)),
         \A v \in Worker \ {w} : worker'[v] = worker[v], Honest(w)'
  PROVE  Sound' /\ UserWhole' /\ AllHonest'
  <1>1. Sound' /\ UserWhole'
    BY NotNone DEF Sound, Exists, Closed, Parented, Unmade, UserWhole
  <1>2. \A v \in Worker \ {w} : Honest(v)'
    BY DEF AllHonest, Honest, Exists, Unmade
  <1>. QED BY <1>1, <1>2 DEF AllHonest

\* Before its merge a worker can move and fail as it likes.
EarlyMove(w) ==
  /\ worker[w].pc \in Early /\ worker'[w].pc \in Early \cup {"remove", "over"}
  /\ worker'[w].base \in {worker[w].base, head, Root}
  /\ worker'[w].seen \in {worker[w].seen, head}
  /\ worker'[w].told = "applied" => ~worker'[w].work

LEMMA EarlyIsHonest ==
  ASSUME TypeOK, NEW w \in Worker, Honest(w), Exists(head), Exists(Root), EarlyMove(w),
         UNCHANGED <<head, first, past, undone>>
  PROVE  Honest(w)'
  <1>1. Unmade(w) /\ head \in Commit /\ worker[w].seen \in Commit
    BY DEF Honest, EarlyMove, TypeOK
  <1>2. worker'[w].pc \notin Late /\ worker'[w].pc \notin {"merged", "reset"}
    BY DEF EarlyMove, Early, Fresh, Late
  <1>3. Exists(worker'[w].base) /\ Exists(worker'[w].seen)
    BY DEF EarlyMove, Honest
  <1>. QED BY <1>1, <1>2, <1>3 DEF Honest, Exists, Unmade, EarlyMove

\* The steps of a delivery that leave the branch alone.
Looks(w) ==
  \/ Begins(w) \/ Creates(w) \/ EndsWork(w) \/ DeliversElsewhere(w) \/ ChecksBase(w)
  \/ CommitsWork(w) \/ FindsContained(w)
  \/ ChecksIdle(w) \/ ChecksClean(w) \/ ReadsHead(w) \/ Previews(w)
  \/ AbortsMerge(w) \/ ChecksRestored(w) \/ LooksForCancel(w) \/ ChecksHead(w)
  \/ Removes(w) \/ Cancels(w)

LEMMA LooksKeepHistory ==
  ASSUME TypeOK, AllHeld, History, NEW w \in Worker, Looks(w) PROVE History'
  <1>1. /\ UNCHANGED <<head, first, past, made, undone, concluded, raced>>
        /\ merging' \in {merging, "none"}
    BY DEF Looks, Begins, Creates, EndsWork, DeliversElsewhere, ChecksBase, CommitsWork,
           FindsContained, ChecksIdle, ChecksClean, ReadsHead, Previews, AbortsMerge,
           ChecksRestored, LooksForCancel, ChecksHead, Removes, Cancels, repoVars, auxVars
  <1> SUFFICES ASSUME ~raced PROVE Sound' /\ UserWhole' /\ AllHonest'
    BY <1>1 DEF History
  <1>2. Sound /\ UserWhole /\ AllHonest
    BY DEF History
  <1>3. Honest(w) /\ Held(w) /\ Exists(head) /\ Exists(Root)
    BY <1>2 DEF AllHonest, AllHeld, Sound
  <1>4. w \in Commit /\ head \in Commit /\ worker[w].seen \in Commit
    BY DEF TypeOK, Commit
  <1>5. \A v \in Worker \ {w} : worker'[v] = worker[v]
    BY OthersStay DEF Looks, DeliveryStep
  <1>6. Honest(w)'
    <2>. USE DEF TypeOK
    <2>1. CASE Begins(w)
      <3>1. EarlyMove(w)
        BY <2>1, <1>3 DEF Begins, At, EarlyMove, Early, Fresh, Held
      <3>. QED BY <1>1, <1>3, <3>1, EarlyIsHonest
    <2>2. CASE Creates(w)
      <3>1. EarlyMove(w)
        BY <2>2, <1>3 DEF Creates, At, EarlyMove, Early, Fresh, Held
      <3>. QED BY <1>1, <1>3, <3>1, EarlyIsHonest
    <2>3. CASE EndsWork(w)
      <3>1. EarlyMove(w)
        BY <2>3, <1>3 DEF EndsWork, At, Keeps, EarlyMove, Early, Fresh, Held
      <3>. QED BY <1>1, <1>3, <3>1, EarlyIsHonest
    <2>4. CASE DeliversElsewhere(w)
      <3>1. EarlyMove(w)
        BY <2>4, <1>3 DEF DeliversElsewhere, At, Keeps, Drops, EarlyMove, Early, Fresh, Held
      <3>. QED BY <1>1, <1>3, <3>1, EarlyIsHonest
    <2>5. CASE ChecksBase(w)
      <3>1. EarlyMove(w)
        BY <2>5, <1>3 DEF ChecksBase, At, Goto, Keeps, Fails, Throws, EarlyMove, Early,
           Fresh, Held
      <3>. QED BY <1>1, <1>3, <3>1, EarlyIsHonest
    <2>6. CASE CommitsWork(w)
      <3>1. EarlyMove(w)
        BY <2>6, <1>3 DEF CommitsWork, At, Goto, Keeps, Drops, Fails, EarlyMove, Early,
           Fresh, Held
      <3>. QED BY <1>1, <1>3, <3>1, EarlyIsHonest
    <2>7. CASE FindsContained(w)
      <3>1. worker[w].pc = "contained" /\ ~Contained(w, TRUE)
        BY <1>3, <1>4, <2>7 DEF FindsContained, At, Honest, Early, Fresh, Unmade, Contained
      <3>2. CASE Fails(w)
        <4>1. EarlyMove(w)
          BY <3>1, <3>2, <1>3 DEF Fails, Keeps, EarlyMove, Early, Fresh, Held
        <4>. QED BY <1>1, <1>3, <4>1, EarlyIsHonest
      <3>3. ASSUME NEW work \in BOOLEAN,
                   worker' = IF Contained(w, work)
                     THEN [worker EXCEPT ![w].pc = "remove", ![w].told = "applied",
                                         ![w].work = work]
                     ELSE [worker EXCEPT ![w].pc = "idle", ![w].work = work]
            PROVE  Honest(w)'
        <4>1. Contained(w, work) => ~work
          BY <3>1
        <4>2. EarlyMove(w)
          BY <3>1, <3>3, <4>1, <1>3 DEF EarlyMove, Early, Fresh, Held
        <4>. QED BY <1>1, <1>3, <4>2, EarlyIsHonest
      <3>. QED BY <2>7, <3>2, <3>3 DEF FindsContained
    <2>8. CASE ChecksIdle(w)
      <3>1. EarlyMove(w)
        BY <2>8, <1>3 DEF ChecksIdle, At, Goto, Keeps, Fails, Throws, EarlyMove, Early,
           Fresh, Held
      <3>. QED BY <1>1, <1>3, <3>1, EarlyIsHonest
    <2>9. CASE ChecksClean(w)
      <3>1. EarlyMove(w)
        BY <2>9, <1>3 DEF ChecksClean, At, Goto, Keeps, Fails, EarlyMove, Early, Fresh, Held
      <3>. QED BY <1>1, <1>3, <3>1, EarlyIsHonest
    <2>10. CASE ReadsHead(w)
      <3>1. EarlyMove(w)
        BY <2>10, <1>3 DEF ReadsHead, At, Keeps, Fails, EarlyMove, Early, Fresh, Held
      <3>. QED BY <1>1, <1>3, <3>1, EarlyIsHonest
    <2>11. CASE Previews(w)
      <3>1. EarlyMove(w)
        BY <2>11, <1>3 DEF Previews, At, Goto, Keeps, Drops, Fails, Throws, EarlyMove,
           Early, Fresh, Held
      <3>. QED BY <1>1, <1>3, <3>1, EarlyIsHonest
    <2>12. CASE AbortsMerge(w)
      BY <2>12, <1>1, <1>3, <1>4 DEF AbortsMerge, At, Goto, Keeps, Throws, Honest, Held,
         Exists, Unmade, Early, Fresh, Late
    <2>13. CASE ChecksRestored(w)
      BY <2>13, <1>1, <1>3, <1>4 DEF ChecksRestored, At, Keeps, Drops, Fails, Honest, Held,
         Exists, Unmade, Early, Fresh, Late
    <2>14. CASE LooksForCancel(w)
      <3>1. CASE Goto(w, "check")
        BY <2>14, <3>1, <1>1, <1>3, <1>4 DEF LooksForCancel, At, Goto, Honest, Held, Exists,
           Unmade, Early, Fresh, Late
      <3>2. CASE Drops(w, "applied")
        BY <2>14, <3>2, <1>1, <1>3, <1>4 DEF LooksForCancel, At, Drops, Honest, Exists, Early,
           Fresh, Late
      <3>. QED BY <2>14, <3>1, <3>2 DEF LooksForCancel
    <2>15. CASE ChecksHead(w)
      BY <2>15, <1>1, <1>3, <1>4 DEF ChecksHead, At, Goto, Keeps, Honest, Held, Exists,
         Unmade, Early, Fresh, Late
    <2>16. CASE Removes(w)
      BY <2>16, <1>1, <1>3, <1>4 DEF Removes, At, Goto, Honest, Held, Exists, Unmade, Early,
         Fresh, Late
    <2>17. CASE Cancels(w)
      BY <2>17, <1>1, <1>3, <1>4 DEF Cancels, Honest, Held, Exists, Unmade, Early, Fresh,
         Late
    <2>. QED BY <2>1, <2>2, <2>3, <2>4, <2>5, <2>6, <2>7, <2>8, <2>9, <2>10, <2>11, <2>12,
       <2>13, <2>14, <2>15, <2>16, <2>17 DEF Looks
  <1>. QED BY <1>1, <1>2, <1>5, <1>6, LookIsHonest

-----------------------------------------------------------------------------
(* Merges, rollbacks, and the user.                                         *)

\* A worker's merge adds its commit alone, if the branch still holds its base.
LEMMA MergeGrows ==
  ASSUME TypeOK, Sound, UserWhole, AllHonest, NEW w \in Worker, Unmade(w), NewMerge(w),
         ~raced', UNCHANGED <<made, undone>>, merging' = "none",
         concluded' \in {concluded, concluded \cup {w}},
         \A v \in Worker \ {w} : worker'[v] = worker[v]
  PROVE  /\ Sound' /\ UserWhole' /\ \A v \in Worker \ {w} : Honest(v)'
         /\ \A d \in Commit : d \in past[d] => d # w /\ past'[d] = past[d]
         /\ past'[head'] = past[head] \cup {w} /\ first'[w] = head
  <1>1. w \in Commit \ {Root} /\ head \in Commit /\ worker[w].base \in Commit
    BY DeliveryAssumption DEF TypeOK, Commit, Root
  <1>2. head' = w /\ first' = [first EXCEPT ![w] = head] /\ worker[w].base \in past[head]
    BY DEF NewMerge
  <1>3. past[worker[w].base] \subseteq past[head]
    BY <1>1, <1>2 DEF Sound, Closed
  <1>4. past' = [past EXCEPT ![w] = past[head] \cup {w}]
    BY <1>1, <1>3 DEF NewMerge, TypeOK
  <1>5. \A n \in 1..MaxCommits : n > made' => n > made /\ n # w
    BY DeliveryAssumption
  <1>6. /\ Sound'
        /\ \A d \in Commit : d \in past[d] => d # w /\ past'[d] = past[d]
        /\ \A d \in Commit : d # w /\ Unmade(d) => Unmade(d)'
        /\ past'[head'] = past[head] \cup {w}
    BY <1>1, <1>2, <1>4, <1>5, Grows
  <1>7. UserWhole'
    BY <1>6 DEF UserWhole
  <1>8. ASSUME NEW v \in Worker \ {w} PROVE Honest(v)'
    <2>1. Honest(v) /\ first'[v] = first[v] /\ v \in Commit
      BY <1>1, <1>2 DEF AllHonest, TypeOK, Commit
    <2>. QED BY <1>1, <1>6, <2>1, HonestWhenGrown
  <1>. QED BY <1>1, <1>2, <1>6, <1>7, <1>8 DEF TypeOK

LEMMA MergeKeepsHistory ==
  ASSUME TypeOK, AllHeld, History, NEW w \in Worker, Merges(w) PROVE History'
  <1> SUFFICES ASSUME ~raced' PROVE Sound' /\ UserWhole' /\ AllHonest'
    BY DEF History
  <1>1. /\ UNCHANGED <<made, undone, concluded>>
        /\ \/ /\ UNCHANGED <<head, first, past, raced>>
              /\ \/ merging' = merging /\ Goto(w, "merged") /\ Contained(w, worker[w].work)
                 \/ merging' \in {merging, w} /\ Goto(w, "broken")
           \/ /\ NewMerge(w) /\ merging = "none" /\ merging' = merging
              /\ Goto(w, "merged") \/ Goto(w, "broken")
    BY DEF Merges
  <1>2. ~raced /\ Sound /\ UserWhole /\ AllHonest
    <2>1. raced' = raced \/ NewMerge(w)
      BY <1>1
    <2>2. ~raced
      BY <2>1 DEF NewMerge
    <2>. QED BY <2>2 DEF History
  <1>3. At(w, "merge") /\ Honest(w) /\ Held(w) /\ Unmade(w) /\ Exists(head)
    BY <1>2 DEF Merges, AllHonest, AllHeld, Honest, At, Early, Sound
  <1>4. \A v \in Worker \ {w} : worker'[v] = worker[v]
    BY <1>1 DEF Goto, TypeOK
  <1>5. /\ w \in Commit /\ head \in Commit /\ worker[w].seen \in Commit
        /\ worker[w].base \in Commit
    BY DEF TypeOK, Commit
  <1>6. /\ worker'[w].pc \in {"merged", "broken"} /\ worker'[w].told = "nothing"
        /\ worker'[w].base = worker[w].base /\ worker'[w].seen = worker[w].seen
        /\ worker'[w].work = worker[w].work
    BY <1>1, <1>3 DEF Goto, TypeOK, At, Held
  <1>7. CASE UNCHANGED <<head, first, past>> /\ ~NewMerge(w)
    <2>1. worker'[w].pc = "merged" => ~worker[w].work
      <3>1. SUFFICES ASSUME worker'[w].pc = "merged", worker[w].work PROVE FALSE
        OBVIOUS
      <3>2. ~Goto(w, "broken")
        BY <3>1 DEF Goto, TypeOK
      <3>3. Contained(w, worker[w].work)
        BY <1>1, <1>7, <3>2
      <3>. QED BY <1>3, <1>5, <3>1, <3>3 DEF Contained, Unmade
    <2>2. Honest(w)'
      BY <1>3, <1>5, <1>6, <1>7, <2>1 DEF Honest, Exists, Unmade, Late, Early, Fresh
    <2>3. merging' \in {merging, "none"} \/ (merging' = w /\ Unmade(w))
      BY <1>1, <1>3
    <2>. QED BY <1>1, <1>2, <1>4, <1>7, <2>2, <2>3, LookIsHonest
  <1>8. CASE NewMerge(w) /\ merging' = "none"
    <2>1. /\ Sound' /\ UserWhole' /\ \A v \in Worker \ {w} : Honest(v)'
          /\ \A d \in Commit : d \in past[d] => d # w /\ past'[d] = past[d]
          /\ past'[head'] = past[head] \cup {w}
      BY <1>1, <1>2, <1>3, <1>4, <1>8, MergeGrows
    <2>2. Honest(w)'
      BY <1>3, <1>5, <1>6, <2>1 DEF Honest, Exists, Unmade, Late, Early, Fresh
    <2>. QED BY <2>1, <2>2 DEF AllHonest
  <1>9. NewMerge(w) => merging' = "none" \/ head' = head
    BY <1>1
  <1>10. NewMerge(w) => head' = w /\ w # head
    BY <1>2, <1>3, <1>5 DEF NewMerge, Unmade, Exists
  <1>. QED BY <1>1, <1>7, <1>8, <1>9, <1>10

LEMMA RollbackKeepsHistory ==
  ASSUME TypeOK, AllHeld, History, NEW w \in Worker, RollsBack(w) PROVE History'
  <1> SUFFICES ASSUME ~raced' PROVE Sound' /\ UserWhole' /\ AllHonest'
    BY DEF History
  <1>0. \/ raced' = raced /\ head' = head /\ merging' = merging /\ Keeps(w, "inspect")
        \/ /\ raced' = (raced \/ head \notin {w, worker[w].seen}) /\ merging' = "none"
           /\ head' = worker[w].seen /\ Drops(w, "cancelled")
    BY DEF RollsBack
  <1>1. ~raced /\ Sound /\ UserWhole /\ AllHonest
    <2>1. ~raced
      BY <1>0, Zenon
    <2>. QED BY <2>1 DEF History
  <1>2. At(w, "reset") /\ Honest(w) /\ Held(w) /\ Exists(head)
    BY <1>1 DEF RollsBack, AllHonest, AllHeld, Sound
  <1>3. UNCHANGED <<first, past, made, undone, concluded>>
    BY DEF RollsBack
  <1>4. \A v \in Worker \ {w} : worker'[v] = worker[v]
    BY <1>0 DEF Keeps, Drops, TypeOK
  <1>5. /\ w \in Commit \ {Root} /\ head \in Commit /\ worker[w].seen \in Commit
        /\ worker[w].base \in Commit
    BY DeliveryAssumption DEF TypeOK, Commit, Root
  <1>6. /\ w \notin past[worker[w].seen] /\ first[w] = worker[w].seen
        /\ Exists(worker[w].seen) /\ Exists(worker[w].base)
    BY <1>2 DEF At, Honest, Late
  <1>7. CASE head' = head /\ merging' = merging /\ Keeps(w, "inspect")
    <2>1. Honest(w)'
      BY <1>3, <1>6, <1>7 DEF Keeps, TypeOK, Honest, Exists, Early, Fresh, Late
    <2>. QED BY <1>1, <1>3, <1>4, <1>7, <2>1, LookIsHonest
  <1>8. CASE /\ head' = worker[w].seen /\ merging' = "none" /\ Drops(w, "cancelled")
             /\ head \in {w, worker[w].seen}
    <2>1. past[head'] \subseteq past[head] /\ past[head] \subseteq past[head'] \cup {w}
      <3>1. CASE head = w
        BY <1>1, <1>2, <1>5, <1>6, <1>8, <3>1 DEF Sound, Parented
      <3>. QED BY <1>8, <3>1
    <2>2. Sound'
      BY <1>1, <1>3, <1>6, <1>8, GoesBack DEF Exists
    <2>3. UserWhole'
      <3>1. w \notin concluded
        BY <1>2 DEF At, Held
      <3>. QED BY <1>1, <1>3, <2>1, <3>1, DeliveryAssumption DEF UserWhole, TypeOK
    <2>4. Honest(w)'
      BY <1>3, <1>6, <1>8 DEF Drops, TypeOK, Honest, Exists, Early, Fresh, Late
    <2>5. ASSUME NEW v \in Worker \ {w} PROVE Honest(v)'
      BY <1>1, <1>3, <1>4, <2>1, HonestWhenBack DEF AllHonest
    <2>. QED BY <2>2, <2>3, <2>4, <2>5 DEF AllHonest
  <1>. QED BY <1>0, <1>7, <1>8

LEMMA UserKeepsHistory ==
  ASSUME TypeOK, AllHeld, History, UserStep PROVE History'
  <1> SUFFICES ASSUME ~raced' PROVE Sound' /\ UserWhole' /\ AllHonest'
    BY DEF History
  <1>0. UNCHANGED worker
    BY UserStays
  <1>1. CASE UserCommits
    <2>1. ~raced /\ merging' = "none" /\ concluded' = concluded
      BY <1>1 DEF UserCommits, auxVars
    <2>2. Sound /\ UserWhole /\ AllHonest
      BY <2>1 DEF History
    <2>3. /\ made' = made + 1 /\ head' = made' /\ undone' = undone
          /\ first' = [first EXCEPT ![made'] = head]
          /\ past' = [past EXCEPT ![made'] = past[head] \cup {made'}]
      BY <1>1 DEF UserCommits, auxVars
    <2>4. made' \in 1..MaxCommits /\ made' > made /\ made \in 0..MaxCommits
      BY <1>1, DeliveryAssumption DEF UserCommits, TypeOK
    <2>5. made' \in Commit \ {Root} /\ made' \notin Worker
      BY <2>4, DeliveryAssumption DEF Commit, Root
    <2>6. Unmade(made')
      BY <2>2, <2>4 DEF Sound
    <2>7. \A n \in 1..MaxCommits : n > made' => n > made /\ n # made'
      BY <2>4, DeliveryAssumption
    <2>8. /\ Sound'
          /\ \A d \in Commit : d \in past[d] => d # made' /\ past'[d] = past[d]
          /\ \A d \in Commit : d # made' /\ Unmade(d) => Unmade(d)'
          /\ past'[head'] = past[head] \cup {made'}
      <3>. DEFINE c == made'
      <3>. HIDE DEF c
      <3>. QED BY <2>1, <2>2, <2>3, <2>5, <2>6, <2>7, Grows
    <2>9. UserWhole'
      BY <2>1, <2>2, <2>3, <2>4, <2>8, DeliveryAssumption DEF UserWhole
    <2>10. ASSUME NEW v \in Worker PROVE Honest(v)'
      <3>1. Honest(v) /\ first'[v] = first[v] /\ v \in Commit /\ worker'[v] = worker[v]
            /\ made' \in Commit \ {v}
        BY <1>0, <2>2, <2>3, <2>5 DEF AllHonest, TypeOK, Commit
      <3>. QED BY <2>3, <2>8, <3>1, HonestWhenGrown
    <2>. QED BY <2>8, <2>9, <2>10 DEF AllHonest
  <1>2. CASE UserEdits \/ UserMerges
    <2>1. /\ UNCHANGED <<head, first, past, made, undone, concluded, raced>>
          /\ merging' \in {merging, User}
      BY <1>2 DEF UserEdits, UserMerges, auxVars
    <2>2. Sound /\ UserWhole /\ AllHonest
      BY <2>1 DEF History
    <2>3. Sound'
      BY <2>1, <2>2, NotNone DEF Sound, Exists, Closed, Parented, Unmade
    <2>. QED
      BY <1>0, <2>1, <2>2, <2>3 DEF Exists, Unmade, UserWhole, AllHonest, Honest
  <1>3. CASE UserRewinds
    <2>1. UNCHANGED <<first, past, made, concluded, raced>> /\ merging' = "none"
      BY <1>3 DEF UserRewinds
    <2>2. Sound /\ UserWhole /\ AllHonest
      BY <2>1 DEF History
    <2>3. \/ head' = head /\ undone' = undone
          \/ /\ head # Root /\ head' = first[head]
             /\ undone' = undone \cup (past[head] \ past[head'])
      BY <1>3 DEF UserRewinds
    <2>4. Exists(head') /\ past[head'] \subseteq past[head]
      BY <2>2, <2>3 DEF Sound, Parented, TypeOK
    <2>5. undone \subseteq undone' /\ past[head] \subseteq past[head'] \cup undone'
      BY <2>3
    <2>6. Sound'
      BY <2>1, <2>2, <2>4, GoesBack DEF Exists
    <2>7. UserWhole'
      BY <2>1, <2>2, <2>5 DEF UserWhole
    <2>8. ASSUME NEW v \in Worker PROVE Honest(v)'
      BY <1>0, <2>1, <2>2, <2>4, <2>5, HonestWhenBack DEF AllHonest
    <2>. QED BY <2>6, <2>7, <2>8 DEF AllHonest
  <1>4. CASE UserConcludes
    <2>. PICK w \in Worker : w = merging
      BY <1>4 DEF UserConcludes
    <2>1. /\ NewMerge(w) /\ concluded' = concluded \cup {w}
          /\ UNCHANGED <<made, undone>> /\ merging' = "none"
      BY <1>4 DEF UserConcludes
    <2>2. ~raced
      BY <2>1 DEF NewMerge
    <2>3. Sound /\ UserWhole /\ AllHonest
      BY <2>2 DEF History
    <2>4. Unmade(w) /\ Held(w) /\ Honest(w)
      BY <2>1, <2>3 DEF Sound, AllHeld, AllHonest
    <2>5. /\ Sound' /\ UserWhole' /\ \A v \in Worker \ {w} : Honest(v)'
          /\ \A d \in Commit : d \in past[d] => d # w /\ past'[d] = past[d]
      BY <1>0, <2>1, <2>3, <2>4, MergeGrows
    <2>6. /\ worker[w].pc \in {"broken", "over"}
          /\ worker[w].told \notin {"applied", "cancelled", "unmerged"}
      BY <2>1, <2>4 DEF Held
    <2>7. worker[w].base \in Commit /\ worker[w].seen \in Commit
      BY <2>1 DEF TypeOK
    <2>8. Honest(w)'
      BY <1>0, <2>4, <2>5, <2>6, <2>7 DEF Honest, Exists, Unmade, Early, Fresh, Late
    <2>. QED BY <2>5, <2>8 DEF AllHonest
  <1>. QED BY <1>1, <1>2, <1>3, <1>4 DEF UserStep

-----------------------------------------------------------------------------
(* The invariant and its theorems.                                          *)

LEMMA InitIInv == ASSUME Init PROVE IInv
  <1>. USE DeliveryAssumption DEF Init, Away
  <1>1. Root \in Commit /\ Worker \subseteq Commit
    BY DEF Commit, Root
  <1>2. TypeOK
    <2>1. made \in 0..MaxCommits /\ rewinds \in 0..MaxRewinds
      OBVIOUS
    <2>2. past \in [Commit -> SUBSET Commit]
      BY <1>1
    <2>. QED BY <1>1, <2>1, <2>2 DEF TypeOK
  <1>3. AllHeld /\ Places
    BY DEF AllHeld, Held, Fresh, Places, Placed
  <1>4. Sound
    <2>1. \A c \in Commit : past[c] = IF c = Root THEN {Root} ELSE {}
      OBVIOUS
    <2>2. Exists(Root) /\ Exists(head) /\ Closed /\ Parented /\ merging \notin Worker
      BY <1>1, <2>1 DEF Exists, Closed, Parented
    <2>3. \A n \in 1..MaxCommits : n # Root
      BY DEF Root
    <2>. QED BY <2>1, <2>2, <2>3 DEF Sound, Unmade
  <1>5. UserWhole
    BY DEF UserWhole
  <1>6. AllHonest
    <2>1. ASSUME NEW w \in Worker PROVE w # Root
      BY DEF Root
    <2>. QED BY <1>1, <2>1 DEF AllHonest, Honest, Exists, Unmade, Early, Fresh, Late
  <1>. QED BY <1>2, <1>3, <1>4, <1>5, <1>6 DEF IInv, History

LEMMA NextIInv == ASSUME IInv, [Next]_vars PROVE IInv'
  <1>1. TypeOK' /\ Places' /\ AllHeld'
    BY TypeStep, PlacesStep, HeldStep DEF IInv
  <1>2. History'
    <2>1. CASE UNCHANGED vars
      BY <2>1 DEF IInv, History, Sound, Exists, Closed, Parented, Unmade, UserWhole,
         AllHonest, Honest, vars, repoVars, auxVars
    <2>2. CASE UserStep
      BY <2>2, UserKeepsHistory DEF IInv
    <2>3. ASSUME NEW w \in Worker, DeliveryStep(w) \/ Cancels(w) PROVE History'
      <3>1. Looks(w) \/ Merges(w) \/ RollsBack(w)
        BY <2>3 DEF DeliveryStep, Looks
      <3>. QED BY <3>1, LooksKeepHistory, MergeKeepsHistory, RollbackKeepsHistory DEF IInv
    <2>. QED BY <2>1, <2>2, <2>3 DEF Next
  <1>. QED BY <1>1, <1>2 DEF IInv

LEMMA AlwaysIInv == Spec => []IInv
  BY InitIInv, NextIInv, PTL DEF Spec

\* Every variable keeps its type, and whoever works or delivers has a worktree
\* (execute in subagent.ts never goes on in the checkout), unless it was
\* created inside another worker's, and that one was removed under it.
THEOREM WorkersHaveWorktrees == Spec => []TypeOK
  <1>1. IInv => TypeOK
    BY DEF IInv
  <1>. QED BY <1>1, AlwaysIInv, PTL

\* Neither the user's commits nor the delivered work of workers created from the
\* user's checkout leave the branch, through any number of deliveries and
\* rollbacks and with any other workers (applyWorktreeChanges in worktree.ts),
\* until one of the two races between a check and its command is lost.
THEOREM BranchStaysWhole == Spec => []BranchIsWhole
  <1>1. IInv => BranchIsWhole
    BY DEF IInv, History, AllHonest, Honest, UserWhole, BranchIsWhole, Kept, Here
  <1>. QED BY <1>1, AlwaysIInv, PTL

\* Work of a worker created from the user's checkout that is reported as
\* cancelled or not integrated is not on the branch (but for the two races), and
\* what any worker leaves for the user is there for as long as what it was
\* created in (applyWorktreeChanges, execute, removeWorktree).
THEOREM ReportsAreTrue == Spec => []ReportIsTrue
  <1>1. IInv => ReportIsTrue
    BY DEF IInv, History, AllHeld, Held, HasTree, AllHonest, Honest, ReportIsTrue, Here
  <1>. QED BY <1>1, AlwaysIInv, PTL

=============================================================================
