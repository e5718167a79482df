-------------------------- MODULE WorktreeDelivery --------------------------
(* How the work of subagents reaches the user's checkout.  Each worker has  *)
(* a worktree and a branch of its own; when it is done, its changes are     *)
(* committed there and merged into the branch the checkout is on, by a long *)
(* sequence of git commands, each of which sees what the user and the other *)
(* workers have made of the repository by then.  A cancel is looked for at  *)
(* four points; one that comes during the merge rolls it back.              *)
(* A git command is one step: git's own lock keeps two that write apart.    *)
(*   A worker is created from the directory the process is in, which is the *)
(* user's checkout, or the worktree that another worker entered last: then  *)
(* its worktree lies inside that one, and its work goes to that one's       *)
(* branch, which is not followed here.                                      *)
EXTENDS Naturals

CONSTANTS
  Worker,
  MaxCommits,   \* bound: the user's commits
  MaxRewinds    \* bound: how often the user takes the last commit back

\* A commit is the user's n-th, the one the session starts from, or a merge
\* of a worker's branch, which is made at most once.
Root == 0
Commit == (0..MaxCommits) \cup Worker

User == "user"

ASSUME DeliveryAssumption ==
  /\ MaxCommits \in Nat /\ MaxRewinds \in Nat
  /\ Worker \cap (0..MaxCommits) = {}
  /\ "none" \notin Worker /\ User \notin Worker

VARIABLES
  head,      \* HEAD of the user's checkout
  first,     \* commit -> its first parent
  past,      \* commit -> the commits it contains, itself included
  made,      \* the user's commits so far
  local,     \* uncommitted changes of the user: none, edited or staged
  merging,   \* an unfinished merge: nobody's, the user's, or a worker's
  trees,     \* workers whose worktree and branch exist
  cwd,       \* the process's directory: the user's checkout or a worktree
  aborted,   \* workers whose signal is aborted
  worker     \* worker -> where its call is, and what it has read

\* History, used by properties only.
VARIABLES
  concluded, \* workers whose half-finished merge the user has committed
  undone,    \* commits the user took back
  rewinds,
  raced      \* a merge or a rollback hit a branch that had moved since its check

repoVars == <<head, first, past, made, local, merging>>
auxVars == <<concluded, undone, rewinds, raced>>
vars == <<repoVars, trees, cwd, aborted, worker, auxVars>>

\* parent is the directory the worker is created from and returns to, within
\* the worktrees its own lies in.
Away == [pc |-> "away", parent |-> User, within |-> {}, work |-> FALSE,
         base |-> Root, seen |-> Root, told |-> "nothing"]

Init ==
  /\ head = Root /\ first = [c \in Commit |-> Root]
  /\ past = [c \in Commit |-> IF c = Root THEN {Root} ELSE {}] /\ made = 0
  /\ local = "none" /\ merging = "none"
  /\ trees = {} /\ cwd = User /\ aborted = {} /\ worker = [w \in Worker |-> Away]
  /\ concluded = {} /\ undone = {} /\ rewinds = 0 /\ raced = FALSE

At(w, where) == worker[w].pc = where
Goto(w, where) == worker' = [worker EXCEPT ![w].pc = where] /\ UNCHANGED cwd

\* Workers created from the user's checkout.
Here == {w \in Worker : worker[w].parent = User}

\* What the worker was created in is gone, and its own worktree with it.
Stranded(w) == worker[w].parent \notin trees \cup {User}

\* The call returns an error, and the worktree and branch stay for the user;
\* the process goes back, or chdir throws.
Keeps(w, told) ==
  /\ worker' = [worker EXCEPT ![w].pc = "over", ![w].told = told]
  /\ cwd' = IF Stranded(w) THEN cwd ELSE worker[w].parent

\* The worktree is no longer needed, or is to be discarded.
Drops(w, told) ==
  worker' = [worker EXCEPT ![w].pc = "remove", ![w].told = told] /\ UNCHANGED cwd

\* "Worker changes were not integrated"; or an exception: work is retained,
\* and nothing is said of the branch.
Fails(w) == Keeps(w, "unmerged")
Throws(w) == Keeps(w, "retained")

-----------------------------------------------------------------------------
(* The subagent call.                                                       *)

\* The directory is read before git is asked: another worker may be entered
\* meanwhile, or have been before.
Begins(w) ==
  /\ At(w, "away")
  /\ worker' = [worker EXCEPT ![w].pc = "making", ![w].parent = cwd,
                  ![w].within = IF cwd = User THEN {} ELSE {cwd} \cup worker[cwd].within]
  /\ UNCHANGED <<repoVars, trees, cwd, aborted, auxVars>>

\* Mutant: without a worktree the worker goes on where the process is.
GoesOnWithout(w) ==
  /\ At(w, "making") /\ trees' \in {trees, trees \cup {w}}
  /\ worker' = [worker EXCEPT ![w].pc = "working", ![w].base = head]
  /\ UNCHANGED <<repoVars, cwd, aborted, auxVars>>

\* createWorktree, from HEAD there, and the process enters it; or the call
\* ends in an error at once.
Creates(w) ==
  /\ At(w, "making")
  /\ \/ /\ ~Stranded(w) /\ trees' = trees \cup {w} /\ cwd' = w
        /\ worker' = [worker EXCEPT ![w].pc = "working",
                        ![w].base = IF w \in Here THEN head ELSE Root]
     \/ /\ worker' = [worker EXCEPT ![w].pc = "over", ![w].told = "error"]
        /\ UNCHANGED <<trees, cwd>>
  /\ UNCHANGED <<repoVars, aborted, auxVars>>

\* The loop ends and the process goes back, unless that is impossible:
\* cancelled or broken the work is discarded, else delivered.
EndsWork(w) ==
  /\ At(w, "working")
  /\ \/ Stranded(w) /\ Keeps(w, "error")
     \/ /\ ~Stranded(w) /\ cwd' = worker[w].parent
        /\ \/ \E told \in {"error"} \cup (IF w \in aborted THEN {"cancelled"} ELSE {}) :
                worker' = [worker EXCEPT ![w].pc = "remove", ![w].told = told]
           \/ /\ w \notin aborted
              /\ worker' = [worker EXCEPT ![w].pc =
                              IF w \in Here THEN "base" ELSE "elsewhere"]
  /\ UNCHANGED <<repoVars, trees, aborted, auxVars>>

\* The whole delivery into another worker's branch, however that ends.
DeliversElsewhere(w) ==
  /\ At(w, "elsewhere")
  /\ \/ Drops(w, "applied")
     \/ w \in aborted /\ Drops(w, "cancelled")
     \/ \E told \in {"unmerged", "inspect", "retained"} : Keeps(w, told)
  /\ UNCHANGED <<repoVars, trees, aborted, auxVars>>

\* The worker is still on its branch, and neither history was rewritten.
ChecksBase(w) ==
  /\ At(w, "base")
  /\ (worker[w].base \in past[head] /\ Goto(w, "stage")) \/ Fails(w) \/ Throws(w)
  /\ UNCHANGED <<repoVars, trees, aborted, auxVars>>

\* add and commit in the worktree; the cancel is looked for after that.
CommitsWork(w) ==
  /\ At(w, "stage")
  /\ IF w \in aborted THEN Drops(w, "cancelled") \/ Fails(w)
                      ELSE Goto(w, "contained") \/ Fails(w)
  /\ UNCHANGED <<repoVars, trees, aborted, auxVars>>

\* The tip of the branch is the merge's second parent: with work on it, which
\* comes to the checkout only by its merge, or the commit it started from.
Contained(w, work) == IF work THEN w \in past[head] ELSE worker[w].base \in past[head]

FindsContained(w) ==
  /\ At(w, "contained")
  /\ \/ \E work \in BOOLEAN :
          /\ worker' = IF Contained(w, work)
               THEN [worker EXCEPT ![w].pc = "remove", ![w].told = "applied", ![w].work = work]
               ELSE [worker EXCEPT ![w].pc = "idle", ![w].work = work]
          /\ UNCHANGED cwd
     \/ Fails(w)
  /\ UNCHANGED <<repoVars, trees, aborted, auxVars>>

\* The checkout has no unfinished operation, then no changes.
ChecksIdle(w) ==
  /\ At(w, "idle")
  /\ (merging = "none" /\ Goto(w, "clean")) \/ Fails(w) \/ Throws(w)
  /\ UNCHANGED <<repoVars, trees, aborted, auxVars>>

ChecksClean(w) ==
  /\ At(w, "clean")
  /\ (local = "none" /\ Goto(w, "head")) \/ Fails(w)
  /\ UNCHANGED <<repoVars, trees, aborted, auxVars>>

ReadsHead(w) ==
  /\ At(w, "head")
  /\ \/ /\ worker' = [worker EXCEPT ![w].pc = "preview", ![w].seen = head]
        /\ UNCHANGED cwd
     \/ Fails(w)
  /\ UNCHANGED <<repoVars, trees, aborted, auxVars>>

\* The merge is computed without touching the checkout; conflicts and files
\* in its way end the delivery.  The last look at the cancel before the merge.
Previews(w) ==
  /\ At(w, "preview")
  /\ \/ Fails(w) \/ Throws(w)
     \/ w \in aborted /\ Drops(w, "cancelled")
     \/ w \notin aborted /\ Goto(w, "merge")
  /\ UNCHANGED <<repoVars, trees, aborted, auxVars>>

-----------------------------------------------------------------------------
(* git merge and what follows it.                                           *)

\* The new commit on the branch, wherever that is by now.
NewMerge(w) ==
  /\ head' = w
  /\ first' = [first EXCEPT ![w] = head]
  /\ past' = [past EXCEPT ![w] = past[head] \cup past[worker[w].base] \cup {w}]
  /\ raced' = (raced \/ worker[w].base \notin past[head])

\* git merges, is killed after it has, stops half-way, or refuses; it merges
\* into what HEAD is now, whatever was read and previewed.
Merges(w) ==
  /\ At(w, "merge")
  /\ \/ /\ merging = "none" /\ local # "staged"
        /\ IF Contained(w, worker[w].work) THEN UNCHANGED <<head, first, past, raced>>
                                           ELSE NewMerge(w)
        /\ Goto(w, "merged") \/ Goto(w, "broken")
        /\ UNCHANGED merging
     \/ /\ merging = "none" /\ merging' = w /\ Goto(w, "broken")
        /\ UNCHANGED <<head, first, past, raced>>
     \/ Goto(w, "broken") /\ UNCHANGED <<head, first, past, merging, raced>>
  /\ UNCHANGED <<made, local, trees, aborted, concluded, undone, rewinds>>

\* An unfinished merge is aborted, whosever it is, if it can be looked for.
AbortsMerge(w) ==
  /\ At(w, "broken")
  /\ \/ merging = "none" /\ Goto(w, "restored") /\ UNCHANGED merging
     \/ merging # "none" /\ merging' = "none" /\ Goto(w, "restored")
     \/ merging # "none" /\ Keeps(w, "inspect") /\ UNCHANGED merging
     \/ Throws(w) /\ UNCHANGED merging
  /\ UNCHANGED <<head, first, past, made, local, trees, aborted, auxVars>>

\* Mutant: a merge that failed is taken to have changed nothing.
TrustsRestore(w) ==
  /\ At(w, "restored")
  /\ (w \in aborted /\ Drops(w, "cancelled")) \/ (w \notin aborted /\ Fails(w))
  /\ UNCHANGED <<repoVars, trees, aborted, auxVars>>

\* Only a checkout that is as it was before, and can be read, is called untouched.
ChecksRestored(w) ==
  /\ At(w, "restored")
  /\ \/ Keeps(w, "inspect")
     \/ /\ head = worker[w].seen /\ local = "none"
        /\ IF w \in aborted THEN Drops(w, "cancelled") ELSE Fails(w)
  /\ UNCHANGED <<repoVars, trees, aborted, auxVars>>

\* Merged; a cancel that came meanwhile is honoured, a later one is not.
LooksForCancel(w) ==
  /\ At(w, "merged")
  /\ IF w \in aborted THEN Goto(w, "check") ELSE Drops(w, "applied")
  /\ UNCHANGED <<repoVars, trees, aborted, auxVars>>

\* Mutant: whatever HEAD is, it is taken for the merge.
RollsBackAnything(w) ==
  /\ At(w, "check") /\ Goto(w, "reset")
  /\ UNCHANGED <<repoVars, trees, aborted, auxVars>>

\* HEAD must be this very merge, of what was read before and the branch.
ChecksHead(w) ==
  /\ At(w, "check")
  /\ \/ head = w /\ first[w] = worker[w].seen /\ Goto(w, "reset")
     \/ Keeps(w, "inspect")
  /\ UNCHANGED <<repoVars, trees, aborted, auxVars>>

\* reset --merge: back to the commit that was read, and whatever is staged or
\* half merged by now is gone.
RollsBack(w) ==
  /\ At(w, "reset")
  /\ \/ /\ head' = worker[w].seen /\ merging' = "none"
        /\ local' = IF local = "staged" THEN "none" ELSE local
        /\ raced' = (raced \/ head \notin {w, worker[w].seen})
        /\ Drops(w, "cancelled")
     \/ Keeps(w, "inspect") /\ UNCHANGED <<head, merging, local, raced>>
  /\ UNCHANGED <<first, past, made, trees, aborted, concluded, undone, rewinds>>

\* removeWorktree: the directory goes with all that lies in it; that it fails
\* nobody hears of.
Removes(w) ==
  /\ At(w, "remove") /\ Goto(w, "over")
  /\ trees' \in {trees, trees \ {v \in Worker : v = w \/ w \in worker[v].within}}
  /\ UNCHANGED <<repoVars, aborted, auxVars>>

Cancels(w) ==
  /\ worker[w].pc \notin {"away", "over"}
  /\ aborted' = aborted \cup {w}
  /\ UNCHANGED <<repoVars, trees, cwd, worker, auxVars>>

-----------------------------------------------------------------------------
(* The user, in the same checkout.                                          *)

OnlyUser == UNCHANGED <<trees, cwd, aborted, worker>>

UserCommits ==
  /\ merging \notin Worker
  /\ made < MaxCommits /\ made' = made + 1 /\ head' = made'
  /\ first' = [first EXCEPT ![made'] = head]
  /\ past' = [past EXCEPT ![made'] = past[head] \cup {made'}]
  /\ local' = "none" /\ merging' = "none"
  /\ OnlyUser /\ UNCHANGED auxVars

\* A commit while a worker's merge is unfinished concludes that one.
UserConcludes ==
  /\ merging \in Worker /\ NewMerge(merging)
  /\ concluded' = concluded \cup {merging}
  /\ local' = "none" /\ merging' = "none"
  /\ OnlyUser /\ UNCHANGED <<made, undone, rewinds>>

UserEdits ==
  /\ local' \in {"edited", "staged"} /\ local' # local
  /\ OnlyUser /\ UNCHANGED <<head, first, past, made, merging, auxVars>>

UserMerges ==
  /\ merging = "none" /\ local = "none" /\ merging' = User
  /\ OnlyUser /\ UNCHANGED <<head, first, past, made, local, auxVars>>

\* reset --hard to the commit before, or just of what is uncommitted.
UserRewinds ==
  /\ \/ /\ rewinds < MaxRewinds /\ head # Root
        /\ rewinds' = rewinds + 1 /\ head' = first[head]
        /\ undone' = undone \cup (past[head] \ past[head'])
     \/ UNCHANGED <<head, undone, rewinds>>
  /\ local' = "none" /\ merging' = "none"
  /\ OnlyUser /\ UNCHANGED <<first, past, made, concluded, raced>>

-----------------------------------------------------------------------------
DeliveryStep(w) ==
  \/ Begins(w) \/ Creates(w) \/ EndsWork(w) \/ DeliversElsewhere(w) \/ ChecksBase(w)
  \/ CommitsWork(w) \/ FindsContained(w) \/ ChecksIdle(w) \/ ChecksClean(w) \/ ReadsHead(w) \/ Previews(w) \/ Merges(w)
  \/ AbortsMerge(w) \/ ChecksRestored(w) \/ LooksForCancel(w) \/ ChecksHead(w)
  \/ RollsBack(w) \/ Removes(w)

UserStep == UserCommits \/ UserConcludes \/ UserEdits \/ UserMerges \/ UserRewinds

Next == UserStep \/ \E w \in Worker : DeliveryStep(w) \/ Cancels(w)

Spec == Init /\ [][Next]_vars

-----------------------------------------------------------------------------
\* Types; and whoever works or delivers has a worktree (subagent.ts:276: a
\* failed creation ends the call, it does not go on in the checkout), unless
\* it was created in one that has been removed.
TypeOK ==
  /\ head \in Commit /\ first \in [Commit -> Commit] /\ past \in [Commit -> SUBSET Commit]
  /\ made \in 0..MaxCommits /\ local \in {"none", "edited", "staged"}
  /\ merging \in {"none", User} \cup Worker
  /\ trees \subseteq Worker /\ cwd \in {User} \cup Worker /\ aborted \subseteq Worker
  /\ worker \in [Worker ->
       [pc : {"away", "making", "working", "elsewhere", "base", "stage", "contained",
              "idle", "clean", "head", "preview", "merge", "merged", "broken", "restored",
              "check", "reset", "remove", "over"},
        parent : {User} \cup Worker, within : SUBSET Worker,
        work : BOOLEAN, base : Commit, seen : Commit,
        told : {"nothing", "error", "applied", "cancelled", "unmerged", "inspect",
                "retained"}]]
  /\ \A w \in Worker :
       worker[w].pc \notin {"away", "making", "over"} => w \in trees \/ Stranded(w)
  /\ concluded \subseteq Worker /\ undone \subseteq Commit
  /\ rewinds \in 0..MaxRewinds /\ raced \in BOOLEAN

\* Nothing that was committed disappears from the user's branch but by the
\* user: not the user's commits, nor work reported as delivered by a worker
\* created from there, through any rollbacks of other workers
\* (applyWorktreeChanges: "Refuse to roll back a different commit if another
\* writer advanced HEAD").  Excepted are the two windows between a check and
\* the command that relies on it: of the rollback, and of the merge.
Kept ==
  (1..made) \cup concluded
    \cup {w \in Here : worker[w].told = "applied" /\ worker[w].work}
BranchIsWhole == raced \/ Kept \subseteq past[head] \cup undone

\* What the call reports is so: work that is left for the user is there, for
\* as long as the worktree it was created in, whatever becomes of the other
\* workers; and work called cancelled or not integrated is not on the user's
\* branch (same exception).
ReportIsTrue ==
  \A w \in Worker :
    /\ worker[w].told \in {"unmerged", "inspect", "retained"} => w \in trees \/ Stranded(w)
    /\ w \in Here /\ worker[w].told \in {"cancelled", "unmerged"} =>
         raced \/ w \notin past[head]
=============================================================================
