----------------------------- MODULE LockService -----------------------------
(***************************************************************************)
(* What withJobLock and withCoordinatorLock promise their callers: one     *)
(* holder at a time; a lock whose holder is gone is "orphaned" and stays   *)
(* taken until it is recovered, which is the only way from one holder to   *)
(* another without a release.                                              *)
(***************************************************************************)
CONSTANTS Task, Free, Orphaned

VARIABLE holder

Init == holder = Free

Lock(t)   == holder = Free /\ holder' = t
Unlock(t) == holder = t /\ holder' = Free
Abandon   == holder \in Task /\ holder' = Orphaned
Recover   == holder = Orphaned /\ holder' = Free

Next == Abandon \/ Recover \/ \E t \in Task : Lock(t) \/ Unlock(t)

Spec == Init /\ [][Next]_holder
=============================================================================
