------------------------ MODULE MCWorktreeDelivery ------------------------
(* Two workers, which are interchangeable.                                  *)
EXTENDS WorktreeDelivery, TLC

Symmetry == Permutations(Worker)
=============================================================================
