--------------------------- MODULE MCScheduleEngine ---------------------------
EXTENDS ScheduleEngine, TLC

Symmetry == Permutations(Process) \cup Permutations(Slot) \cup Permutations(Request)
=============================================================================
