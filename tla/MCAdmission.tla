----------------------------- MODULE MCAdmission -----------------------------
EXTENDS Admission, TLC

CONSTANTS small, large  \* two specifications, of different limits

MCLimit == small :> 1 @@ large :> 2
Symmetry == Permutations(JobId) \cup Permutations(Process) \cup Permutations(Request)
=============================================================================
