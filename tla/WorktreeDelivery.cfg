CONSTANTS
    Worker = {w1, w2}
    MaxCommits = 1
    MaxRewinds = 2
SPECIFICATION Spec
SYMMETRY Symmetry
INVARIANTS
    TypeOK
    BranchIsWhole
    ReportIsTrue
CHECK_DEADLOCK FALSE
