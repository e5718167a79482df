\* Two processes, two requests, two specifications, three job ids.
SPECIFICATION Spec
CONSTANTS
    Process = {p1, p2}
    Request = {r1, r2}
    small = small
    large = large
    LaunchSpec = {small, large}
    JobId = {j1, j2, j3}
    Limit <- MCLimit
    None = None
SYMMETRY Symmetry
INVARIANTS
    TypeOK
    OneUnfinishedJob
    SpecOfUnfinishedJob
PROPERTY AdmittedWithinLimit
CHECK_DEADLOCK FALSE
