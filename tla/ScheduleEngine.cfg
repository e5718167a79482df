\* Two processes compete for two occurrences; two dispatches at most.
SPECIFICATION Spec
CONSTANTS
    Process = {p1, p2}
    Slot = {s1, s2}
    Request = {r1, r2}
    MaxPauses = 1
    None = None
SYMMETRY Symmetry
INVARIANTS
    TypeOK
    OneActiveJob
    LaunchedOnce
PROPERTIES
    FencedIsNotLaunched
    RevokedForever
CHECK_DEADLOCK FALSE
