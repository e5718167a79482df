CONSTANTS
    first = first
    second = second
    Node <- TwoNodes
    Definitions <- Simple
    Session = {s1, s2}
    MaxAttempts = 2
    MaxRelaunches = 1
    MaxFaults = 2
    CanLose = TRUE
SPECIFICATION Spec
SYMMETRY Symmetry
INVARIANTS
    TypeOK
    CheckpointReadable
    OneRunner
    NothingRunsAfterEnd
    GateFollowsDecision
PROPERTIES
    EndIsFinal
CHECK_DEADLOCK FALSE
