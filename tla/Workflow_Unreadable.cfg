CONSTANTS
    first = first
    second = second
    Node <- TwoNodes
    Definitions <- GateBehindCondition
    Session = {s1}
    MaxAttempts = 2
    MaxRelaunches = 1
    MaxFaults = 1
    CanLose = FALSE
SPECIFICATION Spec
INVARIANT CheckpointReadable
CHECK_DEADLOCK FALSE
