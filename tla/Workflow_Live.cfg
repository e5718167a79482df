CONSTANTS
    first = first
    second = second
    Node <- TwoNodes
    Definitions <- Readable
    Session = {s1}
    MaxAttempts = 3
    MaxRelaunches = 1
    MaxFaults = 2
    CanLose = FALSE
SPECIFICATION FairSpec
PROPERTIES
    NoReplay
    DecisionIsApplied
CHECK_DEADLOCK FALSE
