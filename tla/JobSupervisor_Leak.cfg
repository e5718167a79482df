\* The supervisor of a job that is deleted at the wrong moment.
SPECIFICATION FairSpec
CONSTANTS
    Client = {c1}
    NoJob = NoJob
    Faults = {FALSE}
PROPERTY SupervisorDoesNotLeak
CHECK_DEADLOCK FALSE
