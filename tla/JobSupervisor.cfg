\* One client; the job's life with and without faults.
SPECIFICATION FairSpec
CONSTANTS
    Client = {c1}
    NoJob = NoJob
    Faults = {TRUE, FALSE}
INVARIANTS
    TypeOK
    VerdictHasEvidence
PROPERTIES
    AbandonedIsFinal
    ImplementsJobOutcome
    OutcomeIsPublished
    StopIsCarriedOut
CHECK_DEADLOCK FALSE
