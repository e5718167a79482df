CONSTANTS
    Main = Main
    w1 = w1
    w2 = w2
    Agent <- Agents
    Worker <- TwoWorkers
    Writers = {w2}
    Foreign = {w1}
    MainBatches <- Batches
    WorkerBatches <- Edits
    Floors = {"none", "ask"}
    MaxIterations <- Budgets
    MaxReprompts = 1
    MaxTurns = 2
SPECIFICATION FairSpec
INVARIANTS
    TypeOK
    WaitersServed
    PairedUnlessDropped
    VerifiedOrReminded
    RestsAtHome
PROPERTIES
    OnlyMeant
    CancelsEnd
    TurnEnds
CHECK_DEADLOCK FALSE
