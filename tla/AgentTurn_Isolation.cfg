CONSTANTS
    Main = Main
    w1 = w1
    w2 = w2
    Agent <- Agents
    Worker <- TwoWorkers
    Writers <- TwoWorkers
    Foreign = {}
    MainBatches <- BothWorkers
    WorkerBatches <- Edits
    Floors = {"none"}
    MaxIterations <- OneBudget
    MaxReprompts = 1
    MaxTurns = 1
SPECIFICATION Spec
PROPERTIES
    WorkersStayHome
CHECK_DEADLOCK FALSE
