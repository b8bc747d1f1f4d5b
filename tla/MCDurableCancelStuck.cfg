SPECIFICATION EndingSpec
CONSTANTS
    AgentWorkers = {a1}
    RunnerWorkers = {}
    Kinds = {"agent"}
    MaxTasks = 1
    MaxAttempts = 2
    Costs = {1}
    PlanSteps = 1
    Limit = 3
    HardLimit = FALSE
    Concurrency = 1
    MaxOther = 0
    Faults = {"cancel"}
PROPERTIES
    CancellationSettles
CHECK_DEADLOCK FALSE
