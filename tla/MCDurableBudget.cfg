SPECIFICATION Spec
CONSTANTS
    AgentWorkers = {}
    RunnerWorkers = {r1, r2}
    Kinds = {"runner"}
    MaxTasks = 2
    MaxAttempts = 2
    Costs = {1, 2}
    PlanSteps = 1
    Limit = 3
    HardLimit = TRUE
    Concurrency = 2
    MaxOther = 1
    Faults = {"expire", "cancel", "switch"}
INVARIANTS
    AccountsConsistent
PROPERTIES
    KeepsLedger
SYMMETRY Symmetry
CHECK_DEADLOCK FALSE
