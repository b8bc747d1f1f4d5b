SPECIFICATION Spec
CONSTANTS
    AgentWorkers = {a1}
    RunnerWorkers = {r1, r2}
    Kinds = {"agent", "runner"}
    MaxTasks = 1
    MaxAttempts = 3
    Costs = {0, 2}
    PlanSteps = 2
    Limit = 3
    HardLimit = FALSE
    Concurrency = 1
    MaxOther = 0
    Faults = {"expire", "overdue", "crash", "lost", "isolate", "cancel", "pause", "abort", "switch"}
INVARIANTS
    AccountsConsistent
PROPERTIES
    OnlyLeaseholderReports
    RevokedWorkStops
CHECK_DEADLOCK FALSE
