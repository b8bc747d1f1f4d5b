SPECIFICATION Spec
CONSTANTS
    Tasks = {t1, t2, t3}
    NoTask = NoTask
    Kinds = {"limit", "question", "approval"}
    Lifecycle = TRUE
    MaxQuestions = 3
    MaxRequests = 3
    MaxCrashes = 1
SYMMETRY Symmetry
INVARIANTS
    RegistryConsistent
    OneExecution
    BarrierExcludesExecution
    LimitDecisionNotLost
PROPERTIES
    TerminalIsFinal
CHECK_DEADLOCK FALSE
