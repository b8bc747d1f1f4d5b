SPECIFICATION Spec
CONSTANTS
    Capacity = 1
    BatchLimit = 2
    ReasoningLimit = 2
    BroadcastCapacity = 1
    PageSize = 1
    MaxRecords = 2
    Readers = {"interface"}
    Outputs <- MCReasoning
    OtherKinds = {"hidden"}
    MaxUnits <- MCMaxUnits
    MaxOther <- MCMaxOther
    MaxFaults <- MCNoFaults
INVARIANT ReasoningShownOnce
CHECK_DEADLOCK FALSE
