SPECIFICATION Spec
CONSTANTS
    Capacity = 1
    BatchLimit = 2
    ReasoningLimit = 1
    MaxUnits <- MCMaxUnits
    BroadcastCapacity = 1
    PageSize = 1
    MaxRecords = 2
    Readers = {"interface", "exporter", "log"}
    Outputs <- MCOutputs
    OtherKinds = {"hidden", "foreign"}
    MaxOther <- MCMaxOther
    MaxFaults <- MCMaxFaults
INVARIANTS
    LogConsistent
    TextIsPrefix
    CollectorIsExact
PROPERTIES
    DeliversFeed
    TurnIsShown
    ExportCatchesUp
CHECK_DEADLOCK FALSE
