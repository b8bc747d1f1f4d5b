CONSTANTS
    MaxModelCalls = 3
    MaxToolCalls = 2
    MaxRetries = 1
    MaxProviderRetries = 1
    RepeatedFailures = 2
    MaxCallsPerFrame = 2
    Fingerprints = {"f"}
    ToolClaims <- MCToolClaims
    Inputs <- MCInputs
    Steers = {"s1"}
    Capacity = 1
SPECIFICATION Spec
INVARIANTS
    MachineConsistent
    EveryCallAnsweredOnce
    NoInputIsLost
PROPERTIES
    Termination
CHECK_DEADLOCK FALSE
