CONSTANTS
    NTools = 3
    ClaimSets <- MCClaimSets
    Resources <- MCResources
SPECIFICATION Spec
INVARIANTS
    TypeOK
    NoConflictingWave
    ConflictingCallsKeepOrder
    SerialEquivalence
PROPERTIES
    NoStarvation
CHECK_DEADLOCK FALSE
