SPECIFICATION FairSpec
CONSTANTS
    s1 = s1
    s2 = s2
    Sessions = {s1, s2}
    MaxTurns = 4
    MaxInputs = 2
    Scenarios <- MCScenarios
INVARIANTS
    QueueConsistent
    DeliveredOnce
    FreshTurnHasOnlyFreshInput
PROPERTIES
    InputOutcomeIsFinal
    QueuedInputSettles
CHECK_DEADLOCK FALSE
