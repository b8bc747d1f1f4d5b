SPECIFICATION Spec
CONSTANTS
  d1 = d1
  d2 = d2
  Direct = {d1, d2}
  Requests <- MCRequests
  Programs <- MCPrograms
  Children <- MCChildren
  Resolvers = {"u1", "u2"}
  NoCall = NoCall
  MaxCalls = 2
  MaxPending = 2
  MaxCrashes = 1
CHECK_DEADLOCK FALSE
INVARIANTS CallsConsistent OnlyAuthorizedActs ActsOnce ProtectionHolds
PROPERTIES OutcomeIsFinal ProgramSettles ProtectionApplies
