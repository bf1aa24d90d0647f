SPECIFICATION FairSpec
CONSTANTS
  Caller = {c1, c2, c3}
  StartArg = 3
  MinArg = 0
  MaxArg = 3
  MaxAttempts = 2
  MaxCalls = 1
INVARIANTS
  PermitsCounted
  CeilingIsEarned
  NoLostWakeup
PROPERTIES
  ImplementsGate
  EveryCallReturns
CHECK_DEADLOCK FALSE
