SPECIFICATION Spec
CONSTANTS
  p1 = p1
  p2 = p2
  k1 = k1
  k2 = k2
  Callers = {p1, p2}
  Keys = {k1, k2}
  NoKey = NoKey
  Mode <- KeyAndRef
  OnUnknown <- BothPolicies
  ListItem = TRUE
  Timeout = 1
  Grace = 0
  Window = 1
  MaxCalls = 1
  Timely = TRUE
  MaxIntents = 3
  MaxAttempts = 2
  MaxTime = 3
INVARIANTS AtMostOnce LookupIsQuiet ChainIsALine
PROPERTIES KeepsPromise NoFreshSendOverAnOpenOne
CONSTRAINTS OneKey Breadth
SYMMETRY Symmetry
CHECK_DEADLOCK FALSE
