SPECIFICATION FairSpec
CONSTANTS
  p1 = p1
  p2 = p2
  k1 = k1
  k2 = k2
  Callers = {p1, p2}
  Keys = {k1}
  NoKey = NoKey
  Mode <- MarkerMode
  OnUnknown <- Refuses
  ListItem = FALSE
  Timeout = 0
  Grace = 0
  Window = 2
  MaxCalls = 2
  Timely = FALSE
  MaxIntents = 2
  MaxAttempts = 1
  MaxTime = 1
INVARIANTS SettlementsAreTrue OneSenderPerChain SendInv
PROPERTIES FlightsEnd
CHECK_DEADLOCK FALSE
