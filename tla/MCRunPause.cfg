CONSTANTS
  d1 = d1  d2 = d2  d3 = d3  c1 = c1  c2 = c2  c3 = c3
  Drivers = {d1}
  First = d1
  Detached = {}
  Granted = {}
  Clients = {c1}
  Job <- JustPause
  TakesLock = TRUE
  Supervised = FALSE
  OtherRun = other
  Nobody = nobody
  MaxCrashes = 0
SPECIFICATION Spec
INVARIANTS NoPauseOfAnEndedRun
CHECK_DEADLOCK FALSE
