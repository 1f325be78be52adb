CONSTANTS
  d1 = d1  d2 = d2  d3 = d3  c1 = c1  c2 = c2  c3 = c3
  Drivers = {d1, d2, d3}
  First = d1
  Detached = {d2}
  Granted = {}
  Clients = {c1, c2, c3}
  Job <- StopPauseKeep
  TakesLock = TRUE
  Supervised = FALSE
  OtherRun = other
  Nobody = nobody
  MaxCrashes = 0
SPECIFICATION Spec
INVARIANTS ResumesWhatItPlanned OneWriter KeptLockHolds
PROPERTIES NamedDriverHeedsStops
CHECK_DEADLOCK FALSE
