CONSTANTS
  d1 = d1  d2 = d2  d3 = d3  c1 = c1  c2 = c2  c3 = c3
  Drivers = {d1, d2}
  First = d1
  Detached = {d2}
  Granted = {}
  Clients = {c1, c2, c3}
  Job <- RetryNoteStop
  TakesLock = TRUE
  Supervised = TRUE
  OtherRun = other
  Nobody = nobody
  MaxCrashes = 1
SPECIFICATION Spec
INVARIANTS PassedOverOnlyByAStop AppliedOnce
CHECK_DEADLOCK FALSE
