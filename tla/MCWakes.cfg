CONSTANTS
  n1 = n1
  n2 = n2
  d1 = d1
  d2 = d2
  w1 = w1
  w2 = w2
  p1 = p1
  Nodes = {n1, n2}
  Delay <- Delays
  ReleaseAfter = 1
  Drivers = {d1, d2}
  First = d1
  Wakers = {w1, w2}
  Passes = {p1}
  OtherRun = other
  Nobody = nobody
  MaxRetries = 1
  PauseFor = 1
  MaxAsks = 2
  MaxOther = 0
  MaxQuota = 1
  MaxCrashes = 0
  Refusals = FALSE
SPECIFICATION Spec
INVARIANTS TypeOK ReleasedIsUndriven NewsHasAReader WaitIsWatched
PROPERTIES WokenInTime
SYMMETRY Symmetric
CHECK_DEADLOCK FALSE
