CONSTANTS
  n1 = n1
  n2 = n2
  d1 = d1
  d2 = d2
  w1 = w1
  w2 = w2
  p1 = p1
  Nodes = {n1}
  Delay <- OneDelay
  ReleaseAfter = 1
  Drivers = {d1, d2}
  First = d1
  Wakers = {w1, w2}
  Passes = {p1}
  OtherRun = other
  Nobody = nobody
  MaxRetries = 1
  PauseFor = 1
  MaxAsks = 1
  MaxOther = 1
  MaxQuota = 1
  MaxCrashes = 1
  Refusals = TRUE
SPECIFICATION FairSpec
PROPERTY EveryWaitEnds
CHECK_DEADLOCK FALSE
