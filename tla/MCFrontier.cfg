CONSTANTS
  Graphs <- MCGraphs
  MaxParallel = 2
  MaxCrashes <- MCCrashes
  MaxPauses <- MCPauses
SPECIFICATION FairSpec
INVARIANTS DriveInv RoundsAreWhole JoinsWait NothingIsForgotten DeadEndsAreReal PausesAreResumable RunsOnce
PROPERTIES RunsEnd
CHECK_DEADLOCK FALSE
