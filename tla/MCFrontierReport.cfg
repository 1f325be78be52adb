CONSTANTS
  Graphs <- ReportGraphs
  MaxParallel = 2
  MaxCrashes <- NoBreak
  MaxPauses <- NoBreak
SPECIFICATION Spec
INVARIANTS NoJoinWaitsForever
CHECK_DEADLOCK FALSE
