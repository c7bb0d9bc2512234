SPECIFICATION Spec
CONSTANTS
  Graphs <- MCGraphs
  Others <- MCOthers
  Tokens = {1, 2}
  Alignment = 2
  Half = 40
  AllocMayFail = TRUE
  MayChangeGraph = FALSE
  MaxCalls = 3
INVARIANTS TypeOK BlocksExact ReadsIntact OutputsIntact InBounds
CHECK_DEADLOCK FALSE
