SPECIFICATION FairSpec
CONSTANTS
  NThreads = 3
  ThreadCounts = {2, 3}
  MayResize = FALSE
  Graph <- MCGraph
  NNodes = 2
  MatChunks = 4
  ChunkFactor = 2
  MayAbort = TRUE
  MaxGraphs = 3
INVARIANTS
  TypeOK
  QuietWorkers
  BarrierCount
PROPERTIES
  ImplementsLoop
  GraphReturns
  PoolFreed
CHECK_DEADLOCK FALSE
