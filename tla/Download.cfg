SPECIFICATION FairSpec
CONSTANTS
  Models = {m1, m2}
  NParts = 2
  PartSize = 2
  MaxRetries = 1
  DiskFaults = {"write", "partial"}
  Deliveries = {TRUE}
  NoPrune = FALSE
  MaxPulls = 2
  MaxUpsets = 2
INVARIANTS
  ManifestIntactUnlessRobbed
  CompletedWritten
  OneWriter
  RefsExact
PROPERTIES
  ImplementsPull
  WaitersReturn
CHECK_DEADLOCK FALSE
