SPECIFICATION Spec
CONSTANTS
  Models = {m1, m2}
  NParts = 2
  PartSize = 1
  MaxRetries = 1
  DiskFaults = {}
  Deliveries = {TRUE}
  NoPrune = FALSE
  MaxPulls = 3
  MaxUpsets = 0
PROPERTIES
  ResumesWhereLeftOff
CHECK_DEADLOCK FALSE
