CONSTANTS
  Models = {m1, m2}
  Gpus = {g0}
  CpuId = cpu
  MaxRequests = 3
  MaxLoads = 3
  Workload <- AnyModel
  MaxQueue = 3
  MaxRunners = 2
  ModelsPerGpu = 2
  NumParallel = 1
  DefaultParallel = 2
  KeepAlive = 1
  Forever = 2
  RefMod = 8
  Fits = {TRUE, FALSE}
  Faults = {}
  MaxStops = 1
  MayShutdown = FALSE
  Keeps = {0, 1}
  NumCtxs = {1}
  Cpu = {FALSE}
SPECIFICATION Spec
INVARIANTS
  TypeOK
  NoLostWakeup
PROPERTIES
  UnloadsOnlyIdle
  NoEntryOverwritten
CHECK_DEADLOCK FALSE
