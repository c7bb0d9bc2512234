CONSTANTS
  Models = {m1, m2, m3}
  Gpus = {g0}
  CpuId = cpu
  MaxRequests = 3
  MaxLoads = 3
  Workload <- OwnModel
  MaxQueue = 3
  MaxRunners = 1
  ModelsPerGpu = 2
  NumParallel = 1
  DefaultParallel = 2
  KeepAlive = 1
  Forever = 2
  RefMod = 8
  Fits = {TRUE, FALSE}
  Faults = {}
  MaxStops = 0
  MayShutdown = FALSE
  Keeps <- KeepShort
  NumCtxs = {1}
  Cpu = {FALSE}
SPECIFICATION FairSpec
PROPERTIES
  RunnersUnloaded
CHECK_DEADLOCK FALSE
