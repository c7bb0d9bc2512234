CONSTANTS
  Models = {m1, m2, m3}
  Gpus = {g0}
  CpuId = cpu
  MaxRequests = 3
  MaxLoads = 3
  Workload <- AnyModel
  MaxQueue = 3
  MaxRunners = 2
  ModelsPerGpu = 2
  NumParallel = 1
  DefaultParallel = 2
  KeepAlive = 2
  Forever = 2
  RefMod = 8
  Fits = {TRUE, FALSE}
  Faults = {}
  MaxStops = 0
  MayShutdown = FALSE
  Keeps = {2}
  NumCtxs = {1}
  Cpu = {FALSE}
SPECIFICATION FairSpec
INVARIANTS
  RefCountExact
  InUseRunnerIsLive
  AtMostMaxRunners
PROPERTIES
  RequestsAnswered
CHECK_DEADLOCK FALSE
