CONSTANTS
  Models = {m1, m2}
  Gpus = {g0}
  CpuId = cpu
  MaxRequests = 2
  MaxLoads = 2
  Workload <- AnyModel
  MaxQueue = 1
  MaxRunners = 0
  ModelsPerGpu = 2
  NumParallel = 0
  DefaultParallel = 2
  KeepAlive = 1
  Forever = 2
  RefMod = 8
  Fits = {TRUE, FALSE}
  Faults = {"model", "server", "wait", "ping", "cancel"}
  MaxStops = 0
  MayShutdown = TRUE
  Keeps = {1}
  NumCtxs = {1, 2}
  Cpu = {FALSE, TRUE}
SPECIFICATION Spec
INVARIANTS
  IdleRunnerExpires
  RequestNeverLost
CHECK_DEADLOCK FALSE
