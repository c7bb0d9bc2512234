----------------------------- MODULE Scheduler -----------------------------
(***************************************************************************)
(* The model scheduler of ollama/server/sched.go: the goroutine            *)
(* processPending that gives every queued request a runner, the goroutine  *)
(* processCompleted that counts finished requests and unloads idle         *)
(* runners, and the goroutines they start (the loader of a model, the      *)
(* expiration timer of a runner, the waiter for the end of a request, the  *)
(* delayed re-queue), the handler that stops a model and the shutdown.     *)
(*                                                                         *)
(* Each action is a stretch of code between two points where its goroutine *)
(* can block or be overtaken: a mutex acquired, a channel operation.  A    *)
(* mutex that is released before its goroutine can block again is never    *)
(* seen held, so refMu and loadedMu only record the owners that hold them  *)
(* across such a point.                                                    *)
(*                                                                         *)
(* A definition that stands right before another one and bears its name    *)
(* with a suffix or a telling name (Unlocked and NoMutex, Dec and          *)
(* DecUnchecked) is a slip one could make there; it is used only to see    *)
(* that a property notices it.                                             *)
(***************************************************************************)
EXTENDS Integers, Sequences, FiniteSets

CONSTANTS
  Models,          \* model paths, the keys of the map of loaded runners
  Gpus,            \* IDs of the GPUs that discover.GetGPUInfo reports
  CpuId,           \* ID of the single entry of discover.GetCPUInfo
  MaxRequests,     \* bound: requests made in a behaviour
  MaxLoads,        \* bound: runners created in a behaviour
  Workload,        \* request number -> the options its client may choose
  MaxQueue,        \* OLLAMA_MAX_QUEUE, the capacity of the four channels
  MaxRunners,      \* OLLAMA_MAX_LOADED_MODELS, 0 when it is not set
  ModelsPerGpu,    \* defaultModelsPerGPU (1 with unreliable memory reports)
  NumParallel,     \* OLLAMA_NUM_PARALLEL, 0 when it is not set
  DefaultParallel, \* defaultParallel
  KeepAlive,       \* OLLAMA_KEEP_ALIVE, a duration
  Forever,         \* the duration a negative keep_alive stands for
  RefMod,          \* number of values of the unsigned refCount
  Fits,            \* the answers the memory estimate may give, a set of BOOLEANs
  Faults,          \* what may fail: "model", "server", "wait", "ping", "cancel"
  MaxStops,        \* bound: requests to stop a model
  MayShutdown      \* whether the server may be asked to shut down

Requests == 1 .. MaxRequests
Runners == 1 .. MaxLoads
NoRequest == 0
NoRunner == 0
Default == -1      \* a request without keep_alive (sessionDuration nil)
Gpu == Gpus \union {CpuId}

(* What a client chooses: the model, keep_alive, num_ctx (already raised   *)
(* to the minimum of 4 by GetRunner) and whether num_gpu is 0.             *)
Options == [model : Models, keep : Nat \union {Default}, numCtx : Nat \ {0},
            cpu : BOOLEAN]

ASSUME SchedulerAssumption ==
  /\ MaxRequests \in Nat /\ MaxLoads \in Nat
  /\ Workload \in [Requests -> SUBSET Options]
  /\ IsFiniteSet(Gpus) /\ Gpus # {} /\ IsFiniteSet(Models) /\ Models # {}
  /\ MaxQueue \in Nat \ {0} /\ MaxRunners \in Nat
  /\ ModelsPerGpu \in Nat \ {0}
  /\ NumParallel \in Nat /\ DefaultParallel \in Nat \ {0}
  /\ KeepAlive \in Nat /\ Forever \in Nat \ {0}
  /\ RefMod \in Nat /\ RefMod > 2
  /\ Fits \subseteq BOOLEAN
  /\ MaxStops \in Nat /\ MayShutdown \in BOOLEAN

VARIABLES
  pendingReqCh, finishedReqCh, expiredCh, \* buffered channels
  unloadedCh,   \* number of empty messages in the channel of that name
  loaded,       \* model path -> its runner, or NoRunner
  loadedMu,     \* who holds the mutex of the map across a blocking point
  maxRunners,   \* OLLAMA_MAX_LOADED_MODELS, which the scheduler itself sets
  \* runnerRef, by runner
  info,         \* what it was created with, and for which request
  llama,        \* its subprocess: "closed" by unloadAllRunners, "nil" by unload
  loading,      \* the flag of that name
  refMu,        \* who holds its mutex across a blocking point
  refCount,     \* unsigned count of the requests that use it
  wrapped,      \* history: runners whose refCount went below zero or overflowed
  duration,     \* sessionDuration
  timer,        \* expireTimer
  firing,       \* callbacks of expired timers that have not run yet
  retry,        \* goroutines that will repeat an expired event
  \* LlmRequest, by request; requests 1..submitted have been made
  submitted,
  opts,         \* what the client chose
  numCtx,       \* opts.NumCtx, which placement changes
  answer, got,  \* what the handler received: a runner (got) or an error
  done,         \* the context is cancelled
  task,         \* its goroutine: will re-queue it, or waits for its context
  \* program counters and local variables of the two loops
  pPC, pReq, pRunner, pList, pTodo, pGpus, pPar,
  cPC, cReq, cRunner,
  stopping,     \* the runner that a stop handler is expiring
  stops,        \* requests to stop a model made so far
  phase         \* "run", "done" (context cancelled) or "closed" (and unloaded)

chans == <<pendingReqCh, finishedReqCh, expiredCh, unloadedCh>>
maps == <<loaded, loadedMu, maxRunners>>
life == <<info, llama, loading>>
refs == <<refCount, wrapped>>
keeps == <<duration, timer>>
events == <<firing, retry>>
runners == <<life, refMu, refs, keeps, events>>
replies == <<answer, got>>
reqs == <<submitted, opts, numCtx, replies, done, task>>
scan == <<pList, pTodo>>
place == <<pGpus, pPar>>
pvars == <<pPC, pReq, pRunner, scan, place>>
cvars == <<cPC, cReq, cRunner>>
ctl == <<stopping, stops, phase>>
vars == <<chans, maps, runners, reqs, pvars, cvars, ctl>>

RunnerInfo ==
  [modelPath : Models, gpus : SUBSET Gpu, numCtx : Nat,
   numParallel : Nat \ {0}, req : Requests \union {NoRequest}]

(* What stands for the options of a request that was not made yet and for  *)
(* the fields of a runner that does not exist yet.                         *)
NoOptions == [model |-> CHOOSE m \in Models : TRUE, keep |-> Default,
              numCtx |-> 1, cpu |-> FALSE]
NoInfo == [modelPath |-> NoOptions.model, gpus |-> {}, numCtx |-> 0,
           numParallel |-> 1, req |-> NoRequest]

(* refMu is held by the loader goroutine, by the end of a failed load or a *)
(* timer callback that still has to send, by a loop or by a stop handler.  *)
RefMuOwners == {"free", "loader", "failed", "timer", "pending", "completed", "stopper"}
PendingPCs == {"select", "lookup", "check", "use", "find", "findCpu", "scan",
               "filter", "sum", "summing", "load", "expire", "send", "wait", "exit"}
CompletedPCs == {"select", "finished", "finish", "send", "expired", "unload",
                 "recover", "exit"}

ChannelsOK ==
  /\ pendingReqCh \in Seq(Requests) /\ finishedReqCh \in Seq(Requests)
  /\ expiredCh \in Seq(Runners) /\ unloadedCh \in Nat
LoadedOK ==
  /\ loaded \in [Models -> Runners \union {NoRunner}]
  /\ loadedMu \in {"free", "pending", "stopper"} /\ maxRunners \in Nat
LifeOK ==
  /\ info \in [Runners -> RunnerInfo]
  /\ llama \in [Runners -> {"none", "open", "closed", "nil"}]
  /\ loading \in [Runners -> BOOLEAN]
RefsOK ==
  /\ refMu \in [Runners -> RefMuOwners]
  /\ refCount \in [Runners -> 0 .. RefMod - 1] /\ wrapped \in SUBSET Runners
TimersOK ==
  /\ duration \in [Runners -> Nat] /\ timer \in [Runners -> {"nil", "armed", "fired"}]
  /\ firing \in [Runners -> Nat] /\ retry \in [Runners -> Nat]
RequestsOK ==
  /\ submitted \in 0 .. MaxRequests
  /\ opts \in [Requests -> Options] /\ numCtx \in [Requests -> Nat]
  /\ answer \in [Requests -> {"none", "runner", "error"}]
  /\ got \in [Requests -> Runners \union {NoRunner}]
  /\ done \in [Requests -> BOOLEAN]
  /\ task \in [Requests -> {"none", "requeue", "finish"}]
PendingOK ==
  /\ pPC \in PendingPCs /\ pReq \in Requests \union {NoRequest}
  /\ pRunner \in Runners \union {NoRunner}
  /\ pList \in Seq(Runners) /\ pTodo \in SUBSET Runners
  /\ pGpus \in SUBSET Gpu /\ pPar \in Nat \ {0}
CompletedOK ==
  /\ cPC \in CompletedPCs /\ cReq \in Requests \union {NoRequest}
  /\ cRunner \in Runners \union {NoRunner}
ControlOK ==
  /\ stopping \in Runners \union {NoRunner}
  /\ stops \in 0 .. MaxStops /\ phase \in {"run", "done", "closed"}

(* The type invariant.  Its one surprise is that refCount stays within its *)
(* unsigned range: a finished request that is counted off a runner it was  *)
(* never given (see LookupFinished) wraps the count instead.               *)
TypeOK ==
  /\ ChannelsOK /\ LoadedOK /\ LifeOK /\ RefsOK /\ TimersOK
  /\ RequestsOK /\ PendingOK /\ CompletedOK /\ ControlOK

Init ==
  /\ pendingReqCh = <<>> /\ finishedReqCh = <<>>
  /\ expiredCh = <<>> /\ unloadedCh = 0
  /\ loaded = [m \in Models |-> NoRunner]
  /\ loadedMu = "free" /\ maxRunners = MaxRunners
  /\ info = [r \in Runners |-> NoInfo] /\ llama = [r \in Runners |-> "none"]
  /\ loading = [r \in Runners |-> FALSE]
  /\ refMu = [r \in Runners |-> "free"]
  /\ refCount = [r \in Runners |-> 0] /\ wrapped = {}
  /\ duration = [r \in Runners |-> 0] /\ timer = [r \in Runners |-> "nil"]
  /\ firing = [r \in Runners |-> 0] /\ retry = [r \in Runners |-> 0]
  /\ submitted = 0 /\ opts = [q \in Requests |-> NoOptions]
  /\ numCtx = [q \in Requests |-> 1]
  /\ answer = [q \in Requests |-> "none"] /\ got = [q \in Requests |-> NoRunner]
  /\ done = [q \in Requests |-> FALSE] /\ task = [q \in Requests |-> "none"]
  /\ pPC = "select" /\ pReq = NoRequest /\ pRunner = NoRunner
  /\ pList = <<>> /\ pTodo = {} /\ pGpus = {} /\ pPar = 1
  /\ cPC = "select" /\ cReq = NoRequest /\ cRunner = NoRunner
  /\ stopping = NoRunner /\ stops = 0 /\ phase = "run"

-----------------------------------------------------------------------------
(* Clients: the HTTP handlers that ask for a runner.                       *)

HasRoom(ch) == Len(ch) < MaxQueue

(* scheduleRunner calls GetRunner and then waits for one of its channels.  *)
(* A full queue is answered at once with ErrMaxQueue.                      *)
GetRunner ==
  LET q == submitted + 1 IN
  /\ submitted < MaxRequests /\ phase = "run"
  /\ submitted' = q
  /\ \E o \in Workload[q] :
       /\ opts' = [opts EXCEPT ![q] = o]
       /\ numCtx' = [numCtx EXCEPT ![q] = o.numCtx]
  /\ \/ /\ HasRoom(pendingReqCh)
        /\ pendingReqCh' = Append(pendingReqCh, q) /\ UNCHANGED answer
     \/ /\ ~HasRoom(pendingReqCh)
        /\ answer' = [answer EXCEPT ![q] = "error"] /\ UNCHANGED pendingReqCh
  /\ UNCHANGED <<finishedReqCh, expiredCh, unloadedCh, maps, runners, got, done,
                 task, pvars, cvars, ctl>>

(* The handler of an answered request returns and net/http cancels the     *)
(* request's context; a client may also disconnect while it waits, and     *)
(* shutdown closes its connection.                                         *)
ContextDone(q) ==
  /\ q <= submitted /\ ~done[q]
  /\ \/ answer[q] = "runner"
     \/ answer[q] = "none" /\ ("cancel" \in Faults \/ phase # "run")
  /\ done' = [done EXCEPT ![q] = TRUE]
  /\ UNCHANGED <<chans, maps, runners, submitted, opts, numCtx, replies, task,
                 pvars, cvars, ctl>>

(* The goroutine that useLoadedRunner or load started for the request.     *)
SendFinished(q) ==
  /\ task[q] = "finish" /\ done[q] /\ HasRoom(finishedReqCh)
  /\ finishedReqCh' = Append(finishedReqCh, q)
  /\ task' = [task EXCEPT ![q] = "none"]
  /\ UNCHANGED <<pendingReqCh, expiredCh, unloadedCh, maps, runners, submitted,
                 opts, numCtx, replies, done, pvars, cvars, ctl>>

-----------------------------------------------------------------------------
(* processPending: one pending request at a time.                          *)

LoadedRunners == {loaded[m] : m \in Models} \ {NoRunner}
NoMutex(r) == TRUE
Unlocked(r) == refMu[r] = "free"
IdleOffByOne(r) == refCount[r] <= 1
Idle(r) == refCount[r] = 0

(* The values numParallel may take for a request, and the last one tried   *)
(* by pickBestFullFitByLibrary when none fits.                             *)
ParallelToTry == IF NumParallel = 0 THEN {DefaultParallel, 1} ELSE {NumParallel}
LastParallel == IF NumParallel = 0 THEN 1 ELSE NumParallel
CpuParallel == IF NumParallel = 0 THEN DefaultParallel ELSE NumParallel

(* The end of an iteration: the request was answered or handed on.         *)
NextPending ==
  /\ pPC' = "select" /\ pReq' = NoRequest /\ pRunner' = NoRunner
  /\ pList' = <<>> /\ pTodo' = {} /\ pGpus' = {} /\ pPar' = 1

(* A request whose context is already cancelled is dropped.                *)
ReceivePending ==
  /\ pPC = "select" /\ pendingReqCh # <<>>
  /\ pendingReqCh' = Tail(pendingReqCh)
  /\ IF done[Head(pendingReqCh)] THEN UNCHANGED <<pPC, pReq>>
     ELSE pPC' = "lookup" /\ pReq' = Head(pendingReqCh)
  /\ UNCHANGED <<finishedReqCh, expiredCh, unloadedCh, maps, runners, reqs,
                 pRunner, scan, place, cvars, ctl>>

IgnoreUnload ==
  /\ pPC = "select" /\ unloadedCh > 0
  /\ unloadedCh' = unloadedCh - 1
  /\ UNCHANGED <<pendingReqCh, finishedReqCh, expiredCh, maps, runners, reqs,
                 pvars, cvars, ctl>>

(* The look-up of the request's model, with the number of loaded models.   *)
PModel == opts[pReq].model
ForCpu == opts[pReq].cpu
FullOffByOne == maxRunners > 0 /\ Cardinality(LoadedRunners) > maxRunners
Full == maxRunners > 0 /\ Cardinality(LoadedRunners) >= maxRunners
LookUp == pPC = "lookup" /\ loadedMu = "free"
RoomIgnoresLoaded == LookUp /\ ~Full
Room == LookUp /\ loaded[PModel] = NoRunner /\ ~Full

FoundLoaded ==
  /\ LookUp /\ loaded[PModel] # NoRunner
  /\ pPC' = "check" /\ pRunner' = loaded[PModel]
  /\ UNCHANGED <<chans, maps, runners, reqs, pReq, scan, place, cvars, ctl>>

MaxRunnersAchieved ==
  /\ LookUp /\ loaded[PModel] = NoRunner /\ Full
  /\ pPC' = "find"
  /\ UNCHANGED <<chans, maps, runners, reqs, pReq, pRunner, scan, place, cvars, ctl>>

(* The first placement fixes the limit when the user set none.             *)
SetMaxRunners ==
  maxRunners' = IF maxRunners > 0 THEN maxRunners
                ELSE ModelsPerGpu * IF ForCpu THEN 1 ELSE Cardinality(Gpus)

LoadModelFails ==
  /\ Room /\ "model" \in Faults
  /\ SetMaxRunners
  /\ answer' = [answer EXCEPT ![pReq] = "error"]
  /\ NextPending
  /\ UNCHANGED <<chans, loaded, loadedMu, runners, submitted, opts, numCtx, got,
                 done, task, cvars, ctl>>

(* The chosen GPUs and parallelism, with the context stretched to match.   *)
PlaceOn(gpus, par, pc) ==
  /\ numCtx' = [numCtx EXCEPT ![pReq] = opts[pReq].numCtx * par]
  /\ pPC' = pc /\ pGpus' = gpus /\ pPar' = par
  /\ UNCHANGED <<chans, loaded, runners, submitted, opts, replies, done, task,
                 pReq, pRunner, scan, cvars, ctl>>

(* CPU only: load at once when it is the first model or the memory         *)
(* suffices, else look for a runner to unload.                             *)
PlaceOnCpu ==
  /\ Room /\ ForCpu /\ SetMaxRunners /\ UNCHANGED loadedMu
  /\ \/ /\ LoadedRunners = {} \/ TRUE \in Fits
        /\ PlaceOn({CpuId}, CpuParallel, "load")
     \/ /\ LoadedRunners # {} /\ FALSE \in Fits
        /\ PlaceOn({CpuId}, CpuParallel, "findCpu")

(* The first model is loaded whether it fits the GPUs fully or in part.    *)
PlaceFirst ==
  /\ Room /\ ~ForCpu /\ LoadedRunners = {} /\ SetMaxRunners /\ UNCHANGED loadedMu
  /\ \E gpus \in SUBSET Gpus \ {{}}, par \in ParallelToTry :
       PlaceOn(gpus, par, "load")

PlaceAmongOthers ==
  /\ Room /\ ~ForCpu /\ LoadedRunners # {} /\ SetMaxRunners
  /\ pPC' = "filter"
  /\ UNCHANGED <<chans, loaded, loadedMu, runners, reqs, pReq, pRunner, scan,
                 place, cvars, ctl>>

(* filterGPUsWithoutLoadingModels: GPUs are told apart by their ID alone.  *)
GpusWithoutLoading ==
  Gpus \ UNION {info[r].gpus : r \in {s \in LoadedRunners : loading[s]}}

FilterGpus ==
  /\ pPC = "filter" /\ loadedMu = "free"
  /\ pPC' = "sum" /\ pGpus' = GpusWithoutLoading
  /\ UNCHANGED <<chans, maps, runners, reqs, pReq, pRunner, scan, pPar, cvars, ctl>>

(* updateFreeSpace keeps loadedMu while it locks every loaded runner.      *)
UpdateFreeSpace ==
  /\ pPC = "sum" /\ loadedMu = "free"
  /\ loadedMu' = "pending"
  /\ pPC' = "summing" /\ pTodo' = LoadedRunners
  /\ UNCHANGED <<chans, loaded, maxRunners, runners, reqs, pReq, pRunner, pList,
                 place, cvars, ctl>>

SumRunner(r) ==
  /\ pPC = "summing" /\ r \in pTodo /\ Unlocked(r)
  /\ pTodo' = pTodo \ {r}
  /\ UNCHANGED <<chans, maps, runners, reqs, pPC, pReq, pRunner, pList, place,
                 cvars, ctl>>

(* pickBestFullFitByLibrary on the GPUs left: the model fits some of them  *)
(* and is loaded there ...                                                 *)
Summed == pPC = "summing" /\ pTodo = {}
PickFit ==
  /\ Summed /\ TRUE \in Fits
  /\ loadedMu' = "free" /\ UNCHANGED maxRunners
  /\ \E gpus \in SUBSET pGpus \ {{}}, par \in ParallelToTry :
       PlaceOn(gpus, par, "load")

(* ... or it fits none of them; numCtx keeps the last value tried.  If     *)
(* other models are still loading the request is tried again later, else   *)
(* room is made for it.                                                    *)
NoFit ==
  /\ Summed /\ (FALSE \in Fits \/ pGpus = {})
  /\ loadedMu' = "free"
  /\ numCtx' = IF pGpus = {} THEN numCtx
               ELSE [numCtx EXCEPT ![pReq] = opts[pReq].numCtx * LastParallel]
  /\ UNCHANGED <<chans, loaded, maxRunners, runners, submitted, opts, replies,
                 done, cvars, ctl>>

DelayRequest ==
  /\ NoFit /\ pGpus # Gpus
  /\ task' = [task EXCEPT ![pReq] = "requeue"]
  /\ NextPending

MakeRoom ==
  /\ NoFit /\ pGpus = Gpus
  /\ pPC' = "find" /\ pGpus' = {}
  /\ UNCHANGED <<task, pReq, pRunner, scan, pPar>>

(* The re-queueing goroutine; it blocks while the queue is full.           *)
Requeue(q) ==
  /\ task[q] = "requeue" /\ HasRoom(pendingReqCh)
  /\ pendingReqCh' = Append(pendingReqCh, q)
  /\ task' = [task EXCEPT ![q] = "none"]
  /\ UNCHANGED <<finishedReqCh, expiredCh, unloadedCh, maps, runners, submitted,
                 opts, numCtx, replies, done, pvars, cvars, ctl>>

(* needsReload: the runner is gone or its options differ from those of the *)
(* request (numCtx is that of all its slots; num_gpu counts only if the    *)
(* request sets it) ...                                                    *)
MustReload(r, q) ==
  \/ llama[r] # "open"
  \/ info[r].numCtx \div info[r].numParallel # numCtx[q]
  \/ opts[q].cpu /\ ~opts[info[r].req].cpu

(* ... or its subprocess does not answer a ping, which is sent under the   *)
(* context of the scheduler itself.                                        *)
NeedsReload ==
  /\ pPC = "check" /\ Unlocked(pRunner)
  /\ \/ /\ MustReload(pRunner, pReq) \/ "ping" \in Faults \/ phase # "run"
        /\ pPC' = "expire"
     \/ /\ ~MustReload(pRunner, pReq) /\ phase = "run"
        /\ pPC' = "use"
  /\ UNCHANGED <<chans, maps, runners, reqs, pReq, pRunner, scan, place, cvars, ctl>>

(* refCount is an unsigned integer: it wraps in both directions.           *)
IncSkipped(n) == n
Inc(n) == IF n = RefMod - 1 THEN 0 ELSE n + 1
DecUnchecked(n) == n - 1
Dec(n) == IF n = 0 THEN RefMod - 1 ELSE n - 1

(* The client is waiting on successCh, so the hand-over does not block.    *)
Serve(q, r) ==
  /\ answer' = [answer EXCEPT ![q] = "runner"]
  /\ got' = [got EXCEPT ![q] = r]
  /\ task' = [task EXCEPT ![q] = "finish"]
  /\ UNCHANGED <<submitted, opts, numCtx, done>>

UseLoadedRunner ==
  LET r == pRunner
      keep == opts[pReq].keep IN
  /\ pPC = "use" /\ Unlocked(r)
  /\ refCount' = [refCount EXCEPT ![r] = Inc(@)]
  /\ wrapped' = IF refCount[r] = RefMod - 1 THEN wrapped \union {r} ELSE wrapped
  /\ timer' = [timer EXCEPT ![r] = "nil"]
  /\ duration' = IF keep = Default THEN duration ELSE [duration EXCEPT ![r] = keep]
  /\ Serve(pReq, r)
  /\ NextPending
  /\ UNCHANGED <<chans, maps, life, refMu, events, cvars, ctl>>

(* findRunnerToUnload: the loaded runners, shortest duration first (the    *)
(* sort is not stable), then the first idle one of them, else the first.   *)
ByDuration(S) ==
  {s \in [1 .. Cardinality(S) -> S] :
     \A i, j \in DOMAIN s :
        i < j => s[i] # s[j] /\ duration[s[i]] <= duration[s[j]]}

FindRunnerToUnload ==
  /\ pPC \in {"find", "findCpu"} /\ loadedMu = "free"
  /\ \/ /\ LoadedRunners = {}
        /\ pPC' = IF pPC = "findCpu" THEN "load" ELSE "lookup"
        /\ UNCHANGED <<pRunner, pList, place>>
     \/ /\ LoadedRunners # {}
        /\ pList' \in ByDuration(LoadedRunners)
        /\ pRunner' = pList'[1] /\ pPC' = "scan" /\ pGpus' = {} /\ pPar' = 1
  /\ UNCHANGED <<chans, maps, runners, reqs, pReq, pTodo, cvars, ctl>>

ScanRunner ==
  LET r == Head(pList) IN
  /\ pPC = "scan" /\ Unlocked(r)
  /\ pList' = IF Idle(r) THEN <<>> ELSE Tail(pList)
  /\ pRunner' = IF Idle(r) THEN r ELSE pRunner
  /\ pPC' = IF Idle(r) \/ Tail(pList) = <<>> THEN "expire" ELSE "scan"
  /\ UNCHANGED <<chans, maps, runners, reqs, pReq, pTodo, place, cvars, ctl>>

(* newServerFn fails before anything is recorded.                          *)
NewServerFailsSilently ==
  /\ pPC = "load" /\ "server" \in Faults
  /\ NextPending
  /\ UNCHANGED <<chans, maps, runners, reqs, cvars, ctl>>
NewServerFails ==
  /\ pPC = "load" /\ "server" \in Faults
  /\ answer' = [answer EXCEPT ![pReq] = "error"]
  /\ NextPending
  /\ UNCHANGED <<chans, maps, runners, submitted, opts, numCtx, got, done, task,
                 cvars, ctl>>

(* load: the new runner enters the map with its mutex already held by the  *)
(* loader goroutine.                                                       *)
Load ==
  /\ pPC = "load" /\ loadedMu = "free"
  /\ \E r \in Runners :
       /\ llama[r] = "none" /\ \A s \in Runners : llama[s] = "none" => r <= s
       /\ info' = [info EXCEPT ![r] =
                     [modelPath |-> PModel, gpus |-> pGpus, numCtx |-> numCtx[pReq],
                      numParallel |-> pPar, req |-> pReq]]
       /\ llama' = [llama EXCEPT ![r] = "open"]
       /\ loading' = [loading EXCEPT ![r] = TRUE]
       /\ refMu' = [refMu EXCEPT ![r] = "loader"]
       /\ refCount' = [refCount EXCEPT ![r] = 1]
       /\ duration' = [duration EXCEPT ![r] =
                         IF opts[pReq].keep = Default THEN KeepAlive ELSE opts[pReq].keep]
       /\ loaded' = [loaded EXCEPT ![PModel] = r]
  /\ NextPending
  /\ UNCHANGED <<chans, loadedMu, maxRunners, wrapped, timer, events, reqs, cvars, ctl>>

(* The loader goroutine: WaitUntilRunning returns ...                      *)
LoadSucceeds(r) ==
  /\ refMu[r] = "loader" /\ llama[r] = "open"
  /\ loading' = [loading EXCEPT ![r] = FALSE]
  /\ refMu' = [refMu EXCEPT ![r] = "free"]
  /\ Serve(info[r].req, r)
  /\ UNCHANGED <<chans, maps, info, llama, refs, keeps, events, pvars, cvars, ctl>>

(* ... or the subprocess ended, the load stalled or the client left.  The  *)
(* runner is then expired, still under its mutex.                          *)
FailLoad(r, owner) ==
  /\ refMu[r] = "loader"
  /\ "wait" \in Faults \/ done[info[r].req] \/ llama[r] = "closed"
  /\ refCount' = [refCount EXCEPT ![r] = Dec(@)]
  /\ refMu' = [refMu EXCEPT ![r] = owner]
  /\ answer' = [answer EXCEPT ![info[r].req] = "error"]
  /\ UNCHANGED <<chans, maps, life, wrapped, keeps, events, submitted, opts,
                 numCtx, got, done, task, pvars, cvars, ctl>>
LoadFailsUnexpired(r) == FailLoad(r, "free")
LoadFails(r) == FailLoad(r, "failed")

(* An expired event is sent under the mutex of its runner.                 *)
SendExpired(r) ==
  /\ HasRoom(expiredCh)
  /\ expiredCh' = Append(expiredCh, r)
  /\ refMu' = [refMu EXCEPT ![r] = "free"]
  /\ UNCHANGED <<pendingReqCh, finishedReqCh, unloadedCh, life, refs, keeps, events>>

(* The last step of a failed load and of a timer's callback.               *)
ExpireFailedOrTimedOut(r) ==
  /\ refMu[r] \in {"failed", "timer"} /\ SendExpired(r)
  /\ UNCHANGED <<maps, reqs, pvars, cvars, ctl>>

(* The runner to expire loses its timer and its keep-alive; it is expired  *)
(* now if it is idle, else by processCompleted when its last request ends. *)
ExpireNowKeepsDuration(r, owner) ==
  /\ timer' = [timer EXCEPT ![r] = "nil"]
  /\ refMu' = IF Idle(r) THEN [refMu EXCEPT ![r] = owner] ELSE refMu
  /\ UNCHANGED <<chans, life, refs, duration, events>>
ExpireNow(r, owner) ==
  /\ timer' = [timer EXCEPT ![r] = "nil"]
  /\ duration' = [duration EXCEPT ![r] = 0]
  /\ refMu' = IF Idle(r) THEN [refMu EXCEPT ![r] = owner] ELSE refMu
  /\ UNCHANGED <<chans, life, refs, events>>

TriggerExpiration ==
  /\ pPC = "expire" /\ Unlocked(pRunner)
  /\ ExpireNow(pRunner, "pending")
  /\ pPC' = IF Idle(pRunner) THEN "send" ELSE "wait"
  /\ UNCHANGED <<maps, reqs, pReq, pRunner, scan, place, cvars, ctl>>

SendExpiration ==
  /\ pPC = "send" /\ SendExpired(pRunner)
  /\ pPC' = "wait"
  /\ UNCHANGED <<maps, reqs, pReq, pRunner, scan, place, cvars, ctl>>

(* Any unload wakes it; it then looks the model up again.                  *)
UnloadCompleted ==
  /\ pPC = "wait" /\ unloadedCh > 0
  /\ unloadedCh' = unloadedCh - 1
  /\ pPC' = "lookup" /\ pRunner' = NoRunner
  /\ UNCHANGED <<pendingReqCh, finishedReqCh, expiredCh, maps, runners, reqs,
                 pReq, scan, place, cvars, ctl>>

StopPending ==
  /\ phase # "run" /\ pPC \in {"select", "wait"}
  /\ pPC' = "exit" /\ pReq' = NoRequest /\ pRunner' = NoRunner
  /\ UNCHANGED <<chans, maps, runners, reqs, scan, place, cvars, ctl>>

-----------------------------------------------------------------------------
(* processCompleted: finished requests and expired runners.                *)

NextCompleted == cPC' = "select" /\ cReq' = NoRequest /\ cRunner' = NoRunner

ReceiveFinished ==
  /\ cPC = "select" /\ finishedReqCh # <<>>
  /\ finishedReqCh' = Tail(finishedReqCh)
  /\ cPC' = "finished" /\ cReq' = Head(finishedReqCh)
  /\ UNCHANGED <<pendingReqCh, expiredCh, unloadedCh, maps, runners, reqs, pvars,
                 cRunner, ctl>>

(* The runner is found by the request's model, not by what the request got. *)
LookupFinished ==
  /\ cPC = "finished" /\ loadedMu = "free"
  /\ cRunner' = loaded[opts[cReq].model] /\ cReq' = NoRequest
  /\ cPC' = IF cRunner' = NoRunner THEN "select" ELSE "finish"
  /\ UNCHANGED <<chans, maps, runners, reqs, pvars, ctl>>

(* The last request of a runner has ended: expire it at once, or arm (or   *)
(* reset) its timer.                                                       *)
GoneIdleForgets(r) ==
  /\ timer' = [timer EXCEPT ![r] = IF duration[r] = 0 THEN "nil" ELSE "armed"]
  /\ NextCompleted /\ UNCHANGED refMu
GoneIdle(r) ==
  \/ /\ duration[r] = 0
     /\ timer' = [timer EXCEPT ![r] = "nil"]
     /\ refMu' = [refMu EXCEPT ![r] = "completed"]
     /\ cPC' = "send" /\ UNCHANGED <<cReq, cRunner>>
  \/ /\ duration[r] # 0
     /\ timer' = [timer EXCEPT ![r] = "armed"]
     /\ NextCompleted /\ UNCHANGED refMu

FinishRequest ==
  LET r == cRunner IN
  /\ cPC = "finish" /\ Unlocked(r)
  /\ refCount' = [refCount EXCEPT ![r] = Dec(@)]
  /\ wrapped' = IF refCount[r] = 0 THEN wrapped \union {r} ELSE wrapped
  /\ \/ refCount'[r] = 0 /\ GoneIdle(r)
     \/ refCount'[r] # 0 /\ NextCompleted /\ UNCHANGED <<timer, refMu>>
  /\ UNCHANGED <<chans, maps, life, duration, events, reqs, pvars, ctl>>

(* processCompleted is the only reader of the channel it sends to here.    *)
ExpireFinished ==
  /\ cPC = "send" /\ SendExpired(cRunner)
  /\ NextCompleted
  /\ UNCHANGED <<maps, reqs, pvars, ctl>>

ReceiveExpired ==
  /\ cPC = "select" /\ expiredCh # <<>>
  /\ expiredCh' = Tail(expiredCh)
  /\ cPC' = "expired" /\ cRunner' = Head(expiredCh)
  /\ UNCHANGED <<pendingReqCh, finishedReqCh, unloadedCh, maps, runners, reqs,
                 pvars, cReq, ctl>>

(* A runner still in use is tried again later.                             *)
ExpiredInUse ==
  /\ cPC = "expired" /\ Unlocked(cRunner) /\ ~Idle(cRunner)
  /\ retry' = [retry EXCEPT ![cRunner] = @ + 1]
  /\ NextCompleted
  /\ UNCHANGED <<chans, maps, life, refMu, refs, keeps, firing, reqs, pvars, ctl>>

ExpiredIdle ==
  /\ cPC = "expired" /\ Unlocked(cRunner) /\ Idle(cRunner)
  /\ refMu' = [refMu EXCEPT ![cRunner] = "completed"]
  /\ cPC' = "unload"
  /\ UNCHANGED <<chans, maps, life, refs, keeps, events, reqs, pvars, cReq,
                 cRunner, ctl>>

(* With refMu held, loadedMu is taken: the opposite order of               *)
(* updateFreeSpace and expireRunner.  The map entry is deleted by path.    *)
Unload ==
  /\ cPC = "unload" /\ loadedMu = "free"
  /\ llama' = [llama EXCEPT ![cRunner] = "nil"]
  /\ timer' = [timer EXCEPT ![cRunner] = "nil"]
  /\ loaded' = [loaded EXCEPT ![info[cRunner].modelPath] = NoRunner]
  /\ refMu' = [refMu EXCEPT ![cRunner] = "free"]
  /\ cPC' = "recover" /\ cRunner' = NoRunner
  /\ UNCHANGED <<chans, loadedMu, maxRunners, info, loading, refs, duration,
                 events, reqs, pvars, cReq, ctl>>

(* After waitForVRAMRecovery, which always ends (5s timeout).              *)
UnloadUnannounced ==
  /\ cPC = "recover" /\ NextCompleted
  /\ UNCHANGED <<chans, maps, runners, reqs, pvars, ctl>>
SendUnloaded ==
  /\ cPC = "recover" /\ unloadedCh < MaxQueue
  /\ unloadedCh' = unloadedCh + 1
  /\ NextCompleted
  /\ UNCHANGED <<pendingReqCh, finishedReqCh, expiredCh, maps, runners, reqs,
                 pvars, ctl>>

StopCompleted ==
  /\ phase # "run" /\ cPC = "select"
  /\ cPC' = "exit"
  /\ UNCHANGED <<chans, maps, runners, reqs, pvars, cReq, cRunner, ctl>>

(* The goroutine of ExpiredInUse.                                          *)
RetryExpired(r) ==
  /\ retry[r] > 0 /\ HasRoom(expiredCh)
  /\ retry' = [retry EXCEPT ![r] = @ - 1]
  /\ expiredCh' = Append(expiredCh, r)
  /\ UNCHANGED <<pendingReqCh, finishedReqCh, unloadedCh, maps, life, refMu, refs,
                 keeps, firing, reqs, pvars, cvars, ctl>>

-----------------------------------------------------------------------------
(* Timers, the stop handler and shutdown.                                  *)

(* A timer expires; Stop no longer keeps its callback from running.        *)
TimerFires(r) ==
  /\ timer[r] = "armed" /\ duration[r] # Forever
  /\ timer' = [timer EXCEPT ![r] = "fired"]
  /\ firing' = [firing EXCEPT ![r] = @ + 1]
  /\ UNCHANGED <<chans, maps, life, refMu, refs, duration, retry, reqs, pvars,
                 cvars, ctl>>

(* The callback does not look at refCount or at what the runner became.    *)
TimerCallback(r) ==
  /\ firing[r] > 0 /\ Unlocked(r)
  /\ firing' = [firing EXCEPT ![r] = @ - 1]
  /\ timer' = [timer EXCEPT ![r] = "nil"]
  /\ refMu' = [refMu EXCEPT ![r] = "timer"]
  /\ UNCHANGED <<chans, maps, life, refs, duration, retry, reqs, pvars, cvars, ctl>>

(* expireRunner, called by a request with an empty prompt and keep_alive 0. *)
ExpireRunner(m) ==
  /\ stops < MaxStops /\ phase = "run" /\ loadedMu = "free" /\ loaded[m] # NoRunner
  /\ stops' = stops + 1
  /\ loadedMu' = "stopper" /\ stopping' = loaded[m]
  /\ UNCHANGED <<chans, loaded, maxRunners, runners, reqs, pvars, cvars, phase>>

ExpireRunnerNow ==
  /\ stopping # NoRunner /\ Unlocked(stopping)
  /\ ExpireNow(stopping, "stopper")
  /\ IF Idle(stopping) THEN UNCHANGED <<loadedMu, stopping>>
     ELSE loadedMu' = "free" /\ stopping' = NoRunner
  /\ UNCHANGED <<loaded, maxRunners, reqs, pvars, cvars, stops, phase>>

SendStopped ==
  /\ stopping # NoRunner /\ refMu[stopping] = "stopper"
  /\ SendExpired(stopping)
  /\ loadedMu' = "free" /\ stopping' = NoRunner
  /\ UNCHANGED <<loaded, maxRunners, reqs, pvars, cvars, stops, phase>>

(* The signal handler of Serve: no more requests, the scheduler's context  *)
(* is cancelled, and the runners in the map are closed where they stand.   *)
Shutdown ==
  /\ MayShutdown /\ phase = "run"
  /\ phase' = "done"
  /\ UNCHANGED <<chans, maps, runners, reqs, pvars, cvars, stopping, stops>>

UnloadAllRunners ==
  /\ phase = "done" /\ loadedMu = "free"
  /\ llama' = [r \in Runners |-> IF r \in LoadedRunners /\ llama[r] = "open"
                                 THEN "closed" ELSE llama[r]]
  /\ phase' = "closed"
  /\ UNCHANGED <<chans, maps, info, loading, refMu, refs, keeps, events, reqs,
                 pvars, cvars, stopping, stops>>

-----------------------------------------------------------------------------
Pending ==
  \/ ReceivePending \/ IgnoreUnload
  \/ FoundLoaded \/ MaxRunnersAchieved \/ LoadModelFails
  \/ PlaceOnCpu \/ PlaceFirst \/ PlaceAmongOthers
  \/ FilterGpus \/ UpdateFreeSpace \/ (\E r \in Runners : SumRunner(r))
  \/ PickFit \/ DelayRequest \/ MakeRoom
  \/ NeedsReload \/ UseLoadedRunner
  \/ FindRunnerToUnload \/ ScanRunner
  \/ NewServerFails \/ Load
  \/ TriggerExpiration \/ SendExpiration \/ UnloadCompleted \/ StopPending

Completed ==
  \/ ReceiveFinished \/ LookupFinished \/ FinishRequest \/ ExpireFinished
  \/ ReceiveExpired \/ ExpiredInUse \/ ExpiredIdle \/ Unload \/ SendUnloaded
  \/ StopCompleted

(* The goroutines of a request and of a runner.                            *)
RequestStep(q) == SendFinished(q) \/ Requeue(q)
RunnerStep(r) ==
  \/ LoadSucceeds(r) \/ LoadFails(r) \/ ExpireFailedOrTimedOut(r)
  \/ RetryExpired(r) \/ TimerFires(r) \/ TimerCallback(r)

Stopper == ExpireRunnerNow \/ SendStopped

Next ==
  \/ GetRunner \/ (\E q \in Requests : ContextDone(q))
  \/ Pending \/ Completed \/ Stopper
  \/ (\E q \in Requests : RequestStep(q))
  \/ (\E r \in Runners : RunnerStep(r))
  \/ (\E m \in Models : ExpireRunner(m))
  \/ Shutdown \/ UnloadAllRunners

Spec == Init /\ [][Next]_vars

=============================================================================
