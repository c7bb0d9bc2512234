# A TLA+ verification project for the ollama server in this repository

The repository bundles the ollama server (`src/ollama`), a Go program that loads
language models into runner subprocesses and serves completions from them, the C and C++
engine of these subprocesses (ggml and llama.cpp), and a few scripts and databases around
it (`src/scripts`, `src/database`, `src/exports`). Its logic that is hard to test is
bookkeeping over many steps and many actors: which models are loaded, who uses them, what
lies where in a shared cache or buffer, which thread computes which part, which parts of a
file have arrived. This project models that logic in TLA+, checks it with TLC on small
instances and proves part of it with TLAPS for all instances.

Six parts of the system are modelled:

| Section | Part | Modules |
|---|---|---|
| 2 | scheduler of the server, `server/sched.go` | Scheduler, SchedulerProperties, and the proofs SchedulerProofs |
| 3 | runner of the new engine and its KV cache, `runner/ollamarunner`, `kvcache/causal.go` | CausalCache, OllamaRunner, OllamaRunnerProperties, and the proofs OllamaRunnerProofs, OllamaRunnerCache |
| 4 | runner of llama.cpp models, and llama.cpp's KV cache and decode, `runner/llamarunner`, `llama/llama.cpp/src` | LlamaKvCache, LlamaRunner, LlamaRunnerProperties, and the proofs LlamaKvCacheProofs, LlamaRunnerProofs |
| 5 | downloads, pulls, deletion and pruning of models, `server/download.go`, `server/images.go`, `server/layer.go` | BlobPull, Download, DownloadProperties, and the proofs DownloadProofs |
| 6 | thread pool of the CPU backend, `ml/backend/ggml/ggml/src/ggml-cpu/ggml-cpu.c` | GraphCompute, ThreadPool, ThreadPoolProperties, and the proofs ThreadPoolProofs |
| 7 | graph allocator, `ml/backend/ggml/ggml/src/ggml-alloc.c` | GraphAlloc, GraphAllocProperties, and the proofs GraphAllocProofs |

Each has a module `MC...` with the definitions that its configurations use. A run is named
after its configuration; the runs of the scheduler add `Scheduler` (`Churn` is
`SchedulerChurn.cfg`). All paths below are relative to `src/ollama`.

## 1. Inventory

| Component | State | Operations | Hard behaviour | Correct if |
|---|---|---|---|---|
| Scheduler, `server/sched.go` | map of loaded runners, four channels, per runner: refCount, timer, duration, mutex | GetRunner, processPending, processCompleted, load, expireRunner, unloadAllRunners | two loops, one goroutine per load, request, timer and retry; two mutexes; checks that are used after an unlock | every request is answered, no runner is used after it was unloaded, forgotten, or loaded beyond the limit |
| HTTP handlers, `server/routes.go` | request contexts | scheduleRunner, stop requests, Serve's signal handler | clients that leave while they are queued or served | every call returns |
| Runner subprocess client, `llm/server.go` | a process, its status, a semaphore | start, WaitUntilRunning, Ping, Completion, Close | load that stalls or dies | a load ends, with success or error |
| Runner of the new engine, `runner/ollamarunner` | s.seqs, semaphore, slots with the inputs they store | completion, embeddings, LoadCacheSlot, processBatch, ShiftCacheSlot, removeSequence | handlers against the batch loop; prefix reuse, forks, context shift, stop strings; clients that leave | a prompt is answered from its own inputs; every permit finds a seat |
| Causal KV cache, `kvcache/causal.go` | metadata of the cells, range per sequence, tensors | StartForward, Put, CopyPrefix, Remove, defrag | metadata and tensors change at different times; cells shared by sequences | the mask shows each input exactly its own past |
| Encoder and wrapper caches, `kvcache/{encoder,wrapper}.go` | several caches behind one interface | the same | one of several caches failing | all caches agree |
| Runner of llama.cpp, `runner/llamarunner` | seats, slots with the inputs they store | LoadCacheSlot, processBatch, ShiftCacheSlot | prefix reuse, forks, context shift on shared cells | what a slot lists is what the cache holds |
| llama.cpp's KV cache and decode, `llama/llama.cpp/src` | cells, head, count of used cells, pending shifts, tensors | seq_rm, seq_cp, seq_add, find_slot, defragmentation, K-shift, llama_decode | shifts applied later; several ubatches per decode; failures in between | each input attends to its own past; the count is exact |
| CPU thread pool, `ml/.../ggml-cpu.c` | counters, flags, a mutex, a condition variable | ggml_graph_compute, kickoff, polling, barrier, pause, free | unlocked reads, a reusable spinning barrier, sleep and wake-up | the caller sees a sequential loop; calls return |
| Graph allocator, `ml/.../ggml-alloc.c` | free blocks, counts per tensor, the plan of the last graph, a buffer | reserve, alloc_graph | memory taken over in place, views, plans used again | no tensor is overwritten before its last reader |
| Download, `server/download.go` | parts with their own files, shared by reference counts | Prepare, run, downloadChunk, Wait, release | resume after a crash, stalls and retries, concurrent pulls of one blob | a blob that is renamed into place is complete |
| Upload, `server/upload.go` | parts, redirect URL | Prepare, Run, uploadPart | retries, shared uploads | every part is sent once with its digest |
| Images and manifests, `server/{images,manifest,layer,create}.go` | files | pull, push, prune, create | pruning against a concurrent pull | no layer of a manifest is removed |
| Blob cache and registry client, `server/internal/...` | files, links | Put, Link, chunked pull, push | concurrent writers, partial files | what is linked has its digest |
| Numerics, tokenizers, formats, GPU discovery, templates, API translation, CLI, desktop apps, host scripts | none, or none that is shared | | | |

The components interact like this. A handler calls GetRunner and waits on the two channels
of its request. processPending picks or loads a runner and sends it there; a goroutine
waits for the end of the request's context and sends the request to processCompleted,
which counts it off and, when the runner's timer expires, unloads it and announces that.
processPending may ask for an unload and wait for such an announcement. Inside a runner
subprocess, a handler acquires a permit, then under a mutex a slot and a seat; the batch
loop takes the same mutex, decodes one batch of all seats and gives seats back. A decode
builds a graph of tensors, has the allocator place it, and has the thread pool compute it.
Models come to the server by pulls; several pulls share the download of a blob, and
deletion and the prune at startup remove blobs that no manifest names.

## 2. The scheduler

### Modules

* `Scheduler.tla`: state and actions.
* `SchedulerProperties.tla`: fairness and properties.
* `MCScheduler.tla`: workloads for TLC.
* `SchedulerProofs.tla`: theorems that hold in any environment and, at its end, those that need
  the environment of the run `Steady`.

### Correspondence with the code

The variables carry the names of the fields of `Scheduler`, `runnerRef` and `LlmRequest`.
`pPC, pReq, ...` and `cPC, cReq, ...` are the program counters and locals of processPending
and processCompleted. An action is a stretch of code between two points where its
goroutine can block or be overtaken. A mutex is recorded only when its owner holds it
across such a point: refMu is held by the loader of a model for the whole load, by the
sender of an expired event while it waits for room in the channel, and by processCompleted
while it waits for loadedMu; loadedMu by updateFreeSpace and expireRunner while they wait
for refMu.

| Code | Actions |
|---|---|
| GetRunner, scheduleRunner | GetRunner, ContextDone |
| processPending | ReceivePending, IgnoreUnload, FoundLoaded, MaxRunnersAchieved, LoadModelFails, PlaceOnCpu, PlaceFirst, PlaceAmongOthers, FilterGpus, UpdateFreeSpace, SumRunner, PickFit, DelayRequest, MakeRoom, Requeue, TriggerExpiration, SendExpiration, UnloadCompleted, StopPending |
| needsReload, useLoadedRunner | NeedsReload, UseLoadedRunner |
| findRunnerToUnload | FindRunnerToUnload, ScanRunner |
| load and its goroutine | NewServerFails, Load, LoadSucceeds, LoadFails, ExpireFailedOrTimedOut |
| the goroutine that waits for the request's context | SendFinished |
| processCompleted, unload | ReceiveFinished, LookupFinished, FinishRequest, ExpireFinished, ReceiveExpired, ExpiredInUse, ExpiredIdle, Unload, SendUnloaded, RetryExpired, StopCompleted |
| expireTimer | TimerFires, TimerCallback |
| expireRunner | ExpireRunner, ExpireRunnerNow, SendStopped |
| signal handler, unloadAllRunners | Shutdown, UnloadAllRunners |

Abstracted: memory estimates (the answer to "does it fit" is a nondeterministic Boolean from
`Fits`), the choice among GPUs of one library, model options other than the context size
and num_gpu = 0, durations (a small number, 0 and `Forever` told apart), and VRAM recovery
(always ends, after 5 s at the latest).

### Runs

| Run | Result | What it shows |
|---|---|---|
| `Churn` | passes | Three requests for either of two models, keep-alive 0 or short, two runners at most, one stop request: TypeOK, NoLostWakeup, UnloadsOnlyIdle, NoEntryOverwritten. |
| `Faults` | passes | Channels of capacity one, every fault, CPU and GPU placement, shutdown at any moment: IdleRunnerExpires, RequestNeverLost. |
| `Steady` | passes | With keep-alive forever, so that runners are only evicted: RefCountExact, InUseRunnerIsLive, AtMostMaxRunners, and liveness, RequestsAnswered. |
| `OneShot` | passes | Every model is asked for once, room for one model, any keep-alive: RunnersUnloaded. |

`Steady` and `OneShot` restrict the environment so that no runner that was expired is found
by a new request; in any other environment these properties fail (see the observations).

**Bounds.** Two models are needed for an eviction, three requests for one that evicts, one
that is evicted and one that comes back; a third runner shows the limit. With two requests
and capacity one every channel is seen full. RefMod = 8 is larger than the number of
requests, so a refCount can wrap only below zero. MaxLoads bounds the runners ever created:
where it is reached, a request that needs a load waits, which is why the liveness runs have
as many runners as requests. Deadlock is not checked since a behaviour ends when its
requests are served.

**Fairness.** Weak fairness of each loop and each goroutine: the Go runtime runs what can
run. Strong fairness of ReceiveFinished, because `select` picks at random among the ready
channels, so a finished request is received in the end although expired events are ready
too. A served request ends, WaitUntilRunning ends (it gives up after a stall), an armed
timer fires. Nothing is assumed of clients that wait, of stop requests or of shutdown.

### Proofs

All theorems hold for every number of models, requests, runners and GPUs, every queue
length, every workload and set of faults, under `SchedulerAssumption` (types of the
constants, finite nonempty sets of models and GPUs, a queue of at least one place).

* `TypeCorrect`: Spec => []TypeOK. TypeOK is not inductive, since what a loop looks up with
  the request or runner in its hand has a type only if there is one; `TypeInv` adds that
  (PendingHand, CompletedHand).
* `IdleRunnersExpire`, `WakeupsNotLost`: from `SafetyInv`, which adds LoaderCounted (while a
  loader holds the mutex the count is one, so that the end of a failed load brings it to
  zero and expires the runner) and KeepAliveDropped (the runner that processPending waits
  for has no keep-alive left, so its last request expires it).
* `OnlyIdleUnloaded`: from `LockInv`. processCompleted holds refMu from its check of the
  count to the unload; that this keeps everybody else out needs that the mutex has one
  owner at a time, hence that no goroutine knows of a runner that does not exist yet
  (BornInv), because Load creates a runner with its mutex held.
* `EntriesKept`: from `SlotInv`. From the look-up that finds no runner to the load, only
  processPending itself could add an entry; the request in its hand and the model it asked
  for do not change.

* `RequestsNotLost`: from `RequestInv`, which adds to LockInv where each request is (HeldInv):
  it is in the queue at most once, with one of queue, processPending, re-queueing goroutine
  and loader only, and one that waits for its answer is with one of them. LockInv is needed
  because a loader ends its request's wait while it holds the mutex of its runner: that two
  loaders never have the same runner makes the answer the end of exactly one hold.

The three properties that concern counts fail in an unrestricted environment (see the
observations), so their theorems have the hypothesis `Steady`, which the run of this name
satisfies: clients keep models loaded forever, stop none and stay until they are answered,
loads that were started succeed, the server stays up, and refCount does not wrap with the
requests there are. Models may still fail to be found or started, pings may fail and memory
may be short, so runners are reloaded and evicted.

* `SteadyInvariant`: `SteadyInv` is inductive, with RequestInv, SafetyInv and SlotInv. Its core
  is OneExpiry: only processPending asks for an unload, one at a time, and the runner it asked
  for is either still in use, or its one event is with processCompleted or in the channel, or
  its unload is about to be announced or announced. This is what fails when a timer may fire
  too: then a second event unloads the successor of the runner it was meant for. With it the
  map holds exactly the live runners under their models (MapExact), and a request that was
  served and is not counted off is in one place only, with a live runner of its model
  (FinishOnce, ServedLive), so processCompleted finds the runner it has to count off.
* `CountsExact` (RefCountExact): refCount is the number of requests that use the runner or are
  about to. `UsedRunnersLive` (InUseRunnerIsLive): no request has a runner that was unloaded.
  `RunnersWithinLimit` (AtMostMaxRunners): from RoomLeft, there is room from the decision
  to place a model to the load.

Only model-checked: the liveness properties, which need fairness and ENABLED and are out of
the prover's reach.

### Further observations

Four instances in which a property of SchedulerProperties fails. Each is `SchedulerChurn.cfg`
with `MaxStops = 0`, two requests and two loads unless it says otherwise, the property alone,
and the changes given:

* `MaxRunners = 1`, InUseRunnerIsLive: needsReload (sched.go:148) and useLoadedRunner (:152)
  lock refMu separately. In between processCompleted may unload the runner, whose refCount is
  still 0, and the request is handed a runner whose llama is nil. The comment at sched.go:151
  says "Runner is usable, return it".
* `MaxRunners = 1`, three requests and loads, AtMostMaxRunners: a second expired event for a
  runner that is unloaded deletes the map entry of its path (sched.go:379), which by then may
  belong to its successor; that one lives on uncounted. Likewise a finished event is counted
  off the successor (:323, :330), and RefCountExact fails. docs/faq.md:290 calls
  OLLAMA_MAX_LOADED_MODELS "The maximum number of models that can be loaded concurrently".
* `MaxRunners = 2`, FairSpec, RequestsAnswered: processCompleted holds refMu when it locks
  loadedMu (sched.go:362, :375), updateFreeSpace holds loadedMu when it locks refMu
  (:480-482). Both loops wait for each other. docs/faq.md:284: "all new requests will be
  queued until the new model can be loaded"; they are queued for ever.
* `MaxRunners = 1`, `Keeps = {2}`, `Faults = {"cancel"}`, FairSpec, EveryCallReturns: a request
  whose client left while it was queued is dropped without an answer (sched.go:129), and
  scheduleRunner, which selects on the two channels of the request only (routes.go:110-115),
  waits for ever.

And, without a run:

* docs/faq.md:284 says that queued requests "will be processed in order"; a delayed request
  (sched.go:264) is put back at the end of the queue.
* findRunnerToUnload may return nil (sched.go:278) if the map was emptied in between; the
  loop then starts over, which is what the model does.
* A placement that fails leaves opts.NumCtx multiplied (sched.go:711); the next needsReload
  may then reload a runner that has exactly the context that was asked for.
* unloadAllRunners (routes.go:1312) does not wait for loaders, so a runner recorded after it
  outlives the server.
* processCompleted sends to expiredCh while it holds refMu (sched.go:338), and only it reads
  that channel; with a full channel it waits for itself.
* PsHandler reads the map and v.model without a lock (routes.go:1390).
* waitForVRAMRecovery subtracts unsigned sizes (sched.go:659), so that less free memory than
  before counts as recovered, and after its timeout its goroutine blocks on a second send
  (sched.go:648).

## 3. The runner and its KV cache

### Modules

* `CausalCache.tla`: the cache as a record, its methods as operators.
* `OllamaRunner.tla`: handlers, slots and batch loop, on top of the cache.
* `OllamaRunnerProperties.tla`: properties. `MCOllamaRunner.tla`: requests for TLC.
* `OllamaRunnerProofs.tla`: theorems about seats, slots and prompts;
  `OllamaRunnerCache.tla`: on top of them, theorems about the cache.

### Correspondence with the code

The cache state has the cells' metadata, the range of each sequence, the tensors (for each
location a token and the position its key is rotated to), the mask of the last batch, and
a history flag, merged, which says that a defragmentation combined moves. Locations that no
sequence references are not told apart. StartForward includes the Put of every layer,
Remove includes shift.

`s.mu` is held by a handler for one action (LoadCacheSlot, with the entry into s.seqs) and
by processBatch from Gather to the last Sample action. Gather is the first loop of
processBatch with ShiftCacheSlot; Forward is model.Forward; then every seat has one of
SampleNil, ProcessPrompt, SampleEnd, HitStop, HoldBack, FlushPending, ConnectionClosed. The
handlers are NewSequence, Acquire or AbortAcquire, LoadCacheSlot and CloseQuit. An error in
processBatch is a panic of the process, recorded in `panic`.

Abstracted: what is sampled is any text token; pieces of text are counted, not spelled, so
that FindStop, ContainsStopSuffix and IncompleteUnicode are a choice, and TruncateStop
leaves any number of pieces with the last one cut or not; time of use is a rank. A handler
ends together with its sequence. Left out: models without a cache (enabled = false),
loading of the model, the health endpoint, sampling errors.

### Properties and runs

* AttentionExact: each input of a batch attends to the keys and values of exactly the
  inputs that precede it in its own sequence, each once (within the window).
* AttentionExactUnlessMerged: the same until a defragmentation combines moves.
* PositionsExact: the part of it that concerns metadata only, always.
* PromptIntact: until the first sampled token, what is stored, submitted and to come is the
  prompt, whatever was reused or forked.
* SeatForEveryPermit: permits, empty seats and unused slots agree.
* NeverFull: no batch is ever rejected.
* RequestsEnd: a request with a limit on its tokens ends.

| Run | Result | What it shows |
|---|---|---|
| `RunnerMixed` | passes | Three requests on two slots of three inputs, both cache modes, short, truncated, image and embedding prompts: all invariants above. |
| `RunnerEnds` | passes | Three requests compete for one slot, with a sliding window of one and padding: RequestsEnd, AttentionExactUnlessMerged. |
| `RunnerDefrag` | violated | AttentionExact. Holes are filled upwards from cells taken downwards, but a combined block is copied upwards: in the trace cells 5 and 4 move to 0 and 1, with their tensors exchanged, and two sequences attend to each other's past. |

**Bounds.** Three requests for two slots give reuse of a slot, a fork, and interleaved
cells; three inputs of context make prompts fill it and generation shift it; batches of two
inputs split prompts, and two seats make batches of up to four inputs that need a
defragmentation. All of these, combined moves included, are reached in `RunnerMixed`.
MaxHeld bounds pieces that wait for a stop string, MaxPredict the count of tokens. The
requests are symmetric, which the safety runs use; the liveness run does not.

**Fairness.** The loop does not stop by itself (weak fairness of Gather, Forward, Sample).
The weighted semaphore is first come, first served and a Go mutex is handed to a waiter
that has waited too long, hence strong fairness of Acquire and LoadCacheSlot. It is written
with the enabling conditions spelled out.

**Further observations.** FailedShiftRemoved, which kvcache/cache.go:62 asks of the callers
of Remove ("If an error occurs, the entire context for the sequence should be removed"),
fails with `RunnerMixed.cfg`, `Jobs <- AlikeJobs`, `MultiUser = {TRUE}`: two prompts with a
common prefix share cells in the multi-user cache, the shift of one of them fails
(causal.go:553) after it changed earlier cells, and run panics on the error. tokenLen
(runner.go:486) is computed from pieces that a shift may have discarded; it can be negative
only with more withheld pieces than half of the context, beyond MaxHeld.

### Proofs

For any number of slots and requests, any prompts and any size of the cache, under
`CausalCacheAssumption` and `RunnerAssumption` (types of the constants, a cell per slot at
least, finitely many requests, at least one token counted):

* `RunnerInvariant`: `RunnerInv` is inductive. It says of the seats and the slots that no two
  sequences share a slot or a request and that the slots in use are those of the sequences
  (SeatsOK); that no slot outgrows its share of the context even with its submitted inputs
  (InShare), since the context is shifted before it does; that the prompts are intact
  (Prompts); that the sequences belong to handlers that wait for them (Served); that a
  sequence waits with inputs and nothing submitted whenever its turn to be batched comes
  (Waiting); and that permits and handlers about to load add up to the empty seats (Permits).
* `PermitsHaveSeats`: SeatForEveryPermit. Permits is the half of it; the other half, as many
  unused slots as empty seats, is a bijection between seats taken and slots in use.
* `PromptsIntact`: PromptIntact. It needs InShare and Waiting: a shift would cut the prompt,
  but a slot whose context is full has no input of the prompt left.

Gather takes the seats in turn by a recursive function. The theorems about induction cannot
be used with the provers at hand, but their consequence can that a set of numbers has a
least element: if some turn broke the invariant (`GatherOK`), there would be a first one,
and the turn before it would keep it (GatheredOK; TurnsExist in the same way shows that the
function exists).

`OllamaRunnerCache.tla` proves what the cache holds, for both cache modes, any padding and any
window, from the same assumptions:

* `CacheInvariant`: `CacheInv` is inductive on top of RunnerInv. While the loop is idle or
  samples, the cache holds for every slot a run of positions, one cell each, from 0 to the end
  of the slot's inputs and of those submitted since (Placed); its range covers them (Spanned);
  and, unless a defragmentation combined moves, the tensors hold at each of them the token the
  slot remembers there, rotated to its position (Matches). A slot that no sequence uses may
  hold more cells than it remembers inputs, since a stop string (HitStop) cuts its inputs and
  leaves the cache alone; the next LoadCacheSlot removes them. Between Gather and Forward the cache holds the slots'
  inputs only, and the batch has each submitted input once, at its position (BatchOK).
* `CacheHasRoom` (NeverFull): the cells in use are at most the inputs of all slots, each in its
  share of the context (InShare), and the batch is what is still missing; so enough cells are
  free, and after a defragmentation they are in one piece.
* `PositionsAreExact` (PositionsExact) and `AttentionIsExact` (AttentionExactUnlessMerged): at
  the moment of Forward the cells within the range of a sequence, of its own and of a position
  within the window up to that of the input, are by Placed and Spanned exactly its past, each
  once; with Matches their tensors are those of its past.

Each operation of the cache (CopyPrefix, Remove with its shift, StartForward, the moves
of a defragmentation) has a lemma about what it does to the cells of one sequence and one that
it leaves those of others alone. The defragmentation is a recursive function again, and what it
keeps is proved with the first move that would break it.

Only model-checked: RequestsEnd, which is liveness. AttentionExact itself is false
(`RunnerDefrag`).

## 4. The runner of llama.cpp models and llama.cpp's KV cache

### Modules and correspondence

* `LlamaKvCache.tla`: `llama_kv_cache` as a record (cells, head, used, has_shift, tensor
  rows) and its functions as operators. A row is the token it was computed from and the
  position its key is rotated to; rows that nobody owns are not told apart.
* `LlamaRunner.tla`: LoadCacheSlot, processBatch and `llama_decode`, on top of it.
* `LlamaRunnerProperties.tla`: the properties.
* `LlamaKvCacheProofs.tla`: lemmas about the operations of the cache; `LlamaRunnerProofs.tla`: on
  top of them, the invariant of the runner and the theorems.

| Code | Definitions |
|---|---|
| `llama_kv_cache_seq_rm`, `seq_cp`, `seq_add` | SeqRm, SeqCp, SeqAdd |
| `llama_kv_cache_find_slot` | FindSlot, Occupy |
| `llama_kv_cache_update_impl`, `llama_kv_cache_defrag_impl` | KShift, Defrag |
| `llama_kv_slot_restorer` | NoRestorer, Restore |
| mask of `llama_set_inputs` | Visible |
| InputCache.LoadCacheSlot, ShiftCacheSlot | actions of the same names |
| processBatch up to Decode | Gather |
| `llama_prepare_ubatch`, one ubatch of `llama_decode_impl` | PrepareUbatch, ComputeUbatch, ComputeFails |
| processBatch after Decode, one action per seat | SampleNil, ProcessPrompt, SampleEnd, HitStop, SampleToken |

`s.mu` makes a handler and processBatch exclude each other, so LoadCacheSlot is one action
that happens between batches. A decode is split at its ubatches, because a later one may fail
when earlier ones have written the cache. An error of Decode makes run panic (phase "dead").
Left out: images and embeddings, recurrent models, the semaphore and the responses of the
handlers (section 3 has the same code), `n_batch` limits that the runner never reaches.

### Properties and run

`LlamaRunner` passes: three requests on two slots of three inputs, batches of two inputs
per sequence in ubatches of three, single-user and multi-user cache, numKeep 0 and 1, and a
backend that may fail.

* UsedExact: used is the number of owned cells. The defragmentation aborts the process
  otherwise.
* SlotsStoredUnlessTorn: each input that a slot lists is in exactly one cell of its sequence,
  at its position, with the right token and, pending shifts included, the right rotation.
* AttentionExactUnlessTorn: what a decode computed for an input saw the text of its own
  sequence up to that input, each token once, and nothing else.
* NeverFull: `llama_decode` finds room for every ubatch.
* SequencesEnd: a loaded sequence ends, unless the runner panics.

*Torn* is a history variable: the sequences of which another sequence's shift moved a cell.

**Bounds.** Three requests for two slots give reuse, a fork and interleaved cells. Prompts
that share a prefix and fill the context make generation shift it. Two seats with two inputs
each make batches of four, which take two ubatches and cannot be placed without a
defragmentation when the free cells are apart. MaxHeld bounds withheld pieces.

**Fairness.** Weak fairness of the batch loop, which does not stop by itself. Nothing is
assumed of the arrival of requests.

**Observations.**

* Fork and shift. `llama_kv_cache_seq_add` moves every cell the sequence owns, shared ones
  too (llama-kv-cache.cpp:537-541). After a fork (cache.go:177) a shift of one sequence
  changes positions under the other, whose slot still lists "Inputs that are stored in the
  KV cache" (cache.go:56). SlotsStored, the property without the exception, fails with
  `NumKeeps = {0}`, `MultiUser = {TRUE}`, `ComputeMayFail = FALSE`, `MaxHeld = 0`. With a fourth request
  such a slot can outgrow its share of the cache, and the runner panics.
* Restore. The comment at llama.cpp:8976 promises that after an unsuccessful decode "the
  kv_cache state will be returned to its original state"; the restorer passes cell indices
  where `seq_rm` expects positions (llama-kv-cache.h:212), so it frees other cells. DecodeRestores
  fails with `NumKeeps = {1}`, `MultiUser = {TRUE}`, `MaxHeld = 0`. The runner panics on the
  error anyway.

### Proofs

For any number of sequences, requests and inputs, any prompts that fit, any size of the cache,
of batches and of ubatches, and a backend that may fail, under `CacheAssumption` and
`RunnerAssumption` (types of the constants, a cell per slot at least, prompts within the share
of a slot, numKeep below it):

* `LlamaInvariant`: `LlamaInv` is inductive. Of the cache by itself it says that used counts the
  owned cells, that these are the ones with a position, and that without a pending shift no key
  waits for a rotation (CacheOK). Of the runner, that no two sequences share a slot, that a slot
  with its submitted inputs stays within its share of the cells, and that a sequence's text is
  what its slot has, what was submitted and what is left (Shares). Of the batch under way, that
  its inputs are submitted ones in the order of their positions (BatchOK). And of both together,
  that the cache has for every sequence that is not torn one cell, with the right token and
  rotation, for each input that was submitted except those the batch has left; the ubatch that
  is being computed has its cells, but no rows yet (Cached, LoopOK). A slot without a sequence
  may have more cells than inputs, since a stop string cuts its inputs and not the cache.
  This is needed because the properties speak of the slots and the cells between
  batches, and a decode passes through states in which they agree only up to the ubatches left.
* `UsedIsExact` (UsedExact): from CacheOK, which is kept also where the rest is not, by a failed
  decode and the restorer that then removes the wrong cells.
* `LlamaHasRoom` (NeverFull): the cells in use are at most the inputs of all slots, each within its
  share, and the ubatch is part of what is missing. FindSlot finds free cells in a row if there
  are any, and after a defragmentation all free cells are in a row.
* `SlotsAreStored` (SlotsStoredUnlessTorn) and `LlamaAttentionIsExact` (AttentionExactUnlessTorn):
  from Cached, before and after a ubatch has been computed.

FindSlot's search is a recursive function of its position and the number of cells it has tested.
That it exists, what it returns and that it ends is proved by the number of cells left to test,
with a least counterexample in place of an induction. The defragmentation gives each hole below
used the last owned cell that is not taken yet; that there is one for each hole is a count:
owned cells behind used are as many as holes before it, which is where UsedExact comes in.

Only model-checked: SequencesEnd, which is liveness.

## 5. Downloads and pulls

### Modules and correspondence

* `BlobPull.tla`: the abstract specification. A blob is there or not, a set of models have
  manifests, a pull is under way or has seen the blob, and a deletion has found some models
  without a manifest. A pull succeeds only after it has seen the whole blob. A deletion takes
  the blob only after it has found every model without a manifest, each at some time since it
  began: a model that had one all along keeps the blob. One that gets its manifest after it
  was looked for may lose it, as in the code.
* `Download.tla`: `server/download.go` with PullModel, DELETE and the prune at startup, for
  models that share one blob. `DownloadProperties.tla`: properties and the refinement mapping.

| Code | Actions |
|---|---|
| downloadBlob | Stat, LoadOrStore |
| Prepare, newPart | PrepareRead, PrepareUnreadable, PrepareHead, HeadFails, NewPart, NewPartFails |
| Wait, acquire, release | Acquire, Return, Leave, LeavePanics, Block |
| Run, run | RunStart, RunFails, RunUrl, ChunksDone, RemovePart, Rename, RunDelete, RunClose |
| downloadChunk, writePart, one goroutine per part | Chunk, SavePart, ChunkFails, SaveFails, ChunkDone, ChunkCancelled |
| rest of PullModel | Verify, WriteManifest, FinishManifest, ManifestFails |
| DeleteHandler, Manifest.Remove | DeleteHandler, DeleteManifest |
| RemoveLayers, Layer.Remove, Manifests | ListManifests, ReadManifest, MissManifest, RemoveLayer |
| Serve after the server was killed | Crash, which includes the prune of Restart |

`files` is the disk: the part files (missing, torn, or what they record as completed), the
partial file with the units that were written into each part, the blob, the manifests. The
server may be killed before every step; a file that is being written is then torn.

Layer.Remove holds no lock: it lists the manifest files, opens them one by one, and removes the
blob at the end, while pulls write manifests and other DELETEs remove theirs. `deleting[d][q]`
is how far the DELETE of model d is with the manifest of model q: "found" before the manifest
of d is removed, "ahead" before the list is made, "listed" before q is read, then "passed", if
q was not there or could not be read. "late" is history: q got its manifest after that. A
manifest that names the blob ends the removal (ReadManifest), as does one that is gone between
the list and its Stat (MissManifest); then the blob stays.

`DiskFaults` says what may fail on disk: "open", the creation of a part file or of a manifest;
"write", filling them, which leaves them torn, and a full disk, which ends the download at
once; "partial", opening, closing or renaming the partial file; "remove", the removal of a
part file.

Abstracted: a part is PartSize units, a stall is one of the failures of a try, waiting times
are left out. Verify compares the digest and removes a blob that has another one in one step;
that the code takes two matters only if the registry delivers wrong bytes. One DELETE of a
model runs at a time.

### Properties and runs

`Download` passes: two models share a blob of two parts of two units; two pulls, two upsets
(deletions or kills), a client that leaves at any moment, and the disk faults "write" and
"partial": 419,248 states in two and a half minutes.

* ManifestIntactUnlessRobbed: a model with a manifest has its blob, intact, except one whose
  pull had seen the blob, or whose manifest was finished after it was looked for, when a
  DELETE took the blob (the history variable `robbed`).
* CompletedWritten: what a part file records as completed is in the partial file, so that a
  resumed download skips nothing that is missing.
* OneWriter: at most one download works on the files, although a new one may begin while
  others still wait for the old one.
* RefsExact: references counts the pulls in Wait.
* ImplementsPull: it starts as BlobPull does and each step is one of BlobPull.
* WaitersReturn: a pull that waits for a download whose run has begun gets an answer.

`DownloadResume` is violated: ResumesWhereLeftOff, from docs/api.md:1318, "Cancelled pulls
are resumed from where they left off, and multiple calls will share the same download
progress." A blobDownload is in the manager before it is prepared, and has no CancelFunc
until run has started (download.go:215). A second pull that joins it, and whose client leaves after Prepare
failed, calls the nil CancelFunc in release (download.go:431). The panic ends the server,
and the next start prunes the part files.

The files can be trusted only as long as no server started on the remains of a killed one
without pruning them (OLLAMA_NOPRUNE, or a manifest it could not read). The history variable
`unpruned` says that one did. It stays so until a start finds no model and prunes, because a
blob that was put together wrongly goes only then; the first two properties and
ImplementsPull exempt the states in between.

**Bounds.** Two parts are needed for one that fails while the other goes on and for a removal
that is interrupted half-way; two units for a part that is resumed in its middle; two models for a
shared download and for a DELETE that finds the manifest of another model. Two pulls and two
upsets allow a kill in a pull and another while it is resumed, a pull of each model in any
phase of the DELETE of the other, and two DELETEs at once.

**Fairness.** Weak fairness of the goroutine of each download and of each pull, as the Go
runtime runs what can run. Nothing is assumed of clients, deletions and kills.

**Observations**, with the change to `Download.cfg` that shows them:

* `Deliveries = {TRUE, FALSE}`: a pull that finds the blob present skips its verification
  (images.go:580), also when the pull that downloaded it has not verified it yet. And since
  downloadBlob looks for the blob before LoadOrStore (download.go:471, :487), a second download
  may begin after the first one has published the blob, and replace a verified blob by a
  wrong one.
* `DiskFaults = {"open"}` or `{"remove"}`, or `NoPrune = TRUE` with a kill in the loop that
  removes the part files (download.go:315): Prepare takes the parts that are left for all
  parts, and run truncates the partial file to their size and renames it.
* DELETE against a pull: Layer.Remove looks at manifests only (layer.go:115) and removes the
  blob later (:129). A pull that has seen the blob and writes its manifest afterwards has a
  manifest for a blob that is gone; so has one that writes its manifest and returns between
  the look and the removal (history variable `robbed`).
* A DELETE that has read the manifest may remove it while a pull of the same model writes it
  anew (routes.go:731 against images.go:614): the pull reports success, and there is no manifest.
* Two DELETEs of models that share a blob: the one whose list has the manifest of the other,
  which is gone at its Stat, takes that error for a missing layer (manifest.go:139-142, :52)
  and leaves the blob, until the next start prunes it.
* A pull that joined a download whose Prepare failed waits until its client leaves.
* Progress goes through an unbuffered channel (routes.go:592); once the client has left
  without the pull noticing, the pull blocks and keeps its reference (pull state "stuck").
* A joiner that leaves before the leader has acquired its reference cancels the download.
* The stall watchdog does not fire before the first byte of a part (download.go:371).

### Proofs

For any finite set of models, any number of parts, units, pulls, deletions and kills, without
further hypotheses (`DownloadProofs`):

* `ManagerExact`: `ControlInv` is inductive. A download is in blobDownloadManager until its
  run is over, the one pull that made it prepares it, a pull that joins has not seen the
  blob, and the references are exact.
* `SingleWriter` (OneWriter) and `ReferencesExact` (RefsExact) follow. They are proved
  together, since a reference too few would let a waiter cancel what others wait for.

With a registry that delivers the right bytes (`Deliveries = {TRUE}`) and a disk that may
fail to write a file but not to create or remove a part file
(`DiskFaults \subseteq {"write", "partial"}`), the two conditions without which the observations
above break the properties:

* `DiskInOrder`: `DownloadInv` is inductive: ControlInv, `LookInv` and, unless unpruned,
  `DiskInv`. LookInv says that a manifest which a DELETE has passed is still not there, so that
  a removal after the look takes the blob from nobody but those whose manifest is late or whose
  pull has seen the blob. DiskInv says at which points of Prepare, run and the removal of the part files which of
  them exist (Preparing, Running); that when nobody works on them all, none, or an
  unreadable one is there, so that the next Prepare cannot take some of them for all
  (SettledInv); that the partial file has what they record (PartialInv); and that what a
  pull has seen is there (BlobInv).
* `ResumeSkipsNothing` (CompletedWritten), `ManifestIntact` (ManifestIntactUnlessRobbed).
* `DownloadsImplementPull` (ImplementsPull): each action is a step of BlobPull or none; a
  DELETE is a Delete, a Drop, some Looks and a Keep or an Evict.

Only model-checked: WaitersReturn, a liveness property.

## 6. The thread pool of the CPU backend

### Modules and correspondence

* `GraphCompute.tla`: the abstract specification. The nodes of a graph are computed in order,
  each chunk of a node once, a node only when the one before is complete; the call returns
  after all nodes or, aborted, after a prefix of them.
* `ThreadPool.tla`: the pool, built without OpenMP. `ThreadPoolProperties.tla`: properties
  and the refinement mapping.

| Code | Actions |
|---|---|
| `ggml_graph_compute`, `ggml_graph_compute_kickoff` | GraphCompute, KickThreads, KickPublish, KickSignal |
| `ggml_threadpool_pause`, `_resume`, `_free` | SetPause, Free, Join |
| `ggml_graph_compute_secondary_thread` | PauseLoop, PauseWait, CheckStop |
| `ggml_graph_compute_poll_for_work`, `_check_for_work` | PollForWork, PollRound, PollActive, CheckForWork, SpuriousWakeup |
| `ggml_graph_compute_thread` | StartGraph, NextNode, EndNode |
| `ggml_compute_forward_mul_mat`, other operations | StartNode, ComputeChunk, StealChunk |
| `ggml_barrier` | BarrierAlone, BarrierRead, BarrierEnter, BarrierReset, BarrierOpen, BarrierPass |

A step is one access to shared memory outside the mutex, or one critical section. Kickoff is
split at its stores, since polling threads read them without the mutex. Loads and stores take
effect in program order: the weaker orderings of C11 are not modelled, the fences of the
barrier and of polling are there to exclude them. A node is a matrix product, whose chunks
are claimed from a shared counter, or an operation whose rows are divided by the threads.
`asked` and `work` are history variables.

### Properties and run

`ThreadPool` passes: pools of up to three threads, three graphs of a product and a
row-wise node, any moment to pause, resume, abort and free, and spurious wake-ups.

* ImplementsLoop: every behaviour is one of GraphCompute.
* QuietWorkers: once `ggml_graph_compute` is out of a graph, so is every worker. The caller
  goes on without the mutex, here to free the pool of the graph; a caller that kept one pool
  would reset it, where "No worker threads should be accessing the parameters below at this
  stage" (ggml-cpu.c:14360).
* BarrierCount: the threads inside the barrier are exactly the ones counted.
* GraphReturns, PoolFreed: a call returns, and so does `ggml_threadpool_free`.
* TypeOK.

**Bounds.** With three threads one can leave a barrier and enter the next while another still
spins in the first; four chunks for two or three threads make both ways to divide a product
happen; three graphs let a worker sleep through one and miss or see the next.

**Fairness.** Weak fairness of every thread, which the operating system justifies; none for
the callers of the pool.

**Observation.** With `MayResize = TRUE`, callers that use one pool with different numbers of
threads, QuietWorkers fails: a thread that was not needed for one graph may read the new
n_graph late and join the next one. In this program every graph gets a pool of its own, so
it cannot happen; it is a condition on the users of the pool.

### Proofs

For any number of threads, nodes, chunks and graphs, of a pool whose graphs all get the same
number of threads (`~MayResize`, see the observation):

* `ThreadsInStep`: `SyncInv` is inductive. Barriers cut the computation of a graph into
  regions, and all threads of the team are in the same region of the same graph (Sync), if a
  thread that still spins in a barrier that has opened counts as beyond it, and a worker that
  has no work yet as at the start of the next graph. To keep this, each thread's local copies
  must agree with the pool (LocalInv), only the team may compute (TeamInv), and the last
  thread to enter a barrier must find all others waiting (LastInv).
* `PoolTypes` (TypeOK), `BarrierCounts` (BarrierCount), `WorkersQuiet` (QuietWorkers) follow.
* `WorkAccounted`: `LoopInv` adds what has been computed: all nodes before the region of the
  team, none after it, and in it the chunks whose threads are past them.
* `PoolImplementsLoop` (ImplementsLoop): the refinement of GraphCompute, step by step.

Only model-checked: GraphReturns and PoolFreed, liveness properties.

## 7. The graph allocator

### Modules and correspondence

`GraphAlloc.tla` models `ggml_gallocr` with one buffer, and the execution of the graphs it
places; `GraphAllocProperties.tla` has the properties, `GraphAllocProofs.tla` the theorems.

| Code | Definitions |
|---|---|
| `ggml_dyn_tallocr_alloc`, `ggml_dyn_tallocr_free_tensor` | BestFit, Taken, FreeTensor |
| `ggml_gallocr_allocate_node`, `ggml_gallocr_free_node` | Reusable, AllocateNode, FreeNode |
| `ggml_gallocr_alloc_graph_impl` | NChildren, NViews, AllocLeaf, AllocParent, AllocNode, ReleaseParent, NextNode, UpdateParent |
| `ggml_gallocr_reserve_n` | Plan, Record |
| `ggml_gallocr_needs_realloc`, `ggml_gallocr_alloc_graph` | NeedsRealloc, Call, Reuse |
| `ggml_gallocr_init_tensor` | Region |
| a user, `mllama_image_batch_encode` of `llama/mllama.cpp` | Built, SetInput, Exec, Finish |

A graph is a sequence of tensors, a tensor a record with its operation (whether it may work
in place, is a view, writes a view), its sources, its size per token, and whether it is an
output or lies outside the buffer. `mem` records for each byte which tensor wrote it last.
The loops of alloc_graph_impl are taken turn by turn: phase "nodes" allocates leafs, the sources
of a node and the node, phase "parents" releases its sources, and i and j are the loop indices.
Phase "exec" fills and computes tensor i.

Assumed of graphs (`GraphsAssumption`) is what ggml_build_forward_expand and the constructors of
tensors give: leafs come first, nodes after what they read and view, the view_src of a view is
not itself a view, and every leaf is read. `OutputsAssumption`: an output that is a view is not
read (see the observations). `HalfAssumption`: the measuring allocator, which has SIZE_MAX/2
bytes, has room for all tensors of a graph side by side.

Left out: several buffers, nodes flagged as inputs, dependency nodes without operation,
MAX_FREE_BLOCKS.

### Properties and run

`GraphAlloc` passes: all graphs of three nodes of any kind on one leaf, graphs with external
tensors, and chains of four operations on two leafs that fragment memory; three calls each,
with one or two tokens, with graphs of other lengths in between, and with an allocation that
may fail (1.7 million states).

* BlocksExact: while a graph is planned every byte is free or belongs to exactly one tensor,
  and no two free blocks touch.
* ReadsIntact: when a node is computed, each source still holds what the graph wrote into it
  last, and the result overlaps a source only if the operation works in place and both start
  at the same byte.
* OutputsIntact: after the graph each output holds its result.
* InBounds: whatever is executed lies in the buffer, also when a plan is used again.
* TypeOK: in particular the counts of readers and views never go below zero.

**Bounds.** Three nodes give a source with two readers, a view of it, and memory that is taken
over; the chains give a freed block on either side of another. An alignment of 2 with sizes 1
to 4 makes padding matter. Three calls make a plan, use it again and replace it.

**Observations.**

* ggml-alloc.h:63 says "automatic reallocation if the topology changes when using a single
  buffer"; needs_realloc (ggml-alloc.c:826) compares numbers of tensors and sizes only. With
  `MayChangeGraph = TRUE`, graphs with as many tensors but other edges, ReadsIntact fails.
  The users of a single buffer in this program compute one topology.
* "output tensors are never freed and never overwritten" (ggml-alloc.h) is not true of an
  output that is a view: its source is freed with its last reader. In the instances, and by
  OutputsAssumption in the proofs, an output that is a view has no reader.
* If a buffer cannot be allocated, the plan stays without memory (ggml-alloc.c:772) and the
  next graph of the same sizes is placed at address null: phase "crashed" of the model.
  llama.cpp:9074 ignores the result of the allocation.
* The sizes of leafs that nobody reads are not compared; GraphsAssumption has every leaf read.

### Proofs

All theorems hold for every set of graphs, of any length and with any edges, every number of
tokens, alignment and number of calls, with and without failing allocations.

* `PlanInvariant`: `PlanInv` is inductive. Its core is `Planned`, which holds at each turn of
  the loops.
  * BlocksOK: the free blocks and the memory of the tensors that own some are apart and
    cover everything. AllocateNode takes from a free block or hands memory over, FreeNode gives
    back what its tensor owns.
  * Room: after n allocations everything from n times a tensor's share upwards is free. So
    BestFit always finds a block that fits, and the abort of ggml_dyn_tallocr_alloc ("this
    should never happen", ggml-alloc.c:179) is not reached.
  * Counts: n_children and n_views are the numbers of reads (Pending) and of views (Viewing)
    that are not released yet. Each is the cardinality of a set from which a release takes one
    element, so that no count goes below zero.
  * Kept: a tensor that has been allocated and is not Dead, that is, still has reads or
    views ahead or is an output, owns its memory.
  * Layout: two tensors whose lives overlap have disjoint memory, unless a node took over that of
    its source. For this the source has to be Dead at the next turn, which follows from Reusable
    asking for the last read and Counts being exact (GivenDead).
* `GraphAllocType` (TypeOK) and `BlocksAreExact` (BlocksExact) follow from PlanInv alone.
* `ExecInvariant`: `ExecInv` adds that the plan kept has the Layout of the graph it was made for,
  lies below the size of the buffer and holds the graph's sizes (Stored), and that while
  the graph is executed every tensor that lives holds what was written into it last (Intact). A
  write disturbs only the memory of the tensor that is written, and what else lives is apart from it
  by Layout.
* `ExecutesInBounds` (InBounds), `ReadsAreIntact` (ReadsIntact), `OutputsAreIntact` (OutputsIntact)
  follow. They and ExecInvariant have the hypothesis `~MayChangeGraph`: a plan that is used again
  must be one of the same graph, possibly with fewer tokens, and with other edges ReadsIntact fails
  (see the observations).

## 8. What is not modelled

* Numerics (tensors, sampling, quantization, memory estimates), text processing (tokenizers,
  templates, Modelfile parser, JSON, API translation), file formats and conversion, model
  graphs, GPU discovery, command line, desktop apps and host scripts: they keep no shared
  state, or none whose order of changes matters. They are most of the lines of the program,
  the C and C++ code above all; what remains there are the caches, the allocator and the
  threads.
* Encoder and wrapper caches, uploads, pushes and creates, the blob cache and the client of
  the second registry implementation, the scheduler of several backends: their state is of
  the same kind as what is modelled, and they are left for later.
* Weak memory orderings of C11. Recurrent models. Crashes of a runner in the middle of a batch.

Liveness is checked by TLC only: fairness and ENABLED are out of the prover's reach.
Every invariant and every safety property of a step that a passing run checks is also proved; what
the theorems assume is said in each section.

## 9. Plan

Models: encoder and wrapper caches; uploads; the blob cache of the registry client; an
abstract scheduler that `Scheduler` implements in the environment of `Steady`.
