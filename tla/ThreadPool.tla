----------------------------- MODULE ThreadPool -----------------------------
(***************************************************************************)
(* The thread pool of the CPU backend (ggml-cpu.c, built without OpenMP):  *)
(* the main thread publishes a graph, the workers poll or sleep until they *)
(* see it, all compute it node by node with a spinning barrier in between. *)
(* A step is one access to shared memory outside the mutex, or one         *)
(* critical section; kickoff is split at its stores, because polling       *)
(* threads read them without the mutex.  Loads and stores take effect in   *)
(* program order.  Some definitions have a second form with a telling      *)
(* name, a plausible mistake that the properties must catch.               *)
(***************************************************************************)
EXTENDS Integers, FiniteSets

CONSTANTS
  NThreads,       \* the largest pool
  ThreadCounts,   \* what a cplan may ask for
  MayResize,      \* callers of one pool ask for different numbers of threads
  Graph,          \* the kind of each node of the graph, 0 .. NNodes-1
  NNodes,
  MatChunks,      \* chunks of a matrix product before they are redistributed
  ChunkFactor,    \* chunks per thread below which they are (4 in the code)
  MayAbort,       \* an abort callback is set
  MaxGraphs       \* bounds the calls of ggml_graph_compute

ASSUME PoolAssumption ==
  /\ NThreads \in Nat \ {0} /\ NNodes \in Nat \ {0} /\ MaxGraphs \in Nat
  /\ ThreadCounts \subseteq Nat \ {0}
  /\ MatChunks \in Nat \ {0} /\ ChunkFactor \in Nat \ {0}
  /\ Graph \in [0 .. NNodes - 1 -> {"mul_mat", "map"}]
  /\ MayResize \in BOOLEAN /\ MayAbort \in BOOLEAN

VARIABLES
  n_threads_max,  \* size of the pool, never changed
  n_graph, n_barrier, n_barrier_passed, current_chunk,
  stop, pause, abort, n_threads_cur,
  mutex,          \* "free" or "main": held across the steps of kickoff
  pc,             \* per thread: the next step
  last_graph,     \* per worker, as in ggml_compute_state
  seen,           \* per worker: new_graph, read and not yet compared
  node,           \* per thread: node_n
  nth,            \* per thread: params.nth
  chunk,          \* per thread: current_chunk of the product it computes
  after,          \* per thread: where it goes from the barrier
  limit,          \* per thread: n_threads read in the barrier
  passed,         \* per thread: n_passed
  asked,          \* history: threads of the current graph
  work            \* history: how often each chunk of each node was computed

poolVars  == <<n_threads_max, n_graph, n_barrier, n_barrier_passed, current_chunk,
               stop, pause, abort, n_threads_cur, mutex>>
localVars == <<last_graph, seen, node, nth, chunk, after, limit, passed>>
vars == <<poolVars, pc, localVars, asked, work>>

Threads == 0 .. NThreads - 1
Workers == 1 .. NThreads - 1
Nodes   == 0 .. NNodes - 1

(* ggml_compute_forward_mul_mat: as many chunks as planned, or one per     *)
(* thread if that is too few for them.  Any other node: its rows divided   *)
(* by the number of threads.                                               *)
NChunks(n, k) ==
  IF Graph[n] = "mul_mat" /\ MatChunks >= ChunkFactor * k THEN MatChunks ELSE k
Chunks(n, k) == 0 .. NChunks(n, k) - 1
AllChunks == UNION {{n} \X (0 .. MatChunks + NThreads) : n \in Nodes}

WorkerPCs  == {"top", "plock", "psleep", "stopped", "active", "poll", "polled",
               "lock", "sleep", "exit"}
ComputePCs == {"nth", "cond", "node", "chunk", "steal", "after"}
BarrierPCs == {"barrier", "enter", "reset", "open", "spin"}
MainPCs    == {"idle", "kick", "publish", "signal", "join", "freed"}

TypeOK ==
  /\ n_threads_max \in 1 .. NThreads
  /\ n_graph \in 0 .. MaxGraphs /\ n_barrier \in 0 .. NThreads
  /\ n_barrier_passed \in Nat /\ current_chunk \in Nat
  /\ stop \in BOOLEAN /\ pause \in BOOLEAN
  /\ abort \in -1 .. NNodes /\ n_threads_cur \in 1 .. NThreads
  /\ mutex \in {"free", "main"}
  /\ pc \in [Threads -> WorkerPCs \union ComputePCs \union BarrierPCs \union MainPCs]
  /\ last_graph \in [Workers -> 0 .. MaxGraphs] /\ seen \in [Workers -> 0 .. MaxGraphs]
  /\ node \in [Threads -> 0 .. NNodes] /\ nth \in [Threads -> 1 .. NThreads]
  /\ chunk \in [Threads -> Nat] /\ after \in [Threads -> {"chunks", "next", "end"}]
  /\ limit \in [Threads -> 1 .. NThreads] /\ passed \in [Threads -> Nat]
  /\ asked \in 1 .. NThreads /\ work \in [AllChunks -> Nat]

(* ggml_threadpool_new_impl.  Threads beyond the pool do not exist.        *)
Init ==
  /\ n_threads_max \in 1 .. NThreads
  /\ n_graph = 0 /\ n_barrier = 0 /\ n_barrier_passed = 0 /\ current_chunk = 0
  /\ stop = FALSE /\ pause \in BOOLEAN /\ abort = -1
  /\ n_threads_cur = n_threads_max /\ mutex = "free"
  /\ pc = [t \in Threads |-> IF t = 0 THEN "idle" ELSE IF t < n_threads_max THEN "top" ELSE "exit"]
  /\ last_graph = [t \in Workers |-> 0] /\ seen = [t \in Workers |-> 0]
  /\ node = [t \in Threads |-> 0] /\ nth = [t \in Threads |-> 1]
  /\ chunk = [t \in Threads |-> 0] /\ after = [t \in Threads |-> "end"]
  /\ limit = [t \in Threads |-> 1] /\ passed = [t \in Threads |-> 0]
  /\ asked = 1 /\ work = [p \in AllChunks |-> 0]

Goto(t, from, to) == pc[t] = from /\ pc' = [pc EXCEPT ![t] = to]

(* ggml_cond_broadcast: whoever sleeps goes on as soon as it gets the      *)
(* mutex, in the pause loop or in check_for_work.                          *)
Woken(p) == [t \in Threads |->
  CASE p[t] = "psleep" -> "top" [] p[t] = "sleep" -> "lock" [] OTHER -> p[t]]

-----------------------------------------------------------------------------
(* The main thread.                                                        *)

(* ggml_graph_compute: reset the parameters of the pool.                   *)
GraphCompute(n) ==
  /\ n_graph < MaxGraphs /\ (MayResize \/ n_graph = 0 \/ n = asked)
  /\ Goto(0, "idle", "kick")
  /\ current_chunk' = 0 /\ abort' = -1
  /\ asked' = (IF n > n_threads_max THEN n_threads_max ELSE n)
  /\ work' = [p \in AllChunks |-> 0]
  /\ UNCHANGED <<n_threads_max, n_graph, n_barrier, n_barrier_passed, stop, pause, n_threads_cur,
                 mutex, localVars>>

(* ggml_graph_compute_kickoff, in three steps under the mutex.             *)
KickThreads ==
  /\ mutex = "free" /\ mutex' = "main"
  /\ Goto(0, "kick", "publish")
  /\ n_threads_cur' = asked
  /\ UNCHANGED <<n_threads_max, n_graph, n_barrier, n_barrier_passed, current_chunk, stop, pause,
                 abort, localVars, asked, work>>

KickPublish ==
  /\ Goto(0, "publish", "signal")
  /\ n_graph' = n_graph + 1
  /\ UNCHANGED <<n_threads_max, n_barrier, n_barrier_passed, current_chunk, stop, pause, abort,
                 n_threads_cur, mutex, localVars, asked, work>>

KickSignalSilently ==
  /\ pc[0] = "signal"
  /\ pause' = FALSE /\ mutex' = "free"
  /\ pc' = [pc EXCEPT ![0] = "nth"]
  /\ UNCHANGED <<n_threads_max, n_graph, n_barrier, n_barrier_passed, current_chunk, stop,
                 abort, n_threads_cur, localVars, asked, work>>

KickSignal ==
  /\ pc[0] = "signal"
  /\ pause' = FALSE /\ mutex' = "free"
  /\ pc' = [Woken(pc) EXCEPT ![0] = "nth"]
  /\ UNCHANGED <<n_threads_max, n_graph, n_barrier, n_barrier_passed, current_chunk, stop, abort,
                 n_threads_cur, localVars, asked, work>>

(* ggml_threadpool_pause and ggml_threadpool_resume.                       *)
SetPause(b) ==
  /\ pc[0] = "idle" /\ mutex = "free" /\ pause # b
  /\ pause' = b /\ pc' = Woken(pc)
  /\ UNCHANGED <<n_threads_max, n_graph, n_barrier, n_barrier_passed, current_chunk, stop, abort,
                 n_threads_cur, mutex, localVars, asked, work>>

FreeStaysPaused ==
  /\ pc[0] = "idle" /\ mutex = "free"
  /\ stop' = TRUE
  /\ pc' = [Woken(pc) EXCEPT ![0] = "join"]
  /\ UNCHANGED <<n_threads_max, n_graph, n_barrier, n_barrier_passed, current_chunk, pause,
                 abort, n_threads_cur, mutex, localVars, asked, work>>

(* ggml_threadpool_free: wake everybody, then join.                        *)
Free ==
  /\ pc[0] = "idle" /\ mutex = "free"
  /\ stop' = TRUE /\ pause' = FALSE
  /\ pc' = [Woken(pc) EXCEPT ![0] = "join"]
  /\ UNCHANGED <<n_threads_max, n_graph, n_barrier, n_barrier_passed, current_chunk, abort,
                 n_threads_cur, mutex, localVars, asked, work>>

Join ==
  /\ \A t \in Workers : pc[t] = "exit"
  /\ Goto(0, "join", "freed")
  /\ UNCHANGED <<poolVars, localVars, asked, work>>

-----------------------------------------------------------------------------
(* A worker, ggml_graph_compute_secondary_thread.                          *)

PauseLoop(t) ==
  /\ Goto(t, "top", IF pause THEN "plock" ELSE "stopped")
  /\ UNCHANGED <<poolVars, localVars, asked, work>>

PauseWait(t) ==
  /\ mutex = "free"
  /\ Goto(t, "plock", IF pause THEN "psleep" ELSE "top")
  /\ UNCHANGED <<poolVars, localVars, asked, work>>

CheckStop(t) ==
  /\ Goto(t, "stopped", IF stop THEN "exit" ELSE "active")
  /\ UNCHANGED <<poolVars, localVars, asked, work>>

(* ggml_graph_compute_poll_for_work: unused threads do not poll.           *)
PollForWork(t) ==
  /\ Goto(t, "active", IF t < n_threads_cur THEN "poll" ELSE "lock")
  /\ UNCHANGED <<poolVars, localVars, asked, work>>

(* One round of polling, ggml_graph_compute_thread_ready without the       *)
(* mutex: n_graph is read first and n_threads_cur later.  A thread that    *)
(* sees nothing new polls again or, after n_rounds, takes the mutex.       *)
PollRound(t) ==
  /\ \/ /\ (stop \/ pause \/ n_graph = last_graph[t])
        /\ Goto(t, "poll", "lock") /\ UNCHANGED seen
     \/ /\ ~stop /\ ~pause /\ n_graph # last_graph[t]
        /\ Goto(t, "poll", "polled")
        /\ seen' = [seen EXCEPT ![t] = n_graph]
  /\ UNCHANGED <<poolVars, last_graph, node, nth, chunk, after, limit, passed, asked, work>>

PollActive(t) ==
  /\ Goto(t, "polled", IF t < n_threads_cur THEN "nth" ELSE "poll")
  /\ last_graph' = [last_graph EXCEPT ![t] = seen[t]]
  /\ seen' = [seen EXCEPT ![t] = 0]
  /\ UNCHANGED <<poolVars, node, nth, chunk, after, limit, passed, asked, work>>

(* ggml_graph_compute_check_for_work: the same test under the mutex, then  *)
(* sleep.                                                                  *)
CheckForWork(t) ==
  /\ mutex = "free"
  /\ IF stop \/ pause
     THEN Goto(t, "lock", "top") /\ UNCHANGED last_graph
     ELSE /\ Goto(t, "lock", IF n_graph # last_graph[t] /\ t < n_threads_cur
                               THEN "nth" ELSE "sleep")
          /\ last_graph' = [last_graph EXCEPT ![t] = n_graph]
  /\ UNCHANGED <<poolVars, seen, node, nth, chunk, after, limit, passed, asked, work>>

(* A condition variable may wake without a signal.                         *)
SpuriousWakeup(t) ==
  /\ pc[t] \in {"psleep", "sleep"}
  /\ pc' = [pc EXCEPT ![t] = Woken(pc)[t]]
  /\ UNCHANGED <<poolVars, localVars, asked, work>>

-----------------------------------------------------------------------------
(* Computing, ggml_graph_compute_thread, main thread and workers alike.    *)

StartGraph(t) ==
  /\ Goto(t, "nth", "cond")
  /\ nth' = [nth EXCEPT ![t] = n_threads_cur]
  /\ node' = [node EXCEPT ![t] = 0]
  /\ UNCHANGED <<poolVars, last_graph, seen, chunk, after, limit, passed, asked, work>>

NextNodeLeavesAtOnce(t) ==
  /\ IF node[t] < NNodes /\ abort # node[t]
     THEN Goto(t, "cond", "node")
     ELSE Goto(t, "cond", IF t = 0 THEN "idle" ELSE "top")
  /\ UNCHANGED <<poolVars, localVars, asked, work>>

(* The loop's condition; after the loop everybody meets once more.         *)
NextNode(t) ==
  /\ IF node[t] < NNodes /\ abort # node[t]
     THEN Goto(t, "cond", "node") /\ UNCHANGED after
     ELSE Goto(t, "cond", "barrier") /\ after' = [after EXCEPT ![t] = "end"]
  /\ UNCHANGED <<poolVars, last_graph, seen, node, nth, chunk, limit, passed, asked, work>>

(* ggml_compute_forward: a product first lets thread 0 set the first chunk *)
(* that nobody owns and meets at a barrier; other nodes start at once.     *)
StartNode(t) ==
  /\ pc[t] = "node"
  /\ IF Graph[node[t]] = "mul_mat"
     THEN /\ Goto(t, "node", "barrier") /\ after' = [after EXCEPT ![t] = "chunks"]
          /\ current_chunk' = (IF t = 0 THEN nth[t] ELSE current_chunk)
          /\ UNCHANGED chunk
     ELSE /\ Goto(t, "node", "chunk") /\ chunk' = [chunk EXCEPT ![t] = t]
          /\ UNCHANGED <<after, current_chunk>>
  /\ UNCHANGED <<n_threads_max, n_graph, n_barrier, n_barrier_passed, stop, pause, abort,
                 n_threads_cur, mutex, last_graph, seen, node, nth, limit, passed, asked, work>>

(* The chunk in hand; then the next one, unless there is one per thread.   *)
ComputeChunk(t) ==
  /\ Goto(t, "chunk", IF nth[t] >= NChunks(node[t], nth[t]) THEN "after" ELSE "steal")
  /\ work' = [work EXCEPT ![<<node[t], chunk[t]>>] = @ + 1]
  /\ UNCHANGED <<poolVars, localVars, asked>>

StealChunk(t) ==
  /\ Goto(t, "steal", IF current_chunk < NChunks(node[t], nth[t]) THEN "chunk" ELSE "after")
  /\ chunk' = [chunk EXCEPT ![t] = current_chunk]
  /\ current_chunk' = current_chunk + 1
  /\ UNCHANGED <<n_threads_max, n_graph, n_barrier, n_barrier_passed, stop, pause, abort, n_threads_cur,
                 mutex, last_graph, seen, node, nth, after, limit, passed, asked, work>>

EndNodeGoesOn(t) ==
  /\ pc[t] = "after"
  /\ abort' \in (IF t = 0 /\ MayAbort THEN {abort, node[t] + 1} ELSE {abort})
  /\ Goto(t, "after", "cond") /\ node' = [node EXCEPT ![t] = @ + 1]
  /\ UNCHANGED <<n_threads_max, n_graph, n_barrier, n_barrier_passed, current_chunk, stop,
                 pause, n_threads_cur, mutex, last_graph, seen, nth, chunk, after, limit,
                 passed, asked, work>>

(* The main thread asks whether to abort; then the barrier, except after   *)
(* the last node.                                                          *)
EndNode(t) ==
  /\ pc[t] = "after"
  /\ abort' \in (IF t = 0 /\ MayAbort THEN {abort, node[t] + 1} ELSE {abort})
  /\ IF node[t] + 1 < NNodes
     THEN /\ Goto(t, "after", "barrier") /\ after' = [after EXCEPT ![t] = "next"]
          /\ UNCHANGED node
     ELSE /\ Goto(t, "after", "cond") /\ node' = [node EXCEPT ![t] = @ + 1]
          /\ UNCHANGED after
  /\ UNCHANGED <<n_threads_max, n_graph, n_barrier, n_barrier_passed, current_chunk, stop, pause,
                 n_threads_cur, mutex, last_graph, seen, nth, chunk, limit, passed, asked, work>>

-----------------------------------------------------------------------------
(* ggml_barrier.                                                           *)

Leave(t, from) ==
  /\ Goto(t, from, CASE after[t] = "chunks" -> "chunk"
                     [] after[t] = "next" -> "cond"
                     [] after[t] = "end" -> IF t = 0 THEN "idle" ELSE "top")
  /\ chunk' = [chunk EXCEPT ![t] = IF after[t] = "chunks" THEN t ELSE @]
  /\ node' = [node EXCEPT ![t] = IF after[t] = "next" THEN @ + 1 ELSE @]
  /\ UNCHANGED <<last_graph, seen, nth, after, asked, work>>

BarrierAlone(t) ==
  /\ n_threads_cur = 1 /\ Leave(t, "barrier")
  /\ UNCHANGED <<poolVars, limit, passed>>

BarrierRead(t) ==
  /\ n_threads_cur # 1
  /\ Goto(t, "barrier", "enter")
  /\ limit' = [limit EXCEPT ![t] = n_threads_cur]
  /\ passed' = [passed EXCEPT ![t] = n_barrier_passed]
  /\ UNCHANGED <<poolVars, last_graph, seen, node, nth, chunk, after, asked, work>>

BarrierEnterEarly(t) ==
  /\ Goto(t, "enter", IF n_barrier = limit[t] - 2 THEN "reset" ELSE "spin")
  /\ n_barrier' = n_barrier + 1
  /\ UNCHANGED <<n_threads_max, n_graph, n_barrier_passed, current_chunk, stop, pause, abort,
                 n_threads_cur, mutex, localVars, asked, work>>

BarrierEnter(t) ==
  /\ Goto(t, "enter", IF n_barrier = limit[t] - 1 THEN "reset" ELSE "spin")
  /\ n_barrier' = n_barrier + 1
  /\ UNCHANGED <<n_threads_max, n_graph, n_barrier_passed, current_chunk, stop, pause, abort,
                 n_threads_cur, mutex, localVars, asked, work>>

BarrierResetSkipped(t) == Goto(t, "reset", "open") /\ UNCHANGED <<poolVars, localVars, asked, work>>

BarrierReset(t) ==
  /\ Goto(t, "reset", "open")
  /\ n_barrier' = 0
  /\ UNCHANGED <<n_threads_max, n_graph, n_barrier_passed, current_chunk, stop, pause, abort,
                 n_threads_cur, mutex, localVars, asked, work>>

BarrierOpen(t) ==
  /\ n_barrier_passed' = n_barrier_passed + 1
  /\ Leave(t, "open")
  /\ UNCHANGED <<n_threads_max, n_graph, n_barrier, current_chunk, stop, pause, abort,
                 n_threads_cur, mutex, limit, passed>>

BarrierPass(t) ==
  /\ n_barrier_passed # passed[t]
  /\ Leave(t, "spin")
  /\ UNCHANGED <<poolVars, limit, passed>>

-----------------------------------------------------------------------------
Main ==
  \/ KickThreads \/ KickPublish \/ KickSignal \/ Join
Worker(t) ==
  \/ PauseLoop(t) \/ PauseWait(t) \/ CheckStop(t) \/ PollForWork(t)
  \/ PollRound(t) \/ PollActive(t) \/ CheckForWork(t)
Compute(t) ==
  \/ StartGraph(t) \/ NextNode(t) \/ StartNode(t) \/ ComputeChunk(t)
  \/ StealChunk(t) \/ EndNode(t)
  \/ BarrierAlone(t) \/ BarrierRead(t) \/ BarrierEnter(t) \/ BarrierReset(t)
  \/ BarrierOpen(t) \/ BarrierPass(t)

Next ==
  \/ \E n \in ThreadCounts : GraphCompute(n)
  \/ \E b \in BOOLEAN : SetPause(b)
  \/ Free
  \/ Main
  \/ \E t \in Workers : Worker(t) \/ SpuriousWakeup(t)
  \/ \E t \in Threads : Compute(t)

Spec == Init /\ [][Next]_vars

(* The operating system runs every thread: each one takes its next step    *)
(* when it can.  Callers need not call, pause or free.                     *)
Fairness ==
  /\ WF_vars(Main)
  /\ \A t \in Workers : WF_vars(Worker(t))
  /\ \A t \in Threads : WF_vars(Compute(t))

FairSpec == Spec /\ Fairness
=============================================================================
