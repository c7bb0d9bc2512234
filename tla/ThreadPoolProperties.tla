------------------------ MODULE ThreadPoolProperties ------------------------
(***************************************************************************)
(* What the thread pool promises to a caller of ggml_graph_compute.        *)
(***************************************************************************)
EXTENDS ThreadPool

(***************************************************************************)
(* However the threads interleave, the caller sees an ordinary loop over   *)
(* the nodes: each chunk of a node is computed once, never before the      *)
(* previous node is complete, and the call returns after all nodes or,     *)
(* aborted, after a prefix of them.                                        *)
(***************************************************************************)
Loop == INSTANCE GraphCompute WITH
  status  <- IF pc[0] \in {"idle", "join", "freed"} THEN "idle" ELSE "running",
  threads <- asked
ImplementsLoop == Loop!Spec

(***************************************************************************)
(* ggml_graph_compute goes on without the mutex: this program frees the    *)
(* pool after its graph, others reset it, and then "No worker threads      *)
(* should be accessing the parameters below at this stage".  While the     *)
(* main thread is out of the graph, a worker is looking for work or about  *)
(* to leave the last barrier, which has opened.                            *)
(***************************************************************************)
QuietWorkers ==
  pc[0] \in {"idle", "kick", "join", "freed"} =>
    \A t \in Workers :
      \/ pc[t] \in WorkerPCs
      \/ pc[t] = "spin" /\ after[t] = "end" /\ n_barrier_passed # passed[t]

(***************************************************************************)
(* The two counters of the barrier: the threads inside the barrier are the *)
(* ones counted, so that the last one resets a count it completed itself.  *)
(***************************************************************************)
Entered == {t \in Threads : \/ pc[t] = "reset"
                            \/ pc[t] = "spin" /\ n_barrier_passed = passed[t]}
BarrierCount ==
  n_barrier = IF \E t \in Threads : pc[t] = "open" THEN 0 ELSE Cardinality(Entered)

(* A graph that was kicked off is computed or aborted to the end: no       *)
(* wakeup is lost and no thread waits for one that sleeps.                 *)
GraphReturns == pc[0] = "kick" ~> pc[0] = "idle"

(* ggml_threadpool_free returns: every worker sees stop, wherever it       *)
(* polls, sleeps or is paused.                                             *)
PoolFreed == pc[0] = "join" ~> pc[0] = "freed"
=============================================================================
