---------------------------- MODULE GraphCompute ----------------------------
(***************************************************************************)
(* What a caller of ggml_graph_compute relies on, whatever the threads do: *)
(* the nodes of the graph are computed in order, each chunk of a node      *)
(* once, a node only when the one before it is complete, and the call      *)
(* returns after all nodes or, when it was aborted, after the first few.   *)
(***************************************************************************)
EXTENDS Naturals

CONSTANTS
  NNodes,         \* nodes of a graph
  NThreads,       \* threads of the pool
  Chunks(_, _)    \* Chunks(node, n): the chunks of a node for n threads

VARIABLES
  status,         \* "idle", "running"
  threads,        \* threads asked for
  work            \* work[<<node, chunk>>]: how often it was computed

vars == <<status, threads, work>>

Nodes == 0 .. NNodes - 1

Complete(node) == \A c \in Chunks(node, threads) : work[<<node, c>>] = 1
Untouched(node) == \A p \in DOMAIN work : p[1] = node => work[p] = 0

Init == status = "idle" /\ threads = 1 /\ \A p \in DOMAIN work : work[p] = 0

Call ==
  /\ status = "idle" /\ status' = "running"
  /\ threads' \in 1 .. NThreads
  /\ work' = [p \in DOMAIN work |-> 0]

Compute(node, c) ==
  /\ status = "running"
  /\ c \in Chunks(node, threads) /\ work[<<node, c>>] = 0
  /\ \A m \in Nodes : m < node => Complete(m)
  /\ work' = [work EXCEPT ![<<node, c>>] = 1]
  /\ UNCHANGED <<status, threads>>

(* A success has computed everything, an abort a prefix of the nodes.      *)
Return ==
  /\ status = "running" /\ status' = "idle"
  /\ \E k \in 0 .. NNodes : \A m \in Nodes : IF m < k THEN Complete(m) ELSE Untouched(m)
  /\ UNCHANGED <<threads, work>>

Next ==
  \/ Call
  \/ \E p \in DOMAIN work : Compute(p[1], p[2])
  \/ Return

Spec == Init /\ [][Next]_vars
=============================================================================
