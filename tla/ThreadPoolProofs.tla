-------------------------- MODULE ThreadPoolProofs --------------------------
(***************************************************************************)
(* Theorems about the thread pool, for any number of threads and nodes, as *)
(* long as all graphs of a pool are computed by the same number of threads *)
(* (MayResize = FALSE).                                                    *)
(*                                                                         *)
(* The argument: barriers cut the computation of a graph into regions, and *)
(* all threads are in the same region of the same graph.  A thread that    *)
(* still spins in a barrier that has opened counts as beyond it; a worker  *)
(* outside of a graph is in the first region of the graph it waits for.    *)
(***************************************************************************)
EXTENDS ThreadPoolProperties, FiniteSetTheorems, TLAPS

(* The threads that compute.                                               *)
Team == 0 .. asked - 1

MulMat(n) == Graph[n] = "mul_mat"

(* Region 2n of a graph begins node n; a product has region 2n + 1 too,    *)
(* which begins when its first chunks are set.  Full(n): the region in     *)
(* which the chunks of n are computed.                                     *)
Full(n) == IF MulMat(n) THEN 2 * n + 1 ELSE 2 * n

(* The barrier has opened, but the thread has not noticed.                 *)
Late(t) == pc[t] = "spin" /\ passed[t] # n_barrier_passed

Outside == {"idle", "kick", "publish", "join", "freed"}

(* The region where a thread is before its node, in it, or at its end.     *)
Begun(n) == IF n = NNodes THEN Full(NNodes - 1) ELSE 2 * n
RegionOf(t) ==
  IF Late(t) THEN IF after[t] = "chunks" THEN 2 * node[t] + 1
                  ELSE IF after[t] = "next" THEN 2 * node[t] + 2 ELSE 0
  ELSE IF pc[t] \in {"cond", "node"} THEN Begun(node[t])
  ELSE IF pc[t] \in {"chunk", "steal", "after"} THEN Full(node[t])
  ELSE IF pc[t] \in BarrierPCs THEN IF after[t] = "next" THEN Full(node[t]) ELSE Begun(node[t])
  ELSE 0

(* The graph of that region.                                               *)
Left(t) == Late(t) /\ after[t] = "end"
GraphOf(t) ==
  IF t = 0 THEN IF pc[0] \in Outside \/ Left(0) THEN n_graph + 1 ELSE n_graph
  ELSE IF pc[t] \in WorkerPCs \/ Left(t) THEN last_graph[t] + 1 ELSE last_graph[t]

Sync == \A t \in Team : GraphOf(t) = GraphOf(0) /\ RegionOf(t) = RegionOf(0)

(* Only the team computes, and it has the size that n_threads_cur says.    *)
PoolInv ==
  /\ asked <= n_threads_max
  /\ n_graph > 0 \/ pc[0] = "publish" => n_threads_cur = asked
  /\ pc[0] \in MainPCs \union ComputePCs \union BarrierPCs
  /\ pc[0] \in {"signal"} \union ComputePCs \union BarrierPCs => n_graph > 0
  /\ pc[0] \in {"kick", "publish"} => n_graph < MaxGraphs
Member(t) ==
  /\ pc[t] \in WorkerPCs \union ComputePCs \union BarrierPCs
  /\ last_graph[t] <= n_graph
  /\ pc[t] = "polled" => last_graph[t] < seen[t] /\ seen[t] <= n_graph
  /\ pc[t] \notin WorkerPCs => last_graph[t] > 0 /\ t < asked
TeamInv == PoolInv /\ \A t \in Workers : Member(t)

(* What a thread has read of the shared state when it is at a step.        *)
Local(t) ==
  /\ pc[t] \in (ComputePCs \ {"nth"}) \union BarrierPCs => nth[t] = asked
  /\ pc[t] \in {"node", "chunk", "steal", "after"} => node[t] < NNodes /\ abort # node[t]
  /\ pc[t] \in BarrierPCs =>
       /\ after[t] = "chunks" => node[t] < NNodes /\ MulMat(node[t]) /\ abort # node[t]
       /\ after[t] = "next" => node[t] + 1 < NNodes
       /\ ~Late(t) /\ after[t] = "next" => abort # node[t]
       /\ ~Late(t) /\ after[t] = "end" => node[t] = NNodes \/ abort = node[t]
  /\ pc[t] = "cond" \/ (pc[t] \in BarrierPCs /\ ~Late(t) /\ after[t] = "end") =>
       (node[t] = NNodes => abort # NNodes - 1)
  /\ pc[t] \in {"enter", "reset", "open", "spin"} => limit[t] = asked /\ asked > 1
  /\ pc[t] \in {"enter", "reset", "open"} => passed[t] = n_barrier_passed
  /\ passed[t] <= n_barrier_passed
LocalInv == \A t \in Threads : Local(t)

(* The last thread to enter a barrier finds all others waiting in it.      *)
LastInv ==
  \A t \in Threads : pc[t] \in {"reset", "open"} =>
    \A u \in Team \ {t} : pc[u] = "spin" /\ ~Late(u)

SyncInv == TypeOK /\ TeamInv /\ Sync /\ LocalInv /\ LastInv /\ BarrierCount

-----------------------------------------------------------------------------
(* Steps that leave the barrier's counters alone.                          *)

(* A thread that a step leaves where it is, or woken in its search for     *)
(* work.                                                                   *)
Still(u) ==
  /\ \/ pc'[u] = pc[u]
     \/ u \in Workers /\ pc[u] \in WorkerPCs /\ pc'[u] \in WorkerPCs \ {"polled"}
  /\ node'[u] = node[u] /\ nth'[u] = nth[u] /\ after'[u] = after[u]
  /\ limit'[u] = limit[u] /\ passed'[u] = passed[u]
  /\ u \in Workers => last_graph'[u] = last_graph[u] /\ seen'[u] = seen[u]

(* A step that keeps a thread in its region.                               *)
Same(u) == GraphOf(u)' = GraphOf(u) /\ RegionOf(u)' = RegionOf(u)

(* The same program points have the same names in all threads.             *)
LEMMA ProgramPoints ==
  /\ WorkerPCs \intersect ComputePCs = {}
  /\ WorkerPCs \intersect BarrierPCs = {}
  /\ WorkerPCs \intersect MainPCs = {}
  /\ ComputePCs \intersect BarrierPCs = {}
  /\ MainPCs \intersect (ComputePCs \union BarrierPCs) = {}
  /\ Outside \subseteq MainPCs
  BY DEF WorkerPCs, ComputePCs, BarrierPCs, MainPCs, Outside

(* Thread 0 is the main thread, the others are workers.                    *)
LEMMA ThreadKinds ==
  /\ 0 \in Threads /\ Workers \subseteq Threads /\ 0 \notin Workers
  /\ \A t \in Threads : t # 0 => t \in Workers
  /\ \A t \in Threads : t \in Nat
  BY PoolAssumption DEF Threads, Workers

(* The team is a part of the pool.                                         *)
LEMMA TeamRange == \A k \in 1 .. NThreads : 0 .. k - 1 \subseteq Threads
  BY PoolAssumption DEF Threads

(* The team is part of the pool, and the main thread is in it.             *)
LEMMA TeamThreads ==
  ASSUME TypeOK
  PROVE  0 \in Team /\ Team \subseteq Threads /\ asked \in Nat \ {0}
<1>1. asked \in 1 .. NThreads
  BY DEF TypeOK
<1> QED BY <1>1, PoolAssumption, TeamRange DEF Team

(* A still thread stays in its region.                                     *)
LEMMA StillSame ==
  ASSUME NEW u \in Threads, Still(u),
         n_barrier_passed' = n_barrier_passed, u = 0 => n_graph' = n_graph
  PROVE  Same(u) /\ (Late(u)' <=> Late(u))
<1>1. CASE pc'[u] = pc[u]
  <2>1. Late(u)' <=> Late(u)
    BY <1>1 DEF Still, Late
  <2>2. RegionOf(u)' = RegionOf(u)
    BY <1>1, <2>1 DEF Still, RegionOf, Begun
  <2>3. GraphOf(u)' = GraphOf(u)
    BY <1>1, <2>1, ThreadKinds DEF Still, GraphOf, Left
  <2> QED BY <2>1, <2>2, <2>3 DEF Same
<1>2. CASE pc'[u] # pc[u]
  <2>1. u \in Workers /\ pc[u] \in WorkerPCs /\ pc'[u] \in WorkerPCs
    BY <1>2 DEF Still
  <2>2. ~Late(u) /\ ~Late(u)'
    BY <2>1 DEF Late, WorkerPCs
  <2>3. RegionOf(u) = 0 /\ RegionOf(u)' = 0
    BY <2>1, <2>2 DEF RegionOf, WorkerPCs, BarrierPCs
  <2>4. GraphOf(u)' = GraphOf(u)
    BY <2>1, ThreadKinds DEF Still, GraphOf
  <2> QED BY <2>2, <2>3, <2>4 DEF Same
<1> QED BY <1>1, <1>2

(* A still thread keeps what it has read, as long as the shared state is   *)
(* what it was.                                                            *)
LEMMA StillLocal ==
  ASSUME NEW u \in Threads, Still(u), Local(u), Late(u)' <=> Late(u),
         n_barrier_passed' = n_barrier_passed, asked' = asked, abort' = abort
  PROVE  Local(u)'
<1>1. CASE pc'[u] = pc[u]
  BY <1>1 DEF Still, Local
<1>2. CASE pc'[u] # pc[u]
  <2>1. pc'[u] \in WorkerPCs
    BY <1>2 DEF Still
  <2>2. pc'[u] \notin ComputePCs \union BarrierPCs
    BY <2>1, ProgramPoints
  <2> QED BY <2>2 DEF Still, Local, ComputePCs, BarrierPCs
<1> QED BY <1>1, <1>2

(* A step of thread t that leaves the barrier's counters alone, in which   *)
(* the others at most wake up, keeps the invariant if t stays in its       *)
(* region.                                                                 *)
LEMMA OneStep ==
  ASSUME NEW t \in Threads, SyncInv, TypeOK', PoolInv',
         asked' = asked, n_barrier' = n_barrier, n_barrier_passed' = n_barrier_passed,
         n_graph' = n_graph \/ (t = 0 /\ n_graph' = n_graph + 1),
         \A u \in Threads \ {t} : Still(u),
         \A u \in Threads : Local(u)',
         pc[t] \notin {"reset", "open"}, pc'[t] \notin {"reset", "open", "spin"},
         pc[t] = "spin" => Late(t),
         t \in Workers => Member(t)',
         t \in Team => Same(t) \/ asked = 1
  PROVE  SyncInv'
<1> USE DEF SyncInv
<1>1. \A u \in Threads \ {t} : Same(u) /\ (Late(u)' <=> Late(u))
  <2> SUFFICES ASSUME NEW u \in Threads \ {t} PROVE Same(u) /\ (Late(u)' <=> Late(u))
    OBVIOUS
  <2>1. Still(u) /\ (u = 0 => n_graph' = n_graph)
    OBVIOUS
  <2> QED BY <2>1, StillSame
<1>2. TeamInv'
  <2>1. \A u \in Workers \ {t} : Member(u)'
    <3> SUFFICES ASSUME NEW u \in Workers \ {t} PROVE Member(u)'
      OBVIOUS
    <3>1. Still(u) /\ Member(u)
      BY ThreadKinds DEF TeamInv
    <3>2. last_graph[u] \in Nat /\ seen[u] \in Nat /\ n_graph \in Nat
      BY DEF TypeOK
    <3> QED BY <3>1, <3>2 DEF Still, Member
  <2> QED BY <2>1 DEF TeamInv
<1>3. Sync'
  <2>1. CASE asked = 1
    <3>1. Team' = {0}
      BY <2>1 DEF Team
    <3> QED BY <3>1 DEF Sync
  <2>2. CASE asked # 1
    <3>1. \A u \in Team : Same(u)
      BY <1>1, <2>2, TeamThreads DEF TeamInv
    <3>2. 0 \in Team /\ Team' = Team
      BY TeamThreads DEF Team, TeamInv
    <3> QED BY <3>1, <3>2 DEF Sync, Same
  <2> QED BY <2>1, <2>2
<1>4. LocalInv'
  BY DEF LocalInv
<1>5. LastInv'
  <2> SUFFICES ASSUME NEW u \in Threads, pc'[u] \in {"reset", "open"},
                      NEW w \in Team \ {u}
               PROVE  pc'[w] = "spin" /\ ~Late(w)'
    BY DEF LastInv, Team
  <2>1. u # t /\ pc[u] \in {"reset", "open"}
    BY DEF Still, WorkerPCs
  <2>2. pc[w] = "spin" /\ ~Late(w)
    BY <2>1 DEF LastInv
  <2>3. w # t /\ w \in Threads
    BY <2>2, TeamThreads DEF TeamInv
  <2>4. pc'[w] = pc[w]
    BY <2>2, <2>3 DEF Still, WorkerPCs
  <2> QED BY <1>1, <2>2, <2>3, <2>4
<1>6. BarrierCount'
  <2>1. ASSUME NEW u \in Threads
        PROVE  (pc'[u] = "open" <=> pc[u] = "open") /\ (u \in Entered' <=> u \in Entered)
    <3>1. CASE u = t
      BY <3>1 DEF Entered, Late
    <3>2. CASE u # t
      BY <3>2 DEF Entered, Still, WorkerPCs
    <3> QED BY <3>1, <3>2
  <2>2. Entered' = Entered
    <3>1. Entered \subseteq Threads /\ Entered' \subseteq Threads
      BY DEF Entered
    <3> QED BY <3>1, <2>1
  <2> QED BY <2>1, <2>2 DEF BarrierCount
<1> QED BY <1>2, <1>3, <1>4, <1>5, <1>6

-----------------------------------------------------------------------------
(* The main thread outside of a graph, and a worker in search of work.     *)

(* While the main thread is out of the graph, so are the workers: they are *)
(* in search of work or about to leave the last barrier.                   *)
LEMMA QuietOutside ==
  ASSUME SyncInv, pc[0] \in Outside, NEW t \in Workers
  PROVE  pc[t] \in WorkerPCs \/ Left(t)
<1> SUFFICES ASSUME pc[t] \notin WorkerPCs PROVE Left(t)
  OBVIOUS
<1>1. last_graph[t] <= n_graph /\ t < asked
  BY DEF SyncInv, TeamInv, Member
<1>2. t \in Team
  BY <1>1 DEF Team, Workers, SyncInv, TypeOK
<1>3. GraphOf(t) = n_graph + 1
  BY <1>2 DEF SyncInv, Sync, GraphOf
<1>4. last_graph[t] \in Nat /\ n_graph \in Nat
  BY DEF SyncInv, TypeOK
<1> QED BY <1>1, <1>3, <1>4, ThreadKinds DEF GraphOf

(* Of a wakeup, every thread is still.                                     *)
LEMMA WokenStill ==
  ASSUME SyncInv, UNCHANGED localVars, NEW u \in Workers, pc'[u] = Woken(pc)[u]
  PROVE  Still(u)
<1>1. Woken(pc)[u] = CASE pc[u] = "psleep" -> "top" [] pc[u] = "sleep" -> "lock" [] OTHER -> pc[u]
  BY ThreadKinds DEF Woken
<1>2. \/ pc'[u] = pc[u]
      \/ pc[u] \in WorkerPCs /\ pc'[u] \in WorkerPCs \ {"polled"}
  BY <1>1 DEF WorkerPCs
<1> QED BY <1>2 DEF Still, localVars

(* Wakeups keep the type of pc.                                            *)
LEMMA WokenType ==
  ASSUME TypeOK
  PROVE  Woken(pc) \in [Threads -> WorkerPCs \union ComputePCs \union BarrierPCs \union MainPCs]
<1>1. \A t \in Threads : Woken(pc)[t] \in {pc[t], "top", "lock"}
  BY DEF Woken
<1>2. "top" \in WorkerPCs /\ "lock" \in WorkerPCs
  BY DEF WorkerPCs
<1>3. \A t \in Threads : pc[t] \in WorkerPCs \union ComputePCs \union BarrierPCs \union MainPCs
  BY DEF TypeOK
<1> QED BY <1>1, <1>2, <1>3 DEF Woken

(* A step of the main thread between two of its own program points.        *)
LEMMA MainMove ==
  ASSUME SyncInv, TypeOK', PoolInv', UNCHANGED localVars,
         asked' = asked, n_barrier' = n_barrier, n_barrier_passed' = n_barrier_passed,
         abort' = abort, n_graph' = n_graph \/ n_graph' = n_graph + 1,
         \A u \in Workers : pc'[u] = pc[u] \/ pc'[u] = Woken(pc)[u],
         pc[0] \in MainPCs, pc'[0] \in MainPCs \union {"nth"},
         GraphOf(0)' = GraphOf(0)
  PROVE  SyncInv'
<1> DEFINE t == 0
<1>1. \A u \in Threads \ {0} : Still(u)
  <2> SUFFICES ASSUME NEW u \in Threads \ {0} PROVE Still(u)
    OBVIOUS
  <2>1. u \in Workers
    BY ThreadKinds
  <2>2. CASE pc'[u] = pc[u]
    BY <2>1, <2>2 DEF Still, localVars
  <2>3. CASE pc'[u] = Woken(pc)[u]
    BY <2>1, <2>3, WokenStill
  <2> QED BY <2>1, <2>2, <2>3
<1>2. ~Late(0) /\ ~Late(0)' /\ RegionOf(0) = 0 /\ RegionOf(0)' = 0
  BY DEF MainPCs, Late, RegionOf, BarrierPCs
<1>3. Local(0)'
  <2>1. pc'[0] \notin (ComputePCs \ {"nth"}) \union BarrierPCs
    BY DEF MainPCs, ComputePCs, BarrierPCs
  <2>2. passed'[0] <= n_barrier_passed'
    BY ThreadKinds DEF SyncInv, LocalInv, Local, localVars
  <2> QED BY <2>1, <2>2 DEF Local, ComputePCs, BarrierPCs
<1>4. \A u \in Threads : Local(u)'
  <2> SUFFICES ASSUME NEW u \in Threads \ {0} PROVE Local(u)'
    BY <1>3
  <2>1. Still(u) /\ Local(u) /\ (Late(u)' <=> Late(u))
    BY <1>1, StillSame DEF SyncInv, LocalInv
  <2> QED BY <2>1, StillLocal
<1>5. pc[0] \notin {"reset", "open", "spin"} /\ pc'[0] \notin {"reset", "open", "spin"}
  BY DEF MainPCs
<1>6. Same(0)
  BY <1>2 DEF Same
<1> HIDE DEF t
<1> QED BY <1>1, <1>4, <1>5, <1>6, ThreadKinds, OneStep

(* ggml_graph_compute resets the pool while the workers are quiet, and     *)
(* with the same number of threads as before.                              *)
LEMMA GraphComputeSync ==
  ASSUME ~MayResize, SyncInv, NEW n \in ThreadCounts, GraphCompute(n)
  PROVE  SyncInv'
<1> USE DEF SyncInv
<1>1. pc[0] = "idle" /\ pc' = [pc EXCEPT ![0] = "kick"] /\ n_graph < MaxGraphs
  BY DEF GraphCompute, Goto
<1>2. asked' \in 1 .. NThreads /\ asked' <= n_threads_max /\ (n_graph = 0 \/ asked' = asked)
  <2>1. n \in Nat \ {0} /\ n_threads_max \in 1 .. NThreads /\ NThreads \in Nat
    BY PoolAssumption DEF TypeOK
  <2>2. asked \in 1 .. NThreads /\ asked <= n_threads_max
    BY DEF TypeOK, TeamInv, PoolInv
  <2>3. asked' = (IF n > n_threads_max THEN n_threads_max ELSE n) /\ (n_graph = 0 \/ n = asked)
    BY DEF GraphCompute
  <2> QED BY <2>1, <2>2, <2>3
<1>3. /\ UNCHANGED <<n_threads_max, n_graph, n_barrier, n_barrier_passed, stop, pause,
                     n_threads_cur, mutex>>
      /\ UNCHANGED localVars
      /\ current_chunk' = 0 /\ abort' = -1 /\ work' = [p \in AllChunks |-> 0]
  BY DEF GraphCompute
<1>4. TypeOK'
  BY <1>1, <1>2, <1>3, PoolAssumption, ThreadKinds, SMTT(40) DEF TypeOK, localVars, MainPCs
<1>5. pc'[0] = "kick" /\ \A u \in Workers : pc'[u] = pc[u]
  BY <1>1, ThreadKinds DEF TypeOK
<1>6. \A u \in Workers : (pc[u] \in WorkerPCs \/ Left(u)) /\ (n_graph = 0 => pc[u] \in WorkerPCs)
  BY <1>1, QuietOutside DEF Outside, TeamInv, Member, TypeOK
<1>7. PoolInv'
  BY <1>1, <1>2, <1>3, <1>5 DEF TeamInv, PoolInv, MainPCs, ComputePCs, BarrierPCs, TypeOK
<1>8. \A u \in Threads : Late(u)' <=> Late(u)
  BY <1>1, <1>3, <1>5, ThreadKinds DEF Late, localVars
<1>9. \A u \in Workers : Member(u)'
  BY <1>2, <1>3, <1>5, <1>6 DEF Member, TeamInv, localVars
<1>10. \A u \in Workers : Same(u)
  <2> SUFFICES ASSUME NEW u \in Workers PROVE Same(u)
    OBVIOUS
  <2> QED BY <1>3, <1>5, StillSame, ThreadKinds DEF Still, localVars
<1>11. Same(0)
  <2>1. ~Late(0) /\ ~Late(0)' /\ RegionOf(0) = 0 /\ RegionOf(0)' = 0
    BY <1>1, <1>5 DEF Late, RegionOf, BarrierPCs
  <2>2. GraphOf(0) = n_graph + 1 /\ GraphOf(0)' = n_graph + 1
    BY <1>1, <1>3, <1>5 DEF GraphOf, Outside
  <2> QED BY <2>1, <2>2 DEF Same
<1>12. Sync'
  <2>1. CASE n_graph = 0
    <3>1. \A u \in Workers : GraphOf(u) = 1 /\ RegionOf(u) = 0
      <4> SUFFICES ASSUME NEW u \in Workers PROVE GraphOf(u) = 1 /\ RegionOf(u) = 0
        OBVIOUS
      <4>1. pc[u] \in WorkerPCs /\ last_graph[u] = 0
        BY <1>6, <2>1 DEF TeamInv, Member, TypeOK
      <4> QED BY <4>1, ThreadKinds DEF GraphOf, RegionOf, Late, WorkerPCs, BarrierPCs
    <3>2. GraphOf(0) = 1 /\ RegionOf(0) = 0
      BY <1>1, <2>1 DEF GraphOf, RegionOf, Late, BarrierPCs, Outside
    <3>3. Team' \subseteq Threads
      BY <1>2, TeamRange DEF Team
    <3> QED BY <1>10, <1>11, <3>1, <3>2, <3>3, ThreadKinds DEF Sync, Same
  <2>2. CASE asked' = asked
    <3>1. 0 \in Team /\ Team \subseteq Threads /\ Team' = Team
      BY <2>2, TeamThreads DEF Team, TeamInv
    <3> QED BY <1>10, <1>11, <3>1, ThreadKinds DEF Sync, Same
  <2> QED BY <1>2, <2>1, <2>2
<1>13. LocalInv'
  <2>1. Local(0)'
    BY <1>3, <1>5, ThreadKinds DEF LocalInv, Local, ComputePCs, BarrierPCs, localVars
  <2>2. ASSUME NEW u \in Workers PROVE Local(u)'
    <3>1. CASE pc[u] \in WorkerPCs
      <4>1. pc'[u] \notin ComputePCs \union BarrierPCs
        BY <1>5, <3>1, ProgramPoints
      <4> QED BY <1>3, <4>1, ThreadKinds DEF LocalInv, Local, ComputePCs, BarrierPCs, localVars
    <3>2. CASE Left(u) /\ pc[u] \notin WorkerPCs
      <4>1. asked' = asked /\ pc'[u] = "spin" /\ after'[u] = "end" /\ Late(u)'
        BY <1>2, <1>3, <1>5, <1>6, <1>8, <3>2, ThreadKinds DEF Left, Late, localVars
      <4> QED BY <1>3, <1>5, <3>2, <4>1, ThreadKinds DEF LocalInv, Local, ComputePCs, localVars
    <3> QED BY <1>6, <3>1, <3>2
  <2> QED BY <2>1, <2>2, ThreadKinds DEF LocalInv
<1>14. \A u \in Threads : pc'[u] \notin {"reset", "open"}
  BY <1>5, <1>6, ThreadKinds DEF Left, Late, WorkerPCs
<1>15. BarrierCount'
  <2>1. \A u \in Threads : pc[u] \notin {"reset", "open"}
    BY <1>1, <1>6, ThreadKinds DEF Left, Late, WorkerPCs
  <2>2. Entered' = Entered
    BY <1>14, <2>1, <1>3, <1>5, <1>1, ThreadKinds DEF Entered, localVars
  <2> QED BY <1>3, <1>14, <2>1, <2>2 DEF BarrierCount
<1>16. LastInv'
  BY <1>14 DEF LastInv
<1> QED BY <1>4, <1>7, <1>9, <1>12, <1>13, <1>15, <1>16 DEF TeamInv

(* The main thread's other steps outside of a graph.                       *)
LEMMA MainSync ==
  ASSUME SyncInv, Main \/ Free \/ \E b \in BOOLEAN : SetPause(b)
  PROVE  SyncInv'
<1>t. TypeOK /\ PoolInv
  BY DEF SyncInv, TeamInv
<1>m. MainPCs \subseteq WorkerPCs \union ComputePCs \union BarrierPCs \union MainPCs /\ "nth" \in ComputePCs
  BY DEF ComputePCs
<1>1. CASE KickThreads
  <2>1. pc[0] = "kick" /\ pc' = [pc EXCEPT ![0] = "publish"] /\ pc'[0] = "publish"
    BY <1>1, <1>t, ThreadKinds DEF KickThreads, Goto, TypeOK
  <2>2. TypeOK'
    BY <1>1, <1>t, <2>1 DEF KickThreads, TypeOK, localVars, MainPCs
  <2>3. PoolInv'
    BY <1>1, <1>t, <2>1 DEF KickThreads, PoolInv, MainPCs, ComputePCs, BarrierPCs
  <2>4. GraphOf(0)' = GraphOf(0)
    BY <1>1, <2>1 DEF KickThreads, GraphOf, Outside
  <2>5. \A u \in Workers : pc'[u] = pc[u]
    BY <1>t, <2>1, ThreadKinds DEF TypeOK
  <2> QED BY <1>1, <2>1, <2>2, <2>3, <2>4, <2>5, MainMove DEF KickThreads, MainPCs
<1>2. CASE KickPublish
  <2>1. pc[0] = "publish" /\ pc' = [pc EXCEPT ![0] = "signal"] /\ pc'[0] = "signal"
    BY <1>2, <1>t, ThreadKinds DEF KickPublish, Goto, TypeOK
  <2>2. n_graph \in Nat /\ n_graph < MaxGraphs /\ n_graph' = n_graph + 1
    BY <1>2, <1>t, <2>1 DEF KickPublish, TypeOK, PoolInv
  <2>3. TypeOK'
    BY <1>2, <1>t, <2>1, <2>2, PoolAssumption DEF KickPublish, TypeOK, localVars, MainPCs
  <2>4. PoolInv'
    BY <1>2, <1>t, <2>1, <2>2 DEF KickPublish, PoolInv, MainPCs, ComputePCs, BarrierPCs
  <2>5. GraphOf(0)' = GraphOf(0)
    BY <1>2, <2>1, <2>2 DEF KickPublish, GraphOf, Outside, Left, Late
  <2>6. \A u \in Workers : pc'[u] = pc[u]
    BY <1>t, <2>1, ThreadKinds DEF TypeOK
  <2> QED BY <1>2, <2>1, <2>2, <2>3, <2>4, <2>5, <2>6, MainMove DEF KickPublish, MainPCs
<1>3. CASE KickSignal
  <2>1. /\ pc[0] = "signal" /\ pc'[0] = "nth"
        /\ pc' \in [Threads -> WorkerPCs \union ComputePCs \union BarrierPCs \union MainPCs]
        /\ \A u \in Workers : pc'[u] = Woken(pc)[u]
    BY <1>3, <1>t, <1>m, WokenType, ThreadKinds DEF KickSignal
  <2>2. TypeOK'
    BY <1>3, <1>t, <2>1 DEF KickSignal, TypeOK, localVars
  <2>3. PoolInv'
    BY <1>3, <1>t, <2>1 DEF KickSignal, PoolInv, MainPCs, ComputePCs, BarrierPCs
  <2>4. GraphOf(0)' = GraphOf(0)
    BY <1>3, <2>1 DEF KickSignal, GraphOf, Outside, Left, Late
  <2> QED BY <1>3, <2>1, <2>2, <2>3, <2>4, MainMove DEF KickSignal, MainPCs
<1>4. CASE Join
  <2>1. pc[0] = "join" /\ pc' = [pc EXCEPT ![0] = "freed"] /\ pc'[0] = "freed"
    BY <1>4, <1>t, ThreadKinds DEF Join, Goto, TypeOK
  <2>2. TypeOK'
    BY <1>4, <1>t, <2>1 DEF Join, TypeOK, localVars, poolVars, MainPCs
  <2>3. PoolInv'
    BY <1>4, <1>t, <2>1 DEF Join, PoolInv, MainPCs, ComputePCs, BarrierPCs, poolVars
  <2>4. GraphOf(0)' = GraphOf(0)
    BY <1>4, <2>1 DEF Join, GraphOf, Outside, poolVars
  <2>5. \A u \in Workers : pc'[u] = pc[u]
    BY <1>t, <2>1, ThreadKinds DEF TypeOK
  <2> QED BY <1>4, <2>1, <2>2, <2>3, <2>4, <2>5, MainMove DEF Join, MainPCs, poolVars
<1>5. CASE Free
  <2>1. /\ pc[0] = "idle" /\ pc'[0] = "join"
        /\ pc' \in [Threads -> WorkerPCs \union ComputePCs \union BarrierPCs \union MainPCs]
        /\ \A u \in Workers : pc'[u] = Woken(pc)[u]
    BY <1>5, <1>t, WokenType, ThreadKinds DEF Free, MainPCs
  <2>2. TypeOK'
    BY <1>5, <1>t, <2>1 DEF Free, TypeOK, localVars
  <2>3. PoolInv'
    BY <1>5, <1>t, <2>1 DEF Free, PoolInv, MainPCs, ComputePCs, BarrierPCs
  <2>4. GraphOf(0)' = GraphOf(0)
    BY <1>5, <2>1 DEF Free, GraphOf, Outside
  <2> QED BY <1>5, <2>1, <2>2, <2>3, <2>4, MainMove DEF Free, MainPCs
<1>6. ASSUME NEW b \in BOOLEAN, SetPause(b) PROVE SyncInv'
  <2>1. /\ pc[0] = "idle" /\ pc'[0] = "idle"
        /\ pc' \in [Threads -> WorkerPCs \union ComputePCs \union BarrierPCs \union MainPCs]
        /\ \A u \in Workers : pc'[u] = Woken(pc)[u]
    BY <1>6, <1>t, WokenType, ThreadKinds DEF SetPause, Woken
  <2>2. TypeOK'
    BY <1>6, <1>t, <2>1 DEF SetPause, TypeOK, localVars
  <2>3. PoolInv'
    BY <1>6, <1>t, <2>1 DEF SetPause, PoolInv, MainPCs, ComputePCs, BarrierPCs
  <2>4. GraphOf(0)' = GraphOf(0)
    BY <1>6, <2>1 DEF SetPause, GraphOf, Outside
  <2> QED BY <1>6, <2>1, <2>2, <2>3, <2>4, MainMove DEF SetPause, MainPCs
<1> QED BY <1>1, <1>2, <1>3, <1>4, <1>5, <1>6 DEF Main

(* A step of a worker in search of work.                                   *)
LEMMA WorkerMove ==
  ASSUME SyncInv, NEW t \in Workers, TypeOK', Member(t)',
         pc[t] \in WorkerPCs, pc'[t] \in WorkerPCs \union {"nth"},
         \A u \in Threads \ {t} : pc'[u] = pc[u],
         UNCHANGED <<n_threads_max, n_graph, n_barrier, n_barrier_passed, abort, n_threads_cur,
                     node, nth, after, limit, passed, asked>>,
         \A u \in Workers \ {t} : last_graph'[u] = last_graph[u] /\ seen'[u] = seen[u],
         t \in Team => GraphOf(t)' = GraphOf(t)
  PROVE  SyncInv'
<1>1. pc'[t] \in WorkerPCs \union {"nth"} /\ \A u \in Threads \ {t} : pc'[u] = pc[u]
  OBVIOUS
<1>2. \A u \in Threads \ {t} : Still(u)
  BY <1>1 DEF Still
<1>3. ~Late(t) /\ ~Late(t)' /\ RegionOf(t) = 0 /\ RegionOf(t)' = 0
  BY <1>1 DEF WorkerPCs, Late, RegionOf, BarrierPCs
<1>4. Local(t)'
  <2>1. pc'[t] \notin (ComputePCs \ {"nth"}) \union BarrierPCs
    BY <1>1 DEF WorkerPCs, ComputePCs, BarrierPCs
  <2>2. passed'[t] <= n_barrier_passed'
    BY ThreadKinds DEF SyncInv, LocalInv, Local
  <2> QED BY <2>1, <2>2 DEF Local, ComputePCs, BarrierPCs
<1>5. \A u \in Threads : Local(u)'
  <2> SUFFICES ASSUME NEW u \in Threads \ {t} PROVE Local(u)'
    BY <1>4
  <2>1. Still(u) /\ Local(u) /\ (Late(u)' <=> Late(u))
    BY <1>2, StillSame DEF SyncInv, LocalInv
  <2> QED BY <2>1, StillLocal
<1>6. pc[t] \notin {"reset", "open", "spin"} /\ pc'[t] \notin {"reset", "open", "spin"}
  BY <1>1 DEF WorkerPCs
<1>7. t \in Team => Same(t)
  BY <1>3 DEF Same
<1>8. PoolInv'
  BY <1>1, ThreadKinds DEF SyncInv, TeamInv, PoolInv
<1> QED BY <1>2, <1>5, <1>6, <1>7, <1>8, ThreadKinds, OneStep

(* A worker of the team that looks for work sees the graph it waits for,   *)
(* or none.                                                                *)
LEMMA NextGraph ==
  ASSUME SyncInv, NEW t \in Workers, pc[t] \in WorkerPCs, t < asked
  PROVE  last_graph[t] \in {n_graph - 1, n_graph}
<1>1. t \in Team
  BY DEF Team, Workers, SyncInv, TypeOK
<1>2. last_graph[t] + 1 = GraphOf(0)
  BY <1>1, ThreadKinds DEF SyncInv, Sync, GraphOf
<1>3. GraphOf(0) \in {n_graph, n_graph + 1}
  BY DEF GraphOf
<1>4. last_graph[t] \in Nat /\ n_graph \in Nat
  BY DEF SyncInv, TypeOK
<1> QED BY <1>2, <1>3, <1>4

(* A worker that looks for work, or is woken, stays in step.               *)
LEMMA WorkerSync ==
  ASSUME SyncInv, NEW t \in Workers, Worker(t) \/ SpuriousWakeup(t)
  PROVE  SyncInv'
<1>t. TypeOK /\ PoolInv /\ Member(t) /\ t \in Threads
  BY ThreadKinds DEF SyncInv, TeamInv
<1>m. WorkerPCs \subseteq WorkerPCs \union ComputePCs \union BarrierPCs \union MainPCs /\ "nth" \in ComputePCs
  BY DEF ComputePCs
<1>0. ASSUME NEW pt \in WorkerPCs \ {"polled"}, pc[t] \in WorkerPCs, pc' = [pc EXCEPT ![t] = pt],
             UNCHANGED <<poolVars, localVars, asked, work>>
      PROVE  SyncInv'
  <2>1. TypeOK'
    BY <1>0, <1>t, <1>m DEF TypeOK, poolVars, localVars
  <2>2. pc'[t] = pt /\ \A u \in Threads \ {t} : pc'[u] = pc[u]
    BY <1>0, <1>t DEF TypeOK
  <2>3. Member(t)'
    BY <1>0, <1>t, <2>2 DEF Member, poolVars, localVars
  <2>4. GraphOf(t)' = GraphOf(t)
    BY <1>0, <1>t, <2>2, ThreadKinds DEF GraphOf, localVars
  <2> QED BY <1>0, <2>1, <2>2, <2>3, <2>4, WorkerMove DEF poolVars, localVars
<1>1. CASE PauseLoop(t) \/ PauseWait(t) \/ CheckStop(t) \/ PollForWork(t)
  BY <1>1, <1>0 DEF PauseLoop, PauseWait, CheckStop, PollForWork, Goto, WorkerPCs
<1>2. CASE SpuriousWakeup(t)
  <2>1. Woken(pc)[t] \in {"top", "lock"}
    BY <1>2, <1>t DEF Woken, SpuriousWakeup
  <2> QED BY <1>2, <1>0, <2>1 DEF SpuriousWakeup, WorkerPCs
<1>3. CASE PollRound(t)
  <2>1. CASE pc' = [pc EXCEPT ![t] = "lock"] /\ UNCHANGED seen
    BY <1>3, <2>1, <1>0 DEF PollRound, Goto, WorkerPCs, localVars
  <2>2. CASE /\ n_graph # last_graph[t] /\ pc[t] = "poll" /\ pc' = [pc EXCEPT ![t] = "polled"]
             /\ seen' = [seen EXCEPT ![t] = n_graph]
    <3>0. UNCHANGED <<poolVars, last_graph, node, nth, chunk, after, limit, passed, asked, work>>
      BY <1>3 DEF PollRound
    <3>1. TypeOK'
      BY <1>t, <2>2, <3>0 DEF TypeOK, poolVars, WorkerPCs
    <3>2. pc'[t] = "polled" /\ seen'[t] = n_graph /\ \A u \in Workers \ {t} : seen'[u] = seen[u]
      BY <1>t, <2>2 DEF TypeOK
    <3>5. \A u \in Threads \ {t} : pc'[u] = pc[u]
      BY <1>t, <2>2 DEF TypeOK
    <3>3. Member(t)'
      BY <1>t, <2>2, <3>0, <3>2 DEF Member, TypeOK, poolVars, WorkerPCs
    <3>4. GraphOf(t)' = GraphOf(t)
      BY <2>2, <3>0, <3>2, ThreadKinds DEF GraphOf, WorkerPCs
    <3> QED BY <2>2, <3>0, <3>1, <3>2, <3>3, <3>4, <3>5, WorkerMove DEF poolVars, WorkerPCs
  <2> QED BY <1>3, <2>1, <2>2 DEF PollRound, Goto
<1>4. CASE PollActive(t)
  <2> DEFINE pt == IF t < n_threads_cur THEN "nth" ELSE "poll"
  <2>0. /\ pc[t] = "polled" /\ pc' = [pc EXCEPT ![t] = pt]
        /\ last_graph' = [last_graph EXCEPT ![t] = seen[t]] /\ seen' = [seen EXCEPT ![t] = 0]
        /\ UNCHANGED <<poolVars, node, nth, chunk, after, limit, passed, asked, work>>
    BY <1>4 DEF PollActive, Goto
  <2>1. /\ last_graph[t] \in Nat /\ seen[t] \in Nat /\ n_graph \in Nat
        /\ last_graph[t] < seen[t] /\ seen[t] <= n_graph
    BY <1>t, <2>0 DEF TypeOK, Member
  <2>2. n_threads_cur = asked
    BY <1>t, <2>1 DEF PoolInv
  <2>3. TypeOK'
    <3>1. pc' \in [Threads -> WorkerPCs \union ComputePCs \union BarrierPCs \union MainPCs]
      BY <1>t, <2>0 DEF TypeOK, WorkerPCs, ComputePCs
    <3>2. last_graph' \in [Workers -> 0 .. MaxGraphs] /\ seen' \in [Workers -> 0 .. MaxGraphs]
      BY <1>t, <2>0, PoolAssumption DEF TypeOK
    <3> QED BY <1>t, <2>0, <3>1, <3>2 DEF TypeOK, poolVars
  <2>4. /\ pc'[t] = pt /\ last_graph'[t] = seen[t]
        /\ \A u \in Threads \ {t} : pc'[u] = pc[u]
        /\ \A u \in Workers \ {t} : seen'[u] = seen[u] /\ last_graph'[u] = last_graph[u]
    BY <1>t, <2>0 DEF TypeOK
  <2>5. Member(t)'
    BY <1>t, <2>0, <2>1, <2>2, <2>4 DEF Member, TypeOK, poolVars, WorkerPCs, ComputePCs
  <2>6. t \in Team => GraphOf(t)' = GraphOf(t)
    <3> SUFFICES ASSUME t < asked PROVE GraphOf(t)' = GraphOf(t)
      BY <1>t DEF Team, TypeOK
    <3>1. last_graph[t] + 1 = seen[t] /\ pc'[t] = "nth"
      BY <2>0, <2>1, <2>2, <2>4, NextGraph DEF WorkerPCs
    <3> QED BY <2>0, <2>4, <3>1, ThreadKinds DEF GraphOf, Left, Late, WorkerPCs, Workers
  <2>7. pt \in WorkerPCs \union {"nth"}
    BY DEF WorkerPCs
  <2> HIDE DEF pt
  <2>8. UNCHANGED <<n_threads_max, n_graph, n_barrier, n_barrier_passed, abort, n_threads_cur,
                     node, nth, after, limit, passed, asked>>
    BY <2>0 DEF poolVars
  <2> QED BY <2>0, <2>3, <2>4, <2>5, <2>6, <2>7, <2>8, WorkerMove DEF WorkerPCs
<1>5. CASE CheckForWork(t)
  <2>0. /\ pc[t] = "lock"
        /\ UNCHANGED <<poolVars, seen, node, nth, chunk, after, limit, passed, asked, work>>
    BY <1>5 DEF CheckForWork, Goto
  <2>1. CASE stop \/ pause
    BY <1>5, <2>1, <1>0 DEF CheckForWork, Goto, WorkerPCs, localVars
  <2>2. CASE ~(stop \/ pause)
    <3> DEFINE pt == IF n_graph # last_graph[t] /\ t < n_threads_cur THEN "nth" ELSE "sleep"
    <3>0. pc' = [pc EXCEPT ![t] = pt] /\ last_graph' = [last_graph EXCEPT ![t] = n_graph]
      BY <1>5, <2>2 DEF CheckForWork, Goto
    <3>1. last_graph[t] \in Nat /\ n_graph \in Nat /\ last_graph[t] <= n_graph
      BY <1>t, <2>0 DEF TypeOK, Member
    <3>2. n_graph # last_graph[t] => n_threads_cur = asked
      BY <1>t, <3>1 DEF PoolInv
    <3>3. TypeOK'
      <4>1. pc' \in [Threads -> WorkerPCs \union ComputePCs \union BarrierPCs \union MainPCs]
        BY <1>t, <3>0 DEF TypeOK, WorkerPCs, ComputePCs
      <4>2. last_graph' \in [Workers -> 0 .. MaxGraphs]
        BY <1>t, <3>0 DEF TypeOK
      <4> QED BY <1>t, <2>0, <4>1, <4>2 DEF TypeOK, poolVars
    <3>4. /\ pc'[t] = pt /\ last_graph'[t] = n_graph
          /\ \A u \in Threads \ {t} : pc'[u] = pc[u]
          /\ \A u \in Workers \ {t} : last_graph'[u] = last_graph[u]
      BY <1>t, <3>0 DEF TypeOK
    <3>5. Member(t)'
      BY <1>t, <2>0, <3>1, <3>2, <3>4 DEF Member, TypeOK, poolVars, WorkerPCs, ComputePCs
    <3>6. t \in Team => GraphOf(t)' = GraphOf(t)
      <4> SUFFICES ASSUME t < asked PROVE GraphOf(t)' = GraphOf(t)
        BY <1>t DEF Team, TypeOK
      <4>1. last_graph[t] \in {n_graph - 1, n_graph}
        BY <2>0, NextGraph DEF WorkerPCs
      <4> QED BY <2>0, <3>1, <3>2, <3>4, <4>1, ThreadKinds DEF GraphOf, Left, Late, WorkerPCs
    <3>7. pt \in WorkerPCs \union {"nth"}
      BY DEF WorkerPCs
    <3> HIDE DEF pt
    <3>8. UNCHANGED <<n_threads_max, n_graph, n_barrier, n_barrier_passed, abort, n_threads_cur,
                       seen, node, nth, after, limit, passed, asked>>
      BY <2>0 DEF poolVars
    <3> QED BY <2>0, <3>0, <3>3, <3>4, <3>5, <3>6, <3>7, <3>8, WorkerMove DEF WorkerPCs
  <2> QED BY <2>1, <2>2
<1> QED BY <1>1, <1>2, <1>3, <1>4, <1>5 DEF Worker

-----------------------------------------------------------------------------
(* Threads that compute a graph.                                           *)

(* Only the team computes, and only a graph that was published.            *)
LEMMA Computing ==
  ASSUME SyncInv, NEW t \in Threads, pc[t] \in ComputePCs \union BarrierPCs
  PROVE  t \in Team /\ n_threads_cur = asked /\ n_graph > 0 /\ n_graph \in Nat
<1>1. n_graph \in Nat /\ asked \in Nat
  BY DEF SyncInv, TypeOK
<1>2. t \in Team /\ n_graph > 0
  <2>1. CASE t = 0
    BY <2>1, TeamThreads DEF SyncInv, TeamInv, PoolInv
  <2>2. CASE t # 0
    <3>1. t \in Workers /\ pc[t] \notin WorkerPCs
      BY <2>2, ThreadKinds, ProgramPoints
    <3>2. last_graph[t] > 0 /\ last_graph[t] <= n_graph /\ t < asked /\ last_graph[t] \in Nat
      BY <3>1 DEF SyncInv, TeamInv, Member, TypeOK
    <3> QED BY <1>1, <3>1, <3>2, ThreadKinds DEF Team
  <2> QED BY <2>1, <2>2
<1> QED BY <1>1, <1>2 DEF SyncInv, TeamInv, PoolInv

(* A step of a thread in a graph that leaves the barrier's counters alone. *)
LEMMA ComputeMove ==
  ASSUME SyncInv, NEW t \in Threads, TypeOK',
         pc[t] \in ComputePCs \union BarrierPCs, pc[t] \notin {"reset", "open"},
         pc[t] = "spin" => Late(t),
         pc'[t] \in ComputePCs \union {"barrier", "enter"} \union {IF t = 0 THEN "idle" ELSE "top"},
         \A u \in Threads \ {t} :
           /\ pc'[u] = pc[u] /\ node'[u] = node[u] /\ nth'[u] = nth[u] /\ after'[u] = after[u]
           /\ limit'[u] = limit[u] /\ passed'[u] = passed[u],
         UNCHANGED <<n_threads_max, n_graph, n_barrier, n_barrier_passed, n_threads_cur,
                     last_graph, seen, asked>>,
         Local(t)', abort' = abort \/ \A u \in Threads \ {t} : Local(u)',
         Same(t) \/ asked = 1
  PROVE  SyncInv'
<1>1. \A u \in Threads \ {t} : Still(u)
  BY DEF Still
<1>2. \A u \in Threads : Local(u)'
  <2> SUFFICES ASSUME NEW u \in Threads \ {t}, abort' = abort PROVE Local(u)'
    OBVIOUS
  <2>1. Still(u) /\ Local(u) /\ (Late(u)' <=> Late(u))
    BY <1>1, StillSame DEF SyncInv, LocalInv
  <2> QED BY <2>1, StillLocal
<1>3. pc'[t] \notin {"reset", "open", "spin"}
  BY DEF ComputePCs
<1>4. PoolInv'
  <2>1. t # 0 => pc'[0] = pc[0]
    BY ThreadKinds
  <2>2. t = 0 => /\ pc'[0] \in MainPCs \union ComputePCs \union BarrierPCs
                 /\ pc'[0] \notin {"publish", "kick", "signal"}
    BY DEF MainPCs, ComputePCs, BarrierPCs
  <2>3. n_graph > 0
    BY Computing
  <2> QED BY <2>1, <2>2, <2>3 DEF SyncInv, TeamInv, PoolInv
<1>5. t \in Workers => Member(t)'
  <2> SUFFICES ASSUME t \in Workers PROVE Member(t)'
    OBVIOUS
  <2>1. pc[t] \notin WorkerPCs /\ Member(t)
    BY ProgramPoints DEF SyncInv, TeamInv
  <2>2. pc'[t] \in WorkerPCs \union ComputePCs \union BarrierPCs /\ pc'[t] # "polled"
    BY ThreadKinds DEF WorkerPCs, ComputePCs, BarrierPCs
  <2> QED BY <2>1, <2>2 DEF Member
<1> QED BY <1>1, <1>2, <1>3, <1>4, <1>5, OneStep

(* The points of a thread's way through a node.                            *)
LEMMA StartGraphSync ==
  ASSUME SyncInv, NEW t \in Threads, StartGraph(t)
  PROVE  SyncInv' /\ Same(t)
<1>t. TypeOK /\ Local(t)
  BY DEF SyncInv, LocalInv
<1>1. /\ pc[t] = "nth" /\ pc' = [pc EXCEPT ![t] = "cond"]
      /\ nth' = [nth EXCEPT ![t] = n_threads_cur] /\ node' = [node EXCEPT ![t] = 0]
      /\ UNCHANGED <<n_threads_max, n_graph, n_barrier, n_barrier_passed, n_threads_cur, abort,
                     last_graph, seen, chunk, after, limit, passed, asked>>
  BY DEF StartGraph, Goto, poolVars
<1>2. n_threads_cur = asked
  BY <1>1, Computing DEF ComputePCs
<1>3. TypeOK'
  BY <1>t, <1>1, PoolAssumption, SMTT(40) DEF StartGraph, TypeOK, poolVars, ComputePCs
<1>4. /\ pc'[t] = "cond" /\ nth'[t] = asked /\ node'[t] = 0
      /\ \A u \in Threads \ {t} : pc'[u] = pc[u] /\ nth'[u] = nth[u] /\ node'[u] = node[u]
  BY <1>t, <1>1, <1>2 DEF TypeOK
<1>5. Same(t)
  <2>1. RegionOf(t) = 0 /\ RegionOf(t)' = 0
    BY <1>1, <1>4, PoolAssumption DEF RegionOf, Late, Begun, BarrierPCs
  <2>2. GraphOf(t)' = GraphOf(t)
    BY <1>1, <1>4, ThreadKinds DEF GraphOf, Left, Late, Outside, WorkerPCs
  <2> QED BY <2>1, <2>2 DEF Same
<1>6. Local(t)'
  BY <1>t, <1>1, <1>4, PoolAssumption DEF Local, BarrierPCs
<1> QED BY <1>1, <1>3, <1>4, <1>5, <1>6, ComputeMove DEF ComputePCs

(* The head of the node loop keeps the threads in step.                    *)
LEMMA NextNodeSync ==
  ASSUME SyncInv, NEW t \in Threads, NextNode(t)
  PROVE  SyncInv' /\ Same(t)
<1>t. TypeOK /\ Local(t)
  BY DEF SyncInv, LocalInv
<1>1. /\ pc[t] = "cond"
      /\ UNCHANGED <<n_threads_max, n_graph, n_barrier, n_barrier_passed, n_threads_cur, abort,
                     last_graph, seen, node, nth, chunk, limit, passed, asked>>
  BY DEF NextNode, Goto, poolVars
<1>2. CASE node[t] < NNodes /\ abort # node[t]
  <2>1. pc' = [pc EXCEPT ![t] = "node"] /\ after' = after
    BY <1>2 DEF NextNode, Goto
  <2>2. TypeOK'
    BY <1>t, <2>1 DEF NextNode, TypeOK, poolVars, ComputePCs
  <2>3. pc'[t] = "node" /\ \A u \in Threads \ {t} : pc'[u] = pc[u]
    BY <1>t, <2>1 DEF TypeOK
  <2>4. Same(t)
    BY <1>1, <2>1, <2>3, ThreadKinds
    DEF Same, RegionOf, GraphOf, Left, Late, Begun, Outside, WorkerPCs
  <2>5. Local(t)'
    BY <1>t, <1>1, <1>2, <2>3 DEF Local, ComputePCs, BarrierPCs
  <2> QED BY <1>1, <2>1, <2>2, <2>3, <2>4, <2>5, ComputeMove DEF ComputePCs
<1>3. CASE ~(node[t] < NNodes /\ abort # node[t])
  <2>1. pc' = [pc EXCEPT ![t] = "barrier"] /\ after' = [after EXCEPT ![t] = "end"]
    BY <1>3 DEF NextNode, Goto
  <2>2. TypeOK'
    BY <1>t, <2>1 DEF NextNode, TypeOK, poolVars, BarrierPCs
  <2>3. /\ pc'[t] = "barrier" /\ after'[t] = "end"
        /\ \A u \in Threads \ {t} : pc'[u] = pc[u] /\ after'[u] = after[u]
    BY <1>t, <2>1 DEF TypeOK
  <2>4. Same(t)
    BY <1>1, <2>3, ThreadKinds
    DEF Same, RegionOf, GraphOf, Left, Late, Begun, Outside, WorkerPCs, BarrierPCs
  <2>5. node[t] = NNodes \/ abort = node[t]
    BY <1>t, <1>3, PoolAssumption DEF TypeOK
  <2>6. Local(t)'
    BY <1>t, <1>1, <2>3, <2>5 DEF Local, ComputePCs, BarrierPCs
  <2> QED BY <1>1, <2>1, <2>2, <2>3, <2>4, <2>6, ComputeMove DEF ComputePCs, BarrierPCs
<1> QED BY <1>2, <1>3

(* Starting a node, as a product or a map, keeps the threads in step.      *)
LEMMA StartNodeSync ==
  ASSUME SyncInv, NEW t \in Threads, StartNode(t)
  PROVE  SyncInv' /\ Same(t)
<1>t. TypeOK /\ Local(t)
  BY DEF SyncInv, LocalInv
<1>1. /\ pc[t] = "node"
      /\ UNCHANGED <<n_threads_max, n_graph, n_barrier, n_barrier_passed, n_threads_cur, abort,
                     stop, pause, mutex, work, last_graph, seen, node, nth, limit, passed, asked>>
  BY DEF StartNode
<1>2. node[t] < NNodes /\ abort # node[t] /\ node[t] \in Nat
  BY <1>t, <1>1 DEF Local, TypeOK
<1>3. CASE Graph[node[t]] = "mul_mat"
  <2>1. /\ pc' = [pc EXCEPT ![t] = "barrier"] /\ after' = [after EXCEPT ![t] = "chunks"]
        /\ current_chunk' = (IF t = 0 THEN nth[t] ELSE current_chunk) /\ chunk' = chunk
    BY <1>3 DEF StartNode, Goto
  <2>2. TypeOK'
    BY <1>t, <1>1, <2>1 DEF TypeOK, BarrierPCs
  <2>3. /\ pc'[t] = "barrier" /\ after'[t] = "chunks"
        /\ \A u \in Threads \ {t} : pc'[u] = pc[u] /\ after'[u] = after[u]
    BY <1>t, <2>1 DEF TypeOK
  <2>4. Same(t)
    BY <1>1, <2>3, ThreadKinds
    DEF Same, RegionOf, GraphOf, Left, Late, Begun, Outside, WorkerPCs, BarrierPCs
  <2>5. Local(t)'
    BY <1>t, <1>1, <1>2, <1>3, <2>3 DEF Local, ComputePCs, BarrierPCs, MulMat
  <2> QED BY <1>1, <2>1, <2>2, <2>3, <2>4, <2>5, ComputeMove DEF ComputePCs
<1>4. CASE Graph[node[t]] # "mul_mat"
  <2>1. /\ pc' = [pc EXCEPT ![t] = "chunk"] /\ chunk' = [chunk EXCEPT ![t] = t]
        /\ after' = after /\ current_chunk' = current_chunk
    BY <1>4 DEF StartNode, Goto
  <2>2. TypeOK'
    BY <1>t, <1>1, <2>1, ThreadKinds DEF TypeOK, ComputePCs
  <2>3. pc'[t] = "chunk" /\ \A u \in Threads \ {t} : pc'[u] = pc[u]
    BY <1>t, <2>1 DEF TypeOK
  <2>4. Same(t)
    BY <1>1, <1>2, <1>4, <2>3, ThreadKinds
    DEF Same, RegionOf, GraphOf, Left, Late, Begun, Full, MulMat, Outside, WorkerPCs, BarrierPCs
  <2>5. Local(t)'
    BY <1>t, <1>1, <1>2, <2>1, <2>3 DEF Local, ComputePCs, BarrierPCs
  <2> QED BY <1>1, <2>1, <2>2, <2>3, <2>4, <2>5, ComputeMove DEF ComputePCs
<1> QED BY <1>3, <1>4

(* Counting one more of anything keeps the type of the counts.             *)
LEMMA CountUp ==
  ASSUME NEW S, NEW f \in [S -> Nat], NEW x
  PROVE  [f EXCEPT ![x] = @ + 1] \in [S -> Nat]
<1>1. CASE x \in S
  BY <1>1
<1>2. CASE x \notin S
  <2>1. [f EXCEPT ![x] = @ + 1] = f
    BY <1>2
  <2> QED BY <2>1
<1> QED BY <1>1, <1>2

(* Computing or taking a chunk keeps the threads in step.                  *)
LEMMA ChunkSync ==
  ASSUME SyncInv, NEW t \in Threads, ComputeChunk(t) \/ StealChunk(t)
  PROVE  SyncInv' /\ Same(t)
<1>t. TypeOK /\ Local(t)
  BY DEF SyncInv, LocalInv
<1>1. /\ pc[t] \in {"chunk", "steal"}
      /\ UNCHANGED <<n_threads_max, n_graph, n_barrier, n_barrier_passed, n_threads_cur, abort,
                     stop, pause, mutex, last_graph, seen, node, nth, after, limit, passed, asked>>
  BY DEF ComputeChunk, StealChunk, Goto, poolVars, localVars
<1>2. PICK x \in {"chunk", "steal", "after"} : pc' = [pc EXCEPT ![t] = x]
  BY DEF ComputeChunk, StealChunk, Goto
<1>3. pc'[t] = x /\ \A u \in Threads \ {t} : pc'[u] = pc[u]
  BY <1>t, <1>2 DEF TypeOK
<1>4. work' \in [AllChunks -> Nat] /\ chunk' \in [Threads -> Nat] /\ current_chunk' \in Nat
  <2>1. CASE ComputeChunk(t)
    <3>1. work' = [work EXCEPT ![<<node[t], chunk[t]>>] = @ + 1] /\ UNCHANGED <<chunk, current_chunk>>
      BY <2>1 DEF ComputeChunk, poolVars, localVars
    <3>2. work \in [AllChunks -> Nat] /\ chunk \in [Threads -> Nat] /\ current_chunk \in Nat
      BY <1>t DEF TypeOK
    <3> QED BY <3>1, <3>2, CountUp
  <2>2. CASE StealChunk(t)
    BY <1>t, <2>2 DEF TypeOK, StealChunk
  <2> QED BY <2>1, <2>2
<1>5. TypeOK'
  BY <1>t, <1>1, <1>2, <1>4 DEF TypeOK, ComputePCs
<1>6. Same(t)
  BY <1>1, <1>2, <1>3, ThreadKinds
  DEF Same, RegionOf, GraphOf, Left, Late, Outside, WorkerPCs, BarrierPCs
<1>7. Local(t)'
  BY <1>t, <1>1, <1>2, <1>3 DEF Local, ComputePCs, BarrierPCs
<1> QED BY <1>1, <1>2, <1>3, <1>5, <1>6, <1>7, ComputeMove DEF ComputePCs

(* Threads in one region that have not passed its end work on one node.    *)
LEMMA SameNode ==
  ASSUME NEW m \in 0 .. NNodes, NEW n \in 0 .. NNodes - 1
  PROVE  /\ 2 * m = Full(n) => m = n
         /\ 2 * m + 1 = Full(n) => m = n
         /\ Full(m) = Full(n) => m = n
         /\ Full(n) \in {2 * n, 2 * n + 1}
<1>1. m \in Int /\ n \in Int
  BY PoolAssumption
<1> QED BY <1>1 DEF Full

(* The main thread asks whether to abort at the end of a node, when nobody *)
(* else can be past the next barrier: what they compared with abort        *)
(* remains true.                                                           *)
LEMMA AbortSeen ==
  ASSUME SyncInv, pc[0] = "after", NEW u \in Threads \ {0}, Still(u), pc'[u] = pc[u],
         UNCHANGED <<n_barrier_passed, asked>>, abort' = node[0] + 1
  PROVE  Local(u)'
<1>t. TypeOK /\ Local(u) /\ Local(0) /\ node[0] \in 0 .. NNodes - 1 /\ node[u] \in 0 .. NNodes
  <2>1. TypeOK /\ Local(u) /\ Local(0)
    BY ThreadKinds DEF SyncInv, LocalInv
  <2>2. node[0] \in 0 .. NNodes /\ node[u] \in 0 .. NNodes
    BY <2>1, ThreadKinds DEF TypeOK
  <2>3. node[0] < NNodes
    BY <2>1 DEF Local
  <2> QED BY <2>1, <2>2, <2>3, PoolAssumption
<1>1. pc'[u] = pc[u] /\ node'[u] = node[u] /\ after'[u] = after[u] /\ limit'[u] = limit[u]
      /\ passed'[u] = passed[u] /\ nth'[u] = nth[u] /\ (Late(u)' <=> Late(u))
  BY DEF Still, Late
<1>2. CASE pc[u] \notin ComputePCs \union BarrierPCs
  BY <1>t, <1>1, <1>2 DEF Local, ComputePCs, BarrierPCs
<1>3. CASE pc[u] \in ComputePCs \union BarrierPCs
  <2>1. RegionOf(u) = RegionOf(0)
    BY <1>3, Computing DEF SyncInv, Sync
  <2>2. RegionOf(0) = Full(node[0]) /\ abort # node[0]
    BY <1>t DEF RegionOf, Late, Local
  <2>3. \/ node[u] = node[0]
        \/ pc[u] \in {"nth", "cond"}
        \/ pc[u] \in BarrierPCs /\ after[u] = "end"
        \/ pc[u] \in BarrierPCs /\ after[u] = "next" /\ Late(u)
    <3>1. CASE pc[u] = "node"
      <4>1. node[u] < NNodes
        BY <1>t, <3>1 DEF Local
      <4>2. RegionOf(u) = 2 * node[u]
        BY <1>t, <3>1, <4>1, PoolAssumption DEF RegionOf, Late, Begun
      <4> QED BY <1>t, <2>1, <2>2, <4>2, SameNode
    <3>2. CASE pc[u] \in {"chunk", "steal", "after"}
      <4>1. RegionOf(u) = Full(node[u])
        BY <3>2 DEF RegionOf, Late
      <4> QED BY <1>t, <2>1, <2>2, <4>1, SameNode
    <3>3. CASE pc[u] \in BarrierPCs /\ after[u] = "chunks"
      <4>1. node[u] < NNodes
        BY <1>t, <3>3 DEF Local
      <4>2. RegionOf(u) \in {2 * node[u], 2 * node[u] + 1}
        BY <1>t, <3>3, <4>1, PoolAssumption DEF RegionOf, Begun, BarrierPCs
      <4> QED BY <1>t, <2>1, <2>2, <4>2, SameNode
    <3>4. CASE pc[u] \in BarrierPCs /\ after[u] = "next" /\ ~Late(u)
      <4>1. RegionOf(u) = Full(node[u])
        BY <3>4 DEF RegionOf, BarrierPCs
      <4> QED BY <1>t, <2>1, <2>2, <4>1, SameNode
    <3>5. after[u] \in {"chunks", "next", "end"}
      BY <1>t DEF TypeOK
    <3> QED BY <1>3, <3>1, <3>2, <3>3, <3>4, <3>5 DEF ComputePCs
  <2>4. pc[u] \in BarrierPCs /\ after[u] = "end" /\ ~Late(u) => node[u] = NNodes
    <3> SUFFICES ASSUME pc[u] \in BarrierPCs, after[u] = "end", ~Late(u), node[u] # NNodes
                 PROVE  FALSE
      OBVIOUS
    <3>1. abort = node[u] /\ RegionOf(u) = 2 * node[u]
      BY <1>t DEF Local, RegionOf, Begun, BarrierPCs
    <3> QED BY <1>t, <2>1, <2>2, <3>1, SameNode
  <2>5. node[u] = node[0] => abort' # node[u]
    BY <1>t
  <2>6. pc[u] = "cond" \/ (pc[u] \in BarrierPCs /\ ~Late(u) /\ after[u] = "end") =>
          (node[u] = NNodes => abort' # NNodes - 1)
    <3> SUFFICES ASSUME pc[u] = "cond" \/ (pc[u] \in BarrierPCs /\ ~Late(u) /\ after[u] = "end"),
                        node[u] = NNodes
                 PROVE  abort' = NNodes
      BY PoolAssumption
    <3>1. RegionOf(u) = Full(NNodes - 1)
      BY DEF RegionOf, Begun, Late, BarrierPCs
    <3>2. node[0] = NNodes - 1
      BY <1>t, <2>1, <2>2, <3>1, SameNode, PoolAssumption
    <3> QED BY <3>2, PoolAssumption
  <2> QED BY <1>t, <1>1, <2>3, <2>4, <2>5, <2>6 DEF Local, ComputePCs, BarrierPCs
<1> QED BY <1>2, <1>3

(* The end of a node sends the thread to the barrier of its region.        *)
LEMMA EndNodeSync ==
  ASSUME SyncInv, NEW t \in Threads, EndNode(t)
  PROVE  SyncInv' /\ Same(t)
<1>t. TypeOK /\ Local(t)
  BY DEF SyncInv, LocalInv
<1>1. /\ pc[t] = "after"
      /\ abort' = abort \/ (t = 0 /\ abort' = node[t] + 1)
      /\ UNCHANGED <<n_threads_max, n_graph, n_barrier, n_barrier_passed, n_threads_cur,
                     current_chunk, chunk,
                     stop, pause, mutex, work, last_graph, seen, nth, limit, passed, asked>>
  BY DEF EndNode
<1>2. node[t] < NNodes /\ abort # node[t] /\ node[t] \in Nat
  BY <1>t, <1>1 DEF Local, TypeOK
<1>3. abort' \in -1 .. NNodes
  BY <1>t, <1>1, <1>2, PoolAssumption DEF TypeOK
<1>4. ASSUME \A u \in Threads \ {t} : pc'[u] = pc[u] /\ node'[u] = node[u] /\ after'[u] = after[u]
      PROVE  abort' = abort \/ \A u \in Threads \ {t} : Local(u)'
  <2> SUFFICES ASSUME abort' # abort, NEW u \in Threads \ {t} PROVE Local(u)'
    OBVIOUS
  <2>1. Still(u)
    BY <1>1, <1>4 DEF Still
  <2> QED BY <1>1, <1>4, <2>1, AbortSeen
<1>5. CASE node[t] + 1 < NNodes
  <2>1. pc' = [pc EXCEPT ![t] = "barrier"] /\ after' = [after EXCEPT ![t] = "next"] /\ node' = node
    BY <1>5 DEF EndNode, Goto
  <2>2. TypeOK'
    BY <1>t, <1>1, <1>3, <2>1 DEF TypeOK, BarrierPCs
  <2>3. /\ pc'[t] = "barrier" /\ after'[t] = "next"
        /\ \A u \in Threads \ {t} : pc'[u] = pc[u] /\ after'[u] = after[u]
    BY <1>t, <2>1 DEF TypeOK
  <2>4. Same(t)
    BY <1>1, <2>1, <2>3, ThreadKinds
    DEF Same, RegionOf, GraphOf, Left, Late, Outside, WorkerPCs, BarrierPCs
  <2>5. abort' # node[t]
    BY <1>1, <1>2
  <2>6. Local(t)'
    BY <1>t, <1>1, <1>5, <2>1, <2>3, <2>5 DEF Local, ComputePCs, BarrierPCs
  <2>7. abort' = abort \/ \A u \in Threads \ {t} : Local(u)'
    BY <1>4, <2>1, <2>3
  <2> QED BY <1>1, <2>1, <2>2, <2>3, <2>4, <2>6, <2>7, ComputeMove DEF ComputePCs
<1>6. CASE ~(node[t] + 1 < NNodes)
  <2>0. node[t] + 1 = NNodes
    BY <1>2, <1>6, PoolAssumption
  <2>1. pc' = [pc EXCEPT ![t] = "cond"] /\ after' = after /\ node' = [node EXCEPT ![t] = NNodes]
    BY <1>6, <2>0 DEF EndNode, Goto
  <2>2. TypeOK'
    BY <1>t, <1>1, <1>3, <2>1, PoolAssumption, SMTT(40) DEF TypeOK, ComputePCs
  <2>3. /\ pc'[t] = "cond" /\ node'[t] = NNodes
        /\ \A u \in Threads \ {t} : pc'[u] = pc[u] /\ node'[u] = node[u]
    BY <1>t, <2>1 DEF TypeOK
  <2>4. Same(t)
    <3>1. RegionOf(t) = Full(node[t]) /\ RegionOf(t)' = Full(NNodes - 1)
      BY <1>1, <2>3 DEF RegionOf, Late, Begun
    <3>2. GraphOf(t)' = GraphOf(t)
      BY <1>1, <2>3, ThreadKinds DEF GraphOf, Left, Late, Outside, WorkerPCs
    <3>3. node[t] = NNodes - 1
      BY <1>2, <2>0, PoolAssumption
    <3> QED BY <3>1, <3>2, <3>3 DEF Same
  <2>5. abort' # NNodes - 1
    BY <1>1, <1>2, <2>0, PoolAssumption
  <2>6. Local(t)'
    BY <1>t, <1>1, <2>1, <2>3, <2>5 DEF Local, ComputePCs, BarrierPCs
  <2>7. abort' = abort \/ \A u \in Threads \ {t} : Local(u)'
    BY <1>4, <2>1, <2>3
  <2> QED BY <1>1, <2>1, <2>2, <2>3, <2>4, <2>6, <2>7, ComputeMove DEF ComputePCs
<1> QED BY <1>5, <1>6

-----------------------------------------------------------------------------
(* The barrier.                                                            *)

(* Where a thread goes from the barrier.                                   *)
Target(t) == IF after[t] = "chunks" THEN "chunk" ELSE IF after[t] = "next" THEN "cond"
             ELSE IF t = 0 THEN "idle" ELSE "top"

(* A thread that leaves the barrier takes its next node or its first chunk *)
(* and keeps the types.                                                    *)
LEMMA LeaveStep ==
  ASSUME SyncInv, NEW t \in Threads, NEW from \in BarrierPCs, Leave(t, from),
         UNCHANGED <<n_threads_max, n_graph, n_barrier, current_chunk, stop, pause, abort,
                     n_threads_cur, mutex, limit, passed>>,
         n_barrier_passed' \in Nat
  PROVE  /\ TypeOK'
         /\ pc[t] = from /\ pc'[t] = Target(t)
         /\ node'[t] = IF after[t] = "next" THEN node[t] + 1 ELSE node[t]
         /\ chunk'[t] = IF after[t] = "chunks" THEN t ELSE chunk[t]
         /\ \A u \in Threads \ {t} : pc'[u] = pc[u] /\ node'[u] = node[u] /\ chunk'[u] = chunk[u]
         /\ UNCHANGED <<last_graph, seen, nth, after, asked, work>>
<1>t. TypeOK /\ Local(t)
  BY DEF SyncInv, LocalInv
<1>1. after[t] \in {"chunks", "next", "end"} /\ node[t] \in 0 .. NNodes
  BY <1>t DEF TypeOK
<1>2. pc[t] = from /\ pc' = [pc EXCEPT ![t] = Target(t)]
  BY <1>1 DEF Leave, Goto, Target
<1>3. /\ chunk' = [chunk EXCEPT ![t] = IF after[t] = "chunks" THEN t ELSE @]
      /\ node' = [node EXCEPT ![t] = IF after[t] = "next" THEN @ + 1 ELSE @]
      /\ UNCHANGED <<last_graph, seen, nth, after, asked, work>>
  BY DEF Leave
<1>4. Target(t) \in WorkerPCs \union ComputePCs \union BarrierPCs \union MainPCs
  BY DEF Target, WorkerPCs, ComputePCs, MainPCs
<1>5. pc' \in [Threads -> WorkerPCs \union ComputePCs \union BarrierPCs \union MainPCs]
  BY <1>t, <1>2, <1>4 DEF TypeOK
<1>6. after[t] = "next" => node[t] + 1 < NNodes
  BY <1>t, <1>2 DEF Local
<1>7. node' \in [Threads -> 0 .. NNodes]
  BY <1>t, <1>1, <1>3, <1>6, PoolAssumption DEF TypeOK
<1>8. chunk' \in [Threads -> Nat]
  BY <1>t, <1>3, ThreadKinds DEF TypeOK
<1>9. TypeOK'
  BY <1>t, <1>3, <1>5, <1>7, <1>8 DEF TypeOK
<1>10. /\ pc'[t] = Target(t)
       /\ node'[t] = IF after[t] = "next" THEN node[t] + 1 ELSE node[t]
       /\ chunk'[t] = IF after[t] = "chunks" THEN t ELSE chunk[t]
       /\ \A u \in Threads \ {t} : pc'[u] = pc[u] /\ node'[u] = node[u] /\ chunk'[u] = chunk[u]
  BY <1>t, <1>2, <1>3 DEF TypeOK
<1> QED BY <1>2, <1>3, <1>9, <1>10

(* What such a thread has read still holds.                                *)
LEMMA LeaveLocal ==
  ASSUME SyncInv, NEW t \in Threads, pc[t] \in BarrierPCs, pc'[t] = Target(t),
         node'[t] = IF after[t] = "next" THEN node[t] + 1 ELSE node[t],
         UNCHANGED <<abort, nth, passed, asked>>, n_barrier_passed' >= n_barrier_passed,
         n_barrier_passed' \in Nat
  PROVE  Local(t)'
<1>1. Local(t) /\ TypeOK /\ passed[t] \in Nat /\ n_barrier_passed \in Nat
  BY DEF SyncInv, LocalInv, TypeOK
<1>2. passed'[t] <= n_barrier_passed'
  BY <1>1 DEF Local
<1>3. pc'[t] = "chunk" => node'[t] < NNodes /\ abort' # node'[t]
  BY <1>1 DEF Local, Target
<1>4. pc'[t] \in {"chunk", "cond", "idle", "top"}
  BY DEF Target
<1>5. nth'[t] = asked'
  BY <1>1 DEF Local
<1>6. pc'[t] = "cond" => node'[t] # NNodes
  BY <1>1, PoolAssumption DEF Local, Target
<1> QED BY <1>2, <1>3, <1>4, <1>5, <1>6 DEF Local, BarrierPCs, ComputePCs

(* The region beyond the barrier.                                          *)
LEMMA LeaveRegion ==
  ASSUME SyncInv, NEW t \in Threads, pc[t] \in BarrierPCs, pc'[t] = Target(t),
         node'[t] = IF after[t] = "next" THEN node[t] + 1 ELSE node[t]
  PROVE  /\ ~Late(t)'
         /\ RegionOf(t)' = IF after[t] = "chunks" THEN 2 * node[t] + 1
                           ELSE IF after[t] = "next" THEN 2 * node[t] + 2 ELSE 0
<1>1. Local(t) /\ node[t] \in 0 .. NNodes
  BY DEF SyncInv, LocalInv, TypeOK
<1>2. ~Late(t)'
  BY DEF Target, Late
<1>3. CASE after[t] = "chunks"
  <2>1. MulMat(node[t]) /\ node[t] < NNodes
    BY <1>1, <1>3 DEF Local
  <2> QED BY <1>2, <1>3, <2>1 DEF RegionOf, Target, Full
<1>4. CASE after[t] = "next"
  <2>1. node[t] + 1 < NNodes /\ node[t] \in Nat
    BY <1>1, <1>4 DEF Local
  <2>2. RegionOf(t)' = 2 * (node[t] + 1)
    BY <1>2, <1>4, <2>1, PoolAssumption DEF RegionOf, Target, Begun
  <2> QED BY <1>2, <1>4, <2>1, <2>2
<1>5. CASE after[t] \notin {"chunks", "next"}
  BY <1>2, <1>5 DEF RegionOf, Target, BarrierPCs
<1> QED BY <1>2, <1>3, <1>4, <1>5

(* A pool of one thread has no barrier.                                    *)
LEMMA BarrierAloneSync ==
  ASSUME SyncInv, NEW t \in Threads, BarrierAlone(t)
  PROVE  SyncInv'
<1>1. /\ n_threads_cur = 1 /\ Leave(t, "barrier")
      /\ UNCHANGED <<n_threads_max, n_graph, n_barrier, current_chunk, stop, pause, abort,
                     n_threads_cur, mutex, limit, passed, n_barrier_passed>>
  BY DEF BarrierAlone, poolVars
<1>2. "barrier" \in BarrierPCs /\ n_barrier_passed \in Nat
  BY DEF BarrierPCs, SyncInv, TypeOK
<1>3. /\ TypeOK' /\ pc[t] = "barrier" /\ pc'[t] = Target(t)
      /\ node'[t] = IF after[t] = "next" THEN node[t] + 1 ELSE node[t]
      /\ \A u \in Threads \ {t} : pc'[u] = pc[u] /\ node'[u] = node[u]
      /\ UNCHANGED <<last_graph, seen, nth, after, asked, work>>
  BY <1>1, <1>2, LeaveStep
<1>4. asked = 1
  BY <1>1, <1>2, <1>3, Computing
<1>5. Local(t)'
  BY <1>1, <1>2, <1>3, LeaveLocal
<1>6. pc'[t] \in ComputePCs \union {"barrier", "enter"} \union {IF t = 0 THEN "idle" ELSE "top"}
  BY <1>3 DEF Target, ComputePCs
<1> QED BY <1>1, <1>2, <1>3, <1>4, <1>5, <1>6, ComputeMove

(* Reading n_barrier_passed keeps the threads in step.                     *)
LEMMA BarrierReadSync ==
  ASSUME SyncInv, NEW t \in Threads, BarrierRead(t)
  PROVE  SyncInv' /\ Same(t)
<1>t. TypeOK /\ Local(t)
  BY DEF SyncInv, LocalInv
<1>1. /\ pc[t] = "barrier" /\ pc' = [pc EXCEPT ![t] = "enter"] /\ n_threads_cur # 1
      /\ limit' = [limit EXCEPT ![t] = n_threads_cur]
      /\ passed' = [passed EXCEPT ![t] = n_barrier_passed]
      /\ UNCHANGED <<n_threads_max, n_graph, n_barrier, n_barrier_passed, n_threads_cur, abort,
                     last_graph, seen, node, nth, after, asked>>
  BY DEF BarrierRead, Goto, poolVars
<1>2. n_threads_cur = asked /\ asked \in Nat \ {0}
  BY <1>t, <1>1, Computing, TeamThreads DEF BarrierPCs
<1>3. TypeOK'
  BY <1>t, <1>1 DEF BarrierRead, TypeOK, poolVars, BarrierPCs
<1>4. /\ pc'[t] = "enter" /\ limit'[t] = asked /\ passed'[t] = n_barrier_passed
      /\ \A u \in Threads \ {t} : pc'[u] = pc[u] /\ limit'[u] = limit[u] /\ passed'[u] = passed[u]
  BY <1>t, <1>1, <1>2 DEF TypeOK
<1>5. Same(t)
  BY <1>1, <1>4, ThreadKinds
  DEF Same, RegionOf, GraphOf, Left, Late, Begun, Outside, WorkerPCs, BarrierPCs
<1>6. Local(t)'
  <2>1. ~Late(t) /\ ~Late(t)' /\ n_barrier_passed \in Nat
    BY <1>t, <1>1, <1>4 DEF Late, TypeOK
  <2>2. asked > 1
    BY <1>1, <1>2
  <2> QED BY <1>t, <1>1, <1>4, <2>1, <2>2 DEF Local, BarrierPCs, ComputePCs
<1> QED BY <1>1, <1>3, <1>4, <1>5, <1>6, ComputeMove DEF BarrierPCs

(* A thread that saw the barrier open.                                     *)
LEMMA BarrierPassSync ==
  ASSUME SyncInv, NEW t \in Threads, BarrierPass(t)
  PROVE  SyncInv' /\ Same(t)
<1>1. /\ n_barrier_passed # passed[t] /\ Leave(t, "spin")
      /\ UNCHANGED <<n_threads_max, n_graph, n_barrier, current_chunk, stop, pause, abort,
                     n_threads_cur, mutex, limit, passed, n_barrier_passed>>
  BY DEF BarrierPass, poolVars
<1>2. "spin" \in BarrierPCs /\ n_barrier_passed \in Nat
  BY DEF BarrierPCs, SyncInv, TypeOK
<1>3. /\ TypeOK' /\ pc[t] = "spin" /\ pc'[t] = Target(t)
      /\ node'[t] = IF after[t] = "next" THEN node[t] + 1 ELSE node[t]
      /\ \A u \in Threads \ {t} : pc'[u] = pc[u] /\ node'[u] = node[u]
      /\ UNCHANGED <<last_graph, seen, nth, after, asked, work>>
  BY <1>1, <1>2, LeaveStep
<1>4. Late(t)
  BY <1>1, <1>3 DEF Late
<1>5. Same(t)
  <2>1. RegionOf(t)' = RegionOf(t) /\ ~Late(t)'
    BY <1>2, <1>3, <1>4, LeaveRegion DEF RegionOf
  <2>2. GraphOf(t)' = GraphOf(t)
    <3>1. after[t] \in {"chunks", "next", "end"}
      BY DEF SyncInv, TypeOK
    <3> QED BY <1>1, <1>3, <1>4, <2>1, <3>1, ThreadKinds
        DEF GraphOf, Left, Target, Outside, WorkerPCs
  <2> QED BY <2>1, <2>2 DEF Same
<1>6. Local(t)'
  BY <1>1, <1>2, <1>3, LeaveLocal
<1>7. pc'[t] \in ComputePCs \union {"barrier", "enter"} \union {IF t = 0 THEN "idle" ELSE "top"}
  BY <1>3 DEF Target, ComputePCs
<1> QED BY <1>1, <1>2, <1>3, <1>4, <1>5, <1>6, <1>7, ComputeMove

(* While somebody is at the counter, nobody is the last one.               *)
LEMMA NobodyLast ==
  ASSUME SyncInv, NEW t \in Threads, pc[t] \in {"barrier", "enter"}
  PROVE  \A u \in Threads : pc[u] \notin {"reset", "open"}
<1> SUFFICES ASSUME NEW u \in Threads, pc[u] \in {"reset", "open"} PROVE FALSE
  OBVIOUS
<1>1. t \in Team
  BY Computing DEF BarrierPCs
<1> QED BY <1>1 DEF SyncInv, LastInv

(* The threads that wait in the barrier are of the team.                   *)
LEMMA EnteredTeam ==
  ASSUME SyncInv
  PROVE  Entered \subseteq Team /\ IsFiniteSet(Team) /\ Cardinality(Team) = asked
<1>1. Entered \subseteq Team
  <2> SUFFICES ASSUME NEW u \in Entered PROVE u \in Team
    OBVIOUS
  <2>1. u \in Threads /\ pc[u] \in BarrierPCs
    BY DEF Entered, BarrierPCs
  <2> QED BY <2>1, Computing
<1>2. asked \in Nat \ {0}
  BY TeamThreads DEF SyncInv
<1>3. IsFiniteSet(Team) /\ Cardinality(Team) = asked
  BY <1>2, FS_Interval DEF Team
<1> QED BY <1>1, <1>3

(* Entering the barrier counts the thread; the last one goes on to reset.  *)
LEMMA BarrierEnterSync ==
  ASSUME SyncInv, NEW t \in Threads, BarrierEnter(t)
  PROVE  SyncInv' /\ Same(t)
<1>t. TypeOK /\ Local(t)
  BY DEF SyncInv, LocalInv
<1> DEFINE next == IF n_barrier = limit[t] - 1 THEN "reset" ELSE "spin"
<1>1. /\ pc[t] = "enter" /\ pc' = [pc EXCEPT ![t] = next]
      /\ n_barrier' = n_barrier + 1
      /\ UNCHANGED <<n_threads_max, n_graph, n_barrier_passed, current_chunk, stop, pause, abort,
                     n_threads_cur, mutex, asked, work>>
      /\ UNCHANGED localVars
  BY DEF BarrierEnter, Goto
<1>2. pc'[t] = next /\ \A u \in Threads \ {t} : pc'[u] = pc[u]
  BY <1>t, <1>1 DEF TypeOK
<1>3. t \in Team /\ Team' = Team /\ Team \subseteq Threads /\ asked \in Nat \ {0}
  BY <1>t, <1>1, Computing, TeamThreads DEF BarrierPCs, Team
<1>4. \A u \in Threads : pc[u] \notin {"reset", "open"}
  BY <1>1, NobodyLast
<1>5. n_barrier = Cardinality(Entered)
  BY <1>4 DEF SyncInv, BarrierCount
<1>6. passed[t] = n_barrier_passed /\ limit[t] = asked /\ asked > 1
  BY <1>t, <1>1 DEF Local
<1>7. t \notin Entered /\ Entered' = Entered \union {t}
  <2>1. t \notin Entered
    BY <1>1 DEF Entered
  <2>2. t \in Entered'
    BY <1>1, <1>2, <1>6 DEF Entered, localVars
  <2>3. \A u \in Threads \ {t} : u \in Entered' <=> u \in Entered
    BY <1>1, <1>2 DEF Entered, localVars
  <2>4. Entered \subseteq Threads /\ Entered' \subseteq Threads
    BY DEF Entered
  <2> QED BY <2>1, <2>2, <2>3, <2>4
<1>8. IsFiniteSet(Entered) /\ Cardinality(Entered) <= asked
  BY EnteredTeam, FS_Subset
<1>9. Cardinality(Entered') = n_barrier + 1 /\ Entered' \subseteq Team
  BY <1>3, <1>5, <1>7, <1>8, FS_AddElement, EnteredTeam
<1>10. Cardinality(Entered') <= asked
  BY <1>9, EnteredTeam, FS_Subset
<1>11. TypeOK'
  <2>1. n_barrier + 1 \in 0 .. NThreads
    BY <1>t, <1>9, <1>10, PoolAssumption DEF TypeOK
  <2>2. next \in BarrierPCs
    BY DEF BarrierPCs
  <2> HIDE DEF next
  <2> QED BY <1>t, <1>1, <2>1, <2>2 DEF TypeOK, localVars
<1>12. BarrierCount'
  <2>1. \A u \in Threads : pc'[u] # "open"
    BY <1>2, <1>4
  <2> QED BY <1>1, <1>9, <2>1 DEF BarrierCount
<1>13. LastInv'
  <2> SUFFICES ASSUME next = "reset", NEW w \in Team \ {t}
               PROVE  pc'[w] = "spin" /\ ~Late(w)'
    BY <1>2, <1>3, <1>4 DEF LastInv
  <2>1. Cardinality(Entered) = asked - 1
    BY <1>5, <1>6
  <2>2. Cardinality(Entered') = asked
    BY <1>3, <1>5, <1>9, <2>1
  <2>3. Entered' = Team
    BY <1>9, <2>2, EnteredTeam, FS_Subset
  <2>4. w \in Entered
    BY <1>7, <2>3
  <2>5. pc[w] = "spin" /\ passed[w] = n_barrier_passed
    BY <1>4, <2>4 DEF Entered
  <2> QED BY <1>1, <1>2, <1>3, <2>5 DEF Late, localVars
<1>14. \A u \in Threads \ {t} : Still(u)
  BY <1>1, <1>2 DEF Still, localVars
<1>15. Same(t) /\ ~Late(t) /\ ~Late(t)'
  BY <1>1, <1>2, <1>6, ThreadKinds
  DEF Same, RegionOf, GraphOf, Left, Late, Begun, Outside, WorkerPCs, BarrierPCs, localVars
<1>16. Sync'
  <2>1. \A u \in Team : Same(u)
    BY <1>1, <1>3, <1>14, <1>15, StillSame
  <2> QED BY <1>3, <2>1, TeamThreads DEF SyncInv, Sync, Same
<1>17. LocalInv'
  <2>1. Local(t)'
    BY <1>t, <1>1, <1>2, <1>15 DEF Local, BarrierPCs, ComputePCs, localVars
  <2>2. ASSUME NEW u \in Threads \ {t} PROVE Local(u)'
    BY <1>1, <1>14, StillSame, StillLocal DEF SyncInv, LocalInv
  <2> QED BY <2>1, <2>2 DEF LocalInv
<1>18. TeamInv'
  <2>1. PoolInv'
    BY <1>1, <1>2, ThreadKinds DEF SyncInv, TeamInv, PoolInv, BarrierPCs
  <2>2. \A u \in Workers : Member(u)'
    BY <1>1, <1>2, ThreadKinds DEF SyncInv, TeamInv, Member, BarrierPCs, WorkerPCs, localVars
  <2> QED BY <2>1, <2>2 DEF TeamInv
<1> QED BY <1>11, <1>12, <1>13, <1>15, <1>16, <1>17, <1>18 DEF SyncInv

(* The last thread of the barrier resets the count it completed.           *)
LEMMA BarrierResetSync ==
  ASSUME SyncInv, NEW t \in Threads, BarrierReset(t)
  PROVE  SyncInv' /\ Same(t)
<1>t. TypeOK /\ Local(t)
  BY DEF SyncInv, LocalInv
<1>1. /\ pc[t] = "reset" /\ pc' = [pc EXCEPT ![t] = "open"]
      /\ n_barrier' = 0
      /\ UNCHANGED <<n_threads_max, n_graph, n_barrier_passed, current_chunk, stop, pause, abort,
                     n_threads_cur, mutex, asked, work>>
      /\ UNCHANGED localVars
  BY DEF BarrierReset, Goto
<1>2. pc'[t] = "open" /\ \A u \in Threads \ {t} : pc'[u] = pc[u]
  BY <1>t, <1>1 DEF TypeOK
<1>3. t \in Team /\ Team' = Team /\ Team \subseteq Threads
  BY <1>t, <1>1, Computing, TeamThreads DEF BarrierPCs, Team
<1>4. TypeOK'
  BY <1>t, <1>1, PoolAssumption DEF TypeOK, localVars, BarrierPCs
<1>5. BarrierCount'
  BY <1>1, <1>2 DEF BarrierCount
<1>6. LastInv'
  <2>1. \A u \in Team \ {t} : pc[u] = "spin" /\ ~Late(u)
    BY <1>1 DEF SyncInv, LastInv
  <2>2. \A u \in Threads \ {t} : pc[u] \notin {"reset", "open"}
    BY <1>1, <1>3 DEF SyncInv, LastInv
  <2> QED BY <1>1, <1>2, <1>3, <2>1, <2>2 DEF LastInv, Late, localVars
<1>14. \A u \in Threads \ {t} : Still(u)
  BY <1>1, <1>2 DEF Still, localVars
<1>15. Same(t) /\ ~Late(t) /\ ~Late(t)'
  BY <1>1, <1>2, ThreadKinds
  DEF Same, RegionOf, GraphOf, Left, Late, Begun, Outside, WorkerPCs, BarrierPCs, localVars
<1>16. Sync'
  <2>1. \A u \in Team : Same(u)
    BY <1>1, <1>3, <1>14, <1>15, StillSame
  <2> QED BY <1>3, <2>1, TeamThreads DEF SyncInv, Sync, Same
<1>17. LocalInv'
  <2>1. Local(t)'
    BY <1>t, <1>1, <1>2, <1>15 DEF Local, BarrierPCs, ComputePCs, localVars
  <2>2. ASSUME NEW u \in Threads \ {t} PROVE Local(u)'
    BY <1>1, <1>14, StillSame, StillLocal DEF SyncInv, LocalInv
  <2> QED BY <2>1, <2>2 DEF LocalInv
<1>18. TeamInv'
  <2>1. PoolInv'
    BY <1>1, <1>2, ThreadKinds DEF SyncInv, TeamInv, PoolInv, BarrierPCs
  <2>2. \A u \in Workers : Member(u)'
    BY <1>1, <1>2, ThreadKinds DEF SyncInv, TeamInv, Member, BarrierPCs, WorkerPCs, localVars
  <2> QED BY <2>1, <2>2 DEF TeamInv
<1> QED BY <1>4, <1>5, <1>6, <1>15, <1>16, <1>17, <1>18 DEF SyncInv

(* Threads that wait in one barrier are at the same node and go the same   *)
(* way from it.                                                            *)
LEMMA OneBarrier ==
  ASSUME SyncInv, NEW t \in Threads, NEW u \in Threads,
         pc[t] \in BarrierPCs, ~Late(t), pc[u] \in BarrierPCs, ~Late(u)
  PROVE  after[t] = after[u] /\ node[t] = node[u]
<1>t. /\ Local(t) /\ Local(u) /\ node[t] \in 0 .. NNodes /\ node[u] \in 0 .. NNodes
      /\ after[t] \in {"chunks", "next", "end"} /\ after[u] \in {"chunks", "next", "end"}
  BY DEF SyncInv, LocalInv, TypeOK
<1>1. RegionOf(t) = RegionOf(u)
  BY Computing DEF SyncInv, Sync
<1>2. ASSUME NEW w \in {t, u}
      PROVE  /\ RegionOf(w) = IF after[w] = "next" THEN Full(node[w]) ELSE Begun(node[w])
             /\ after[w] = "next" => node[w] \in 0 .. NNodes - 1 /\ node[w] + 1 < NNodes /\ abort # node[w]
             /\ after[w] = "chunks" => /\ node[w] \in 0 .. NNodes - 1 /\ MulMat(node[w])
                                       /\ abort # node[w] /\ Begun(node[w]) = 2 * node[w]
             /\ after[w] = "end" => \/ /\ node[w] = NNodes /\ abort # NNodes - 1
                                       /\ Begun(node[w]) = Full(NNodes - 1)
                                    \/ /\ node[w] \in 0 .. NNodes - 1 /\ abort = node[w]
                                       /\ Begun(node[w]) = 2 * node[w]
  <2>1. Local(w) /\ pc[w] \in BarrierPCs /\ ~Late(w) /\ node[w] \in 0 .. NNodes
    BY <1>t
  <2>2. RegionOf(w) = IF after[w] = "next" THEN Full(node[w]) ELSE Begun(node[w])
    BY <2>1 DEF RegionOf, BarrierPCs
  <2>3. node[w] < NNodes => node[w] \in 0 .. NNodes - 1 /\ Begun(node[w]) = 2 * node[w]
    BY <2>1, PoolAssumption DEF Begun
  <2>4. node[w] = NNodes => Begun(node[w]) = Full(NNodes - 1)
    BY DEF Begun
  <2>5. node[w] # NNodes => node[w] < NNodes
    BY <2>1, PoolAssumption
  <2>6. after[w] = "next" => node[w] + 1 < NNodes /\ abort # node[w] /\ node[w] < NNodes
    BY <2>1, PoolAssumption DEF Local
  <2>7. after[w] = "chunks" => node[w] < NNodes /\ MulMat(node[w]) /\ abort # node[w]
    BY <2>1 DEF Local
  <2>8. after[w] = "end" => IF node[w] = NNodes THEN abort # NNodes - 1 ELSE abort = node[w]
    BY <2>1 DEF Local
  <2> QED BY <2>2, <2>3, <2>4, <2>5, <2>6, <2>7, <2>8
<1>3. NNodes - 1 \in 0 .. NNodes - 1 /\ NNodes \in Nat
  BY PoolAssumption
<1>4. ASSUME NEW a \in {t, u}, NEW b \in {t, u}, after[a] = "next", after[b] = "next"
      PROVE  node[a] = node[b]
  BY <1>t, <1>1, <1>2, <1>4, SameNode
<1>5. ASSUME NEW a \in {t, u}, NEW b \in {t, u}, after[a] = "next", after[b] = "chunks"
      PROVE  FALSE
  <2>1. Full(node[a]) = 2 * node[b]
    BY <1>1, <1>2, <1>5
  <2>2. node[a] = node[b]
    BY <1>2, <1>5, <2>1, <1>t, SameNode
  <2> QED BY <1>2, <1>5, <2>1, <2>2 DEF Full
<1>6. ASSUME NEW a \in {t, u}, NEW b \in {t, u}, after[a] = "next", after[b] = "end"
      PROVE  FALSE
  <2>1. CASE node[b] = NNodes
    <3>1. Full(node[a]) = Full(NNodes - 1)
      BY <1>1, <1>2, <1>6, <2>1, <1>3
    <3>2. node[a] = NNodes - 1
      BY <1>2, <1>3, <1>6, <1>t, <3>1, SameNode
    <3> QED BY <1>2, <1>3, <1>6, <3>2
  <2>2. CASE node[b] # NNodes
    <3>1. Full(node[a]) = 2 * node[b]
      BY <1>1, <1>2, <1>6, <2>2
    <3>2. node[a] = node[b]
      BY <1>2, <1>6, <3>1, <1>t, SameNode
    <3> QED BY <1>2, <1>6, <2>2, <3>2
  <2> QED BY <2>1, <2>2
<1>7. ASSUME NEW a \in {t, u}, NEW b \in {t, u}, after[a] = "chunks", after[b] = "end"
      PROVE  FALSE
  <2>1. CASE node[b] = NNodes
    <3>1. 2 * node[a] = Full(NNodes - 1)
      BY <1>1, <1>2, <1>7, <2>1, <1>3
    <3>2. node[a] = NNodes - 1
      BY <1>2, <1>3, <1>7, <1>t, <3>1, SameNode
    <3> QED BY <1>2, <1>3, <1>7, <3>1, <3>2 DEF Full
  <2>2. CASE node[b] # NNodes
    <3>1. node[a] = node[b]
      BY <1>1, <1>2, <1>7, <2>2, <1>t
    <3> QED BY <1>2, <1>7, <2>2, <3>1
  <2> QED BY <2>1, <2>2
<1>8. ASSUME after[t] = "chunks", after[u] = "chunks" PROVE node[t] = node[u]
  BY <1>1, <1>2, <1>8, <1>t
<1>9. after[t] = after[u]
  BY <1>t, <1>5, <1>6, <1>7
<1>10. ASSUME NEW a \in {t, u}, NEW b \in {t, u}, after[a] = "end", after[b] = "end",
              node[a] = NNodes, node[b] # NNodes
       PROVE  FALSE
  <2>1. Full(NNodes - 1) = 2 * node[b] /\ node[b] \in 0 .. NNodes - 1 /\ abort = node[b]
    BY <1>1, <1>2, <1>10, <1>3
  <2>2. node[b] = NNodes - 1
    BY <1>3, <1>t, <2>1, SameNode
  <2> QED BY <1>2, <1>10, <1>3, <2>1, <2>2
<1>11. after[t] = "end" /\ after[u] = "end" => node[t] = node[u]
  <2> SUFFICES ASSUME after[t] = "end", after[u] = "end", node[t] # NNodes, node[u] # NNodes
               PROVE  node[t] = node[u]
    BY <1>10
  <2> QED BY <1>1, <1>2, <1>3
<1> QED BY <1>t, <1>4, <1>8, <1>9, <1>11

(* When the last thread opens the barrier, all threads are beyond it.      *)
LEMMA BarrierOpenSync ==
  ASSUME SyncInv, NEW t \in Threads, BarrierOpen(t)
  PROVE  SyncInv'
<1>t. TypeOK /\ Local(t) /\ n_barrier_passed \in Nat
  BY DEF SyncInv, LocalInv, TypeOK
<1>1. /\ n_barrier_passed' = n_barrier_passed + 1 /\ Leave(t, "open")
      /\ UNCHANGED <<n_threads_max, n_graph, n_barrier, current_chunk, stop, pause, abort,
                     n_threads_cur, mutex, limit, passed>>
  BY DEF BarrierOpen
<1>2. "open" \in BarrierPCs /\ n_barrier_passed' \in Nat
  BY <1>t, <1>1 DEF BarrierPCs
<1>3. /\ TypeOK' /\ pc[t] = "open" /\ pc'[t] = Target(t)
      /\ node'[t] = IF after[t] = "next" THEN node[t] + 1 ELSE node[t]
      /\ \A u \in Threads \ {t} : pc'[u] = pc[u] /\ node'[u] = node[u]
      /\ UNCHANGED <<last_graph, seen, nth, after, asked, work>>
  BY <1>1, <1>2, LeaveStep
<1>4. t \in Team /\ 0 \in Team /\ Team' = Team /\ Team \subseteq Threads /\ n_graph > 0
  BY <1>t, <1>2, <1>3, Computing, TeamThreads DEF Team
<1>5. \A u \in Team \ {t} : pc[u] = "spin" /\ ~Late(u)
  BY <1>3 DEF SyncInv, LastInv
<1>6. \A u \in Team \ {t} : Late(u)' /\ pc'[u] = "spin"
  <2> SUFFICES ASSUME NEW u \in Team \ {t} PROVE Late(u)' /\ pc'[u] = "spin"
    OBVIOUS
  <2>1. passed[u] = n_barrier_passed /\ pc'[u] = "spin"
    BY <1>3, <1>4, <1>5 DEF Late
  <2> QED BY <1>t, <1>1, <2>1 DEF Late
<1>7. ~Late(t)
  BY <1>3 DEF Late
<1>8. \A u \in Threads \ Team : pc'[u] = pc[u] /\ pc[u] \notin ComputePCs \union BarrierPCs
  BY <1>3, <1>4, Computing
<1>9. ASSUME NEW u \in Team \ {t}
      PROVE  /\ RegionOf(u)' = RegionOf(t)'
             /\ after[u] = "end" <=> after[t] = "end"
  <2>1. after[t] = after[u] /\ node[t] = node[u]
    BY <1>2, <1>3, <1>4, <1>5, <1>7, <1>9, OneBarrier DEF BarrierPCs
  <2>2. RegionOf(u)' = IF after[u] = "chunks" THEN 2 * node[u] + 1
                       ELSE IF after[u] = "next" THEN 2 * node[u] + 2 ELSE 0
    BY <1>3, <1>4, <1>6 DEF RegionOf
  <2>3. RegionOf(t)' = IF after[t] = "chunks" THEN 2 * node[t] + 1
                       ELSE IF after[t] = "next" THEN 2 * node[t] + 2 ELSE 0
    BY <1>2, <1>3, LeaveRegion
  <2>4. after[t] \in {"chunks", "next", "end"}
    BY <1>t DEF TypeOK
  <2> QED BY <2>1, <2>2, <2>3, <2>4
<1>10. ASSUME NEW u \in Team
       PROVE  GraphOf(u)' = IF after[t] = "end" THEN GraphOf(u) + 1 ELSE GraphOf(u)
  <2>1. after[t] \in {"chunks", "next", "end"}
    BY <1>t DEF TypeOK
  <2>2. u = t \/ u # t
    OBVIOUS
  <2>3. CASE u = t
    <3>1. ~Late(t)'
      BY <1>2, <1>3, LeaveRegion
    <3> QED BY <1>1, <1>3, <1>7, <2>1, <2>3, <3>1, ThreadKinds
        DEF GraphOf, Left, Target, Outside, WorkerPCs
  <2>4. CASE u # t
    BY <1>1, <1>3, <1>4, <1>5, <1>6, <1>9, <2>1, <2>4, ThreadKinds
    DEF GraphOf, Left, Outside, WorkerPCs
  <2> QED BY <2>3, <2>4
<1>11. Sync'
  <2>1. \A u \in Team : RegionOf(u)' = RegionOf(t)'
    BY <1>9
  <2>2. \A u \in Team : GraphOf(u)' = GraphOf(0)'
    BY <1>4, <1>10 DEF SyncInv, Sync
  <2> QED BY <1>4, <2>1, <2>2 DEF Sync
<1>12. LocalInv'
  <2>1. Local(t)'
    BY <1>t, <1>1, <1>2, <1>3, LeaveLocal
  <2>2. ASSUME NEW u \in Threads \ {t} PROVE Local(u)'
    <3>1. Local(u) /\ passed[u] \in Nat
      BY DEF SyncInv, LocalInv, TypeOK
    <3>2. passed'[u] <= n_barrier_passed'
      BY <1>t, <1>1, <3>1 DEF Local
    <3>3. CASE u \in Team
      BY <1>1, <1>3, <1>5, <1>6, <3>1, <3>2, <3>3 DEF Local, BarrierPCs, ComputePCs
    <3>4. CASE u \notin Team
      BY <1>8, <3>2, <3>4 DEF Local, BarrierPCs, ComputePCs
    <3> QED BY <3>3, <3>4
  <2> QED BY <2>1, <2>2 DEF LocalInv
<1>13. \A u \in Threads : pc'[u] \notin {"reset", "open"}
  <2>1. pc'[t] \notin {"reset", "open"}
    BY <1>3 DEF Target
  <2> QED BY <1>4, <1>6, <1>8, <2>1 DEF BarrierPCs
<1>14. LastInv'
  BY <1>13 DEF LastInv
<1>15. BarrierCount'
  <2>1. n_barrier = 0
    BY <1>3 DEF SyncInv, BarrierCount
  <2>2. Entered' = {}
    <3> SUFFICES ASSUME NEW u \in Threads, pc'[u] = "spin", n_barrier_passed' = passed'[u] PROVE FALSE
      BY <1>13 DEF Entered
    <3>1. passed[u] <= n_barrier_passed /\ passed[u] \in Nat
      BY DEF SyncInv, LocalInv, Local, TypeOK
    <3>2. passed[u] = n_barrier_passed + 1
      BY <1>1
    <3> QED BY <1>t, <3>1, <3>2
  <2> QED BY <1>1, <1>13, <2>1, <2>2, FS_EmptySet DEF BarrierCount
<1>16. TeamInv'
  <2>1. PoolInv'
    <3>1. pc'[0] \in {"chunk", "cond", "idle", "spin"}
      BY <1>3, <1>4, <1>6 DEF Target
    <3> QED BY <1>1, <1>3, <1>4, <3>1 DEF SyncInv, TeamInv, PoolInv, ComputePCs, BarrierPCs, MainPCs
  <2>2. \A u \in Workers : Member(u)'
    <3> SUFFICES ASSUME NEW u \in Workers PROVE Member(u)'
      OBVIOUS
    <3>1. Member(u)
      BY DEF SyncInv, TeamInv
    <3>2. CASE u = t
      BY <1>1, <1>3, <3>1, <3>2, ThreadKinds
      DEF Member, Target, BarrierPCs, WorkerPCs, ComputePCs
    <3>3. CASE u # t
      BY <1>1, <1>3, <3>1, <3>3, ThreadKinds DEF Member
    <3> QED BY <3>2, <3>3
  <2> QED BY <2>1, <2>2 DEF TeamInv
<1> QED BY <1>3, <1>11, <1>12, <1>14, <1>15, <1>16 DEF SyncInv

-----------------------------------------------------------------------------
(* The theorems about the barrier.                                         *)

(* The threads of a new pool are in step.                                  *)
LEMMA InitSync == Init => SyncInv
<1> SUFFICES ASSUME Init PROVE SyncInv
  OBVIOUS
<1>1. TypeOK
  <2>1. pc \in [Threads -> WorkerPCs \union ComputePCs \union BarrierPCs \union MainPCs]
    BY DEF Init, WorkerPCs, MainPCs
  <2>2. /\ last_graph \in [Workers -> 0 .. MaxGraphs] /\ seen \in [Workers -> 0 .. MaxGraphs]
        /\ node \in [Threads -> 0 .. NNodes] /\ nth \in [Threads -> 1 .. NThreads]
        /\ limit \in [Threads -> 1 .. NThreads]
    BY PoolAssumption DEF Init
  <2>3. /\ chunk \in [Threads -> Nat] /\ after \in [Threads -> {"chunks", "next", "end"}]
        /\ passed \in [Threads -> Nat] /\ work \in [AllChunks -> Nat]
    BY DEF Init
  <2>4. /\ n_threads_max \in 1 .. NThreads
        /\ n_graph \in 0 .. MaxGraphs /\ n_barrier \in 0 .. NThreads
        /\ n_barrier_passed \in Nat /\ current_chunk \in Nat
        /\ abort \in -1 .. NNodes /\ n_threads_cur \in 1 .. NThreads
        /\ asked \in 1 .. NThreads
    BY PoolAssumption DEF Init
  <2>5. stop \in BOOLEAN /\ pause \in BOOLEAN /\ mutex \in {"free", "main"}
    BY DEF Init
  <2> QED BY <2>1, <2>2, <2>3, <2>4, <2>5 DEF TypeOK
<1>2. /\ pc[0] = "idle" /\ \A t \in Workers : pc[t] \in {"top", "exit"} /\ last_graph[t] = 0
      /\ n_graph = 0 /\ \A t \in Threads : passed[t] = 0 /\ n_barrier_passed = 0
  BY ThreadKinds DEF Init, Workers
<1>3. \A t \in Threads : pc[t] \in {"idle", "top", "exit"}
  BY <1>2, ThreadKinds
<1>4. TeamInv
  <2>1. PoolInv
    BY <1>1, <1>2 DEF PoolInv, Init, MainPCs, ComputePCs, BarrierPCs, TypeOK
  <2>2. \A t \in Workers : Member(t)
    BY <1>2 DEF Member, WorkerPCs
  <2> QED BY <2>1, <2>2 DEF TeamInv
<1>5. Sync
  <2>1. Team = {0}
    BY DEF Init, Team
  <2> QED BY <2>1 DEF Sync
<1>6. LocalInv
  BY <1>2, <1>3 DEF LocalInv, Local, ComputePCs, BarrierPCs
<1>7. LastInv
  BY <1>3 DEF LastInv
<1>8. BarrierCount
  <2>1. Entered = {}
    BY <1>3 DEF Entered
  <2> QED BY <1>3, <2>1, FS_EmptySet DEF BarrierCount, Init
<1> QED BY <1>1, <1>4, <1>5, <1>6, <1>7, <1>8 DEF SyncInv

(* A step that changes nothing keeps SyncInv.                              *)
LEMMA StutterSync == SyncInv /\ UNCHANGED vars => SyncInv'
<1> SUFFICES ASSUME SyncInv, UNCHANGED vars PROVE SyncInv'
  OBVIOUS
<1>1. UNCHANGED <<n_threads_max, n_graph, n_barrier, n_barrier_passed, current_chunk, stop, pause, abort,
        n_threads_cur, mutex, pc, last_graph, seen, node, nth, chunk, after, limit, passed, asked, work>>
  BY DEF vars, poolVars, localVars
<1>2. TypeOK' /\ TeamInv'
  BY <1>1 DEF SyncInv, TypeOK, TeamInv, PoolInv, Member
<1>3. \A t : (Late(t)' <=> Late(t)) /\ RegionOf(t)' = RegionOf(t) /\ GraphOf(t)' = GraphOf(t)
  BY <1>1 DEF Late, RegionOf, GraphOf, Left, Begun
<1>4. Sync' /\ LastInv'
  BY <1>1, <1>3 DEF SyncInv, Sync, LastInv, Team
<1>5. LocalInv'
  BY <1>1, <1>3 DEF SyncInv, LocalInv, Local
<1>6. BarrierCount'
  BY <1>1 DEF SyncInv, BarrierCount, Entered
<1> QED BY <1>2, <1>4, <1>5, <1>6 DEF SyncInv

(* Each step of a thread inside a graph keeps SyncInv.                     *)
LEMMA ComputeSync ==
  ASSUME SyncInv, NEW t \in Threads, Compute(t)
  PROVE  SyncInv'
  BY StartGraphSync, NextNodeSync, StartNodeSync, ChunkSync, EndNodeSync, BarrierAloneSync,
     BarrierReadSync, BarrierEnterSync, BarrierResetSync, BarrierOpenSync, BarrierPassSync
  DEF Compute

(* SyncInv is inductive.                                                   *)
LEMMA NextSync ==
  ASSUME ~MayResize, SyncInv, [Next]_vars
  PROVE  SyncInv'
<1>1. ASSUME NEW n \in ThreadCounts, GraphCompute(n) PROVE SyncInv'
  BY <1>1, GraphComputeSync
<1>2. CASE Main \/ Free \/ \E b \in BOOLEAN : SetPause(b)
  BY <1>2, MainSync
<1>3. ASSUME NEW t \in Workers, Worker(t) \/ SpuriousWakeup(t) PROVE SyncInv'
  BY <1>3, WorkerSync
<1>4. ASSUME NEW t \in Threads, Compute(t) PROVE SyncInv'
  BY <1>4, ComputeSync
<1>5. CASE UNCHANGED vars
  BY <1>5, StutterSync
<1> QED BY <1>1, <1>2, <1>3, <1>4, <1>5 DEF Next

(* The inductive invariant: all threads of a graph are in one region of it.*)
THEOREM ThreadsInStep == ASSUME ~MayResize PROVE Spec => []SyncInv
<1>1. Init => SyncInv
  BY InitSync
<1>2. SyncInv /\ [Next]_vars => SyncInv'
  BY NextSync
<1> QED BY <1>1, <1>2, PTL DEF Spec

(* Type correctness of the pool's state.                                   *)
THEOREM PoolTypes == ASSUME ~MayResize PROVE Spec => []TypeOK
<1>1. SyncInv => TypeOK
  BY DEF SyncInv
<1> QED BY <1>1, ThreadsInStep, PTL

(* ggml_barrier counts the threads that wait in it, so that exactly the    *)
(* last one resets the count and opens the barrier.                        *)
THEOREM BarrierCounts == ASSUME ~MayResize PROVE Spec => []BarrierCount
<1>1. SyncInv => BarrierCount
  BY DEF SyncInv
<1> QED BY <1>1, ThreadsInStep, PTL

(* No worker reads the parameters of the pool while ggml_graph_compute     *)
(* resets them without the mutex.                                          *)
THEOREM WorkersQuiet == ASSUME ~MayResize PROVE Spec => []QuietWorkers
<1>1. SyncInv => QuietWorkers
  <2> SUFFICES ASSUME SyncInv, pc[0] \in {"idle", "kick", "join", "freed"}, NEW t \in Workers
               PROVE  \/ pc[t] \in WorkerPCs
                      \/ pc[t] = "spin" /\ after[t] = "end" /\ n_barrier_passed # passed[t]
    BY DEF QuietWorkers
  <2>1. pc[t] \in WorkerPCs \/ Left(t)
    BY QuietOutside DEF Outside
  <2> QED BY <2>1 DEF Left, Late
<1> QED BY <1>1, ThreadsInStep, PTL

-----------------------------------------------------------------------------
(***************************************************************************)
(* The thread pool implements the loop over the nodes that GraphCompute    *)
(* specifies, for any number of threads, nodes and chunks.                 *)
(*                                                                         *)
(* The argument: work is what the threads' places in the graph say it is.  *)
(* The nodes before the region where all threads are have been computed,   *)
(* those after it have not, and of the node in it a chunk has been         *)
(* computed if the thread that owns it is past it or, beyond the team's    *)
(* own chunks, if it was claimed and nobody works on it any more.          *)
(***************************************************************************)

(* A thread has computed the chunk that is its own.                        *)
OwnDone(t) ==
  \/ pc[t] \in {"steal", "after"}
  \/ pc[t] = "chunk" /\ chunk[t] # t
  \/ pc[t] = "cond" /\ node[t] = NNodes
  \/ /\ pc[t] \in BarrierPCs /\ ~Late(t)
     /\ after[t] = "next" \/ (after[t] = "end" /\ node[t] = NNodes)

(* The node whose own chunk it has computed.                               *)
DoneNode(t) == IF node[t] = NNodes THEN NNodes - 1 ELSE node[t]

(* A chunk that a thread works on.                                         *)
Holds(t, c) == pc[t] = "chunk" /\ chunk[t] = c

Claimed(c) == c < current_chunk /\ \A t \in Team : ~Holds(t, c)

(* Chunk c of node m has been computed, where m is the node at which all   *)
(* threads are.                                                            *)
Here(c) == IF c < asked THEN OwnDone(c) ELSE Claimed(c)
Computed(m, c) ==
  /\ c \in Chunks(m, asked)
  /\ RegionOf(0) > Full(m) \/ (RegionOf(0) = Full(m) /\ Here(c))

Running == pc[0] \in {"signal"} \union ComputePCs \union BarrierPCs

(* work is 1 exactly for the chunks that have been computed.               *)
Counted(p) ==
  /\ pc[0] \in {"kick", "publish"} => work[p] = 0
  /\ Running /\ ~Left(0) => work[p] = IF Computed(p[1], p[2]) THEN 1 ELSE 0
  /\ Left(0) => work[p] = IF p[1] < node[0] /\ p[2] \in Chunks(p[1], asked) THEN 1 ELSE 0
WorkInv == \A p \in AllChunks : Counted(p)

(* All threads compute the chunks of a product.                            *)
InProduct == \E m \in Nodes : MulMat(m) /\ RegionOf(0) = 2 * m + 1

(* Chunks beyond the team's own are claimed in order, each by one thread,  *)
(* and a thread ends a product when all are claimed.                       *)
Claim(t) ==
  /\ pc[t] = "chunk" =>
       \/ chunk[t] = t
       \/ asked <= chunk[t] /\ chunk[t] < current_chunk /\ chunk[t] < NChunks(node[t], asked)
  /\ pc[t] = "steal" => asked < NChunks(node[t], asked)
  /\ pc[t] \notin {"chunk", "steal"} /\ OwnDone(t) =>
       \/ NChunks(DoneNode(t), asked) <= asked
       \/ NChunks(DoneNode(t), asked) <= current_chunk
ClaimInv ==
  /\ \A t \in Team : Claim(t)
  /\ \A t, u \in Team : t # u /\ pc[t] = "chunk" /\ pc[u] = "chunk" => chunk[t] # chunk[u]
  /\ pc[0] \in BarrierPCs /\ ~Late(0) /\ after[0] = "chunks" => current_chunk = asked
  /\ InProduct => asked <= current_chunk

LoopInv == SyncInv /\ WorkInv /\ ClaimInv

-----------------------------------------------------------------------------
(* Lemmas about chunks and regions.                                        *)

(* Every thread has a chunk of its own, only products have more chunks,    *)
(* and work has room for all of them.                                      *)
LEMMA ChunkCounts ==
  ASSUME NEW m \in Nodes, NEW k \in 1 .. NThreads
  PROVE  /\ NChunks(m, k) \in Nat /\ k <= NChunks(m, k)
         /\ NChunks(m, k) <= MatChunks + NThreads
         /\ ~MulMat(m) => NChunks(m, k) = k
<1>1. MatChunks \in Nat /\ ChunkFactor \in Nat \ {0} /\ k \in Nat \ {0} /\ NThreads \in Nat /\ k <= NThreads
  BY PoolAssumption
<1>2. k <= ChunkFactor * k
  BY <1>1
<1>3. ChunkFactor * k \in Nat
  BY <1>1
<1> DEFINE x == ChunkFactor * k
<1>4. k <= x /\ x \in Nat
  BY <1>2, <1>3
<1>5. NChunks(m, k) = IF Graph[m] = "mul_mat" /\ MatChunks >= x THEN MatChunks ELSE k
  BY DEF NChunks
<1> HIDE DEF x
<1> QED BY <1>1, <1>4, <1>5 DEF MulMat

(* A pair of a node and a chunk number is an entry of work.                *)
LEMMA ChunkPairs ==
  /\ \A p \in AllChunks : /\ p = <<p[1], p[2]>> /\ p[1] \in Nodes
                          /\ p[2] \in 0 .. MatChunks + NThreads
  /\ \A m \in Nodes, c \in 0 .. MatChunks + NThreads : <<m, c>> \in AllChunks
<1>1. ASSUME NEW p \in AllChunks
      PROVE  p = <<p[1], p[2]>> /\ p[1] \in Nodes /\ p[2] \in 0 .. MatChunks + NThreads
  <2>1. PICK n \in Nodes : p \in {n} \X (0 .. MatChunks + NThreads)
    BY DEF AllChunks
  <2> QED BY <2>1
<1>2. ASSUME NEW m \in Nodes, NEW c \in 0 .. MatChunks + NThreads PROVE <<m, c>> \in AllChunks
  <2>1. <<m, c>> \in {m} \X (0 .. MatChunks + NThreads)
    OBVIOUS
  <2> QED BY <2>1 DEF AllChunks
<1> QED BY <1>1, <1>2

(* Regions are ordered as their nodes.                                     *)
LEMMA RegionOrder ==
  ASSUME NEW m \in Nodes, NEW n \in Nodes
  PROVE  /\ Full(m) \in Nat
         /\ Full(m) < Full(n) <=> m < n
         /\ Full(m) = Full(n) <=> m = n
         /\ Full(m) < 2 * n <=> m < n
         /\ Full(m) = 2 * n <=> m = n /\ ~MulMat(n)
         /\ Full(m) < 2 * n + 1 <=> (m < n \/ (m = n /\ ~MulMat(n)))
         /\ Full(m) = 2 * n + 1 <=> m = n /\ MulMat(n)
         /\ Full(m) < 2 * n + 2 <=> m <= n
         /\ Full(m) = 2 * n + 2 <=> m = n + 1 /\ ~MulMat(m)
<1>1. m \in Nat /\ n \in Nat
  BY DEF Nodes
<1> QED BY <1>1 DEF Full

(* All of the team is where thread 0 is.                                   *)
LEMMA TeamFacts ==
  ASSUME SyncInv
  PROVE  /\ 0 \in Team /\ Team \subseteq Threads /\ asked \in 1 .. NThreads /\ asked \in Nat
         /\ \A t \in Team : RegionOf(t) = RegionOf(0) /\ t \in Nat /\ t < asked
         /\ \A c \in Nat : c < asked => c \in Team
<1>1. asked \in 1 .. NThreads
  BY DEF SyncInv, TypeOK
<1>2. 0 \in Team /\ Team \subseteq Threads /\ asked \in Nat \ {0}
  BY TeamThreads DEF SyncInv
<1>3. \A t \in Team : RegionOf(t) = RegionOf(0)
  BY DEF SyncInv, Sync
<1>4. \A t \in Team : t \in Nat /\ t < asked
  BY <1>2 DEF Team
<1>5. \A c \in Nat : c < asked => c \in Team
  BY <1>2 DEF Team
<1> QED BY <1>1, <1>2, <1>3, <1>4, <1>5

(* A thread at a chunk, or past its own, is at the node of the region.     *)
LEMMA DoneRegion ==
  ASSUME SyncInv, NEW t \in Team, OwnDone(t) \/ pc[t] = "chunk"
  PROVE  RegionOf(0) = Full(DoneNode(t)) /\ DoneNode(t) \in Nodes
<1>1. t \in Threads /\ Local(t) /\ node[t] \in 0 .. NNodes /\ RegionOf(t) = RegionOf(0)
  BY TeamFacts DEF SyncInv, LocalInv, TypeOK
<1>2. pc[t] \in {"chunk", "steal", "after"} => node[t] # NNodes /\ node[t] \in Nodes
  BY <1>1, PoolAssumption DEF Local, Nodes
<1>3. pc[t] \in BarrierPCs /\ after[t] = "next" => node[t] # NNodes /\ node[t] \in Nodes
  BY <1>1, PoolAssumption DEF Local, Nodes
<1>4. NNodes - 1 \in Nodes
  BY PoolAssumption DEF Nodes
<1>5. DoneNode(t) \in Nodes
  BY <1>2, <1>3, <1>4 DEF DoneNode, OwnDone
<1>6. RegionOf(t) = Full(DoneNode(t))
  <2>1. CASE pc[t] \in {"chunk", "steal", "after"}
    BY <1>2, <2>1 DEF RegionOf, Late, DoneNode
  <2>2. CASE pc[t] = "cond" /\ node[t] = NNodes
    BY <2>2 DEF RegionOf, Late, DoneNode, Begun
  <2>3. CASE pc[t] \in BarrierPCs /\ ~Late(t) /\ after[t] = "next"
    BY <1>3, <2>3 DEF RegionOf, DoneNode, BarrierPCs
  <2>4. CASE pc[t] \in BarrierPCs /\ ~Late(t) /\ after[t] = "end" /\ node[t] = NNodes
    BY <2>4 DEF RegionOf, DoneNode, Begun, BarrierPCs
  <2> QED BY <2>1, <2>2, <2>3, <2>4 DEF OwnDone
<1> QED BY <1>1, <1>5, <1>6

-----------------------------------------------------------------------------
(* Steps that compute nothing.                                             *)

(* A thread keeps what it has computed and what it works on ...            *)
Calm(u) ==
  /\ OwnDone(u)' <=> OwnDone(u)
  /\ pc'[u] = "chunk" <=> pc[u] = "chunk"
  /\ pc'[u] = "steal" <=> pc[u] = "steal"
  /\ pc[u] = "chunk" => chunk'[u] = chunk[u]
  /\ pc[u] \in {"chunk", "steal"} => node'[u] = node[u]
  /\ OwnDone(u) => DoneNode(u)' = DoneNode(u)

(* ... or takes the chunk that is its own.                                 *)
Begins(u) ==
  /\ pc[u] \notin {"chunk", "steal"} /\ ~OwnDone(u)
  /\ pc'[u] = "chunk" /\ chunk'[u] = u

(* A thread that a step leaves where it is stays calm.                     *)
LEMMA StillCalm ==
  ASSUME NEW u \in Threads, Still(u), chunk'[u] = chunk[u], n_barrier_passed' = n_barrier_passed
  PROVE  Calm(u)
<1>1. CASE pc'[u] = pc[u]
  BY <1>1 DEF Calm, Still, OwnDone, DoneNode, Late
<1>2. CASE pc'[u] # pc[u]
  <2>1. pc[u] \in WorkerPCs /\ pc'[u] \in WorkerPCs
    BY <1>2 DEF Still
  <2>2. ~OwnDone(u) /\ ~OwnDone(u)'
    BY <2>1 DEF OwnDone, WorkerPCs, BarrierPCs
  <2> QED BY <2>1, <2>2 DEF Calm, WorkerPCs
<1> QED BY <1>1, <1>2

(* A step in which nobody computes a chunk or claims one.                  *)
LEMMA CalmStep ==
  ASSUME LoopInv, asked' = asked, work' = work, current_chunk' = current_chunk,
         RegionOf(0)' = RegionOf(0), \A u \in Team : Calm(u) \/ Begins(u),
         pc'[0] \in {"kick", "publish"} => pc[0] \in {"kick", "publish"},
         Running' /\ ~Left(0)' => Running /\ ~Left(0),
         Left(0)' => Left(0) /\ node'[0] = node[0],
         pc'[0] \in BarrierPCs /\ ~Late(0)' /\ after'[0] = "chunks" =>
           pc[0] \in BarrierPCs /\ ~Late(0) /\ after[0] = "chunks"
  PROVE  WorkInv' /\ ClaimInv'
<1>t. SyncInv /\ WorkInv /\ ClaimInv /\ Team' = Team
  BY DEF LoopInv, Team
<1>1. \A u \in Team : OwnDone(u)' <=> OwnDone(u)
  BY DEF Calm, Begins, OwnDone, BarrierPCs
<1>2. ASSUME NEW c \in Nat, asked <= c
      PROVE  \A u \in Team : Holds(u, c)' <=> Holds(u, c)
  <2> SUFFICES ASSUME NEW u \in Team PROVE Holds(u, c)' <=> Holds(u, c)
    OBVIOUS
  <2>1. u \in Nat /\ u < asked /\ asked \in Nat
    BY <1>t, TeamFacts
  <2>2. u # c
    BY <1>2, <2>1
  <2> QED BY <2>2 DEF Calm, Begins, Holds
<1>3. ASSUME NEW c \in Nat PROVE Here(c)' <=> Here(c)
  <2>1. CASE c < asked
    BY <1>t, <1>1, <2>1, TeamFacts DEF Here
  <2>2. CASE ~(c < asked)
    <3>1. asked <= c
      BY <1>t, <2>2, TeamFacts
    <3>2. Claimed(c)' <=> Claimed(c)
      BY <1>t, <1>2, <3>1 DEF Claimed
    <3> QED BY <2>2, <3>2 DEF Here
  <2> QED BY <2>1, <2>2
<1>4. WorkInv'
  <2> SUFFICES ASSUME NEW p \in AllChunks PROVE Counted(p)'
    BY DEF WorkInv
  <2>1. Counted(p) /\ p[2] \in Nat
    BY <1>t, ChunkPairs DEF WorkInv
  <2>2. Computed(p[1], p[2])' <=> Computed(p[1], p[2])
    BY <1>3, <2>1 DEF Computed
  <2> QED BY <2>1, <2>2 DEF Counted
<1>5. \A u \in Team : Claim(u)'
  <2> SUFFICES ASSUME NEW u \in Team PROVE Claim(u)'
    OBVIOUS
  <2>1. Claim(u)
    BY <1>t DEF ClaimInv
  <2>2. CASE Calm(u)
    BY <2>1, <2>2 DEF Calm, Claim
  <2>3. CASE Begins(u)
    BY <2>3 DEF Begins, Claim
  <2> QED BY <2>2, <2>3
<1>6. ASSUME NEW u \in Team, NEW w \in Team, u # w, pc'[u] = "chunk", pc'[w] = "chunk"
      PROVE  chunk'[u] # chunk'[w]
  <2>1. ASSUME NEW x \in Team, pc'[x] = "chunk"
        PROVE  chunk'[x] = x \/ (chunk'[x] = chunk[x] /\ pc[x] = "chunk")
    BY <2>1 DEF Calm, Begins
  <2>2. ASSUME NEW x \in Team, pc[x] = "chunk"
        PROVE  (chunk[x] = x \/ asked <= chunk[x]) /\ chunk[x] \in Nat
    <3>1. x \in Threads
      BY <1>t, TeamFacts
    <3> QED BY <1>t, <2>2, <3>1 DEF ClaimInv, Claim, SyncInv, TypeOK
  <2>3. u \in Nat /\ w \in Nat /\ u < asked /\ w < asked /\ asked \in Nat
    BY <1>t, TeamFacts
  <2>4. pc[u] = "chunk" /\ pc[w] = "chunk" => chunk[u] # chunk[w]
    BY <1>t, <1>6 DEF ClaimInv
  <2> QED BY <1>6, <2>1, <2>2, <2>3, <2>4
<1>7. InProduct' => asked' <= current_chunk'
  BY <1>t DEF ClaimInv, InProduct
<1>8. pc'[0] \in BarrierPCs /\ ~Late(0)' /\ after'[0] = "chunks" => current_chunk' = asked'
  BY <1>t DEF ClaimInv
<1> QED BY <1>t, <1>4, <1>5, <1>6, <1>7, <1>8 DEF ClaimInv

(* A step of thread t in which the others stay where they are.             *)
LEMMA ThreadStep ==
  ASSUME LoopInv, NEW t \in Threads, Calm(t) \/ Begins(t), Same(t),
         \A u \in Threads \ {t} : Still(u) /\ chunk'[u] = chunk[u],
         UNCHANGED <<n_graph, n_barrier_passed, asked, work, current_chunk>>,
         t = 0 => /\ pc'[0] \notin {"kick", "publish"} /\ Running
                  /\ Left(0) => ~Running'
                  /\ ~Left(0)'
                  /\ pc'[0] \in BarrierPCs /\ ~Late(0)' /\ after'[0] = "chunks" =>
                       pc[0] \in BarrierPCs /\ ~Late(0) /\ after[0] = "chunks"
  PROVE  WorkInv' /\ ClaimInv'
<1>t. SyncInv
  BY DEF LoopInv
<1>1. \A u \in Threads \ {t} : Calm(u) /\ Same(u) /\ (Late(u)' <=> Late(u))
  BY StillCalm, StillSame
<1>2. \A u \in Team : Calm(u) \/ Begins(u)
  BY <1>t, <1>1, TeamFacts
<1>3. RegionOf(0)' = RegionOf(0)
  BY <1>1, ThreadKinds DEF Same
<1>4. CASE t = 0
  BY <1>2, <1>3, <1>4, CalmStep
<1>5. CASE t # 0
  <2>1. 0 \in Threads \ {t}
    BY <1>5, ThreadKinds
  <2>2. pc'[0] = pc[0] /\ node'[0] = node[0] /\ after'[0] = after[0] /\ (Late(0)' <=> Late(0))
    BY <1>1, <2>1, ThreadKinds DEF Still
  <2>3. (Left(0)' <=> Left(0)) /\ (Running' <=> Running)
    BY <2>2 DEF Left, Running
  <2> QED BY <1>2, <1>3, <2>2, <2>3, CalmStep
<1> QED BY <1>4, <1>5

(* The steps of the main thread outside of a graph.                        *)
LEMMA MainLoop ==
  ASSUME LoopInv, SyncInv', Main \/ Free \/ \E b \in BOOLEAN : SetPause(b)
  PROVE  WorkInv' /\ ClaimInv'
<1>t. SyncInv /\ TypeOK
  BY DEF LoopInv, SyncInv
<1>1. /\ UNCHANGED localVars /\ UNCHANGED <<n_barrier_passed, asked, work, current_chunk>>
      /\ \A u \in Workers : pc'[u] = pc[u] \/ pc'[u] = Woken(pc)[u]
      /\ pc[0] \in MainPCs /\ pc'[0] \in MainPCs \union {"nth"}
  <2>1. CASE KickThreads \/ KickPublish \/ Join
    BY <1>t, <2>1, ThreadKinds DEF KickThreads, KickPublish, Join, Goto, TypeOK, poolVars, MainPCs
  <2>2. CASE KickSignal \/ Free
    <3>1. Woken(pc) \in [Threads -> WorkerPCs \union ComputePCs \union BarrierPCs \union MainPCs]
      BY <1>t, WokenType
    <3> QED BY <2>2, <3>1, ThreadKinds DEF KickSignal, Free, MainPCs
  <2>3. ASSUME NEW b \in BOOLEAN, SetPause(b)
        PROVE  /\ UNCHANGED localVars /\ UNCHANGED <<n_barrier_passed, asked, work, current_chunk>>
               /\ pc' = Woken(pc) /\ pc[0] = "idle" /\ pc'[0] = "idle"
    BY <2>3, ThreadKinds DEF SetPause, Woken
  <2> QED BY <2>1, <2>2, <2>3 DEF Main, MainPCs
<1>2. ASSUME NEW u \in Workers PROVE Calm(u)
  <2>1. u \in Threads
    BY ThreadKinds
  <2>2. Still(u)
    BY <1>t, <1>1, WokenStill DEF Still, localVars
  <2> QED BY <1>1, <2>1, <2>2, StillCalm DEF localVars
<1>3. ~OwnDone(0) /\ ~OwnDone(0)' /\ Calm(0) /\ ~Late(0) /\ ~Late(0)' /\ ~Left(0) /\ ~Left(0)'
      /\ RegionOf(0) = 0 /\ RegionOf(0)' = 0
  BY <1>1 DEF OwnDone, Calm, MainPCs, BarrierPCs, Late, Left, RegionOf
<1>4. \A u \in Team : Calm(u)
  BY <1>t, <1>2, <1>3, TeamFacts, ThreadKinds
<1>5. pc'[0] \notin BarrierPCs
  BY <1>1 DEF MainPCs, BarrierPCs
<1>6. CASE KickPublish
  <2>1. pc[0] = "publish" /\ pc'[0] = "signal"
    BY <1>t, <1>6, ThreadKinds DEF KickPublish, Goto, TypeOK
  <2>2. \A u \in Team : ~OwnDone(u) /\ pc[u] # "chunk"
    <3> SUFFICES ASSUME NEW u \in Team \ {0} PROVE ~OwnDone(u) /\ pc[u] # "chunk"
      BY <1>3, <2>1
    <3>1. pc[u] \in WorkerPCs \/ Left(u)
      BY <1>t, <2>1, QuietOutside, TeamFacts, ThreadKinds DEF Outside
    <3> QED BY <3>1 DEF OwnDone, Left, Late, WorkerPCs, BarrierPCs
  <2>3. WorkInv'
    <3> SUFFICES ASSUME NEW p \in AllChunks PROVE Counted(p)'
      BY DEF WorkInv
    <3>1. work[p] = 0
      BY <2>1 DEF LoopInv, WorkInv, Counted
    <3>2. p[1] \in Nodes /\ p[2] \in Nat
      BY ChunkPairs
    <3>3. ~Computed(p[1], p[2])'
      <4> SUFFICES ASSUME p[2] \in Chunks(p[1], asked), Full(p[1]) <= 0, Here(p[2])' PROVE FALSE
        BY <1>1, <1>3, <3>2, RegionOrder DEF Computed
      <4>1. ~MulMat(p[1])
        BY <3>2 DEF Full, Nodes
      <4>2. p[2] < asked
        BY <1>t, <3>2, <4>1, ChunkCounts, TeamFacts DEF Chunks
      <4>3. p[2] \in Team
        BY <1>t, <3>2, <4>2, TeamFacts
      <4> QED BY <1>1, <1>4, <2>2, <4>2, <4>3 DEF Here, Calm
    <3> QED BY <1>1, <1>3, <2>1, <3>1, <3>3 DEF Counted
  <2>4. ClaimInv'
    <3>1. Team' = Team
      BY <1>1 DEF Team
    <3>2. \A u \in Team : ~OwnDone(u)' /\ pc'[u] \notin {"chunk", "steal"}
      BY <1>4, <2>2 DEF Calm, OwnDone
    <3>3. ~InProduct'
      BY <1>3 DEF InProduct, Nodes
    <3> QED BY <1>5, <3>1, <3>2, <3>3 DEF ClaimInv, Claim
  <2> QED BY <2>3, <2>4
<1>7. CASE ~KickPublish
  <2>1. pc'[0] \in {"kick", "publish"} => pc[0] \in {"kick", "publish"}
    BY <1>t, <1>7, WokenType, ThreadKinds
    DEF Main, KickThreads, KickSignal, Join, Free, SetPause, Goto, TypeOK, Woken
  <2>2. Running' => Running
    BY <1>t, <1>7, WokenType, ThreadKinds
    DEF Main, KickThreads, KickSignal, Join, Free, SetPause, Goto, TypeOK, Woken, Running,
        ComputePCs, BarrierPCs
  <2> QED BY <1>1, <1>3, <1>4, <1>5, <2>1, <2>2, CalmStep
<1> QED BY <1>6, <1>7

(* A new graph starts with no work done.                                   *)
LEMMA GraphComputeLoop ==
  ASSUME LoopInv, SyncInv', NEW n \in ThreadCounts, GraphCompute(n)
  PROVE  WorkInv' /\ ClaimInv'
<1>t. SyncInv /\ TypeOK
  BY DEF LoopInv, SyncInv
<1>1. /\ pc[0] = "idle" /\ pc'[0] = "kick" /\ \A u \in Workers : pc'[u] = pc[u]
      /\ work' = [p \in AllChunks |-> 0] /\ n_barrier_passed' = n_barrier_passed
      /\ UNCHANGED localVars
  BY <1>t, ThreadKinds DEF GraphCompute, Goto, TypeOK
<1>2. \A u \in Workers : pc[u] \in WorkerPCs \/ Left(u)
  BY <1>t, <1>1, QuietOutside DEF Outside
<1>3. \A u \in Threads : ~OwnDone(u)' /\ pc'[u] \notin {"chunk", "steal"}
  BY <1>1, <1>2, ThreadKinds DEF OwnDone, Left, Late, WorkerPCs, BarrierPCs, localVars
<1>4. WorkInv'
  BY <1>1 DEF WorkInv, Counted, Running, Left, Late, ComputePCs, BarrierPCs
<1>5. RegionOf(0)' = 0 /\ pc'[0] \notin BarrierPCs
  BY <1>1 DEF RegionOf, Late, BarrierPCs
<1>6. ~InProduct'
  BY <1>5 DEF InProduct, Nodes
<1>7. Team' \subseteq Threads
  <2>1. asked' \in 1 .. NThreads
    BY DEF SyncInv, TypeOK
  <2> QED BY <2>1, TeamRange DEF Team
<1>8. ClaimInv'
  BY <1>3, <1>5, <1>6, <1>7 DEF ClaimInv, Claim
<1> QED BY <1>4, <1>8

(* A worker in search of work computes nothing.                            *)
LEMMA WorkerLoop ==
  ASSUME LoopInv, NEW t \in Workers, Worker(t) \/ SpuriousWakeup(t)
  PROVE  WorkInv' /\ ClaimInv'
<1>t. SyncInv /\ TypeOK /\ t \in Threads
  BY ThreadKinds DEF LoopInv, SyncInv
<1>1. /\ UNCHANGED <<poolVars, node, nth, chunk, after, limit, passed, asked, work>>
      /\ \E x \in WorkerPCs \union {"nth"} : pc' = [pc EXCEPT ![t] = x]
      /\ pc[t] \in WorkerPCs
  <2>1. CASE PauseLoop(t) \/ PauseWait(t) \/ CheckStop(t) \/ PollForWork(t)
    BY <2>1 DEF PauseLoop, PauseWait, CheckStop, PollForWork, Goto, WorkerPCs, localVars
  <2>2. CASE PollRound(t) \/ PollActive(t) \/ CheckForWork(t)
    BY <2>2 DEF PollRound, PollActive, CheckForWork, Goto, WorkerPCs
  <2>3. CASE SpuriousWakeup(t)
    <3>1. Woken(pc)[t] \in {"top", "lock"}
      BY <1>t, <2>3 DEF Woken, SpuriousWakeup
    <3> QED BY <2>3, <3>1 DEF SpuriousWakeup, WorkerPCs, localVars
  <2> QED BY <2>1, <2>2, <2>3 DEF Worker
<1>2. /\ pc'[t] \in WorkerPCs \union {"nth"} /\ \A u \in Threads \ {t} : pc'[u] = pc[u]
      /\ UNCHANGED <<n_barrier_passed, current_chunk>>
  BY <1>t, <1>1 DEF TypeOK, poolVars
<1>3. Calm(t)
  BY <1>1, <1>2 DEF Calm, OwnDone, WorkerPCs, BarrierPCs
<1>4. \A u \in Threads \ {t} : Calm(u)
  BY <1>1, <1>2 DEF Calm, OwnDone, DoneNode, Late
<1>5. \A u \in Team : Calm(u)
  BY <1>t, <1>3, <1>4, TeamFacts
<1>6. pc'[0] = pc[0] /\ node'[0] = node[0] /\ after'[0] = after[0] /\ passed'[0] = passed[0]
  BY <1>1, <1>2, ThreadKinds
<1>7. (Late(0)' <=> Late(0)) /\ (Left(0)' <=> Left(0)) /\ (Running' <=> Running)
  BY <1>2, <1>6 DEF Late, Left, Running
<1>8. RegionOf(0)' = RegionOf(0)
  BY <1>6, <1>7 DEF RegionOf, Begun
<1> QED BY <1>1, <1>2, <1>5, <1>6, <1>7, <1>8, CalmStep

-----------------------------------------------------------------------------
(* Steps of a thread in a graph.                                           *)

(* Steps by which a thread neither takes a chunk nor leaves a barrier.     *)
LEMMA WalkLoop ==
  ASSUME LoopInv, NEW t \in Threads,
         \/ StartGraph(t) \/ NextNode(t) \/ EndNode(t)
         \/ BarrierRead(t) \/ BarrierEnter(t) \/ BarrierReset(t)
  PROVE  WorkInv' /\ ClaimInv'
<1>t. SyncInv /\ TypeOK /\ Local(t)
  BY DEF LoopInv, SyncInv, LocalInv
<1>s. Same(t)
  BY <1>t, StartGraphSync, NextNodeSync, EndNodeSync, BarrierReadSync, BarrierEnterSync,
     BarrierResetSync
<1>1. /\ UNCHANGED <<n_graph, n_barrier_passed, asked, work, current_chunk, chunk, last_graph, seen>>
      /\ \A u \in Threads \ {t} :
           /\ pc'[u] = pc[u] /\ node'[u] = node[u] /\ nth'[u] = nth[u] /\ after'[u] = after[u]
           /\ limit'[u] = limit[u] /\ passed'[u] = passed[u]
  <2>1. CASE StartGraph(t) \/ NextNode(t)
    BY <1>t, <2>1 DEF StartGraph, NextNode, Goto, TypeOK, poolVars
  <2>2. CASE EndNode(t)
    BY <1>t, <2>2 DEF EndNode, Goto, TypeOK
  <2>3. CASE BarrierRead(t) \/ BarrierEnter(t) \/ BarrierReset(t)
    BY <1>t, <2>3 DEF BarrierRead, BarrierEnter, BarrierReset, Goto, TypeOK, poolVars, localVars
  <2> QED BY <2>1, <2>2, <2>3
<1>2. \A u \in Threads \ {t} : Still(u) /\ chunk'[u] = chunk[u]
  BY <1>1 DEF Still
<1>3. /\ pc[t] \in ComputePCs \union BarrierPCs /\ pc'[t] \in ComputePCs \union BarrierPCs
      /\ pc[t] \notin {"chunk", "steal", "spin"} /\ pc'[t] \notin {"chunk", "steal"}
      /\ ~Late(t) /\ ~Late(t)'
      /\ (OwnDone(t)' <=> OwnDone(t)) /\ (OwnDone(t) => DoneNode(t)' = DoneNode(t))
      /\ pc'[t] \in BarrierPCs /\ after'[t] = "chunks" => pc[t] \in BarrierPCs /\ after[t] = "chunks"
  <2>1. CASE StartGraph(t)
    <3>1. pc[t] = "nth" /\ pc'[t] = "cond" /\ node'[t] = 0
      BY <1>t, <2>1 DEF StartGraph, Goto, TypeOK
    <3> QED BY <3>1, PoolAssumption DEF OwnDone, Late, ComputePCs, BarrierPCs
  <2>2. CASE NextNode(t)
    <3>1. pc[t] = "cond" /\ node' = node /\ node[t] \in 0 .. NNodes
      BY <1>t, <2>2 DEF NextNode, Goto, TypeOK
    <3>2. \/ pc'[t] = "node" /\ node[t] # NNodes
          \/ pc'[t] = "barrier" /\ after'[t] = "end"
      BY <1>t, <2>2, PoolAssumption DEF NextNode, Goto, TypeOK
    <3> QED BY <3>1, <3>2 DEF OwnDone, DoneNode, Late, ComputePCs, BarrierPCs
  <2>3. CASE EndNode(t)
    <3>1. pc[t] = "after" /\ node[t] < NNodes /\ node[t] \in Nat
      BY <1>t, <2>3 DEF EndNode, Local, TypeOK
    <3>2. \/ pc'[t] = "barrier" /\ after'[t] = "next" /\ node'[t] = node[t]
          \/ pc'[t] = "cond" /\ node'[t] = NNodes /\ node[t] = NNodes - 1
      <4>1. CASE node[t] + 1 < NNodes
        BY <1>t, <2>3, <4>1 DEF EndNode, Goto, TypeOK
      <4>2. CASE ~(node[t] + 1 < NNodes)
        <5>1. node[t] + 1 = NNodes /\ node[t] = NNodes - 1
          BY <3>1, <4>2, PoolAssumption
        <5>2. pc' = [pc EXCEPT ![t] = "cond"] /\ node' = [node EXCEPT ![t] = node[t] + 1]
          BY <2>3, <4>2 DEF EndNode, Goto
        <5> QED BY <1>t, <5>1, <5>2 DEF TypeOK
      <4> QED BY <4>1, <4>2
    <3> QED BY <3>1, <3>2, PoolAssumption DEF OwnDone, DoneNode, Late, ComputePCs, BarrierPCs
  <2>4. CASE BarrierRead(t) \/ BarrierEnter(t) \/ BarrierReset(t)
    <3>1. /\ pc[t] \in {"barrier", "enter", "reset"} /\ pc'[t] \in BarrierPCs
          /\ node' = node /\ after' = after
          /\ pc'[t] = "spin" => pc[t] = "enter" /\ passed' = passed
      BY <1>t, <2>4
      DEF BarrierRead, BarrierEnter, BarrierReset, Goto, TypeOK, localVars, BarrierPCs
    <3>2. ~Late(t) /\ ~Late(t)'
      BY <1>t, <1>1, <3>1 DEF Late, Local
    <3> QED BY <3>1, <3>2 DEF OwnDone, DoneNode, BarrierPCs
  <2> QED BY <2>1, <2>2, <2>3, <2>4
<1>4. Calm(t)
  BY <1>3 DEF Calm
<1>5. t = 0 => /\ pc'[0] \notin {"kick", "publish"} /\ Running
               /\ ~Left(0) /\ ~Left(0)'
               /\ pc'[0] \in BarrierPCs /\ ~Late(0)' /\ after'[0] = "chunks" =>
                    pc[0] \in BarrierPCs /\ ~Late(0) /\ after[0] = "chunks"
  BY <1>3 DEF Running, Left, ComputePCs, BarrierPCs
<1> QED BY <1>s, <1>1, <1>2, <1>4, <1>5, ThreadStep

(* The main thread sets the first chunk that nobody owns before anybody    *)
(* computes a chunk of the product.                                        *)
LEMMA StartNodeLoop ==
  ASSUME LoopInv, NEW t \in Threads, StartNode(t)
  PROVE  WorkInv' /\ ClaimInv'
<1>t. SyncInv /\ TypeOK /\ Local(t)
  BY DEF LoopInv, SyncInv, LocalInv
<1>s. Same(t)
  BY <1>t, StartNodeSync
<1>0. /\ pc[t] = "node" /\ t \in Team /\ node[t] < NNodes /\ node[t] \in Nodes
      /\ ~OwnDone(t) /\ ~Left(t)
  BY <1>t, Computing, PoolAssumption
  DEF StartNode, ComputePCs, OwnDone, BarrierPCs, Left, Late, Local, TypeOK, Nodes
<1>1. /\ UNCHANGED <<n_graph, n_barrier_passed, asked, work, last_graph, seen, node, nth, limit, passed>>
      /\ \A u \in Threads \ {t} : pc'[u] = pc[u] /\ after'[u] = after[u] /\ chunk'[u] = chunk[u]
  BY <1>t DEF StartNode, Goto, TypeOK
<1>2. \A u \in Threads \ {t} : Still(u) /\ chunk'[u] = chunk[u]
  BY <1>1 DEF Still
<1>3. CASE ~MulMat(node[t])
  <2>1. pc'[t] = "chunk" /\ chunk'[t] = t /\ current_chunk' = current_chunk
    BY <1>t, <1>3 DEF StartNode, Goto, TypeOK, MulMat
  <2>2. Begins(t)
    BY <1>0, <2>1 DEF Begins
  <2>3. t = 0 => pc'[0] \notin BarrierPCs /\ ~Left(0)' /\ Running
    BY <1>0, <2>1 DEF BarrierPCs, Left, Late, Running, ComputePCs
  <2> QED BY <1>s, <1>0, <1>1, <1>2, <2>1, <2>2, <2>3, ThreadStep
<1>4. CASE MulMat(node[t])
  <2>1. /\ pc'[t] = "barrier" /\ after'[t] = "chunks" /\ chunk' = chunk
        /\ current_chunk' = (IF t = 0 THEN nth[t] ELSE current_chunk)
    BY <1>t, <1>4 DEF StartNode, Goto, TypeOK, MulMat
  <2>2. ~OwnDone(t)' /\ ~Late(t)' /\ Calm(t)
    BY <1>0, <2>1 DEF OwnDone, Late, Calm
  <2>3. CASE t # 0
    BY <1>s, <1>1, <1>2, <2>1, <2>2, <2>3, ThreadStep
  <2>4. CASE t = 0
    <3>1. current_chunk' = asked
      BY <1>t, <1>0, <2>1, <2>4 DEF Local, ComputePCs
    <3>2. RegionOf(0) = 2 * node[0] /\ RegionOf(0)' = RegionOf(0)
      BY <1>s, <1>0, <2>4, PoolAssumption DEF RegionOf, Late, Begun, Same
    <3>3. \A u \in Team : ~OwnDone(u) /\ pc[u] # "chunk"
      <4> SUFFICES ASSUME NEW u \in Team, OwnDone(u) \/ pc[u] = "chunk" PROVE FALSE
        OBVIOUS
      <4>1. Full(DoneNode(u)) = 2 * node[0] /\ DoneNode(u) \in Nodes
        BY <1>t, <3>2, DoneRegion
      <4> QED BY <1>0, <1>4, <2>4, <4>1, RegionOrder
    <3>4. \A u \in Team : Calm(u)
      BY <1>t, <1>1, <1>2, <2>2, StillCalm, TeamFacts
    <3>5. \A u \in Team : ~OwnDone(u)' /\ pc'[u] \notin {"chunk", "steal"}
      BY <3>3, <3>4 DEF Calm, OwnDone
    <3>6. Team' = Team
      BY <1>1 DEF Team
    <3>7. ~InProduct'
      <4> SUFFICES ASSUME NEW m \in Nodes, 2 * node[0] = 2 * m + 1 PROVE FALSE
        BY <3>2 DEF InProduct
      <4> QED BY <1>0, <2>4 DEF Nodes
    <3>8. ClaimInv'
      BY <1>1, <3>1, <3>5, <3>6, <3>7 DEF ClaimInv, Claim
    <3>9. WorkInv'
      <4> SUFFICES ASSUME NEW p \in AllChunks PROVE Counted(p)'
        BY DEF WorkInv
      <4>1. Counted(p) /\ p[1] \in Nodes
        BY ChunkPairs DEF LoopInv, WorkInv
      <4>2. RegionOf(0) # Full(p[1])
        BY <1>0, <1>4, <2>4, <3>2, <4>1, RegionOrder
      <4>3. Computed(p[1], p[2])' <=> Computed(p[1], p[2])
        BY <1>1, <3>2, <4>2 DEF Computed
      <4>4. Running /\ ~Left(0) /\ Running' /\ ~Left(0)' /\ pc'[0] \notin {"kick", "publish"}
        BY <1>0, <2>1, <2>2, <2>4 DEF Running, Left, ComputePCs, BarrierPCs
      <4> QED BY <1>1, <4>1, <4>3, <4>4 DEF Counted
    <3> QED BY <3>8, <3>9
  <2> QED BY <2>3, <2>4
<1> QED BY <1>3, <1>4

(* A thread that saw the barrier open computes nothing yet.                *)
LEMMA BarrierPassLoop ==
  ASSUME LoopInv, NEW t \in Threads, BarrierPass(t)
  PROVE  WorkInv' /\ ClaimInv'
<1>t. SyncInv /\ TypeOK /\ Local(t)
  BY DEF LoopInv, SyncInv, LocalInv
<1>s. Same(t)
  BY <1>t, BarrierPassSync
<1>1. /\ n_barrier_passed # passed[t] /\ Leave(t, "spin")
      /\ UNCHANGED <<n_threads_max, n_graph, n_barrier, current_chunk, stop, pause, abort,
                     n_threads_cur, mutex, limit, passed, n_barrier_passed>>
  BY DEF BarrierPass, poolVars
<1>2. "spin" \in BarrierPCs /\ n_barrier_passed \in Nat
  BY <1>t DEF BarrierPCs, TypeOK
<1>3. /\ pc[t] = "spin" /\ pc'[t] = Target(t)
      /\ node'[t] = IF after[t] = "next" THEN node[t] + 1 ELSE node[t]
      /\ chunk'[t] = IF after[t] = "chunks" THEN t ELSE chunk[t]
      /\ \A u \in Threads \ {t} : pc'[u] = pc[u] /\ node'[u] = node[u] /\ chunk'[u] = chunk[u]
      /\ UNCHANGED <<last_graph, seen, nth, after, asked, work>>
  BY <1>t, <1>1, <1>2, LeaveStep
<1>4. Late(t) /\ ~OwnDone(t) /\ ~Late(t)'
  BY <1>t, <1>1, <1>2, <1>3, LeaveRegion DEF Late, OwnDone
<1>5. after[t] = "next" => node'[t] # NNodes
  BY <1>t, <1>2, <1>3, PoolAssumption DEF Local, TypeOK
<1>6. Calm(t) \/ Begins(t)
  <2>1. CASE after[t] = "chunks"
    BY <1>3, <1>4, <2>1 DEF Begins, Target
  <2>2. CASE after[t] # "chunks"
    BY <1>3, <1>4, <1>5, <2>2 DEF Calm, Target, OwnDone, BarrierPCs
  <2> QED BY <2>1, <2>2
<1>7. \A u \in Threads \ {t} : Still(u) /\ chunk'[u] = chunk[u]
  BY <1>1, <1>3 DEF Still
<1>8. t = 0 => /\ pc'[0] \notin {"kick", "publish"} /\ Running /\ (Left(0) => ~Running')
               /\ ~Left(0)' /\ pc'[0] \notin BarrierPCs
  BY <1>3, <1>4 DEF Running, Left, Target, ComputePCs, BarrierPCs
<1> QED BY <1>s, <1>1, <1>3, <1>6, <1>7, <1>8, ThreadStep

(* The chunk in a thread's hand has not been computed before.              *)
LEMMA ChunkInHand ==
  ASSUME LoopInv, NEW t \in Threads, pc[t] = "chunk"
  PROVE  /\ t \in Team /\ node[t] \in Nodes /\ chunk[t] \in Nat /\ nth[t] = asked
         /\ chunk[t] \in Chunks(node[t], asked) /\ <<node[t], chunk[t]>> \in AllChunks
         /\ RegionOf(0) = Full(node[t]) /\ ~Here(chunk[t])
         /\ chunk[t] = t \/ (asked <= chunk[t] /\ chunk[t] < current_chunk)
<1>t. SyncInv /\ TypeOK /\ Local(t)
  BY DEF LoopInv, SyncInv, LocalInv
<1>1. t \in Team /\ t \in Nat /\ t < asked /\ asked \in Nat /\ asked \in 1 .. NThreads
  BY <1>t, Computing, TeamFacts DEF ComputePCs
<1>2. node[t] \in Nodes /\ node[t] # NNodes /\ chunk[t] \in Nat /\ nth[t] = asked
  BY <1>t, PoolAssumption DEF Local, TypeOK, Nodes, ComputePCs
<1>3. RegionOf(0) = Full(node[t])
  BY <1>t, <1>1, <1>2, DoneRegion DEF DoneNode
<1>4. \/ chunk[t] = t
      \/ asked <= chunk[t] /\ chunk[t] < current_chunk /\ chunk[t] < NChunks(node[t], asked)
  BY <1>1 DEF LoopInv, ClaimInv, Claim
<1>5. /\ NChunks(node[t], asked) \in Nat /\ asked <= NChunks(node[t], asked)
      /\ NChunks(node[t], asked) <= MatChunks + NThreads
  BY <1>1, <1>2, ChunkCounts
<1>6. chunk[t] < NChunks(node[t], asked)
  BY <1>1, <1>2, <1>4, <1>5
<1>7. chunk[t] \in Chunks(node[t], asked) /\ chunk[t] \in 0 .. MatChunks + NThreads
  BY <1>2, <1>5, <1>6, PoolAssumption DEF Chunks
<1>8. <<node[t], chunk[t]>> \in AllChunks
  BY <1>2, <1>7, ChunkPairs
<1>9. ~Here(chunk[t])
  <2>1. CASE chunk[t] = t
    BY <1>1, <2>1 DEF Here, OwnDone, BarrierPCs
  <2>2. CASE asked <= chunk[t]
    <3>1. ~(chunk[t] < asked) /\ ~Claimed(chunk[t])
      BY <1>1, <1>2, <2>2 DEF Claimed, Holds
    <3> QED BY <3>1 DEF Here
  <2> QED BY <1>4, <2>1, <2>2
<1> QED BY <1>1, <1>2, <1>3, <1>4, <1>7, <1>8, <1>9

(* Each chunk is computed once.                                            *)
LEMMA ComputeChunkLoop ==
  ASSUME LoopInv, NEW t \in Threads, ComputeChunk(t)
  PROVE  WorkInv' /\ ClaimInv'
<1>t. SyncInv /\ TypeOK /\ Local(t) /\ ClaimInv
  BY DEF LoopInv, SyncInv, LocalInv
<1>s. Same(t)
  BY <1>t, ChunkSync
<1> DEFINE c0 == chunk[t]
<1>1. /\ pc[t] = "chunk" /\ pc'[t] = (IF nth[t] >= NChunks(node[t], nth[t]) THEN "after" ELSE "steal")
      /\ \A u \in Threads \ {t} : pc'[u] = pc[u]
      /\ UNCHANGED <<n_barrier_passed, n_graph, current_chunk, asked>> /\ UNCHANGED localVars
      /\ work' = [work EXCEPT ![<<node[t], chunk[t]>>] = @ + 1]
  BY <1>t DEF ComputeChunk, Goto, TypeOK, poolVars
<1>2. /\ t \in Team /\ node[t] \in Nodes /\ c0 \in Nat /\ nth[t] = asked
      /\ c0 \in Chunks(node[t], asked) /\ <<node[t], c0>> \in AllChunks
      /\ RegionOf(0) = Full(node[t]) /\ ~Here(c0)
      /\ c0 = t \/ (asked <= c0 /\ c0 < current_chunk)
  BY <1>1, ChunkInHand
<1>3. /\ Team \subseteq Threads /\ asked \in Nat /\ asked \in 1 .. NThreads
      /\ \A u \in Team : u \in Nat /\ u < asked /\ 0 \in Team
      /\ \A c \in Nat : c < asked => c \in Team
  BY <1>t, TeamFacts
<1>4. Team' = Team
  BY <1>1 DEF Team
<1>5. \A u \in Threads \ {t} : (OwnDone(u)' <=> OwnDone(u)) /\ Same(u) /\ (Late(u)' <=> Late(u))
  <2> SUFFICES ASSUME NEW u \in Threads \ {t}
               PROVE  (OwnDone(u)' <=> OwnDone(u)) /\ Same(u) /\ (Late(u)' <=> Late(u))
    OBVIOUS
  <2>1. Still(u)
    BY <1>1 DEF Still, localVars
  <2> QED BY <1>1, <2>1, StillSame, StillCalm DEF Calm, localVars
<1>6. RegionOf(0)' = RegionOf(0) /\ 0 \in Threads
  BY <1>s, <1>5, ThreadKinds DEF Same
<1>7. OwnDone(t)' /\ pc'[t] # "chunk" /\ ~Late(t) /\ ~Late(t)'
  BY <1>1 DEF OwnDone, Late
<1>8. ASSUME NEW c \in Nat PROVE Here(c)' <=> (Here(c) \/ c = c0)
  <2>1. CASE c < asked /\ c # t
    BY <1>1, <1>2, <1>3, <1>5, <2>1 DEF Here
  <2>2. CASE c = t
    <3>1. c < asked /\ (c = c0 \/ OwnDone(c))
      BY <1>1, <1>2, <1>3, <2>2 DEF OwnDone
    <3> QED BY <1>1, <1>7, <2>2, <3>1 DEF Here
  <2>3. CASE ~(c < asked)
    <3>1. \A u \in Team \ {t} : Holds(u, c)' <=> Holds(u, c)
      BY <1>1, <1>3 DEF Holds, localVars
    <3>2. ~Holds(t, c)' /\ (Holds(t, c) <=> c = c0)
      BY <1>1, <1>7 DEF Holds
    <3>3. c = c0 => c < current_chunk /\ \A u \in Team \ {t} : ~Holds(u, c)
      <4> SUFFICES ASSUME c = c0, NEW u \in Team \ {t}, Holds(u, c) PROVE FALSE
        BY <1>2, <1>3, <2>3
      <4> QED BY <1>t, <1>1, <1>2 DEF ClaimInv, Holds
    <3>4. Claimed(c)' <=> (Claimed(c) \/ c = c0)
      BY <1>1, <1>2, <1>4, <3>1, <3>2, <3>3 DEF Claimed
    <3> QED BY <1>1, <2>3, <3>4 DEF Here
  <2> QED BY <1>3, <2>1, <2>2, <2>3
<1>9. WorkInv'
  <2> SUFFICES ASSUME NEW p \in AllChunks PROVE Counted(p)'
    BY DEF WorkInv
  <2>1. Counted(p) /\ p = <<p[1], p[2]>> /\ p[1] \in Nodes /\ p[2] \in Nat /\ work[p] \in Nat
    BY <1>t, ChunkPairs DEF LoopInv, WorkInv, TypeOK
  <2>2. Running /\ ~Left(0) /\ Running' /\ ~Left(0)' /\ pc'[0] \notin {"kick", "publish"}
    <3>1. CASE t = 0
      BY <1>1, <3>1 DEF Running, Left, Late, ComputePCs
    <3>2. CASE t # 0
      <4>1. pc'[0] = pc[0] /\ (Late(0)' <=> Late(0)) /\ after' = after
        BY <1>1, <1>5, <1>6, <3>2 DEF localVars
      <4>2. GraphOf(t) = GraphOf(0) /\ t \in Workers /\ last_graph[t] <= n_graph
            /\ last_graph[t] \in Nat /\ n_graph \in Nat
        BY <1>t, <1>2, <3>2, ThreadKinds DEF SyncInv, Sync, TeamInv, Member, TypeOK
      <4>3. GraphOf(t) = last_graph[t]
        BY <1>1, <1>7, <3>2 DEF GraphOf, Left, WorkerPCs
      <4>4. pc[0] \notin Outside /\ ~Left(0)
        BY <4>2, <4>3 DEF GraphOf
      <4>5. pc[0] \in MainPCs \union ComputePCs \union BarrierPCs
        BY <1>t DEF SyncInv, TeamInv, PoolInv
      <4> QED BY <4>1, <4>4, <4>5 DEF Running, Left, Outside, MainPCs
    <3> QED BY <3>1, <3>2
  <2>3. CASE p = <<node[t], c0>>
    <3>1. p[1] = node[t] /\ p[2] = c0
      BY <2>3
    <3>2. ~Computed(p[1], p[2]) /\ Computed(p[1], p[2])'
      <4>1. ~(RegionOf(0) > Full(p[1]))
        BY <1>2, <3>1, RegionOrder
      <4> QED BY <1>1, <1>2, <1>6, <1>8, <3>1, <4>1 DEF Computed
    <3>3. work[p] = 0 /\ work'[p] = work[p] + 1
      BY <1>t, <1>1, <2>1, <2>2, <2>3, <3>2 DEF Counted, TypeOK
    <3> QED BY <2>2, <3>2, <3>3 DEF Counted
  <2>4. CASE p # <<node[t], c0>>
    <3>1. work'[p] = work[p]
      BY <1>t, <1>1, <2>4 DEF TypeOK
    <3>2. Computed(p[1], p[2])' <=> Computed(p[1], p[2])
      <4>1. CASE RegionOf(0) = Full(p[1])
        <5>1. p[1] = node[t]
          BY <1>2, <2>1, <4>1, RegionOrder
        <5>2. p[2] # c0
          BY <2>1, <2>4, <5>1
        <5> QED BY <1>1, <1>6, <1>8, <2>1, <5>2 DEF Computed
      <4>2. CASE RegionOf(0) # Full(p[1])
        BY <1>1, <1>6, <4>2 DEF Computed
      <4> QED BY <4>1, <4>2
    <3> QED BY <2>1, <2>2, <3>1, <3>2 DEF Counted
  <2> QED BY <2>3, <2>4
<1>10. \A u \in Team : Claim(u)'
  <2> SUFFICES ASSUME NEW u \in Team PROVE Claim(u)'
    OBVIOUS
  <2>1. Claim(u)
    BY <1>t DEF ClaimInv
  <2>2. CASE u # t
    BY <1>1, <1>3, <1>5, <2>1, <2>2 DEF Claim, DoneNode, localVars
  <2>3. CASE u = t
    <3>1. DoneNode(t)' = node[t] /\ node'[t] = node[t] /\ NChunks(node[t], asked) \in Nat
      BY <1>1, <1>2, <1>3, ChunkCounts, PoolAssumption DEF DoneNode, localVars, Nodes
    <3> QED BY <1>1, <1>2, <1>3, <1>7, <2>3, <3>1 DEF Claim
  <2> QED BY <2>2, <2>3
<1>11. ASSUME NEW u \in Team, NEW w \in Team, u # w, pc'[u] = "chunk", pc'[w] = "chunk"
       PROVE  chunk'[u] # chunk'[w]
  BY <1>t, <1>1, <1>3, <1>7, <1>11 DEF ClaimInv, localVars
<1>12. InProduct' => asked' <= current_chunk'
  BY <1>t, <1>1, <1>6 DEF ClaimInv, InProduct
<1>13. pc'[0] \in BarrierPCs /\ ~Late(0)' /\ after'[0] = "chunks" => current_chunk' = asked'
  <2>1. CASE t = 0
    BY <1>1, <2>1 DEF BarrierPCs
  <2>2. CASE t # 0
    BY <1>t, <1>1, <1>5, <1>6, <2>2 DEF ClaimInv, localVars
  <2> QED BY <2>1, <2>2
<1> QED BY <1>4, <1>9, <1>10, <1>11, <1>12, <1>13 DEF ClaimInv

(* A thread that claims a chunk is the only one to get it; one that finds  *)
(* none left goes on.                                                      *)
LEMMA StealChunkLoop ==
  ASSUME LoopInv, NEW t \in Threads, StealChunk(t)
  PROVE  WorkInv' /\ ClaimInv'
<1>t. SyncInv /\ TypeOK /\ Local(t) /\ ClaimInv
  BY DEF LoopInv, SyncInv, LocalInv
<1>s. Same(t)
  BY <1>t, ChunkSync
<1>1. /\ pc[t] = "steal"
      /\ pc'[t] = (IF current_chunk < NChunks(node[t], nth[t]) THEN "chunk" ELSE "after")
      /\ \A u \in Threads \ {t} : pc'[u] = pc[u] /\ chunk'[u] = chunk[u]
      /\ chunk'[t] = current_chunk /\ current_chunk' = current_chunk + 1 /\ current_chunk \in Nat
      /\ UNCHANGED <<n_barrier_passed, n_graph, asked, work, node, nth, after, limit, passed,
                     last_graph, seen>>
  BY <1>t DEF StealChunk, Goto, TypeOK
<1>2. t \in Team /\ node[t] \in Nodes /\ node[t] # NNodes /\ nth[t] = asked
  BY <1>t, <1>1, Computing, PoolAssumption DEF Local, TypeOK, Nodes, ComputePCs
<1>3. /\ Team \subseteq Threads /\ asked \in Nat /\ asked \in 1 .. NThreads
      /\ \A u \in Team : u \in Nat /\ u < asked /\ 0 \in Team
      /\ \A c \in Nat : c < asked => c \in Team
  BY <1>t, TeamFacts
<1>4. RegionOf(0) = Full(node[t]) /\ NChunks(node[t], asked) \in Nat
  BY <1>t, <1>1, <1>2, <1>3, DoneRegion, ChunkCounts DEF OwnDone, DoneNode
<1>5. MulMat(node[t]) /\ asked <= current_chunk
  <2>1. asked < NChunks(node[t], asked)
    BY <1>t, <1>1, <1>2 DEF ClaimInv, Claim
  <2>2. MulMat(node[t])
    BY <1>2, <1>3, <2>1, ChunkCounts
  <2>3. InProduct
    BY <1>2, <1>4, <2>2 DEF InProduct, Full
  <2> QED BY <1>t, <2>2, <2>3 DEF ClaimInv
<1>6. Team' = Team
  BY <1>1 DEF Team
<1>7. \A u \in Threads \ {t} : Calm(u) /\ Same(u) /\ (Late(u)' <=> Late(u))
  <2> SUFFICES ASSUME NEW u \in Threads \ {t} PROVE Calm(u) /\ Same(u) /\ (Late(u)' <=> Late(u))
    OBVIOUS
  <2>1. Still(u)
    BY <1>1 DEF Still
  <2> QED BY <1>1, <2>1, StillSame, StillCalm
<1>8. RegionOf(0)' = RegionOf(0) /\ 0 \in Threads
  BY <1>s, <1>7, ThreadKinds DEF Same
<1>9. OwnDone(t) /\ OwnDone(t)' /\ pc'[t] # "steal" /\ ~Late(t) /\ ~Late(t)'
  <2>1. current_chunk # t
    BY <1>2, <1>3, <1>5, <1>1
  <2> QED BY <1>1, <2>1 DEF OwnDone, Late
<1>10. ASSUME NEW c \in Nat, c < NChunks(node[t], asked) PROVE Here(c)' <=> Here(c)
  <2>1. CASE c < asked
    BY <1>1, <1>2, <1>3, <1>7, <1>9, <2>1 DEF Here, Calm
  <2>2. CASE ~(c < asked)
    <3>1. \A u \in Team \ {t} : Holds(u, c)' <=> Holds(u, c)
      BY <1>1, <1>3 DEF Holds
    <3>2. ~Holds(t, c) /\ (Holds(t, c)' <=> c = current_chunk)
      BY <1>1, <1>2, <1>10 DEF Holds
    <3>3. Claimed(c)' <=> Claimed(c)
      BY <1>1, <1>2, <1>6, <3>1, <3>2 DEF Claimed
    <3> QED BY <1>1, <2>2, <3>3 DEF Here
  <2> QED BY <2>1, <2>2
<1>11. /\ pc'[0] \notin {"kick", "publish"} \/ pc'[0] = pc[0]
       /\ (Running' <=> Running) /\ (Left(0)' <=> Left(0)) /\ node' = node
  <2>1. CASE t = 0
    BY <1>1, <1>9, <2>1 DEF Running, Left, ComputePCs
  <2>2. CASE t # 0
    BY <1>1, <1>7, <1>8, <2>2 DEF Running, Left
  <2> QED BY <2>1, <2>2
<1>12. WorkInv'
  <2> SUFFICES ASSUME NEW p \in AllChunks PROVE Counted(p)'
    BY DEF WorkInv
  <2>1. Counted(p) /\ p[1] \in Nodes /\ p[2] \in Nat
    BY ChunkPairs DEF LoopInv, WorkInv
  <2>2. Computed(p[1], p[2])' <=> Computed(p[1], p[2])
    <3>1. CASE RegionOf(0) = Full(p[1]) /\ p[2] \in Chunks(p[1], asked)
      <4>1. p[1] = node[t]
        BY <1>2, <1>4, <2>1, <3>1, RegionOrder
      <4>2. p[2] < NChunks(node[t], asked)
        BY <1>4, <2>1, <3>1, <4>1 DEF Chunks
      <4> QED BY <1>1, <1>8, <1>10, <2>1, <4>2 DEF Computed
    <3>2. CASE ~(RegionOf(0) = Full(p[1]) /\ p[2] \in Chunks(p[1], asked))
      BY <1>1, <1>8, <3>2 DEF Computed
    <3> QED BY <3>1, <3>2
  <2> QED BY <1>1, <1>11, <2>1, <2>2 DEF Counted
<1>13. \A u \in Team : Claim(u)'
  <2> SUFFICES ASSUME NEW u \in Team PROVE Claim(u)'
    OBVIOUS
  <2>1. Claim(u) /\ u \in Threads /\ chunk[u] \in Nat
    BY <1>t, <1>3 DEF ClaimInv, TypeOK
  <2>2. CASE u # t
    <3>1. NChunks(DoneNode(u), asked) \in Nat \/ ~OwnDone(u)
      <4>1. OwnDone(u) => DoneNode(u) \in Nodes
        BY <1>t, DoneRegion
      <4> QED BY <1>3, <4>1, ChunkCounts
    <3>2. Calm(u) /\ pc'[u] = pc[u] /\ chunk'[u] = chunk[u]
      BY <1>1, <1>7, <2>1, <2>2
    <3> QED BY <1>1, <2>1, <3>1, <3>2 DEF Claim, Calm
  <2>3. CASE u = t
    <3>1. DoneNode(t)' = node[t]
      BY <1>1, <1>2 DEF DoneNode
    <3> QED BY <1>1, <1>2, <1>3, <1>4, <1>5, <1>9, <2>3, <3>1 DEF Claim
  <2> QED BY <2>2, <2>3
<1>14. ASSUME NEW u \in Team, NEW w \in Team, u # w, pc'[u] = "chunk", pc'[w] = "chunk"
       PROVE  chunk'[u] # chunk'[w]
  <2>1. ASSUME NEW x \in Team \ {t}, pc'[x] = "chunk" PROVE chunk'[x] < current_chunk
    BY <1>t, <1>1, <1>3, <1>5, <2>1 DEF ClaimInv, Claim
  <2>2. u # t /\ w # t => chunk'[u] # chunk'[w]
    BY <1>t, <1>1, <1>3, <1>14 DEF ClaimInv
  <2> QED BY <1>1, <1>14, <2>1, <2>2
<1>15. asked' <= current_chunk'
  BY <1>1, <1>3, <1>5
<1>16. ~(pc'[0] \in BarrierPCs /\ ~Late(0)' /\ after'[0] = "chunks")
  <2>1. CASE t = 0
    BY <1>1, <2>1 DEF BarrierPCs
  <2>2. CASE t # 0
    <3> SUFFICES ASSUME pc[0] \in BarrierPCs, ~Late(0), after[0] = "chunks" PROVE FALSE
      BY <1>1, <1>7, <1>8, <2>2
    <3>1. node[0] \in Nodes /\ node[0] # NNodes
      <4>1. node[0] < NNodes /\ node[0] \in 0 .. NNodes
        BY <1>t, <1>8 DEF SyncInv, LocalInv, Local, TypeOK
      <4> QED BY <4>1, PoolAssumption DEF Nodes
    <3>2. RegionOf(0) = 2 * node[0]
      BY <3>1 DEF RegionOf, Begun, BarrierPCs
    <3> QED BY <1>2, <1>4, <1>5, <3>1, <3>2, RegionOrder
  <2> QED BY <2>1, <2>2
<1> QED BY <1>6, <1>12, <1>13, <1>14, <1>15, <1>16 DEF ClaimInv

-----------------------------------------------------------------------------
(* Crossing a barrier.                                                     *)

(* The whole team waits in one barrier.                                    *)
Gathered ==
  \A u \in Team : /\ pc[u] \in BarrierPCs /\ ~Late(u)
                  /\ after[u] = after[0] /\ node[u] = node[0]

(* Where the team waits after a node, the node is complete; where it waits *)
(* before the chunks of a node or at an abort, nothing of it is computed.  *)
LEMMA GatheredWork ==
  ASSUME LoopInv, Gathered, NEW p \in AllChunks
  PROVE  work[p] = IF /\ p[2] \in Chunks(p[1], asked)
                      /\ IF OwnDone(0) THEN Full(p[1]) <= RegionOf(0) ELSE Full(p[1]) < RegionOf(0)
                   THEN 1 ELSE 0
<1>t. SyncInv /\ TypeOK /\ ClaimInv /\ WorkInv
  BY DEF LoopInv, SyncInv
<1>1. /\ 0 \in Team /\ 0 \in Threads /\ asked \in Nat /\ asked \in 1 .. NThreads
      /\ \A u \in Team : u \in Nat /\ u < asked
      /\ \A c \in Nat : c < asked => c \in Team
  BY <1>t, TeamFacts, ThreadKinds
<1>2. p[1] \in Nodes /\ p[2] \in Nat /\ Full(p[1]) \in Nat
  BY ChunkPairs, RegionOrder
<1>3. pc[0] \in BarrierPCs /\ ~Late(0)
  BY <1>1 DEF Gathered
<1>4. work[p] = IF Computed(p[1], p[2]) THEN 1 ELSE 0
  BY <1>t, <1>3 DEF WorkInv, Counted, Running, Left
<1>5. \A u \in Team : OwnDone(u) <=> OwnDone(0)
  BY <1>1 DEF Gathered, OwnDone, BarrierPCs
<1>6. \A u \in Team : pc[u] # "chunk"
  BY DEF Gathered, BarrierPCs
<1>7. Local(0) /\ node[0] \in 0 .. NNodes /\ after[0] \in {"chunks", "next", "end"}
  BY <1>1 DEF LoopInv, SyncInv, LocalInv, TypeOK
<1>8. ASSUME RegionOf(0) = Full(p[1]), p[2] \in Chunks(p[1], asked)
      PROVE  Here(p[2]) <=> OwnDone(0)
  <2>1. CASE p[2] < asked
    BY <1>1, <1>2, <1>5, <2>1 DEF Here
  <2>2. CASE ~(p[2] < asked)
    <3>1. NChunks(p[1], asked) \in Nat /\ p[2] < NChunks(p[1], asked)
      BY <1>1, <1>2, <1>8, ChunkCounts DEF Chunks
    <3>2. asked < NChunks(p[1], asked) /\ MulMat(p[1])
      BY <1>1, <1>2, <2>2, <3>1, ChunkCounts
    <3>3. CASE OwnDone(0)
      <4>1. p[1] = DoneNode(0)
        BY <1>t, <1>1, <1>2, <1>8, <3>3, DoneRegion, RegionOrder
      <4>2. NChunks(p[1], asked) <= current_chunk
        BY <1>t, <1>1, <1>3, <3>1, <3>2, <3>3, <4>1 DEF ClaimInv, Claim, BarrierPCs
      <4>3. Claimed(p[2])
        BY <1>t, <1>2, <1>6, <3>1, <4>2 DEF Claimed, Holds, TypeOK
      <4> QED BY <2>2, <3>3, <4>3 DEF Here
    <3>4. CASE ~OwnDone(0)
      <4>1. node[0] \in Nodes /\ RegionOf(0) = 2 * node[0]
        <5>1. after[0] # "next" /\ node[0] # NNodes
          BY <1>3, <1>7, <3>4, PoolAssumption DEF OwnDone, Local
        <5>2. node[0] \in Nodes
          BY <1>7, <5>1, PoolAssumption DEF Nodes
        <5> QED BY <1>3, <5>1, <5>2 DEF RegionOf, Begun, BarrierPCs
      <4> QED BY <1>2, <1>8, <3>2, <4>1, RegionOrder
    <3> QED BY <3>3, <3>4
  <2> QED BY <2>1, <2>2
<1>9. RegionOf(0) \in Int
  <2>1. node[0] \in Int /\ NNodes - 1 \in Int
    BY <1>7, PoolAssumption
  <2> QED BY <1>3, <2>1 DEF RegionOf, Full, Begun, BarrierPCs
<1> QED BY <1>2, <1>4, <1>8, <1>9 DEF Computed

(* At the last barrier of a graph the nodes before the main thread's have  *)
(* been computed, and the others have not been touched.                    *)
LEMMA EndWork ==
  ASSUME LoopInv, Gathered, after[0] = "end", NEW p \in AllChunks
  PROVE  work[p] = IF p[1] < node[0] /\ p[2] \in Chunks(p[1], asked) THEN 1 ELSE 0
<1>t. SyncInv /\ TypeOK /\ 0 \in Team /\ 0 \in Threads
  BY TeamFacts, ThreadKinds DEF LoopInv, SyncInv
<1>1. p[1] \in Nodes /\ pc[0] \in BarrierPCs /\ ~Late(0) /\ node[0] \in 0 .. NNodes
  BY <1>t, ChunkPairs DEF Gathered, TypeOK
<1>2. CASE node[0] = NNodes
  <2>1. OwnDone(0) /\ RegionOf(0) = Full(NNodes - 1)
    BY <1>1, <1>2 DEF OwnDone, RegionOf, Begun, BarrierPCs
  <2>2. NNodes - 1 \in Nodes /\ p[1] <= NNodes - 1 /\ p[1] < NNodes
    BY <1>1, PoolAssumption DEF Nodes
  <2>3. Full(p[1]) <= Full(NNodes - 1)
    BY <1>1, <2>2, RegionOrder DEF Nodes
  <2> QED BY <1>2, <2>1, <2>2, <2>3, GatheredWork
<1>3. CASE node[0] # NNodes
  <2>1. ~OwnDone(0) /\ RegionOf(0) = 2 * node[0] /\ node[0] \in Nodes
    BY <1>1, <1>3, PoolAssumption DEF OwnDone, RegionOf, Begun, BarrierPCs, Nodes
  <2>2. Full(p[1]) < 2 * node[0] <=> p[1] < node[0]
    BY <1>1, <2>1, RegionOrder
  <2> QED BY <2>1, <2>2, GatheredWork
<1> QED BY <1>2, <1>3

(* The step that opens a barrier changes no work, and nobody has computed  *)
(* a chunk beyond it.                                                      *)
LEMMA CrossStep ==
  ASSUME LoopInv, Gathered, NEW t \in Team, pc'[t] = Target(t),
         node'[t] = IF after[t] = "next" THEN node[t] + 1 ELSE node[t],
         chunk'[t] = IF after[t] = "chunks" THEN t ELSE chunk[t],
         \A u \in Team \ {t} : Late(u)' /\ pc'[u] = "spin" /\ node'[u] = node[u],
         UNCHANGED <<after, asked, work, current_chunk>>
  PROVE  WorkInv' /\ ClaimInv'
<1>t. SyncInv /\ TypeOK /\ ClaimInv /\ t \in Threads /\ Team' = Team /\ 0 \in Team /\ 0 \in Threads
  BY TeamFacts, ThreadKinds DEF LoopInv, SyncInv, Team
<1>1. /\ pc[t] \in BarrierPCs /\ after[t] = after[0] /\ node[t] = node[0] /\ Local(t)
      /\ node[0] \in 0 .. NNodes /\ after[0] \in {"chunks", "next", "end"}
      /\ pc[0] \in BarrierPCs /\ ~Late(0)
  BY <1>t DEF Gathered, SyncInv, LocalInv, TypeOK
<1>2. ~Late(t)' /\ RegionOf(t)' = IF after[t] = "chunks" THEN 2 * node[t] + 1
                                  ELSE IF after[t] = "next" THEN 2 * node[t] + 2 ELSE 0
  BY <1>t, <1>1, LeaveRegion
<1>3. RegionOf(0)' = IF after[0] = "chunks" THEN 2 * node[0] + 1
                     ELSE IF after[0] = "next" THEN 2 * node[0] + 2 ELSE 0
  <2>1. CASE t = 0
    BY <1>2, <2>1
  <2>2. CASE t # 0
    BY <1>t, <1>1, <2>2 DEF RegionOf
  <2> QED BY <2>1, <2>2
<1>4. after[t] = "next" => node[t] + 1 < NNodes
  BY <1>1 DEF Local
<1>5. \A u \in Team : ~OwnDone(u)' /\ pc'[u] # "steal" /\ (pc'[u] = "chunk" => u = t /\ chunk'[u] = u)
  <2>1. ~OwnDone(t)' /\ pc'[t] # "steal" /\ (pc'[t] = "chunk" => chunk'[t] = t)
    BY <1>1, <1>2, <1>4, PoolAssumption DEF OwnDone, Target, BarrierPCs
  <2>2. \A u \in Team \ {t} : ~OwnDone(u)'
    BY DEF OwnDone
  <2> QED BY <2>1, <2>2
<1>6. ClaimInv'
  <2>1. \A u \in Team : Claim(u)'
    BY <1>5 DEF Claim
  <2>2. InProduct' => asked' <= current_chunk'
    <3> SUFFICES ASSUME NEW m \in Nodes, RegionOf(0)' = 2 * m + 1 PROVE asked <= current_chunk
      BY DEF InProduct
    <3>1. after[0] = "chunks"
      BY <1>1, <1>3 DEF Nodes
    <3>2. current_chunk = asked /\ asked \in Nat
      BY <1>t, <1>1, <3>1 DEF ClaimInv, TypeOK
    <3> QED BY <3>2
  <2>3. ~(pc'[0] \in BarrierPCs /\ ~Late(0)')
    <3>1. pc'[t] \notin BarrierPCs
      BY DEF Target, BarrierPCs
    <3> QED BY <1>t, <3>1
  <2> QED BY <1>t, <1>5, <2>1, <2>2, <2>3 DEF ClaimInv
<1>7. WorkInv'
  <2> SUFFICES ASSUME NEW p \in AllChunks PROVE Counted(p)'
    BY DEF WorkInv
  <2>1. p[1] \in Nodes /\ p[2] \in Nat
    BY ChunkPairs
  <2>2. pc'[0] \notin {"kick", "publish"}
    BY <1>t DEF Target
  <2>3. CASE after[0] = "end"
    <3>1. work[p] = IF p[1] < node[0] /\ p[2] \in Chunks(p[1], asked) THEN 1 ELSE 0
      BY <2>3, EndWork
    <3>2. CASE t = 0
      <4>1. pc'[0] = "idle"
        BY <1>1, <2>3, <3>2 DEF Target
      <4> QED BY <2>2, <4>1 DEF Counted, Running, Left, Late, ComputePCs, BarrierPCs
    <3>3. CASE t # 0
      <4>1. Left(0)' /\ node'[0] = node[0]
        BY <1>t, <1>1, <2>3, <3>3 DEF Left
      <4> QED BY <2>2, <3>1, <4>1 DEF Counted
    <3> QED BY <3>2, <3>3
  <2>4. CASE after[0] # "end"
    <3>1. ~Left(0)'
      BY <2>4 DEF Left
    <3>2. node[0] \in Nodes
      BY <1>1, <1>4, <2>4, PoolAssumption DEF Local, Nodes
    <3>3. Computed(p[1], p[2])' <=>
            /\ p[2] \in Chunks(p[1], asked)
            /\ IF OwnDone(0) THEN Full(p[1]) <= RegionOf(0) ELSE Full(p[1]) < RegionOf(0)
      <4>1. CASE after[0] = "next"
        <5>1. OwnDone(0) /\ RegionOf(0) = Full(node[0]) /\ RegionOf(0)' = 2 * node[0] + 2
          BY <1>1, <1>3, <4>1 DEF OwnDone, RegionOf, BarrierPCs
        <5>2. Full(p[1]) <= Full(node[0]) <=> p[1] <= node[0]
          BY <2>1, <3>2, RegionOrder DEF Nodes
        <5>3. RegionOf(0)' > Full(p[1]) <=> p[1] <= node[0]
          BY <2>1, <3>2, <5>1, RegionOrder
        <5>4. RegionOf(0)' = Full(p[1]) /\ p[2] \in Chunks(p[1], asked) => ~Here(p[2])'
          <6> SUFFICES ASSUME RegionOf(0)' = Full(p[1]), p[2] \in Chunks(p[1], asked)
                       PROVE  p[2] < asked /\ p[2] \in Team
            BY <1>5 DEF Here
          <6>1. ~MulMat(p[1])
            BY <2>1, <3>2, <5>1, RegionOrder
          <6> QED BY <1>t, <2>1, <6>1, ChunkCounts, TeamFacts DEF Chunks
        <5> QED BY <5>1, <5>2, <5>3, <5>4 DEF Computed
      <4>2. CASE after[0] = "chunks"
        <5>1. ~OwnDone(0) /\ RegionOf(0) = 2 * node[0] /\ RegionOf(0)' = 2 * node[0] + 1
          BY <1>1, <1>3, <3>2, <4>2, PoolAssumption DEF OwnDone, RegionOf, Begun, BarrierPCs, Nodes
        <5>2. MulMat(node[0]) /\ current_chunk = asked /\ asked \in Nat
          BY <1>t, <1>1, <4>2 DEF Local, ClaimInv, TypeOK
        <5>3. (Full(p[1]) < RegionOf(0) <=> p[1] < node[0]) /\ (RegionOf(0)' > Full(p[1]) <=> p[1] < node[0])
          BY <2>1, <3>2, <5>1, <5>2, RegionOrder
        <5>4. ~Here(p[2])'
          <6>1. CASE p[2] < asked
            <7>1. p[2] \in Team
              BY <1>t, <2>1, <6>1, TeamFacts
            <7> QED BY <1>5, <6>1, <7>1 DEF Here
          <6>2. CASE ~(p[2] < asked)
            BY <5>2, <6>2 DEF Here, Claimed
          <6> QED BY <6>1, <6>2
        <5> QED BY <5>1, <5>3, <5>4 DEF Computed
      <4> QED BY <1>1, <2>4, <4>1, <4>2
    <3> QED BY <2>2, <3>1, <3>3, GatheredWork DEF Counted
  <2> QED BY <2>3, <2>4
<1> QED BY <1>6, <1>7

(* The two steps that open a barrier.                                      *)
Opens(t) == BarrierOpen(t) \/ BarrierAlone(t)

(* A thread opens a barrier only when the whole team is gathered in it.    *)
LEMMA OpensGathered ==
  ASSUME SyncInv, NEW t \in Threads, Opens(t)
  PROVE  /\ Gathered /\ t \in Team /\ pc'[t] = Target(t)
         /\ node'[t] = IF after[t] = "next" THEN node[t] + 1 ELSE node[t]
         /\ chunk'[t] = IF after[t] = "chunks" THEN t ELSE chunk[t]
         /\ \A u \in Team \ {t} : Late(u)' /\ pc'[u] = "spin" /\ node'[u] = node[u]
         /\ UNCHANGED <<after, asked, work, current_chunk>>
<1>t. TypeOK /\ n_barrier_passed \in Nat
  BY DEF SyncInv, TypeOK
<1>1. CASE BarrierOpen(t)
  <2>1. /\ n_barrier_passed' = n_barrier_passed + 1 /\ Leave(t, "open")
        /\ UNCHANGED <<n_threads_max, n_graph, n_barrier, current_chunk, stop, pause, abort,
                       n_threads_cur, mutex, limit, passed>>
        /\ n_barrier_passed' \in Nat /\ "open" \in BarrierPCs
    BY <1>t, <1>1 DEF BarrierOpen, BarrierPCs
  <2>2. /\ pc[t] = "open" /\ pc'[t] = Target(t)
        /\ node'[t] = IF after[t] = "next" THEN node[t] + 1 ELSE node[t]
        /\ chunk'[t] = IF after[t] = "chunks" THEN t ELSE chunk[t]
        /\ \A u \in Threads \ {t} : pc'[u] = pc[u] /\ node'[u] = node[u]
        /\ UNCHANGED <<after, asked, work>>
    BY <2>1, LeaveStep
  <2>3. t \in Team /\ Team \subseteq Threads /\ 0 \in Team
    BY <2>1, <2>2, Computing, TeamFacts
  <2>4. \A u \in Team \ {t} : pc[u] = "spin" /\ ~Late(u)
    BY <2>2 DEF SyncInv, LastInv
  <2>5. \A u \in Team : pc[u] \in BarrierPCs /\ ~Late(u) /\ u \in Threads
    BY <2>1, <2>2, <2>3, <2>4 DEF BarrierPCs, Late
  <2>6. Gathered
    BY <2>3, <2>5, OneBarrier DEF Gathered
  <2>7. \A u \in Team \ {t} : Late(u)' /\ pc'[u] = "spin" /\ node'[u] = node[u]
    <3> SUFFICES ASSUME NEW u \in Team \ {t} PROVE Late(u)' /\ pc'[u] = "spin" /\ node'[u] = node[u]
      OBVIOUS
    <3>1. passed[u] = n_barrier_passed /\ pc'[u] = "spin" /\ node'[u] = node[u]
      BY <2>2, <2>3, <2>4 DEF Late
    <3> QED BY <1>t, <2>1, <3>1 DEF Late
  <2> QED BY <2>1, <2>2, <2>3, <2>6, <2>7
<1>2. CASE BarrierAlone(t)
  <2>1. /\ n_threads_cur = 1 /\ Leave(t, "barrier")
        /\ UNCHANGED <<n_threads_max, n_graph, n_barrier, current_chunk, stop, pause, abort,
                       n_threads_cur, mutex, limit, passed, n_barrier_passed>>
        /\ "barrier" \in BarrierPCs
    BY <1>2 DEF BarrierAlone, poolVars, BarrierPCs
  <2>2. /\ pc[t] = "barrier" /\ pc'[t] = Target(t)
        /\ node'[t] = IF after[t] = "next" THEN node[t] + 1 ELSE node[t]
        /\ chunk'[t] = IF after[t] = "chunks" THEN t ELSE chunk[t]
        /\ UNCHANGED <<after, asked, work>>
    BY <1>t, <2>1, LeaveStep
  <2>3. t \in Team /\ asked = 1
    BY <2>1, <2>2, Computing
  <2>4. Team = {0} /\ t = 0
    BY <2>3 DEF Team
  <2>5. Gathered
    BY <2>1, <2>2, <2>4 DEF Gathered, Late
  <2> QED BY <2>1, <2>2, <2>4, <2>5
<1> QED BY <1>1, <1>2 DEF Opens

(* Opening the barrier keeps the account of the work.                      *)
LEMMA OpensLoop ==
  ASSUME LoopInv, NEW t \in Threads, Opens(t)
  PROVE  WorkInv' /\ ClaimInv'
<1>1. SyncInv
  BY DEF LoopInv
<1> QED BY <1>1, OpensGathered, CrossStep

-----------------------------------------------------------------------------
(* The inductive invariant.                                                *)

(* A new pool has computed nothing.                                        *)
LEMMA InitLoop == Init => LoopInv
<1> SUFFICES ASSUME Init PROVE LoopInv
  OBVIOUS
<1>1. SyncInv
  BY InitSync
<1>2. pc[0] = "idle" /\ Team = {0}
  BY ThreadKinds DEF Init, Team
<1>3. WorkInv
  BY <1>2 DEF WorkInv, Counted, Running, Left, Late, ComputePCs, BarrierPCs
<1>4. RegionOf(0) = 0
  BY <1>2 DEF RegionOf, Late, BarrierPCs
<1>5. ~InProduct
  BY <1>4 DEF InProduct, Nodes
<1>6. ClaimInv
  BY <1>2, <1>5 DEF ClaimInv, Claim, OwnDone, BarrierPCs
<1> QED BY <1>1, <1>3, <1>6 DEF LoopInv

(* A step that changes nothing keeps the account of the work.              *)
LEMMA StutterLoop == LoopInv /\ UNCHANGED vars => WorkInv' /\ ClaimInv'
<1> SUFFICES ASSUME LoopInv, UNCHANGED vars PROVE WorkInv' /\ ClaimInv'
  OBVIOUS
<1>1. UNCHANGED <<n_graph, n_barrier_passed, current_chunk, pc, last_graph, node, chunk, after, passed,
                  asked, work>>
  BY DEF vars, poolVars, localVars
<1>2. \A t : (Late(t)' <=> Late(t)) /\ RegionOf(t)' = RegionOf(t)
  BY <1>1 DEF Late, RegionOf, Begun
<1>3. \A u \in Team : Calm(u)
  BY <1>1, <1>2 DEF Calm, OwnDone, DoneNode
<1>4. (Left(0)' <=> Left(0)) /\ (Running' <=> Running)
  BY <1>1, <1>2 DEF Left, Running
<1> QED BY <1>1, <1>2, <1>3, <1>4, CalmStep

(* LoopInv is inductive.                                                   *)
LEMMA NextLoop ==
  ASSUME ~MayResize, LoopInv, [Next]_vars
  PROVE  LoopInv'
<1>1. SyncInv /\ SyncInv'
  BY NextSync DEF LoopInv
<1>2. ASSUME NEW n \in ThreadCounts, GraphCompute(n) PROVE WorkInv' /\ ClaimInv'
  BY <1>1, <1>2, GraphComputeLoop
<1>3. CASE Main \/ Free \/ \E b \in BOOLEAN : SetPause(b)
  BY <1>1, <1>3, MainLoop DEF LoopInv
<1>4. ASSUME NEW t \in Workers, Worker(t) \/ SpuriousWakeup(t) PROVE WorkInv' /\ ClaimInv'
  BY <1>4, WorkerLoop
<1>5. ASSUME NEW t \in Threads, Compute(t) PROVE WorkInv' /\ ClaimInv'
  BY <1>5, WalkLoop, StartNodeLoop, ComputeChunkLoop, StealChunkLoop, BarrierPassLoop, OpensLoop
  DEF Compute, Opens
<1>6. CASE UNCHANGED vars
  BY <1>1, <1>6, StutterLoop DEF LoopInv
<1> QED BY <1>1, <1>2, <1>3, <1>4, <1>5, <1>6 DEF Next, LoopInv

(* work is always what the threads' places say.                            *)
THEOREM WorkAccounted == ASSUME ~MayResize PROVE Spec => []LoopInv
<1>1. Init => LoopInv
  BY InitLoop
<1>2. LoopInv /\ [Next]_vars => LoopInv'
  BY NextLoop
<1> QED BY <1>1, <1>2, PTL DEF Spec

-----------------------------------------------------------------------------
(* The refinement.                                                         *)

(* The graph as a caller of ggml_graph_compute sees it.                    *)
Status == IF pc[0] \in {"idle", "join", "freed"} THEN "idle" ELSE "running"

(* A new pool is a loop that was not called yet.                           *)
LEMMA InitImplements == Init => Loop!Init
<1> SUFFICES ASSUME Init PROVE Loop!Init
  OBVIOUS
<1>1. pc[0] = "idle"
  BY ThreadKinds DEF Init
<1> QED BY <1>1 DEF Init, Loop!Init

(* A step in which the caller, the thread count and the work do not move.  *)
LEMMA StutterImplements ==
  ASSUME Status' = Status, asked' = asked, work' = work
  PROVE  UNCHANGED Loop!vars
  BY DEF Loop!vars, Status

(* ggml_graph_compute is the call.                                         *)
LEMMA CallImplements ==
  ASSUME SyncInv, SyncInv', NEW n \in ThreadCounts, GraphCompute(n)
  PROVE  Loop!Call
<1>1. pc[0] = "idle" /\ pc'[0] = "kick" /\ work' = [p \in AllChunks |-> 0]
  BY ThreadKinds DEF GraphCompute, Goto, SyncInv, TypeOK
<1>2. DOMAIN work = AllChunks /\ asked' \in 1 .. NThreads
  BY DEF SyncInv, TypeOK
<1> QED BY <1>1, <1>2 DEF Loop!Call

(* A chunk is computed when all nodes before its own are complete, and for *)
(* the first time.                                                         *)
LEMMA ChunkImplements ==
  ASSUME LoopInv, NEW t \in Threads, ComputeChunk(t)
  PROVE  \E p \in DOMAIN work : Loop!Compute(p[1], p[2])
<1>t. SyncInv /\ TypeOK /\ WorkInv
  BY DEF LoopInv, SyncInv
<1> DEFINE q == <<node[t], chunk[t]>>
<1>1. /\ pc[t] = "chunk" /\ work' = [work EXCEPT ![q] = @ + 1]
      /\ pc'[t] \in {"after", "steal"} /\ \A u \in Threads \ {t} : pc'[u] = pc[u]
      /\ UNCHANGED asked
  BY <1>t DEF ComputeChunk, Goto, TypeOK
<1>2. /\ t \in Team /\ node[t] \in Nodes
      /\ chunk[t] \in Chunks(node[t], asked) /\ q \in AllChunks
      /\ RegionOf(0) = Full(node[t]) /\ ~Here(chunk[t])
  BY <1>1, ChunkInHand
<1>3. Running /\ ~Left(0)
  <2>1. CASE t = 0
    BY <1>1, <2>1 DEF Running, Left, Late, ComputePCs
  <2>2. CASE t # 0
    <3>1. GraphOf(t) = GraphOf(0) /\ t \in Workers /\ last_graph[t] <= n_graph
          /\ last_graph[t] \in Nat /\ n_graph \in Nat
      BY <1>t, <1>2, <2>2, ThreadKinds DEF SyncInv, Sync, TeamInv, Member, TypeOK
    <3>2. GraphOf(t) = last_graph[t]
      BY <1>1, <2>2 DEF GraphOf, Left, Late, WorkerPCs
    <3>3. pc[0] \notin Outside /\ ~Left(0)
      BY <3>1, <3>2 DEF GraphOf
    <3>4. pc[0] \in MainPCs \union ComputePCs \union BarrierPCs
      BY <1>t DEF SyncInv, TeamInv, PoolInv
    <3> QED BY <3>3, <3>4 DEF Running, Outside, MainPCs
  <2> QED BY <2>1, <2>2
<1>4. ASSUME NEW p \in AllChunks PROVE work[p] = IF Computed(p[1], p[2]) THEN 1 ELSE 0
  BY <1>t, <1>3 DEF WorkInv, Counted
<1>5. work[q] = 0
  <2>1. q[1] = node[t] /\ q[2] = chunk[t]
    OBVIOUS
  <2>2. ~(RegionOf(0) > Full(node[t]))
    BY <1>2, RegionOrder
  <2> QED BY <1>2, <1>4, <2>1, <2>2 DEF Computed
<1>6. ASSUME NEW m \in Nodes, m < node[t], NEW c \in Chunks(m, asked) PROVE work[<<m, c>>] = 1
  <2>1. asked \in 1 .. NThreads
    BY <1>t, TeamFacts
  <2>2. c \in 0 .. MatChunks + NThreads
    BY <1>6, <2>1, ChunkCounts, PoolAssumption DEF Chunks
  <2>3. <<m, c>> \in AllChunks
    BY <1>6, <2>2, ChunkPairs
  <2>4. RegionOf(0) > Full(m)
    BY <1>2, <1>6, RegionOrder
  <2> QED BY <1>4, <1>6, <2>3, <2>4 DEF Computed
<1>7. pc[0] \notin {"idle", "join", "freed"} /\ pc'[0] \notin {"idle", "join", "freed"}
  <2>1. pc[0] \notin {"idle", "join", "freed"}
    BY <1>3 DEF Running, ComputePCs, BarrierPCs
  <2> QED BY <1>1, <2>1, ThreadKinds
<1>8. work' = [work EXCEPT ![q] = 1]
  BY <1>t, <1>1, <1>2, <1>5 DEF TypeOK
<1>9. DOMAIN work = AllChunks
  BY <1>t DEF TypeOK
<1>10. Loop!Compute(q[1], q[2])
  BY <1>1, <1>2, <1>5, <1>6, <1>7, <1>8 DEF Loop!Compute, Loop!Complete, Loop!Nodes, Nodes
<1> QED BY <1>2, <1>9, <1>10

(* The main thread returns with a prefix of the nodes computed.            *)
LEMMA ReturnImplements ==
  ASSUME LoopInv, pc[0] \in BarrierPCs, pc'[0] = "idle",
         Left(0) \/ (Gathered /\ after[0] = "end"), asked' = asked, work' = work
  PROVE  Loop!Return
<1>t. SyncInv /\ TypeOK /\ WorkInv /\ 0 \in Threads
  BY ThreadKinds DEF LoopInv, SyncInv
<1>1. node[0] \in 0 .. NNodes /\ asked \in 1 .. NThreads /\ DOMAIN work = AllChunks
  BY <1>t DEF TypeOK
<1>2. \A p \in AllChunks : work[p] = IF p[1] < node[0] /\ p[2] \in Chunks(p[1], asked) THEN 1 ELSE 0
  <2>1. CASE Left(0)
    BY <1>t, <2>1 DEF WorkInv, Counted
  <2>2. CASE Gathered /\ after[0] = "end"
    BY <2>2, EndWork
  <2> QED BY <2>1, <2>2
<1>3. ASSUME NEW m \in Nodes, m < node[0], NEW c \in Chunks(m, asked) PROVE work[<<m, c>>] = 1
  <2>1. c \in 0 .. MatChunks + NThreads
    BY <1>1, <1>3, ChunkCounts, PoolAssumption DEF Chunks
  <2>2. <<m, c>> \in AllChunks
    BY <1>3, <2>1, ChunkPairs
  <2> QED BY <1>2, <1>3, <2>2
<1>4. ASSUME NEW m \in Nodes, ~(m < node[0]), NEW p \in AllChunks, p[1] = m PROVE work[p] = 0
  BY <1>2, <1>4
<1>5. \A m \in Nodes : IF m < node[0] THEN Loop!Complete(m) ELSE Loop!Untouched(m)
  BY <1>1, <1>3, <1>4 DEF Loop!Complete, Loop!Untouched
<1>6. pc[0] \notin {"idle", "join", "freed"}
  BY DEF BarrierPCs
<1> QED BY <1>1, <1>5, <1>6 DEF Loop!Return, Loop!Nodes, Nodes

(* Every step of the pool is a step of the loop, or none.                  *)
LEMMA NextImplements ==
  ASSUME LoopInv, LoopInv', [Next]_vars
  PROVE  [Loop!Next]_(Loop!vars)
<1>t. SyncInv /\ SyncInv' /\ TypeOK /\ 0 \in Threads
  BY ThreadKinds DEF LoopInv, SyncInv
<1>1. ASSUME NEW n \in ThreadCounts, GraphCompute(n) PROVE Loop!Next
  BY <1>t, <1>1, CallImplements DEF Loop!Next
<1>2. CASE Main \/ Free \/ \E b \in BOOLEAN : SetPause(b)
  <2>1. UNCHANGED <<asked, work>>
    BY <1>2 DEF Main, KickThreads, KickPublish, KickSignal, Join, Free, SetPause
  <2>2. Status' = Status
    BY <1>t, <1>2, WokenType, ThreadKinds
    DEF Main, KickThreads, KickPublish, KickSignal, Join, Free, SetPause, Goto, Woken, TypeOK, Status
  <2> QED BY <2>1, <2>2, StutterImplements
<1>3. ASSUME NEW t \in Workers, Worker(t) \/ SpuriousWakeup(t) PROVE UNCHANGED Loop!vars
  <2>1. UNCHANGED <<asked, work>> /\ \E x : pc' = [pc EXCEPT ![t] = x]
    BY <1>3 DEF Worker, PauseLoop, PauseWait, CheckStop, PollForWork, PollRound, PollActive,
                CheckForWork, SpuriousWakeup, Goto
  <2>2. pc'[0] = pc[0]
    BY <1>t, <2>1, ThreadKinds DEF TypeOK
  <2> QED BY <2>1, <2>2, StutterImplements DEF Status
<1>4. ASSUME NEW t \in Threads, Compute(t) PROVE [Loop!Next]_(Loop!vars)
  <2>1. CASE ComputeChunk(t)
    BY <2>1, ChunkImplements DEF Loop!Next
  <2>2. CASE \/ StartGraph(t) \/ NextNode(t) \/ StartNode(t) \/ StealChunk(t) \/ EndNode(t)
             \/ BarrierRead(t) \/ BarrierEnter(t) \/ BarrierReset(t)
    <3>1. /\ UNCHANGED <<asked, work>> /\ pc[t] \in ComputePCs \union BarrierPCs
          /\ \E x \in ComputePCs \union BarrierPCs : pc' = [pc EXCEPT ![t] = x]
      BY <2>2 DEF StartGraph, NextNode, StartNode, StealChunk, EndNode, BarrierRead, BarrierEnter,
                  BarrierReset, Goto, ComputePCs, BarrierPCs
    <3>2. Status' = Status
      BY <1>t, <3>1 DEF TypeOK, Status, ComputePCs, BarrierPCs
    <3> QED BY <3>1, <3>2, StutterImplements
  <2>3. CASE Opens(t) \/ BarrierPass(t)
    <3>1. /\ UNCHANGED <<asked, work>> /\ pc[t] \in BarrierPCs
          /\ pc' = [pc EXCEPT ![t] = Target(t)]
      <4>1. after[t] \in {"chunks", "next", "end"}
        BY <1>t DEF TypeOK
      <4> QED BY <2>3, <4>1 DEF Opens, BarrierOpen, BarrierAlone, BarrierPass, Leave, Goto, Target, BarrierPCs
    <3>2. CASE t = 0 /\ Target(t) = "idle"
      <4>1. pc[0] \in BarrierPCs /\ pc'[0] = "idle" /\ after[0] = "end"
        <5>1. after[0] \in {"chunks", "next", "end"}
          BY <1>t DEF TypeOK
        <5> QED BY <1>t, <3>1, <3>2, <5>1 DEF TypeOK, Target
      <4>2. Left(0) \/ Gathered
        <5>1. CASE Opens(t)
          BY <1>t, <5>1, OpensGathered
        <5>2. CASE BarrierPass(t)
          BY <3>2, <4>1, <5>2 DEF BarrierPass, Leave, Goto, Left, Late
        <5> QED BY <2>3, <5>1, <5>2
      <4> QED BY <3>1, <4>1, <4>2, ReturnImplements DEF Loop!Next
    <3>3. CASE ~(t = 0 /\ Target(t) = "idle")
      <4>1. Status' = Status
        BY <1>t, <3>1, <3>3 DEF TypeOK, Status, Target, BarrierPCs
      <4> QED BY <3>1, <4>1, StutterImplements
    <3> QED BY <3>2, <3>3
  <2> QED BY <1>4, <2>1, <2>2, <2>3 DEF Compute, Opens
<1>5. CASE UNCHANGED vars
  BY <1>5, StutterImplements DEF vars, Status
<1> QED BY <1>1, <1>2, <1>3, <1>4, <1>5 DEF Next

(* However the threads interleave, ggml_graph_compute is a loop over the   *)
(* nodes that computes every chunk once and in order.                      *)
THEOREM PoolImplementsLoop == ASSUME ~MayResize PROVE Spec => ImplementsLoop
<1>1. Init => Loop!Init
  BY InitImplements
<1>2. LoopInv /\ LoopInv' /\ [Next]_vars => [Loop!Next]_(Loop!vars)
  BY NextImplements
<1> QED BY <1>1, <1>2, WorkAccounted, PTL DEF Spec, ImplementsLoop, Loop!Spec

=============================================================================
