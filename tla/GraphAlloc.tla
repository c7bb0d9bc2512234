------------------------------ MODULE GraphAlloc ------------------------------
(***************************************************************************)
(* The graph allocator of ggml (ml/backend/ggml/ggml/src/ggml-alloc.c)     *)
(* with one buffer, as the image encoders and the scheduler of a CPU-only  *)
(* machine use it.  A call of ggml_gallocr_alloc_graph plans the offsets   *)
(* of a graph's tensors when the plan it keeps does not fit (Plan, the     *)
(* loops of ggml_gallocr_alloc_graph_impl turn by turn, Record), or takes  *)
(* over that plan (Reuse), and the graph is executed in the buffer         *)
(* (SetInput, Exec).                                                       *)
(*                                                                         *)
(* A graph is a sequence of tensors, leafs first.  A tensor is a record    *)
(*   op       "none" of a leaf; "view" of a node that only renames memory; *)
(*            "set" of a node that writes its view_src; "inplace" and      *)
(*            "other" of nodes with memory of their own, the operation of  *)
(*            which can and cannot write its result over a source          *)
(*   src      the tensors it reads, earlier in the graph                   *)
(*   view_src the tensor whose memory it shares, or 0; never itself a view *)
(*   size     its bytes per token, which stands for its layout as well     *)
(*   out      GGML_TENSOR_FLAG_OUTPUT                                      *)
(*   data     whether its memory is external (weights, the KV cache)       *)
(***************************************************************************)
EXTENDS Integers, Sequences, FiniteSets, FiniteSetsExt

CONSTANTS Graphs,         \* the graphs that a first call allocates
          Others,         \* the graphs that a later call may bring instead
          Tokens,         \* the numbers of tokens of a call
          Alignment,      \* of the buffer type
          Half,           \* SIZE_MAX/2, the size of the measuring allocator
          AllocMayFail,   \* whether the buffer type may run out of memory
          MayChangeGraph, \* whether a later graph may have as many tensors
          MaxCalls        \* bound on the calls of ggml_gallocr_alloc_graph

ASSUME AlignmentAssumption == Alignment \in Nat \ {0} /\ Half \in Nat \ {0} /\ Half % Alignment = 0
ASSUME TokensAssumption == Tokens \subseteq Nat \ {0} /\ MaxCalls \in Nat
ASSUME FlagsAssumption == AllocMayFail \in BOOLEAN /\ MayChangeGraph \in BOOLEAN

Tensor == [op : {"none", "view", "set", "inplace", "other"}, src : Seq(Nat \ {0}),
           view_src : Nat, size : Nat \ {0}, out : BOOLEAN, data : BOOLEAN]

Leafs(g) == {t \in DOMAIN g : g[t].op = "none"}

(* The places at which tensor t is a source. *)
Reads(g, t) == UNION {{n} \X {k \in DOMAIN g[n].src : g[n].src[k] = t} : n \in DOMAIN g}

(* What ggml_build_forward_expand collects: leafs first, then nodes that   *)
(* come after what they read and view, and every leaf is read by a node.   *)
WellFormed(g) ==
    /\ g \in Seq(Tensor) /\ g # <<>>
    /\ \A t, u \in DOMAIN g : t < u /\ u \in Leafs(g) => t \in Leafs(g)
    /\ \A t \in DOMAIN g :
          /\ t \in Leafs(g) => g[t].src = <<>> /\ g[t].view_src = 0
          /\ \A k \in DOMAIN g[t].src : g[t].src[k] < t
          /\ g[t].view_src # 0 <=> g[t].op \in {"view", "set"}
          /\ g[t].view_src # 0 => g[t].view_src < t /\ g[g[t].view_src].view_src = 0
    /\ \A t \in Leafs(g) : Reads(g, t) # {}
ASSUME GraphsAssumption == \A g \in Graphs \cup Others : WellFormed(g)

(* An output is not a view, unless nothing reads it. *)
ASSUME OutputsAssumption ==
    \A g \in Graphs \cup Others : \A t \in DOMAIN g :
        g[t].out /\ g[t].view_src # 0 => Reads(g, t) = {}

Padded(n) == ((n + Alignment - 1) \div Alignment) * Alignment

(* The measuring allocator is large enough for all tensors at once. *)
ASSUME HalfAssumption ==
    \A g \in Graphs \cup Others, n \in Tokens : \A t \in DOMAIN g :
        Padded(g[t].size * n) <= Half \div Len(g)

VARIABLES graph,       \* the graph of the current call
          tokens,      \* the number of tokens it is built for
          calls,       \* the calls so far
          phase,       \* "idle", "nodes", "parents", "exec", "crashed"
          i,           \* the tensor that is next in the phase
          j,           \* its source that is next
          plan,        \* hash_values and the measuring allocator
          node_allocs, \* the plan kept: node_allocs and leaf_allocs
          buffer,      \* the size of the buffer, or NoBuffer
          mem          \* the tensor that last wrote each byte of the buffer

vars == <<graph, tokens, calls, phase, i, j, plan, node_allocs, buffer, mem>>

NoBuffer == -1

IsView(t) == graph[t].view_src # 0

Root(t) == IF IsView(t) THEN graph[t].view_src ELSE t

Size(t) == graph[t].size * tokens

(***************************************************************************)
(* The measuring allocator: free blocks that neither overlap nor touch.    *)
(* The code keeps them sorted by offset; the last one is the open end.     *)
(***************************************************************************)
Block(o, n) == [offset |-> o, size |-> n]

LastBlock(f) == CHOOSE b \in f : \A c \in f : c.offset <= b.offset

(* The smallest block that fits, the last of several; the tail is the last resort. *)
BestFit(f, n) ==
    LET fits == {b \in f \ {LastBlock(f)} : b.size >= n}
        best == {b \in fits : \A c \in fits : b.size <= c.size}
    IN IF fits = {} THEN LastBlock(f) ELSE LastBlock(best)

Taken(f, b, n) ==
    (f \ {b}) \cup (IF b.size = n THEN {} ELSE {Block(b.offset + n, b.size - n)})

(* A mutant: the block before the freed one is not looked for. *)
FreeTensorAhead(f, o, n) ==
    LET right == {b \in f : o + n = b.offset}
        to    == IF right = {} THEN o + n
                 ELSE LET b == CHOOSE b \in right : TRUE IN b.offset + b.size
    IN (f \ right) \cup {Block(o, to - o)}

(* ggml_dyn_tallocr_free_tensor: merged with the blocks that it touches. *)
FreeTensor(f, o, n) ==
    LET left  == {b \in f : b.offset + b.size = o}
        right == {b \in f : o + n = b.offset}
        from  == IF left = {} THEN o ELSE (CHOOSE b \in left : TRUE).offset
        to    == IF right = {} THEN o + n
                 ELSE LET b == CHOOSE b \in right : TRUE IN b.offset + b.size
    IN (f \ (left \cup right)) \cup {Block(from, to - from)}

(***************************************************************************)
(* hash_values.  allocated: the tensor owns the memory at its offset.      *)
(***************************************************************************)
HashNode == [n_children : Nat, n_views : Nat, offset : Nat, allocated : BOOLEAN]

NChildren(g, t) == Cardinality(Reads(g, t))

(* A mutant: the views of a tensor are not counted. *)
NoViews(g, t) == 0

NViews(g, t) == Cardinality({n \in DOMAIN g \ Leafs(g) : g[n].view_src = t})

(* A mutant: a source with further readers may be taken over. *)
ReusableOften(p, t) ==
    {k \in DOMAIN graph[t].src :
       LET s == graph[t].src[k]
       IN /\ p.hn[s].allocated /\ ~graph[s].out /\ graph[s].size = graph[t].size
          /\ p.hn[s].n_views = 0}

(* The sources whose memory the result may take over: owned by the         *)
(* allocator, of the same layout, not an output, and read by nothing else. *)
(* A view never owns its memory, so its case in the code cannot arise.     *)
Reusable(p, t) ==
    {k \in DOMAIN graph[t].src :
       LET s == graph[t].src[k]
       IN /\ p.hn[s].allocated /\ ~graph[s].out /\ graph[s].size = graph[t].size
          /\ p.hn[s].n_children = 1 /\ p.hn[s].n_views = 0}

AllocateNode(p, t) ==
    IF graph[t].data \/ p.hn[t].allocated \/ IsView(t) THEN p
    ELSE IF graph[t].op = "inplace" /\ Reusable(p, t) # {}
         THEN LET s == graph[t].src[Min(Reusable(p, t))]
              IN [p EXCEPT !.hn[t].allocated = TRUE,
                           !.hn[t].offset = p.hn[s].offset,
                           !.hn[s].allocated = FALSE]
         ELSE LET n == Padded(Size(t))
                  b == BestFit(p.free, n)
              IN [p EXCEPT !.hn[t].allocated = TRUE,
                           !.hn[t].offset = b.offset,
                           !.free = Taken(p.free, b, n),
                           !.max_size = Max({@, b.offset + n})]

(* A mutant: an output is freed like any other tensor. *)
FreeNodeAlways(p, t) ==
    [p EXCEPT !.hn[t].allocated = FALSE,
              !.free = FreeTensor(p.free, p.hn[t].offset, Padded(Size(t)))]

FreeNode(p, t) ==
    IF graph[t].out THEN p
    ELSE [p EXCEPT !.hn[t].allocated = FALSE,
                   !.free = FreeTensor(p.free, p.hn[t].offset, Padded(Size(t)))]

(* A source has been read once more.  After its last reader it is freed,   *)
(* or, if it is a view, the tensor whose last view it was.                 *)
UpdateParent(p, s) ==
    LET q == [p EXCEPT !.hn[s].n_children = @ - 1]
        r == [q EXCEPT !.hn[Root(s)].n_views = @ - 1]
        unread(h) == h.n_children = 0 /\ h.n_views = 0
    IN IF ~unread(q.hn[s]) THEN q
       ELSE IF IsView(s)
            THEN IF unread(r.hn[Root(s)]) /\ r.hn[Root(s)].allocated THEN FreeNode(r, Root(s)) ELSE r
            ELSE IF q.hn[s].allocated THEN FreeNode(q, s) ELSE q

-----------------------------------------------------------------------------
Init ==
    /\ graph = <<>> /\ tokens = 1 /\ calls = 0
    /\ phase = "idle" /\ i = 1 /\ j = 1
    /\ plan = [hn |-> <<>>, free |-> {Block(0, Half)}, max_size |-> 0]
    /\ node_allocs = <<>>
    /\ buffer = NoBuffer
    /\ mem = <<>>

(* A mutant: only the numbers of tensors are compared. *)
NeedsReallocByCount(g, n) == Len(node_allocs) # Len(g)

(* The plan kept does not fit graph g: only counts and sizes are compared, *)
(* those of the nodes and of the sources that had the same place.          *)
NeedsRealloc(g, n) ==
    LET size(t) == IF g[t].data \/ g[t].view_src # 0 THEN 0 ELSE g[t].size * n
        had(t, k) == IF k \in DOMAIN node_allocs[t].src THEN node_allocs[t].src[k] ELSE 0
    IN ~ /\ Len(node_allocs) = Len(g)
         /\ {t \in DOMAIN node_allocs : node_allocs[t].leaf} = Leafs(g)
         /\ \A t \in DOMAIN g \ Leafs(g) :
               /\ size(t) <= node_allocs[t].size_max
               /\ \A k \in DOMAIN g[t].src : size(g[t].src[k]) <= had(t, k)

(* Callers build each graph with the same code: it has the same tensors as *)
(* before or another number of them, unless MayChangeGraph.                *)
Built == IF node_allocs = <<>> THEN Graphs
         ELSE {graph} \cup {g \in Others : MayChangeGraph \/ Len(g) # Len(graph)}

Call(g, n) ==
    /\ graph' = g /\ tokens' = n /\ calls' = calls + 1

(* ggml_gallocr_reserve: reset the allocator, count the children and views *)
(* of every tensor.                                                        *)
Plan(g, n) ==
    /\ Call(g, n)
    /\ NeedsRealloc(g, n)
    /\ phase' = "nodes" /\ i' = 1 /\ j' = 1
    /\ plan' = [hn |-> [t \in DOMAIN g |->
                         [n_children |-> NChildren(g, t), n_views |-> NViews(g, t),
                          offset |-> 0, allocated |-> FALSE]],
                free |-> {Block(0, Half)}, max_size |-> 0]
    /\ UNCHANGED <<node_allocs, buffer, mem>>

(* The loops of ggml_gallocr_alloc_graph_impl.  Leafs are allocated first. *)
AllocLeaf ==
    /\ phase = "nodes" /\ i \in Leafs(graph)
    /\ plan' = AllocateNode(plan, i)
    /\ i' = i + 1
    /\ UNCHANGED <<graph, tokens, calls, phase, j, node_allocs, buffer, mem>>

(* For each node: allocate the sources that still have no memory ...       *)
AllocParent ==
    /\ phase = "nodes" /\ i \in DOMAIN graph \ Leafs(graph) /\ j \in DOMAIN graph[i].src
    /\ plan' = AllocateNode(plan, graph[i].src[j])
    /\ j' = j + 1
    /\ UNCHANGED <<graph, tokens, calls, phase, i, node_allocs, buffer, mem>>

(* ... allocate the node ...                                               *)
AllocNode ==
    /\ phase = "nodes" /\ i \in DOMAIN graph \ Leafs(graph) /\ j \notin DOMAIN graph[i].src
    /\ plan' = AllocateNode(plan, i)
    /\ phase' = "parents" /\ j' = 1
    /\ UNCHANGED <<graph, tokens, calls, i, node_allocs, buffer, mem>>

(* ... and release the sources.                                            *)
ReleaseParent ==
    /\ phase = "parents" /\ j \in DOMAIN graph[i].src
    /\ plan' = UpdateParent(plan, graph[i].src[j])
    /\ j' = j + 1
    /\ UNCHANGED <<graph, tokens, calls, phase, i, node_allocs, buffer, mem>>

NextNode ==
    /\ phase = "parents" /\ j \notin DOMAIN graph[i].src
    /\ phase' = "nodes" /\ i' = i + 1 /\ j' = 1
    /\ UNCHANGED <<graph, tokens, calls, plan, node_allocs, buffer, mem>>

Assigned(t) == ~graph[t].data /\ ~IsView(t)

SizeMax(t) == IF Assigned(t) THEN Size(t) ELSE 0

(* The rest of ggml_gallocr_reserve_n: keep the plan, grow the buffer.  A  *)
(* buffer that cannot be had leaves the plan behind, and ends the call.    *)
Record ==
    /\ phase = "nodes" /\ i > Len(graph)
    /\ node_allocs' = [t \in DOMAIN graph |->
                          [offset |-> IF Assigned(t) THEN plan.hn[t].offset ELSE Half,
                           size_max |-> SizeMax(t),
                           src |-> [k \in DOMAIN graph[t].src |-> SizeMax(graph[t].src[k])],
                           leaf |-> t \in Leafs(graph)]]
    /\ \/ /\ plan.max_size <= buffer
          /\ phase' = "exec"
          /\ UNCHANGED <<buffer, mem>>
       \/ /\ plan.max_size > buffer
          /\ buffer' = plan.max_size /\ mem' = [a \in 1..plan.max_size |-> 0]
          /\ phase' = "exec"
       \/ /\ plan.max_size > buffer /\ AllocMayFail
          /\ buffer' = NoBuffer /\ mem' = <<>>
          /\ phase' = "idle"
    /\ i' = 1
    /\ UNCHANGED <<graph, tokens, calls, j, plan>>

(* The plan kept is taken over; without a buffer its base is read from a null pointer. *)
Reuse(g, n) ==
    /\ Call(g, n)
    /\ ~NeedsRealloc(g, n)
    /\ phase' = IF buffer = NoBuffer THEN "crashed" ELSE "exec"
    /\ UNCHANGED <<i, j, plan, node_allocs, buffer, mem>>

(* The bytes of tensor t's memory, counted from 1; none of an external tensor. *)
Region(t) == IF graph[Root(t)].data THEN {}
             ELSE LET o == node_allocs[Root(t)].offset IN (o + 1)..(o + Size(Root(t)))

Write(m, t) == [a \in DOMAIN m |-> IF a \in Region(t) THEN t ELSE m[a]]

(* The application fills the leafs ...                                     *)
SetInput ==
    /\ phase = "exec" /\ i \in Leafs(graph)
    /\ mem' = Write(mem, i)
    /\ i' = i + 1
    /\ UNCHANGED <<graph, tokens, calls, phase, j, plan, node_allocs, buffer>>

(* ... then has the graph computed.                                        *)
Exec ==
    /\ phase = "exec" /\ i \in DOMAIN graph \ Leafs(graph)
    /\ mem' = IF graph[i].op = "view" THEN mem ELSE Write(mem, i)
    /\ i' = i + 1
    /\ UNCHANGED <<graph, tokens, calls, phase, j, plan, node_allocs, buffer>>

(* The application has read the outputs. *)
Finish ==
    /\ phase = "exec" /\ i > Len(graph)
    /\ phase' = "idle" /\ i' = 1
    /\ UNCHANGED <<graph, tokens, calls, j, plan, node_allocs, buffer, mem>>

AllocGraph ==
    /\ phase = "idle" /\ calls < MaxCalls
    /\ \E n \in Tokens, g \in Built : Plan(g, n) \/ Reuse(g, n)

Next == \/ AllocGraph
        \/ AllocLeaf \/ AllocParent \/ AllocNode \/ ReleaseParent \/ NextNode \/ Record
        \/ SetInput \/ Exec \/ Finish

Spec == Init /\ [][Next]_vars
=============================================================================
