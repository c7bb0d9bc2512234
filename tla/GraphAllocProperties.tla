------------------------- MODULE GraphAllocProperties -------------------------
(* What the graph allocator promises to the graphs that it places. *)
EXTENDS GraphAlloc

TensorAlloc == [offset : Nat, size_max : Nat, src : Seq(Nat), leaf : BOOLEAN]

(* Every variable stays in its range; the counts of readers and views never go below zero. *)
TypeOK ==
    /\ \A t \in DOMAIN graph : graph[t] \in Tensor /\ graph[t].view_src < t
    /\ tokens \in Nat \ {0} /\ calls \in 0..MaxCalls
    /\ phase \in {"idle", "nodes", "parents", "exec", "crashed"}
    /\ i \in 1..(Len(graph) + 1) /\ j \in Nat \ {0}
    /\ plan.hn \in Seq(HashNode)
    /\ \A b \in plan.free : b.offset \in Nat /\ b.size \in Nat \ {0}
    /\ plan.max_size \in Nat
    /\ \A t \in DOMAIN node_allocs : node_allocs[t] \in TensorAlloc
    /\ buffer \in {NoBuffer} \cup Nat
    /\ mem \in [1..Max({0, buffer}) -> Nat]

Interval(o, n) == o..(o + n - 1)

Owned == {t \in DOMAIN plan.hn : plan.hn[t].allocated}

OwnedBytes(t) == Interval(plan.hn[t].offset, Padded(Size(t)))

(* While a graph is planned, every byte is free or belongs to exactly one  *)
(* tensor, and no two free blocks touch: frees and takeovers of a source's *)
(* memory neither leak nor free twice (ggml_dyn_tallocr_free_tensor,       *)
(* ggml_gallocr_allocate_node).                                            *)
BlocksExact ==
    phase \in {"nodes", "parents"} =>
        /\ \A b, c \in plan.free : b # c => b.offset + b.size < c.offset \/ c.offset + c.size < b.offset
        /\ \A t, u \in Owned : t # u => OwnedBytes(t) \cap OwnedBytes(u) = {}
        /\ \A t \in Owned, b \in plan.free : OwnedBytes(t) \cap Interval(b.offset, b.size) = {}
        /\ (UNION {OwnedBytes(t) : t \in Owned})
              \cup (UNION {Interval(b.offset, b.size) : b \in plan.free}) = Interval(0, Half)

(* The last tensor before n to write the memory of t. *)
LastWriter(t, n) ==
    Max({u \in 1..(n - 1) : Root(u) = Root(t) /\ graph[u].op # "view"})

(* When a node is computed, each of its sources still holds what the graph *)
(* wrote into it last, and the result overlaps a source only where the     *)
(* operation works in place and both start at the same byte.               *)
ReadsIntact ==
    phase = "exec" /\ i <= Len(graph) =>
        \A k \in DOMAIN graph[i].src :
            LET s == graph[i].src[k]
            IN /\ \A a \in Region(s) : mem[a] = LastWriter(s, i)
               /\ \/ graph[i].op \in {"view", "set"}
                  \/ Region(s) \cap Region(i) = {}
                  \/ graph[i].op = "inplace" /\ Region(s) = Region(i)

(* Output tensors are never overwritten: whenever the graph is computed,   *)
(* each output holds its result (ggml_gallocr_free_node, ggml-alloc.h).    *)
OutputsIntact ==
    phase = "exec" /\ i > Len(graph) =>
        \A t \in DOMAIN graph : graph[t].out =>
            \A a \in Region(t) : mem[a] = LastWriter(t, i)

(* A graph that is executed lies within the buffer, also one that takes    *)
(* over the plan made for another number of tokens (needs_realloc).        *)
InBounds ==
    phase = "exec" =>
        \A t \in DOMAIN graph : Region(t) \subseteq 1..buffer
=============================================================================
