----------------------------- MODULE MCGraphAlloc -----------------------------
EXTENDS GraphAllocProperties

T(op, src, view, size, out, data) ==
    [op |-> op, src |-> src, view_src |-> view, size |-> size, out |-> out, data |-> data]

(* The nodes that may follow the tensors g: views of any tensor and operations on one or two. *)
Views(g) == {T(op, <<t>>, IF g[t].view_src = 0 THEN t ELSE g[t].view_src, g[t].size, FALSE, FALSE) :
               op \in {"view", "set"}, t \in DOMAIN g}

Sources(g) == {<<t>> : t \in DOMAIN g} \cup {<<t, u>> : t \in DOMAIN g, u \in {Len(g)}}

Ops(g, sizes) == {T(op, src, 0, n, FALSE, FALSE) :
                    op \in {"inplace", "other"}, src \in Sources(g), n \in sizes}

Extended(gs, sizes) == UNION {{Append(g, t) : t \in Views(g) \cup Ops(g, sizes)} : g \in gs}

(* Every leaf is read, as in a graph that ggml_build_forward_expand collects. *)
Wanted(g) == \A t \in Leafs(g) : \E n \in DOMAIN g : t \in {g[n].src[k] : k \in DOMAIN g[n].src}

(* The last node is an output, and one other that has memory of its own may be. *)
Outputs(g) == {[g EXCEPT ![Len(g)].out = TRUE, ![t].out = TRUE] :
                 t \in {t \in DOMAIN g \ Leafs(g) : g[t].view_src = 0}}

Leaf(size, data) == T("none", <<>>, 0, size, FALSE, data)

(* Three nodes of any kind on one leaf. *)
Mixed == UNION {Outputs(g) : g \in {g \in Extended(Extended(Extended({<<Leaf(1, FALSE)>>}, {1, 2}), {1}), {1, 2}) : Wanted(g)}}

(* Two nodes on a leaf and a tensor outside the buffer. *)
External == UNION {Outputs(g) : g \in {g \in Extended(Extended({<<Leaf(1, FALSE), Leaf(1, TRUE)>>}, {1}), {1, 2}) : Wanted(g)}}

(* Four operations on two leafs, each on an earlier tensor and the last: memory is fragmented. *)
Chained(gs, n) ==
    UNION {{Append(g, T(op, src, 0, n, FALSE, FALSE)) :
              op \in {"inplace", "other"}, src \in {<<t, Len(g)>> : t \in DOMAIN g}} : g \in gs}

Fragmented ==
    {[g EXCEPT ![Len(g)].out = TRUE] :
       g \in {g \in Chained(Chained(Chained(Chained({<<Leaf(1, FALSE), Leaf(2, FALSE)>>}, 2), 1), 2), 1) : Wanted(g)}}

MCGraphs == Mixed \cup External \cup Fragmented

(* Graphs of two and of four tensors that a later call may bring. *)
MCOthers == {<<Leaf(2, FALSE), T("other", <<1>>, 0, 1, TRUE, FALSE)>>,
             <<Leaf(1, FALSE), T("other", <<1>>, 0, 1, FALSE, FALSE),
               T("other", <<2>>, 0, 1, FALSE, FALSE), T("other", <<1, 3>>, 0, 1, TRUE, FALSE)>>}
=============================================================================
