---------------------------- MODULE CausalCache ----------------------------
(***************************************************************************)
(* The causal KV cache of ollama/kvcache/causal.go.  Its state is a record *)
(* and each of its methods an operator from states to states, because the  *)
(* runner calls several of them within one critical section.               *)
(*                                                                         *)
(* A definition that stands right before another one and bears its name    *)
(* with a suffix is a slip one could make there; it is used only to see    *)
(* that a property notices it.                                             *)
(***************************************************************************)
EXTENDS Integers, Sequences, FiniteSets, FiniteSetsExt

CONSTANTS
  Parallel,      \* number of sequences (slots) that share the cache
  KvSize,        \* capacity asked for
  CachePadding,  \* config.CachePadding: alignment of the capacity and the mask
  WindowSize,    \* windowSize of NewSWACache (large for NewCausalCache)
  Tokens         \* what the tensors hold for an input, up to its position

ASSUME CausalCacheAssumption ==
  /\ Parallel \in Nat \ {0} /\ KvSize \in Nat /\ KvSize >= Parallel
  /\ CachePadding \in Nat \ {0} /\ WindowSize \in Nat /\ Tokens # {}

Slots == 0 .. Parallel - 1
RoundDown(length, pad) == (length \div pad) * pad
RoundUp(length, pad) == ((length + pad - 1) \div pad) * pad
Capacity == RoundUp(KvSize, CachePadding)
Locs == 0 .. Capacity - 1
ToTheEnd == -1     \* an endIndex of math.MaxInt32

(* A location's metadata.  One that no sequence references is EmptyCell:   *)
(* its position, and what the tensors hold there, are not told apart.      *)
Cell == [pos : Nat, seqs : SUBSET Slots]
EmptyCell == [pos |-> 0, seqs |-> {}]

(* A range of locations.  The new range, which is also what an absent      *)
(* entry of cellRanges stands for, is empty: math.MaxInt is Capacity here. *)
CellRange == [min : 0 .. Capacity, max : Locs]
NewRange == [min |-> Capacity, max |-> 0]
Covering(range, S) == [min |-> Min({range.min} \cup S), max |-> Max({range.max} \cup S)]
Within(range) == range.min .. range.max

(* The keys and values at a location: those of a token, turned (by RoPE)   *)
(* to a position.                                                          *)
Datum == [tok : Tokens, pos : Nat]
NoDatum == [tok |-> CHOOSE t \in Tokens : TRUE, pos |-> 0]

(* The state: metadata of the cells, range of every sequence, tensors, the *)
(* locations that the mask shows to each input of the last batch, and      *)
(* whether a defragmentation ever combined moves (history).                *)
CacheState ==
  [cells : [Locs -> Cell], ranges : [Slots -> CellRange], kv : [Locs -> Datum],
   mask : Seq(SUBSET Locs), merged : BOOLEAN]

InitCache ==
  [cells |-> [i \in Locs |-> EmptyCell], ranges |-> [s \in Slots |-> NewRange],
   kv |-> [i \in Locs |-> NoDatum], mask |-> <<>>, merged |-> FALSE]

Holding(cells, s) == {i \in Locs : s \in cells[i].seqs}
Free(cells) == {i \in Locs : cells[i].seqs = {}}
Span(cells, s) == Covering(NewRange, Holding(cells, s))

Tidy(c) ==
  [c EXCEPT !.cells = [i \in Locs |-> IF i \in Free(c.cells) THEN EmptyCell ELSE @[i]],
            !.kv = [i \in Locs |-> IF i \in Free(c.cells) THEN NoDatum ELSE @[i]]]

-----------------------------------------------------------------------------
(* findStartLoc: where a contiguous block of n free cells starts.          *)
StartLocs(cells, n) == {i \in Locs : i + n <= Capacity /\ i .. i + n - 1 \subseteq Free(cells)}

(* moveCells: a block of the tensors is copied.                            *)
MoveCells(kv, src, dst, len) ==
  [i \in Locs |-> IF i \in dst .. dst + len - 1 THEN kv[src + (i - dst)] ELSE kv[i]]

(* defrag fills the holes from the left with the used cells from the       *)
(* right.  The metadata moves at once; the tensors move in blocks, a block *)
(* being held back (p: source, destination, length) while the next move is *)
(* thought to extend it.                                                   *)
DefragStep(d, dst) ==
  LET used == {i \in dst + 1 .. d.src : d.c.cells[i].seqs # {}}
      src == Max(used)
      extends == d.p.len > 0 /\ src = d.p.src - d.p.len /\ dst = d.p.dst + d.p.len
      moved == [d EXCEPT !.src = src,
                         !.c.cells[dst] = d.c.cells[src], !.c.cells[src] = EmptyCell]
  IN  IF dst >= d.src \/ dst \notin Free(d.c.cells) THEN d
      ELSE IF used = {} THEN [d EXCEPT !.src = dst]
      ELSE IF extends
      THEN [moved EXCEPT !.c.merged = TRUE,
                         !.p = [src |-> src, dst |-> @.dst, len |-> @.len + 1]]
      ELSE [moved EXCEPT !.c.kv = MoveCells(@, d.p.src, d.p.dst, d.p.len),
                         !.p = [src |-> src, dst |-> dst, len |-> 1]]

DefragKeepsRanges(c) ==
  LET start == [c |-> c, src |-> Capacity - 1, p |-> [src |-> 0, dst |-> 0, len |-> 0]]
      upTo[n \in 0 .. Capacity] == IF n = 0 THEN start ELSE DefragStep(upTo[n - 1], n - 1)
      d == upTo[Capacity]
  IN  Tidy([d.c EXCEPT !.kv = MoveCells(@, d.p.src, d.p.dst, d.p.len)])

Defrag(c) ==
  LET start == [c |-> c, src |-> Capacity - 1, p |-> [src |-> 0, dst |-> 0, len |-> 0]]
      upTo[n \in 0 .. Capacity] == IF n = 0 THEN start ELSE DefragStep(upTo[n - 1], n - 1)
      d == upTo[Capacity]
  IN  Tidy([d.c EXCEPT !.kv = MoveCells(@, d.p.src, d.p.dst, d.p.len),
                       !.ranges = [s \in Slots |-> Span(d.c.cells, s)]])

(* buildMask: what an input of the batch may attend to, among the cells    *)
(* that the batch's sequences span (aligned for the backend).              *)
Visible(cells, span, b) ==
  {j \in RoundDown(span.min, CachePadding) .. RoundUp(span.max + 1, CachePadding) - 1 :
     /\ b.slot \in cells[j].seqs
     /\ cells[j].pos <= b.pos /\ cells[j].pos >= b.pos - WindowSize}

(* ErrKvCacheFull: not even a defragmentation helps.                       *)
KvCacheFullAtOnce(c, batch) == StartLocs(c.cells, Len(batch)) = {}

KvCacheFull(c, batch) ==
  /\ StartLocs(c.cells, Len(batch)) = {}
  /\ StartLocs(Defrag(c).cells, Len(batch)) = {}

(* StartForward and the Put of every layer: the batch (a sequence of slot, *)
(* position and token) is stored at a start location, after a              *)
(* defragmentation if there is none.                                       *)
StartForward(c, batch) ==
  LET n == Len(batch)
      d == IF StartLocs(c.cells, n) = {} THEN Defrag(c) ELSE c
      loc == Min(StartLocs(d.cells, n))
      new == loc .. loc + n - 1
      input(i) == batch[i - loc + 1]
      cells == [i \in Locs |-> IF i \notin new THEN d.cells[i]
                               ELSE [pos |-> input(i).pos, seqs |-> {input(i).slot}]]
      ranges == [s \in Slots |-> Covering(d.ranges[s], {i \in new : input(i).slot = s})]
      used == {batch[k].slot : k \in 1 .. n}
      span == [min |-> Min({ranges[s].min : s \in used}),
               max |-> Max({ranges[s].max : s \in used})]
  IN  [d EXCEPT !.cells = cells, !.ranges = ranges,
                !.kv = [i \in Locs |-> IF i \notin new THEN @[i]
                                       ELSE [tok |-> input(i).tok, pos |-> input(i).pos]],
                !.mask = [k \in 1 .. n |-> Visible(cells, span, batch[k])]]

(* CopyPrefix: the destination loses its contents and shares the first len *)
(* cells of the source.                                                    *)
CopyPrefix(c, src, dst, len) ==
  LET shared == {i \in Holding(c.cells, src) : c.cells[i].pos < len}
      owners(i) == IF i \in shared THEN {dst} ELSE {}
      cells == [i \in Locs |-> [c.cells[i] EXCEPT !.seqs = (@ \ {dst}) \cup owners(i)]]
  IN  Tidy([c EXCEPT !.cells = cells, !.ranges[dst] = Covering(NewRange, shared)])

(* Remove deletes the positions [begin, end) of a sequence and moves the   *)
(* later ones down, in the metadata (cell by cell, from the left) and then *)
(* (shift, within the sequence's range) in the keys.  It gives up at the   *)
(* first cell to be moved that is shared, with what it did before undone   *)
(* by nobody.                                                              *)
Later(cells, s, end) ==
  {i \in Holding(cells, s) : end # ToTheEnd /\ cells[i].pos >= end}
Shared(cells, s, end) == {i \in Later(cells, s, end) : cells[i].seqs # {s}}
RemoveFails(c, s, end) == Shared(c.cells, s, end) # {}

RemoveForgetsShift(c, s, begin, end) ==
  LET later == Later(c.cells, s, end)
      drop == {i \in Holding(c.cells, s) \ later : c.cells[i].pos >= begin}
      cells == [i \in Locs |->
                  CASE i \in drop -> [c.cells[i] EXCEPT !.seqs = @ \ {s}]
                    [] i \in later -> [c.cells[i] EXCEPT !.pos = @ + begin - end]
                    [] OTHER -> c.cells[i]]
  IN  Tidy([c EXCEPT !.cells = cells, !.ranges[s] = Span(cells, s)])

Remove(c, s, begin, end) ==
  LET reached == {i \in Locs : \A j \in Shared(c.cells, s, end) : i < j}
      later == Later(c.cells, s, end)
      drop == {i \in Holding(c.cells, s) \ later : c.cells[i].pos >= begin}
      cells == [i \in Locs |->
                  CASE i \in reached \cap drop -> [c.cells[i] EXCEPT !.seqs = @ \ {s}]
                    [] i \in reached \cap later -> [c.cells[i] EXCEPT !.pos = @ + begin - end]
                    [] OTHER -> c.cells[i]]
      range == Span(cells, s)
      turned == {i \in Within(range) : s \in cells[i].seqs /\ cells[i].pos >= begin}
      kv == [i \in Locs |-> IF end # ToTheEnd /\ i \in turned
                            THEN [c.kv[i] EXCEPT !.pos = @ + (begin - end)] ELSE c.kv[i]]
  IN  IF RemoveFails(c, s, end) THEN Tidy([c EXCEPT !.cells = cells])
      ELSE Tidy([c EXCEPT !.cells = cells, !.ranges[s] = range, !.kv = kv])

=============================================================================
