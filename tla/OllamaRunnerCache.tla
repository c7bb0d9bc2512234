-------------------------- MODULE OllamaRunnerCache --------------------------
(***************************************************************************)
(* The KV cache behind the runner holds what the slots say it holds, so    *)
(* that attention is exact and a batch always finds room, for any number   *)
(* of slots, requests and inputs and any size of the cache.                *)
(***************************************************************************)
EXTENDS OllamaRunnerProofs

(* The cells of slot s: one for each of the positions 0 .. n - 1, no two   *)
(* with the same position, and none from position b on.                    *)
Placed(cells, s, n, b) ==
  /\ \A i \in Holding(cells, s) : cells[i].pos < b
  /\ \A i, j \in Holding(cells, s) : cells[i].pos = cells[j].pos => i = j
  /\ \A p \in 0 .. n - 1 : \E i \in Holding(cells, s) : cells[i].pos = p
Spanned(c, s) == Holding(c.cells, s) \subseteq Within(c.ranges[s])

(* What the tensors hold there are the inputs a, each at its position.     *)
Matches(cells, kv, s, a) ==
  \A i \in Holding(cells, s) :
    cells[i].pos < Len(a) => kv[i] = [tok |-> a[cells[i].pos + 1], pos |-> cells[i].pos]

(* The cache holds the inputs a for slot s, and nothing from position b on. *)
Holds(c, s, a, b) ==
  /\ Placed(c.cells, s, Len(a), b) /\ Spanned(c, s)
  /\ c.merged \/ Matches(c.cells, c.kv, s, a)

CacheT(c) ==
  /\ c = [cells |-> c.cells, ranges |-> c.ranges, kv |-> c.kv, mask |-> c.mask,
          merged |-> c.merged]
  /\ c.cells \in [Locs -> Cell] /\ c.ranges \in [Slots -> CellRange]

(* A slot that no sequence uses may have more in the cache than it         *)
(* remembers: HitStop cuts its inputs and leaves the cache alone.          *)
Idle(c, sl) == \A s \in Slots : ~sl[s].inUse => Holds(c, s, sl[s].inputs, NumCtx)

(* Before Forward the cache holds the inputs of the slots; after it, those *)
(* that were submitted, too.                                               *)
Before(c, sl, sq) ==
  /\ CacheT(c) /\ Idle(c, sl)
  /\ \A i \in Seats : sq[i] # NoSeq =>
       Holds(c, sq[i].slot, sl[sq[i].slot].inputs, Len(sl[sq[i].slot].inputs))
After(c, sl, sq) ==
  /\ CacheT(c) /\ Idle(c, sl)
  /\ \A i \in Seats : sq[i] # NoSeq =>
       Holds(c, sq[i].slot, sl[sq[i].slot].inputs \o sq[i].pendingInputs,
             Len(sl[sq[i].slot].inputs) + Len(sq[i].pendingInputs))

(* The batch has the submitted inputs of every sequence, each once.        *)
FromSeat(b, a, q) ==
  /\ b.slot = q.slot /\ b.pos - Len(a) \in 0 .. Len(q.pendingInputs) - 1
  /\ b.tok = q.pendingInputs[b.pos - Len(a) + 1]
BatchOK(b, sl, sq) ==
  /\ \A k \in 1 .. Len(b) :
       \E i \in Seats : sq[i] # NoSeq /\ FromSeat(b[k], sl[sq[i].slot].inputs, sq[i])
  /\ \A k, m \in 1 .. Len(b) : b[k].slot = b[m].slot /\ b[k].pos = b[m].pos => k = m
  /\ \A i \in Seats : sq[i] # NoSeq =>
       \A p \in 0 .. Len(sq[i].pendingInputs) - 1 :
         \E k \in 1 .. Len(b) :
           b[k].slot = sq[i].slot /\ b[k].pos = Len(sl[sq[i].slot].inputs) + p

CacheInv ==
  panic = "no" =>
    IF phase = "forward"
    THEN /\ Before(cache, slots, seqs) /\ BatchOK(batch, slots, seqs)
         /\ batch \in Seq(BatchInput) /\ batch # <<>>
    ELSE After(cache, slots, seqs)

-----------------------------------------------------------------------------
(* Lemmas about the operators of the cache.                                *)

(* Rounding to the padding.                                                *)
LEMMA Rounding ==
  ASSUME NEW n \in Nat, NEW pad \in Nat \ {0}
  PROVE  /\ RoundUp(n, pad) \in Nat /\ RoundUp(n, pad) >= n
         /\ RoundDown(n, pad) \in Nat /\ RoundDown(n, pad) <= n
<1> DEFINE x == n + pad - 1
           k == x \div pad
           d == n \div pad
<1>1. x \in Nat /\ n = x - (pad - 1)
  OBVIOUS
<1>2. k \in Nat /\ k * pad \in Nat /\ k * pad <= x /\ x < k * pad + pad
  BY <1>1
<1>3. d \in Nat /\ d * pad \in Nat /\ d * pad <= n
  OBVIOUS
<1>4. RoundUp(n, pad) = k * pad /\ RoundDown(n, pad) = d * pad
  BY DEF RoundUp, RoundDown
<1> HIDE DEF k, d
<1> QED BY <1>1, <1>2, <1>3, <1>4

(* What is no longer than a multiple of the padding is not rounded above.  *)
LEMMA RoundingUp ==
  ASSUME NEW n \in Nat, NEW m \in Nat, NEW pad \in Nat \ {0}, n <= RoundUp(m, pad)
  PROVE  RoundUp(n, pad) <= RoundUp(m, pad)
<1> DEFINE x == n + pad - 1
           k == x \div pad
           j == (m + pad - 1) \div pad
<1>1. j \in Nat /\ RoundUp(m, pad) = j * pad /\ RoundUp(n, pad) = k * pad
  BY DEF RoundUp
<1>2. x \in Nat /\ k \in Nat /\ k * pad <= x
  OBVIOUS
<1>3. x < j * pad + pad
  BY <1>1
<1> HIDE DEF x, k, j
<1>4. j * pad + pad = (j + 1) * pad
  BY <1>1
<1>5. k * pad < (j + 1) * pad
  BY <1>1, <1>2, <1>3, <1>4
<1>6. k < j + 1
  BY <1>1, <1>2, <1>5
<1> QED BY <1>1, <1>2, <1>6

(* The cache is as large as all contexts together.                         *)
LEMMA CacheSize ==
  /\ Capacity \in Nat \ {0} /\ Parallel * NumCtx <= Capacity
  /\ \A i \in Locs : i \in Nat
<1>1. Parallel \in Nat \ {0} /\ KvSize \in Nat \ {0} /\ CachePadding \in Nat \ {0}
  BY CausalCacheAssumption
<1>2. Capacity \in Nat /\ Capacity >= KvSize
  BY <1>1, Rounding DEF Capacity
<1>3. NumCtx * Parallel <= KvSize /\ NumCtx \in Nat
  BY <1>1 DEF NumCtx
<1>4. Parallel * NumCtx = NumCtx * Parallel
  BY <1>1, <1>3
<1> QED BY <1>1, <1>2, <1>3, <1>4 DEF Locs

(* A range made to cover more locations covers them.                       *)
LEMMA CoveringFits ==
  ASSUME NEW range \in CellRange, NEW S \in SUBSET Locs
  PROVE  /\ Covering(range, S) \in CellRange
         /\ S \subseteq Within(Covering(range, S))
         /\ Within(range) \subseteq Within(Covering(range, S))
<1> DEFINE A == {range.min} \cup S
           B == {range.max} \cup S
<1>1. Capacity \in Nat \ {0} /\ Locs = 0 .. Capacity - 1
  BY CacheSize DEF Locs
<1>2. range.min \in 0 .. Capacity /\ range.max \in Locs
  BY DEF CellRange
<1>2a. \A x \in S : x \in 0 .. Capacity /\ x \in 0 .. Capacity - 1 /\ x \in Nat
  BY <1>1
<1>2b. range.min \in Nat /\ range.max \in 0 .. Capacity - 1
  BY <1>1, <1>2
<1>3. A \subseteq Nat /\ A # {} /\ A \subseteq 0 .. Capacity
  BY <1>2, <1>2a, <1>2b, Zenon
<1>4. B \subseteq 0 .. Capacity - 1 /\ B # {} /\ Capacity - 1 \in Nat
  <2>1. B \subseteq 0 .. Capacity - 1 /\ B # {}
    BY <1>2a, <1>2b, Zenon
  <2> QED BY <1>1, <2>1
<1>5. S \subseteq A /\ S \subseteq B /\ range.min \in A /\ range.max \in B
  OBVIOUS
<1>6. Covering(range, S) = [min |-> Min(A), max |-> Max(B)]
  BY DEF Covering
<1> HIDE DEF A, B
<1>7. Min(A) \in A /\ \A m \in A : Min(A) <= m
  BY <1>3, MinFound
<1>8. Max(B) \in B /\ \A m \in B : m <= Max(B)
  BY <1>4, MaxFound
<1>9. Min(A) \in 0 .. Capacity /\ Max(B) \in Locs
  BY <1>1, <1>3, <1>4, <1>7, <1>8
<1>10. \A i \in S : i \in Min(A) .. Max(B)
  BY <1>1, <1>5, <1>7, <1>8, <1>9
<1>11. range.min .. range.max \subseteq Min(A) .. Max(B)
  BY <1>1, <1>2, <1>5, <1>7, <1>8, <1>9
<1> QED BY <1>6, <1>9, <1>10, <1>11 DEF CellRange, Within

(* The range of the cells of a slot.                                       *)
LEMMA SpanFits ==
  ASSUME NEW S \in SUBSET Locs
  PROVE  /\ Covering(NewRange, S) \in CellRange
         /\ S \subseteq Within(Covering(NewRange, S))
<1>1. NewRange \in CellRange
  BY CacheSize DEF NewRange, CellRange, Locs
<1> QED BY <1>1, CoveringFits

(* A slot whose cells stay as they are keeps what it holds.                *)
LEMMA Unmoved ==
  ASSUME NEW c, NEW d, NEW s \in Slots, NEW a, NEW b, Holds(c, s, a, b),
         Holding(d.cells, s) = Holding(c.cells, s), Spanned(d, s), c.merged => d.merged,
         \A i \in Holding(c.cells, s) : d.cells[i].pos = c.cells[i].pos /\ d.kv[i] = c.kv[i]
  PROVE  Holds(d, s, a, b)
<1>1. Placed(d.cells, s, Len(a), b)
  BY DEF Holds, Placed
<1>2. Matches(c.cells, c.kv, s, a) => Matches(d.cells, d.kv, s, a)
  BY DEF Matches
<1> QED BY <1>1, <1>2 DEF Holds

(* Tidy changes only the cells that nobody uses.                           *)
LEMMA TidyKeeps ==
  ASSUME NEW c, CacheT(c), NEW d, d = Tidy(c)
  PROVE  /\ CacheT(d) /\ d.ranges = c.ranges /\ d.merged = c.merged /\ d.mask = c.mask
         /\ \A s \in Slots : Holding(d.cells, s) = Holding(c.cells, s)
         /\ \A s \in Slots : \A i \in Holding(c.cells, s) : d.cells[i] = c.cells[i] /\ d.kv[i] = c.kv[i]
         /\ Free(d.cells) = Free(c.cells)
<1> DEFINE cells == [i \in Locs |-> IF i \in Free(c.cells) THEN EmptyCell ELSE c.cells[i]]
           kv == [i \in Locs |-> IF i \in Free(c.cells) THEN NoDatum ELSE c.kv[i]]
<1>1. PICK x, y : x = cells /\ y = kv
  OBVIOUS
<1>2. d = [c EXCEPT !.cells = x, !.kv = y]
  BY <1>1 DEF Tidy
<1>3. /\ d.cells = x /\ d.kv = y /\ d.ranges = c.ranges /\ d.merged = c.merged /\ d.mask = c.mask
      /\ d = [cells |-> d.cells, ranges |-> d.ranges, kv |-> d.kv, mask |-> d.mask, merged |-> d.merged]
  <2>1. c = [cells |-> c.cells, ranges |-> c.ranges, kv |-> c.kv, mask |-> c.mask, merged |-> c.merged]
    BY DEF CacheT
  <2> QED BY <1>2, <2>1
<1>4. c.cells \in [Locs -> Cell] /\ c.ranges \in [Slots -> CellRange]
  BY DEF CacheT
<1>5. EmptyCell \in Cell /\ EmptyCell.seqs = {}
  BY DEF EmptyCell, Cell
<1>6. x \in [Locs -> Cell] /\ \A i \in Locs : i \notin Free(c.cells) => x[i] = c.cells[i] /\ y[i] = c.kv[i]
  BY <1>1, <1>4, <1>5
<1>7. \A i \in Locs : x[i].seqs = c.cells[i].seqs
  BY <1>1, <1>5, <1>6 DEF Free
<1>8. \A s \in Slots : Holding(x, s) = Holding(c.cells, s)
  BY <1>7 DEF Holding
<1>9. \A s \in Slots : \A i \in Holding(c.cells, s) : x[i] = c.cells[i] /\ y[i] = c.kv[i]
  BY <1>6 DEF Holding, Free
<1>10. Free(x) = Free(c.cells)
  BY <1>7 DEF Free
<1>11. CacheT(d)
  BY <1>3, <1>4, <1>6 DEF CacheT
<1> QED BY <1>3, <1>8, <1>9, <1>10, <1>11

(* ... so that every slot keeps what it holds.                             *)
LEMMA TidyHolds ==
  ASSUME NEW c, CacheT(c), NEW s \in Slots, NEW a, NEW b, Holds(c, s, a, b)
  PROVE  Holds(Tidy(c), s, a, b)
<1>1. PICK d : d = Tidy(c)
  OBVIOUS
<1>2. /\ Holding(d.cells, s) = Holding(c.cells, s) /\ d.merged = c.merged /\ d.ranges = c.ranges
      /\ \A i \in Holding(c.cells, s) : d.cells[i] = c.cells[i] /\ d.kv[i] = c.kv[i]
  BY <1>1, TidyKeeps
<1>3. Spanned(d, s)
  BY <1>2 DEF Holds, Spanned
<1>4. Holds(d, s, a, b)
  BY <1>2, <1>3, Unmoved
<1> QED BY <1>1, <1>4

(* What Remove does when no cell that it has to move is shared.            *)
Gone(c, s, begin, end) ==
  {i \in Holding(c.cells, s) : c.cells[i].pos >= begin /\ (end = ToTheEnd \/ c.cells[i].pos < end)}
Removed(c, s, begin, end, d) ==
  /\ CacheT(d) /\ d.merged = c.merged /\ Spanned(d, s)
  /\ \A t \in Slots \ {s} :
       /\ Holding(d.cells, t) = Holding(c.cells, t) /\ d.ranges[t] = c.ranges[t]
       /\ \A i \in Holding(c.cells, t) : d.cells[i].pos = c.cells[i].pos /\ d.kv[i] = c.kv[i]
  /\ Holding(d.cells, s) = Holding(c.cells, s) \ Gone(c, s, begin, end)
  /\ \A i \in Holding(d.cells, s) :
       \/ c.cells[i].pos < begin /\ d.cells[i].pos = c.cells[i].pos /\ d.kv[i] = c.kv[i]
       \/ /\ end # ToTheEnd /\ c.cells[i].pos >= end
          /\ d.cells[i].pos = c.cells[i].pos + begin - end
          /\ d.kv[i] = [c.kv[i] EXCEPT !.pos = @ + (begin - end)]

(* Remove takes the range out of the slot and moves what comes after it.   *)
LEMMA RemoveWorks ==
  ASSUME NEW c, CacheT(c), NEW s \in Slots, NEW begin \in Nat, NEW end,
         end = ToTheEnd \/ (end \in Nat /\ begin <= end), ~RemoveFails(c, s, end)
  PROVE  Removed(c, s, begin, end, Remove(c, s, begin, end))
<1> DEFINE later == Later(c.cells, s, end)
           drop == {i \in Holding(c.cells, s) \ later : c.cells[i].pos >= begin}
           reached == {i \in Locs : \A j \in Shared(c.cells, s, end) : i < j}
           cells == [i \in Locs |->
                       CASE i \in reached \cap drop -> [c.cells[i] EXCEPT !.seqs = @ \ {s}]
                         [] i \in reached \cap later -> [c.cells[i] EXCEPT !.pos = @ + begin - end]
                         [] OTHER -> c.cells[i]]
           range == Span(cells, s)
           turned == {i \in Within(range) : s \in cells[i].seqs /\ cells[i].pos >= begin}
           kv == [i \in Locs |-> IF end # ToTheEnd /\ i \in turned
                                 THEN [c.kv[i] EXCEPT !.pos = @ + (begin - end)] ELSE c.kv[i]]
           e == [c EXCEPT !.cells = cells, !.ranges[s] = range, !.kv = kv]
<1>1. Shared(c.cells, s, end) = {} /\ reached = Locs
  BY DEF RemoveFails
<1>2. Remove(c, s, begin, end) = Tidy(e)
  BY DEF Remove
<1>3. /\ c = [cells |-> c.cells, ranges |-> c.ranges, kv |-> c.kv, mask |-> c.mask, merged |-> c.merged]
      /\ c.cells \in [Locs -> Cell] /\ c.ranges \in [Slots -> CellRange]
  BY DEF CacheT
<1>4. /\ later \subseteq Locs /\ drop \subseteq Locs /\ later \cap drop = {}
      /\ \A i \in later : end # ToTheEnd /\ c.cells[i].pos >= end /\ c.cells[i].seqs = {s}
      /\ \A i \in Holding(c.cells, s) : i \in drop \/ i \in later \/ c.cells[i].pos < begin
      /\ drop = Gone(c, s, begin, end)
  <2>1. \A i \in Locs : c.cells[i].pos \in Nat
    BY <1>3 DEF Cell
  <2>2. \A i \in later : end # ToTheEnd /\ c.cells[i].pos >= end /\ c.cells[i].seqs = {s} /\ i \in Locs
    BY <1>1 DEF Later, Shared, Holding
  <2>3. \A i \in drop : i \in Holding(c.cells, s) /\ i \notin later /\ c.cells[i].pos >= begin /\ i \in Locs
    BY DEF Holding
  <2>4. \A i \in Holding(c.cells, s) : i \in later <=> end # ToTheEnd /\ c.cells[i].pos >= end
    BY DEF Later
  <2>5. \A i \in Holding(c.cells, s) : i \in drop \/ i \in later \/ c.cells[i].pos < begin
    BY <2>1 DEF Holding
  <2>6. drop = Gone(c, s, begin, end)
    BY <2>1, <2>4 DEF Gone, Holding
  <2> QED BY <2>2, <2>3, <2>5, <2>6
<1> HIDE DEF later, drop
<1>5. \A i \in Locs :
        /\ i \in drop => cells[i] = [c.cells[i] EXCEPT !.seqs = @ \ {s}]
        /\ i \in later => cells[i] = [c.cells[i] EXCEPT !.pos = @ + begin - end]
        /\ i \notin drop /\ i \notin later => cells[i] = c.cells[i]
  BY <1>1, <1>4
<1> HIDE DEF cells, reached
<1>6. \A i \in Locs : c.cells[i] \in Cell
  BY <1>3
<1>7. \A i \in drop : cells[i] \in Cell /\ cells[i].pos = c.cells[i].pos /\ cells[i].seqs = c.cells[i].seqs \ {s}
  <2> SUFFICES ASSUME NEW i \in drop
               PROVE  /\ cells[i] \in Cell /\ cells[i].pos = c.cells[i].pos
                      /\ cells[i].seqs = c.cells[i].seqs \ {s}
    OBVIOUS
  <2>1. PICK x, S : x = c.cells[i] /\ S = x.seqs \ {s}
    OBVIOUS
  <2>2. x \in Cell /\ cells[i] = [x EXCEPT !.seqs = S]
    BY <1>4, <1>5, <1>6, <2>1
  <2> QED BY <2>1, <2>2 DEF Cell
<1>8. \A i \in later : /\ cells[i] \in Cell /\ cells[i].pos = c.cells[i].pos + begin - end
                       /\ cells[i].seqs = {s} /\ cells[i].pos >= begin
  <2>1. ASSUME NEW i \in later
        PROVE  /\ cells[i] \in Cell /\ cells[i].pos = c.cells[i].pos + begin - end
               /\ cells[i].seqs = {s} /\ cells[i].pos >= begin
    <3>1. c.cells[i] \in Cell /\ end \in Nat /\ c.cells[i].pos >= end /\ c.cells[i].seqs = {s} /\ i \in Locs
      BY <1>4, <1>6
    <3>2. PICK x, n : x = c.cells[i] /\ n = x.pos + begin - end
      OBVIOUS
    <3>3. n \in Nat /\ n >= begin
      BY <3>1, <3>2 DEF Cell
    <3>4. cells[i] = [x EXCEPT !.pos = n]
      BY <1>5, <3>1, <3>2
    <3> QED BY <3>1, <3>2, <3>3, <3>4 DEF Cell
  <2> QED BY <2>1
<1>9. cells \in [Locs -> Cell]
  <2>1. \A i \in Locs : cells[i] \in Cell
    BY <1>5, <1>6, <1>7, <1>8
  <2> QED BY <2>1 DEF cells
<1>10. /\ Holding(cells, s) = Holding(c.cells, s) \ drop
       /\ \A t \in Slots \ {s} : Holding(cells, t) = Holding(c.cells, t)
  <2>1. ASSUME NEW i \in Locs
        PROVE  /\ s \in cells[i].seqs <=> s \in c.cells[i].seqs /\ i \notin drop
               /\ \A t \in Slots \ {s} : t \in cells[i].seqs <=> t \in c.cells[i].seqs
    BY <1>4, <1>5, <1>7, <1>8, ZenonT(40)
  <2> QED BY <2>1 DEF Holding
<1>11. range \in CellRange /\ Holding(cells, s) \subseteq Within(range)
  BY SpanFits DEF Span, Holding
<1> HIDE DEF range
<1>12. ASSUME NEW i \in Holding(cells, s)
       PROVE  /\ c.cells[i].pos < begin => cells[i].pos = c.cells[i].pos /\ kv[i] = c.kv[i]
              /\ i \in later => kv[i] = [c.kv[i] EXCEPT !.pos = @ + (begin - end)]
  <2>1. i \in Locs /\ i \in Within(range) /\ s \in cells[i].seqs /\ i \notin drop
    BY <1>10, <1>11 DEF Holding
  <2>2. CASE i \in later
    <3>1. i \in turned /\ end # ToTheEnd /\ ~(c.cells[i].pos < begin)
      BY <1>4, <1>6, <1>8, <2>1, <2>2 DEF Cell
    <3> QED BY <2>1, <3>1
  <2>3. CASE i \notin later
    <3>1. cells[i] = c.cells[i] /\ c.cells[i].pos < begin /\ c.cells[i].pos \in Nat
      BY <1>4, <1>5, <1>6, <1>10, <2>1, <2>3 DEF Cell
    <3>2. i \notin turned
      BY <3>1
    <3> QED BY <2>1, <2>3, <3>1, <3>2
  <2> QED BY <2>2, <2>3
<1>13. ASSUME NEW t \in Slots \ {s}, NEW i \in Holding(c.cells, t)
       PROVE  cells[i].pos = c.cells[i].pos /\ kv[i] = c.kv[i]
  <2>1. i \in Locs /\ i \notin later
    BY <1>4 DEF Holding
  <2>2. cells[i].pos = c.cells[i].pos
    BY <1>5, <1>7, <2>1
  <2>3. i \notin turned
    <3> SUFFICES ASSUME i \in turned PROVE FALSE
      OBVIOUS
    <3>1. i \in Holding(cells, s) /\ cells[i].pos >= begin
      BY <2>1 DEF Holding
    <3>2. i \in Holding(c.cells, s) /\ i \notin drop
      BY <1>10, <3>1
    <3> QED BY <1>4, <1>6, <2>1, <2>2, <3>1, <3>2 DEF Cell
  <2> QED BY <2>1, <2>2, <2>3
<1> HIDE DEF kv, turned
<1>14. PICK x, y, z, d : x = cells /\ y = kv /\ z = range /\ d = e
  OBVIOUS
<1>15. /\ d.cells = x /\ d.kv = y /\ d.ranges = [c.ranges EXCEPT ![s] = z] /\ d.merged = c.merged
       /\ d = [cells |-> d.cells, ranges |-> d.ranges, kv |-> d.kv, mask |-> d.mask, merged |-> d.merged]
  <2>1. d = [c EXCEPT !.cells = x, !.ranges[s] = z, !.kv = y]
    BY <1>14
  <2> QED BY <1>3, <2>1
<1>16. CacheT(d)
  BY <1>3, <1>9, <1>11, <1>14, <1>15 DEF CacheT
<1>17. PICK f : f = Tidy(d)
  OBVIOUS
<1>18. /\ CacheT(f) /\ f.ranges = d.ranges /\ f.merged = d.merged
       /\ \A t \in Slots : Holding(f.cells, t) = Holding(d.cells, t)
       /\ \A t \in Slots : \A i \in Holding(d.cells, t) : f.cells[i] = d.cells[i] /\ f.kv[i] = d.kv[i]
  BY <1>16, <1>17, TidyKeeps
<1>19. Spanned(f, s)
  BY <1>3, <1>11, <1>14, <1>15, <1>18 DEF Spanned
<1>20. \A t \in Slots \ {s} :
         /\ Holding(f.cells, t) = Holding(c.cells, t) /\ f.ranges[t] = c.ranges[t]
         /\ \A i \in Holding(c.cells, t) : f.cells[i].pos = c.cells[i].pos /\ f.kv[i] = c.kv[i]
  BY <1>3, <1>10, <1>13, <1>14, <1>15, <1>18
<1>21. Holding(f.cells, s) = Holding(c.cells, s) \ Gone(c, s, begin, end)
  BY <1>4, <1>10, <1>14, <1>15, <1>18
<1>22. ASSUME NEW i \in Holding(f.cells, s)
       PROVE  \/ c.cells[i].pos < begin /\ f.cells[i].pos = c.cells[i].pos /\ f.kv[i] = c.kv[i]
              \/ /\ end # ToTheEnd /\ c.cells[i].pos >= end
                 /\ f.cells[i].pos = c.cells[i].pos + begin - end
                 /\ f.kv[i] = [c.kv[i] EXCEPT !.pos = @ + (begin - end)]
  <2>1. i \in Holding(cells, s) /\ f.cells[i] = cells[i] /\ f.kv[i] = kv[i]
    BY <1>14, <1>15, <1>18
  <2>2. i \in later \/ c.cells[i].pos < begin
    BY <1>4, <1>10, <2>1
  <2> QED BY <1>4, <1>8, <1>12, <2>1, <2>2
<1>23. Removed(c, s, begin, end, f)
  BY <1>15, <1>18, <1>19, <1>20, <1>21, <1>22 DEF Removed
<1> QED BY <1>2, <1>14, <1>17, <1>23

(* The other slots keep what they hold ...                                 *)
LEMMA OthersKeep ==
  ASSUME NEW c, NEW s \in Slots, NEW begin, NEW end, NEW d, Removed(c, s, begin, end, d),
         NEW t \in Slots, t # s, NEW a, NEW b, Holds(c, t, a, b)
  PROVE  Holds(d, t, a, b)
<1>1. /\ Holding(d.cells, t) = Holding(c.cells, t) /\ d.ranges[t] = c.ranges[t] /\ d.merged = c.merged
      /\ \A i \in Holding(c.cells, t) : d.cells[i].pos = c.cells[i].pos /\ d.kv[i] = c.kv[i]
  BY DEF Removed
<1>2. Spanned(d, t)
  BY <1>1 DEF Holds, Spanned
<1> QED BY <1>1, <1>2, Unmoved

(* The positions of cells are numbers.                                     *)
LEMMA Positions ==
  ASSUME NEW c, CacheT(c), NEW s \in Slots, NEW i \in Holding(c.cells, s)
  PROVE  i \in Locs /\ c.cells[i].pos \in Nat
BY DEF CacheT, Holding, Cell

(* ... the slot itself keeps the inputs before the ones removed, when the  *)
(* rest of its context goes ...                                            *)
LEMMA CutHolds ==
  ASSUME NEW c, CacheT(c), NEW s \in Slots, NEW n \in Nat, NEW d, Removed(c, s, n, ToTheEnd, d),
         NEW a \in Seq(Tokens), n <= Len(a), NEW b, Holds(c, s, a, b)
  PROVE  Holds(d, s, SubSeq(a, 1, n), n)
<1>1. /\ Holding(d.cells, s) = Holding(c.cells, s) \ Gone(c, s, n, ToTheEnd) /\ d.merged = c.merged
      /\ \A i \in Holding(d.cells, s) :
           c.cells[i].pos < n /\ d.cells[i].pos = c.cells[i].pos /\ d.kv[i] = c.kv[i]
      /\ Spanned(d, s)
  BY DEF Removed
<1>2. \A i \in Holding(c.cells, s) : c.cells[i].pos \in Nat
  BY Positions
<1>3. \A i \in Holding(c.cells, s) : c.cells[i].pos < n => i \in Holding(d.cells, s)
  BY <1>1, <1>2 DEF Gone
<1>4. Holding(d.cells, s) \subseteq Holding(c.cells, s)
  BY <1>1
<1>5. Len(SubSeq(a, 1, n)) = n /\ \A p \in 0 .. n - 1 : SubSeq(a, 1, n)[p + 1] = a[p + 1]
  BY SubSeqProperties
<1>6. Placed(d.cells, s, n, n)
  <2>1. \A p \in 0 .. n - 1 : p \in 0 .. Len(a) - 1
    OBVIOUS
  <2>2. ASSUME NEW p \in 0 .. n - 1 PROVE \E i \in Holding(d.cells, s) : d.cells[i].pos = p
    <3>1. PICK i \in Holding(c.cells, s) : c.cells[i].pos = p
      BY <2>1 DEF Holds, Placed
    <3>2. i \in Holding(d.cells, s)
      BY <1>3, <3>1
    <3> QED BY <1>1, <3>1, <3>2
  <2>3. \A i \in Holding(d.cells, s) : d.cells[i].pos < n
    BY <1>1
  <2>4. \A i, j \in Holding(d.cells, s) : d.cells[i].pos = d.cells[j].pos => i = j
    BY <1>1, <1>4 DEF Holds, Placed
  <2> QED BY <2>2, <2>3, <2>4 DEF Placed
<1>7. Matches(c.cells, c.kv, s, a) => Matches(d.cells, d.kv, s, SubSeq(a, 1, n))
  <2> SUFFICES ASSUME Matches(c.cells, c.kv, s, a), NEW i \in Holding(d.cells, s)
               PROVE  d.kv[i] = [tok |-> SubSeq(a, 1, n)[d.cells[i].pos + 1], pos |-> d.cells[i].pos]
    BY DEF Matches
  <2>1. i \in Holding(c.cells, s) /\ c.cells[i].pos < n /\ d.cells[i].pos = c.cells[i].pos /\ d.kv[i] = c.kv[i]
    BY <1>1, <1>4
  <2>2. c.cells[i].pos \in 0 .. n - 1 /\ c.cells[i].pos < Len(a)
    BY <1>2, <2>1
  <2>3. c.kv[i] = [tok |-> a[c.cells[i].pos + 1], pos |-> c.cells[i].pos]
    BY <2>1, <2>2 DEF Matches
  <2>4. SubSeq(a, 1, n)[c.cells[i].pos + 1] = a[c.cells[i].pos + 1]
    BY <1>5, <2>2
  <2> QED BY <2>1, <2>3, <2>4
<1> QED BY <1>1, <1>5, <1>6, <1>7 DEF Holds

(* What is left of a sequence without a part of it.                        *)
LEMMA WithoutElements ==
  ASSUME NEW a \in Seq(Tokens), NEW keep \in Nat, NEW discard \in Nat, keep + discard <= Len(a),
         NEW p \in 0 .. Len(a) - discard - 1
  PROVE  Without(a, keep, discard)[p + 1] = a[IF p < keep THEN p + 1 ELSE p + discard + 1]
<1> DEFINE x == SubSeq(a, 1, keep)
           y == SubSeq(a, keep + discard + 1, Len(a))
<1>1. x \in Seq(Tokens) /\ Len(x) = keep /\ \A i \in 1 .. keep : x[i] = a[i]
  BY SubSeqProperties
<1>2. /\ y \in Seq(Tokens) /\ Len(y) = Len(a) - (keep + discard)
      /\ \A i \in 1 .. Len(a) - (keep + discard) : y[i] = a[keep + discard + i]
  BY SubSeqProperties
<1>3. Without(a, keep, discard) = x \o y
  BY DEF Without
<1> HIDE DEF x, y
<1>4. \A i \in 1 .. Len(x) + Len(y) : (x \o y)[i] = IF i <= Len(x) THEN x[i] ELSE y[i - Len(x)]
  BY <1>1, <1>2, ConcatProperties
<1>5. p + 1 \in 1 .. Len(x) + Len(y)
  BY <1>1, <1>2
<1>6. CASE p < keep
  BY <1>1, <1>3, <1>4, <1>5, <1>6
<1>7. CASE ~(p < keep)
  <2>1. p + 1 - keep \in 1 .. Len(a) - (keep + discard) /\ keep + discard + (p + 1 - keep) = p + discard + 1
    BY <1>7
  <2>2. (x \o y)[p + 1] = y[p + 1 - keep]
    BY <1>1, <1>4, <1>5, <1>7
  <2>3. y[p + 1 - keep] = a[keep + discard + (p + 1 - keep)]
    BY <1>2, <2>1
  <2>4. y[p + 1 - keep] = a[p + discard + 1]
    BY <2>1, <2>3
  <2> QED BY <1>3, <1>7, <2>2, <2>4
<1> QED BY <1>6, <1>7

(* ... or the inputs before and after them, moved down, when it shifts.    *)
LEMMA ShiftHolds ==
  ASSUME NEW c, CacheT(c), NEW s \in Slots, NEW keep \in Nat, NEW discard \in Nat,
         NEW d, Removed(c, s, keep, keep + discard, d),
         NEW a \in Seq(Tokens), keep + discard <= Len(a), Holds(c, s, a, Len(a))
  PROVE  Holds(d, s, Without(a, keep, discard), Len(a) - discard)
<1> DEFINE w == Without(a, keep, discard)
           end == keep + discard
<1>0. end \in Nat /\ end # ToTheEnd /\ Len(a) \in Nat
  BY DEF ToTheEnd
<1>1. /\ Holding(d.cells, s) = Holding(c.cells, s) \ Gone(c, s, keep, end) /\ d.merged = c.merged
      /\ Spanned(d, s)
  BY DEF Removed
<1>2. \A i \in Holding(c.cells, s) : c.cells[i].pos \in Nat /\ c.cells[i].pos < Len(a)
  BY Positions DEF Holds, Placed
<1>3. Holding(d.cells, s) \subseteq Holding(c.cells, s)
  BY <1>1
<1>4. \A i \in Holding(d.cells, s) :
        \/ c.cells[i].pos < keep /\ d.cells[i].pos = c.cells[i].pos /\ d.kv[i] = c.kv[i]
        \/ /\ c.cells[i].pos >= end /\ d.cells[i].pos = c.cells[i].pos - discard
           /\ d.kv[i] = [c.kv[i] EXCEPT !.pos = @ + (keep - end)]
  <2> SUFFICES ASSUME NEW i \in Holding(d.cells, s), ~(c.cells[i].pos < keep /\ d.cells[i].pos = c.cells[i].pos /\ d.kv[i] = c.kv[i])
               PROVE  /\ c.cells[i].pos >= end /\ d.cells[i].pos = c.cells[i].pos - discard
                      /\ d.kv[i] = [c.kv[i] EXCEPT !.pos = @ + (keep - end)]
    OBVIOUS
  <2>1. /\ c.cells[i].pos >= end /\ d.cells[i].pos = c.cells[i].pos + keep - end
        /\ d.kv[i] = [c.kv[i] EXCEPT !.pos = @ + (keep - end)]
    BY DEF Removed
  <2>2. c.cells[i].pos + keep - end = c.cells[i].pos - discard
    BY <1>2, <1>3
  <2> QED BY <2>1, <2>2
<1>5. \A i \in Holding(c.cells, s) :
        c.cells[i].pos < keep \/ c.cells[i].pos >= end => i \in Holding(d.cells, s)
  BY <1>0, <1>1, <1>2 DEF Gone
<1>6. w \in Seq(Tokens) /\ Len(w) = Len(a) - discard
  BY WithoutShorter
<1>7. \A p \in 0 .. Len(a) - discard - 1 : w[p + 1] = a[IF p < keep THEN p + 1 ELSE p + discard + 1]
  BY WithoutElements
<1> HIDE DEF w, end
<1>8. end = keep + discard
  BY DEF end
<1>9. ASSUME NEW i \in Holding(d.cells, s)
      PROVE  /\ d.cells[i].pos \in 0 .. Len(a) - discard - 1
             /\ c.cells[i].pos = IF d.cells[i].pos < keep THEN d.cells[i].pos ELSE d.cells[i].pos + discard
  <2>1. PICK o, p : o = c.cells[i].pos /\ p = d.cells[i].pos
    OBVIOUS
  <2>2. o \in Nat /\ o < Len(a) /\ ((o < keep /\ p = o) \/ (o >= keep + discard /\ p = o - discard))
    BY <1>2, <1>3, <1>4, <1>8, <2>1
  <2>3. p \in 0 .. Len(a) - discard - 1 /\ o = IF p < keep THEN p ELSE p + discard
    BY <1>0, <2>2
  <2> QED BY <2>1, <2>3
<1>10. Placed(d.cells, s, Len(w), Len(a) - discard)
  <2>1. \A i \in Holding(d.cells, s) : d.cells[i].pos < Len(a) - discard
    BY <1>0, <1>9
  <2>2. ASSUME NEW i \in Holding(d.cells, s), NEW j \in Holding(d.cells, s), d.cells[i].pos = d.cells[j].pos
        PROVE  i = j
    <3>1. c.cells[i].pos = c.cells[j].pos
      BY <1>9, <2>2
    <3> QED BY <1>3, <3>1 DEF Holds, Placed
  <2>3. ASSUME NEW p \in 0 .. Len(w) - 1 PROVE \E i \in Holding(d.cells, s) : d.cells[i].pos = p
    <3>1. PICK o \in Nat : o = IF p < keep THEN p ELSE p + discard
      OBVIOUS
    <3>2. o \in 0 .. Len(a) - 1 /\ (o < keep \/ o >= end)
      BY <1>0, <1>6, <1>8, <3>1
    <3>3. PICK i \in Holding(c.cells, s) : c.cells[i].pos = o
      BY <3>2 DEF Holds, Placed
    <3>4. i \in Holding(d.cells, s)
      BY <1>5, <3>2, <3>3
    <3>5. d.cells[i].pos = p
      <4>1. PICK q : q = d.cells[i].pos
        OBVIOUS
      <4>2. q \in 0 .. Len(a) - discard - 1 /\ o = IF q < keep THEN q ELSE q + discard
        BY <1>9, <3>3, <3>4, <4>1
      <4>3. q = p
        BY <1>0, <1>6, <3>1, <4>2
      <4> QED BY <4>1, <4>3
    <3> QED BY <3>4, <3>5
  <2> QED BY <2>1, <2>2, <2>3 DEF Placed
<1>11. Matches(c.cells, c.kv, s, a) => Matches(d.cells, d.kv, s, w)
  <2> SUFFICES ASSUME Matches(c.cells, c.kv, s, a), NEW i \in Holding(d.cells, s)
               PROVE  d.kv[i] = [tok |-> w[d.cells[i].pos + 1], pos |-> d.cells[i].pos]
    BY DEF Matches
  <2>1. PICK o, p : o = c.cells[i].pos /\ p = d.cells[i].pos
    OBVIOUS
  <2>2. o \in Nat /\ o < Len(a) /\ p \in 0 .. Len(a) - discard - 1
    BY <1>2, <1>3, <1>9, <2>1
  <2>3. c.kv[i] = [tok |-> a[o + 1], pos |-> o]
    BY <1>2, <1>3, <2>1 DEF Matches
  <2>4. CASE o < keep /\ p = o /\ d.kv[i] = c.kv[i]
    <3>1. w[p + 1] = a[o + 1]
      BY <1>7, <2>2, <2>4
    <3> QED BY <2>1, <2>3, <2>4, <3>1
  <2>5. CASE o >= end /\ p = o - discard /\ d.kv[i] = [c.kv[i] EXCEPT !.pos = @ + (keep - end)]
    <3>1. ~(p < keep) /\ p + discard + 1 = o + 1 /\ o + (keep - end) = p
      BY <1>8, <2>2, <2>5
    <3>2. w[p + 1] = a[o + 1]
      BY <1>7, <2>2, <3>1
    <3>3. d.kv[i] = [tok |-> a[o + 1], pos |-> o + (keep - end)]
      <4>1. PICK x, v, z : x = c.kv[i] /\ v = a[o + 1] /\ z = o + (keep - end)
        OBVIOUS
      <4>2. d.kv[i] = [x EXCEPT !.pos = @ + (keep - end)] /\ x = [tok |-> v, pos |-> o]
        BY <2>3, <2>5, <4>1
      <4>3. d.kv[i] = [tok |-> v, pos |-> z]
        BY <4>1, <4>2
      <4> QED BY <4>1, <4>3
    <3> QED BY <2>1, <3>1, <3>2, <3>3
  <2> QED BY <1>4, <2>1, <2>4, <2>5
<1> QED BY <1>1, <1>10, <1>11 DEF Holds, w

(* What CopyPrefix does.                                                   *)
Prefixed(c, src, len) == {i \in Holding(c.cells, src) : c.cells[i].pos < len}
Copied(c, src, dst, len, d) ==
  /\ CacheT(d) /\ d.merged = c.merged /\ Spanned(d, dst)
  /\ Holding(d.cells, dst) = Prefixed(c, src, len)
  /\ \A t \in Slots \ {dst} : Holding(d.cells, t) = Holding(c.cells, t) /\ d.ranges[t] = c.ranges[t]
  /\ \A t \in Slots : \A i \in Holding(d.cells, t) : d.cells[i].pos = c.cells[i].pos /\ d.kv[i] = c.kv[i]

(* CopyPrefix gives dst the first len cells of src instead of its own.     *)
LEMMA CopyWorks ==
  ASSUME NEW c, CacheT(c), NEW src \in Slots, NEW dst \in Slots, src # dst, NEW len \in Nat
  PROVE  Copied(c, src, dst, len, CopyPrefix(c, src, dst, len))
<1> DEFINE shared == Prefixed(c, src, len)
           owners(i) == IF i \in shared THEN {dst} ELSE {}
           cells == [i \in Locs |-> [c.cells[i] EXCEPT !.seqs = (@ \ {dst}) \cup owners(i)]]
           range == Covering(NewRange, shared)
<1>1. CopyPrefix(c, src, dst, len) = Tidy([c EXCEPT !.cells = cells, !.ranges[dst] = range])
  BY DEF CopyPrefix, Prefixed
<1>2. /\ c = [cells |-> c.cells, ranges |-> c.ranges, kv |-> c.kv, mask |-> c.mask, merged |-> c.merged]
      /\ c.cells \in [Locs -> Cell] /\ c.ranges \in [Slots -> CellRange]
  BY DEF CacheT
<1>3. ASSUME NEW i \in Locs
      PROVE  /\ cells[i] \in Cell /\ cells[i].pos = c.cells[i].pos
             /\ cells[i].seqs = (c.cells[i].seqs \ {dst}) \cup owners(i)
  <2>1. PICK x, S : x = c.cells[i] /\ S = (x.seqs \ {dst}) \cup owners(i)
    OBVIOUS
  <2>2. x \in Cell /\ S \subseteq Slots
    BY <1>2, <2>1 DEF Cell
  <2>3. cells[i] = [x EXCEPT !.seqs = S]
    BY <2>1
  <2>4. cells[i] \in Cell /\ cells[i].pos = x.pos /\ cells[i].seqs = S
    BY <2>2, <2>3 DEF Cell
  <2> QED BY <2>1, <2>4
<1>4. cells \in [Locs -> Cell]
  BY <1>3
<1> HIDE DEF cells
<1>5. shared \subseteq Locs
  BY DEF Prefixed, Holding
<1>6. Holding(cells, dst) = shared
  BY <1>3, <1>5 DEF Holding
<1>7. \A t \in Slots \ {dst} : Holding(cells, t) = Holding(c.cells, t)
  BY <1>3 DEF Holding
<1>8. range \in CellRange /\ shared \subseteq Within(range)
  BY <1>5, SpanFits
<1> HIDE DEF range, shared
<1>9. PICK x, z, d : x = cells /\ z = range /\ d = [c EXCEPT !.cells = x, !.ranges[dst] = z]
  OBVIOUS
<1>10. /\ d.cells = x /\ d.kv = c.kv /\ d.ranges = [c.ranges EXCEPT ![dst] = z] /\ d.merged = c.merged
       /\ d = [cells |-> d.cells, ranges |-> d.ranges, kv |-> d.kv, mask |-> d.mask, merged |-> d.merged]
  BY <1>2, <1>9
<1>11. CacheT(d)
  BY <1>2, <1>4, <1>8, <1>9, <1>10 DEF CacheT
<1>12. PICK f : f = Tidy(d)
  OBVIOUS
<1>13. /\ CacheT(f) /\ f.ranges = d.ranges /\ f.merged = d.merged
       /\ \A t \in Slots : Holding(f.cells, t) = Holding(d.cells, t)
       /\ \A t \in Slots : \A i \in Holding(d.cells, t) : f.cells[i] = d.cells[i] /\ f.kv[i] = d.kv[i]
  BY <1>11, <1>12, TidyKeeps
<1>14. Spanned(f, dst)
  BY <1>2, <1>6, <1>8, <1>9, <1>10, <1>13 DEF Spanned
<1>15. \A t \in Slots : \A i \in Holding(f.cells, t) : f.cells[i].pos = c.cells[i].pos /\ f.kv[i] = c.kv[i]
  <2> SUFFICES ASSUME NEW t \in Slots, NEW i \in Holding(f.cells, t)
               PROVE  f.cells[i].pos = c.cells[i].pos /\ f.kv[i] = c.kv[i]
    OBVIOUS
  <2>1. i \in Locs /\ i \in Holding(d.cells, t)
    BY <1>13 DEF Holding
  <2> QED BY <1>3, <1>9, <1>10, <1>13, <2>1
<1>16. \A t \in Slots \ {dst} : Holding(f.cells, t) = Holding(c.cells, t) /\ f.ranges[t] = c.ranges[t]
  BY <1>2, <1>7, <1>9, <1>10, <1>13
<1>17. Holding(f.cells, dst) = shared
  BY <1>6, <1>9, <1>10, <1>13
<1>18. Copied(c, src, dst, len, f)
  BY <1>10, <1>13, <1>14, <1>15, <1>16, <1>17 DEF Copied, shared
<1> QED BY <1>1, <1>9, <1>12, <1>18

(* The destination then holds the prefix, the others what they held.       *)
LEMMA CopyHolds ==
  ASSUME NEW c, CacheT(c), NEW src \in Slots, NEW dst \in Slots, NEW n \in Nat,
         NEW d, Copied(c, src, dst, n, d),
         NEW a \in Seq(Tokens), n <= Len(a), NEW b, Holds(c, src, a, b)
  PROVE  Holds(d, dst, SubSeq(a, 1, n), n)
<1>1. /\ Holding(d.cells, dst) = Prefixed(c, src, n) /\ d.merged = c.merged /\ Spanned(d, dst)
      /\ \A i \in Holding(d.cells, dst) : d.cells[i].pos = c.cells[i].pos /\ d.kv[i] = c.kv[i]
  BY DEF Copied
<1>2. \A i \in Holding(d.cells, dst) :
        i \in Holding(c.cells, src) /\ c.cells[i].pos \in 0 .. n - 1 /\ c.cells[i].pos < Len(a)
  <2> SUFFICES ASSUME NEW i \in Holding(d.cells, dst)
               PROVE  /\ i \in Holding(c.cells, src) /\ c.cells[i].pos \in 0 .. n - 1
                      /\ c.cells[i].pos < Len(a)
    OBVIOUS
  <2>1. i \in Holding(c.cells, src) /\ c.cells[i].pos < n
    BY <1>1 DEF Prefixed
  <2>2. c.cells[i].pos \in Nat
    BY <2>1, Positions
  <2> QED BY <2>1, <2>2
<1>5. Len(SubSeq(a, 1, n)) = n /\ \A p \in 0 .. n - 1 : SubSeq(a, 1, n)[p + 1] = a[p + 1]
  BY SubSeqProperties
<1>6. Placed(d.cells, dst, n, n)
  <2>1. ASSUME NEW p \in 0 .. n - 1 PROVE \E i \in Holding(d.cells, dst) : d.cells[i].pos = p
    <3>1. p \in 0 .. Len(a) - 1 /\ p < n
      OBVIOUS
    <3>2. PICK i \in Holding(c.cells, src) : c.cells[i].pos = p
      BY <3>1 DEF Holds, Placed
    <3>3. i \in Holding(d.cells, dst)
      BY <1>1, <3>1, <3>2 DEF Prefixed
    <3> QED BY <1>1, <3>2, <3>3
  <2>2. \A i \in Holding(d.cells, dst) : d.cells[i].pos < n
    BY <1>1, <1>2
  <2>3. \A i, j \in Holding(d.cells, dst) : d.cells[i].pos = d.cells[j].pos => i = j
    BY <1>1, <1>2 DEF Holds, Placed
  <2> QED BY <2>1, <2>2, <2>3 DEF Placed
<1>7. Matches(c.cells, c.kv, src, a) => Matches(d.cells, d.kv, dst, SubSeq(a, 1, n))
  <2> SUFFICES ASSUME Matches(c.cells, c.kv, src, a), NEW i \in Holding(d.cells, dst)
               PROVE  d.kv[i] = [tok |-> SubSeq(a, 1, n)[d.cells[i].pos + 1], pos |-> d.cells[i].pos]
    BY DEF Matches
  <2>1. d.cells[i].pos = c.cells[i].pos /\ d.kv[i] = c.kv[i]
    BY <1>1
  <2>2. c.kv[i] = [tok |-> a[c.cells[i].pos + 1], pos |-> c.cells[i].pos]
    BY <1>2 DEF Matches
  <2>3. SubSeq(a, 1, n)[c.cells[i].pos + 1] = a[c.cells[i].pos + 1]
    BY <1>2, <1>5
  <2> QED BY <2>1, <2>2, <2>3
<1> QED BY <1>1, <1>5, <1>6, <1>7 DEF Holds

(* The other slots, src among them, keep what they hold.                   *)
LEMMA CopyKeeps ==
  ASSUME NEW c, NEW src \in Slots, NEW dst \in Slots, NEW n, NEW d, Copied(c, src, dst, n, d),
         NEW t \in Slots \ {dst}, NEW a, NEW b, Holds(c, t, a, b)
  PROVE  Holds(d, t, a, b)
<1>1. /\ Holding(d.cells, t) = Holding(c.cells, t) /\ d.ranges[t] = c.ranges[t] /\ d.merged = c.merged
      /\ \A i \in Holding(c.cells, t) : d.cells[i].pos = c.cells[i].pos /\ d.kv[i] = c.kv[i]
  BY DEF Copied
<1>2. Spanned(d, t)
  BY <1>1 DEF Holds, Spanned
<1> QED BY <1>1, <1>2, Unmoved

-----------------------------------------------------------------------------
(* Defragmentation.                                                        *)

(* A used cell moves to a free location, and what it holds with it.        *)
Moved(cells, kv, from, to, x, y) ==
  /\ from \in Locs /\ to \in Locs /\ to # from /\ to \in Free(cells)
  /\ x = [cells EXCEPT ![to] = cells[from], ![from] = EmptyCell]
  /\ y[to] = kv[from] /\ \A i \in Locs \ {to} : y[i] = kv[i]

(* Every slot keeps its cells, if at other locations.                      *)
LEMMA MovedKeeps ==
  ASSUME NEW cells \in [Locs -> Cell], NEW kv, NEW from, NEW to, NEW x, NEW y,
         Moved(cells, kv, from, to, x, y), NEW s \in Slots
  PROVE  /\ \A n, b : Placed(cells, s, n, b) => Placed(x, s, n, b)
         /\ \A a : Matches(cells, kv, s, a) => Matches(x, y, s, a)
<1>0. /\ from \in Locs /\ to \in Locs /\ to # from /\ cells[to].seqs = {}
      /\ x = [cells EXCEPT ![to] = cells[from], ![from] = EmptyCell]
      /\ y[to] = kv[from] /\ \A i \in Locs \ {to} : y[i] = kv[i]
  BY DEF Moved, Free
<1>1. x[to] = cells[from] /\ x[from].seqs = {} /\ \A i \in Locs : i # to /\ i # from => x[i] = cells[i]
  BY <1>0 DEF EmptyCell
<1> DEFINE old(i) == IF i = to THEN from ELSE i
<1>2. ASSUME NEW i \in Holding(x, s)
      PROVE  /\ old(i) \in Holding(cells, s) /\ x[i].pos = cells[old(i)].pos /\ y[i] = kv[old(i)]
             /\ i # from /\ i \in Locs
  BY <1>0, <1>1 DEF Holding
<1>3. ASSUME NEW j \in Holding(cells, s)
      PROVE  \E i \in Holding(x, s) : old(i) = j
  <2>1. j \in Locs /\ j # to
    BY <1>0 DEF Holding
  <2>2. CASE j = from
    <3>1. to \in Holding(x, s)
      BY <1>0, <1>1, <2>2 DEF Holding
    <3> QED BY <2>2, <3>1
  <2>3. CASE j # from
    <3>1. j \in Holding(x, s)
      BY <1>1, <2>1, <2>3 DEF Holding
    <3> QED BY <2>1, <3>1
  <2> QED BY <2>2, <2>3
<1>4. \A i, j \in Holding(x, s) : old(i) = old(j) => i = j
  BY <1>2
<1> HIDE DEF old
<1>5. ASSUME NEW n, NEW b, Placed(cells, s, n, b) PROVE Placed(x, s, n, b)
  <2>1. \A i \in Holding(x, s) : x[i].pos < b
    BY <1>2, <1>5 DEF Placed
  <2>2. \A i, j \in Holding(x, s) : x[i].pos = x[j].pos => i = j
    BY <1>2, <1>4, <1>5 DEF Placed
  <2>3. \A q \in 0 .. n - 1 : \E i \in Holding(x, s) : x[i].pos = q
    BY <1>2, <1>3, <1>5 DEF Placed
  <2> QED BY <2>1, <2>2, <2>3 DEF Placed
<1>6. ASSUME NEW a, Matches(cells, kv, s, a) PROVE Matches(x, y, s, a)
  <2> SUFFICES ASSUME NEW i \in Holding(x, s), x[i].pos < Len(a)
               PROVE  y[i] = [tok |-> a[x[i].pos + 1], pos |-> x[i].pos]
    BY DEF Matches
  <2>1. PICK j \in Holding(cells, s) : x[i].pos = cells[j].pos /\ y[i] = kv[j]
    BY <1>2
  <2> QED BY <1>6, <2>1 DEF Matches
<1> QED BY <1>5, <1>6

(* The tensors, once the block that is held back is moved.                 *)
Flushed(d) == MoveCells(d.c.kv, d.p.src, d.p.dst, d.p.len)

(* Where defrag is after it has looked at the locations before n.          *)
Defragging(c, d, n) ==
  /\ d = [c |-> d.c, src |-> d.src, p |-> d.p] /\ CacheT(d.c) /\ d.src \in Locs
  /\ \A i \in Locs : i > d.src => i \in Free(d.c.cells)
  /\ \A i \in Locs : i < n /\ i < d.src => i \notin Free(d.c.cells)
  /\ c.merged => d.c.merged
  /\ \A s \in Slots :
       /\ \A m, b : Placed(c.cells, s, m, b) => Placed(d.c.cells, s, m, b)
       /\ d.c.merged \/ \A a : Matches(c.cells, c.kv, s, a) => Matches(d.c.cells, Flushed(d), s, a)

(* One location.                                                           *)
LEMMA DefragNext ==
  ASSUME NEW c, NEW d, NEW n \in Locs, Defragging(c, d, n)
  PROVE  Defragging(c, DefragStep(d, n), n + 1)
<1> DEFINE used == {i \in n + 1 .. d.src : d.c.cells[i].seqs # {}}
           src == Max(used)
           extends == d.p.len > 0 /\ src = d.p.src - d.p.len /\ n = d.p.dst + d.p.len
           moved == [d EXCEPT !.src = src,
                         !.c.cells[n] = d.c.cells[src], !.c.cells[src] = EmptyCell]
<1>1. /\ Capacity \in Nat \ {0} /\ Locs = 0 .. Capacity - 1 /\ n \in Nat /\ n < Capacity
      /\ d.src \in Nat /\ d.src < Capacity
  BY CacheSize DEF Locs, Defragging
<1>2. /\ d = [c |-> d.c, src |-> d.src, p |-> d.p] /\ CacheT(d.c) /\ d.src \in Locs
      /\ \A i \in Locs : i > d.src => i \in Free(d.c.cells)
      /\ \A i \in Locs : i < n /\ i < d.src => i \notin Free(d.c.cells)
      /\ c.merged => d.c.merged
  BY DEF Defragging
<1>3. CASE n >= d.src \/ n \notin Free(d.c.cells)
  <2>1. DefragStep(d, n) = d
    BY <1>3 DEF DefragStep
  <2>2. \A i \in Locs : i < n + 1 /\ i < d.src => i \notin Free(d.c.cells)
    BY <1>1, <1>2, <1>3
  <2> QED BY <2>1, <2>2 DEF Defragging
<1>4. CASE n < d.src /\ n \in Free(d.c.cells) /\ used = {}
  <2>1. PICK e : e = DefragStep(d, n)
    OBVIOUS
  <2>2. e = [d EXCEPT !.src = n]
    <3>1. ~(n >= d.src)
      BY <1>1, <1>4
    <3> QED BY <1>4, <2>1, <3>1, Zenon DEF DefragStep
  <2>3. e.c = d.c /\ e.src = n /\ e.p = d.p /\ e = [c |-> e.c, src |-> e.src, p |-> e.p]
    BY <1>2, <2>2
  <2>4. \A i \in Locs : i > n => i \in Free(d.c.cells)
    BY <1>1, <1>2, <1>4 DEF Free
  <2>5. \A i \in Locs : i < n => i \notin Free(d.c.cells)
    BY <1>1, <1>2, <1>4
  <2>6. Flushed(e) = Flushed(d)
    BY <2>3 DEF Flushed
  <2>7. Defragging(c, e, n + 1)
    BY <2>3, <2>4, <2>5, <2>6 DEF Defragging
  <2> QED BY <2>1, <2>7
<1>5. CASE n < d.src /\ n \in Free(d.c.cells) /\ used # {}
  <2>1. used \subseteq 0 .. Capacity - 1 /\ Capacity - 1 \in Nat
    BY <1>1
  <2>2. src \in used /\ \A m \in used : m <= src
    <3> HIDE DEF used
    <3> QED BY <1>5, <2>1, MaxFound
  <2> HIDE DEF src
  <2>3. /\ src \in Locs /\ src > n /\ src <= d.src /\ src # n /\ src \in Nat
        /\ \A i \in Locs : i > src => i \in Free(d.c.cells)
    BY <1>1, <1>2, <2>1, <2>2 DEF Free
  <2>4. PICK r, x, z : r = src /\ x = [d.c.cells EXCEPT ![n] = d.c.cells[r], ![r] = EmptyCell]
                       /\ z = DefragStep(d, n)
    OBVIOUS
  <2>5. /\ d.c = [cells |-> d.c.cells, ranges |-> d.c.ranges, kv |-> d.c.kv, mask |-> d.c.mask,
                  merged |-> d.c.merged]
        /\ d.c.cells \in [Locs -> Cell] /\ d.c.ranges \in [Slots -> CellRange]
    BY <1>2 DEF CacheT
  <2>6. PICK f : f = [d EXCEPT !.src = r, !.c.cells[n] = d.c.cells[r], !.c.cells[r] = EmptyCell]
    OBVIOUS
  <2>7. /\ f.c = [d.c EXCEPT !.cells = x] /\ f.src = r /\ f.p = d.p
        /\ f = [c |-> f.c, src |-> f.src, p |-> f.p]
    BY <1>2, <2>4, <2>5, <2>6
  <2>7a. f.c = [cells |-> x, ranges |-> d.c.ranges, kv |-> d.c.kv, mask |-> d.c.mask,
                merged |-> d.c.merged]
    BY <2>5, <2>7
  <2>8. f = moved
    BY <2>4, <2>6
  <2>9. x \in [Locs -> Cell]
    <3>1. EmptyCell \in Cell
      BY DEF EmptyCell, Cell
    <3> QED BY <2>3, <2>4, <2>5, <3>1
  <2>10. /\ \A i \in Locs : i > r => i \in Free(x)
         /\ \A i \in Locs : i < n + 1 /\ i < r => i \notin Free(x)
    <3>1. r \in Locs /\ r > n /\ r <= d.src /\ n # r /\ n \in Nat /\ r \in Nat
      BY <1>1, <2>3, <2>4
    <3>2. x[n] = d.c.cells[r] /\ x[r] = EmptyCell /\ \A i \in Locs : i # n /\ i # r => x[i] = d.c.cells[i]
      BY <2>4, <2>5, <3>1
    <3>3. d.c.cells[r].seqs # {}
      BY <2>2, <2>4
    <3>4. \A i \in Locs : i > r => i # n /\ i # r /\ i \in Free(d.c.cells)
      BY <1>1, <2>3, <2>4, <3>1
    <3>5. \A i \in Locs : i < n + 1 /\ i < r /\ i # n => i # r /\ i \notin Free(d.c.cells)
      BY <1>1, <1>2, <3>1
    <3>6. \A i \in Locs : i > r => i \in Free(x)
      BY <3>2, <3>4 DEF Free
    <3>7. n \notin Free(x)
      BY <3>2, <3>3 DEF Free
    <3>8. \A i \in Locs : i < n + 1 /\ i < r /\ i # n => i \notin Free(x)
      BY <3>2, <3>5 DEF Free
    <3> QED BY <3>6, <3>7, <3>8
  <2>11. ASSUME NEW y, y[n] = Flushed(d)[r], \A i \in Locs \ {n} : y[i] = Flushed(d)[i],
                NEW s \in Slots
         PROVE  /\ \A m, b : Placed(c.cells, s, m, b) => Placed(x, s, m, b)
                /\ d.c.merged \/ \A a : Matches(c.cells, c.kv, s, a) => Matches(x, y, s, a)
    <3>1. PICK u, v : u = d.c.cells /\ v = Flushed(d)
      OBVIOUS
    <3>2. Moved(u, v, r, n, x, y) /\ u \in [Locs -> Cell]
      BY <1>5, <2>3, <2>4, <2>5, <2>11, <3>1 DEF Moved
    <3>3. /\ \A m, b : Placed(u, s, m, b) => Placed(x, s, m, b)
          /\ \A a : Matches(u, v, s, a) => Matches(x, y, s, a)
      BY <3>2, MovedKeeps
    <3> QED BY <3>1, <3>3 DEF Defragging
  <2>12. CASE extends
    <3>1. PICK w : w = [src |-> r, dst |-> d.p.dst, len |-> d.p.len + 1]
      OBVIOUS
    <3>2. z = [moved EXCEPT !.c.merged = TRUE, !.p = [src |-> src, dst |-> @.dst, len |-> @.len + 1]]
      <4>1. ~(n >= d.src)
        BY <1>1, <1>5
      <4> QED BY <1>5, <2>4, <2>12, <4>1 DEF DefragStep, src
    <3>3. z = [f EXCEPT !.c.merged = TRUE, !.p = w]
      BY <2>4, <2>7, <2>8, <3>1, <3>2
    <3>4. /\ z.c = [cells |-> x, ranges |-> d.c.ranges, kv |-> d.c.kv, mask |-> d.c.mask, merged |-> TRUE]
          /\ z.src = r /\ z = [c |-> z.c, src |-> z.src, p |-> z.p]
      BY <2>7, <2>7a, <3>3
    <3>5. CacheT(z.c) /\ z.c.cells = x /\ z.c.merged = TRUE /\ z.src \in Locs
      BY <2>3, <2>4, <2>5, <2>9, <3>4 DEF CacheT
    <3>6. \A s \in Slots : \A m, b : Placed(c.cells, s, m, b) => Placed(x, s, m, b)
      <4>1. PICK y : y = [i \in Locs |-> IF i = n THEN Flushed(d)[r] ELSE Flushed(d)[i]]
        OBVIOUS
      <4> QED BY <2>11, <4>1
    <3>7. Defragging(c, z, n + 1)
      BY <2>10, <3>4, <3>5, <3>6 DEF Defragging
    <3> QED BY <2>4, <3>7
  <2>13. CASE ~extends
    <3>1. PICK w, k : w = [src |-> r, dst |-> n, len |-> 1] /\ k = Flushed(d)
      OBVIOUS
    <3>2. z = [moved EXCEPT !.c.kv = MoveCells(@, d.p.src, d.p.dst, d.p.len),
                            !.p = [src |-> src, dst |-> n, len |-> 1]]
      <4>1. ~(n >= d.src)
        BY <1>1, <1>5
      <4> QED BY <1>5, <2>4, <2>13, <4>1 DEF DefragStep, src
    <3>3. z = [f EXCEPT !.c.kv = k, !.p = w]
      <4>1. z = [f EXCEPT !.c.kv = MoveCells(@, d.p.src, d.p.dst, d.p.len), !.p = w]
        BY <2>4, <2>8, <3>1, <3>2
      <4>2. f.c.kv = d.c.kv
        BY <2>7a
      <4>3. MoveCells(f.c.kv, d.p.src, d.p.dst, d.p.len) = k
        BY <3>1, <4>2 DEF Flushed
      <4> QED BY <4>1, <4>3
    <3>4. /\ z.c = [cells |-> x, ranges |-> d.c.ranges, kv |-> k, mask |-> d.c.mask, merged |-> d.c.merged]
          /\ z.src = r /\ z.p = w /\ z = [c |-> z.c, src |-> z.src, p |-> z.p]
      BY <2>7, <2>7a, <3>3
    <3>5. CacheT(z.c) /\ z.c.cells = x /\ z.c.merged = d.c.merged /\ z.src \in Locs /\ z.c.kv = k
      BY <2>3, <2>4, <2>5, <2>9, <3>4 DEF CacheT
    <3>6. PICK y : y = Flushed(z)
      OBVIOUS
    <3>7. y = MoveCells(k, r, n, 1)
      BY <3>1, <3>4, <3>5, <3>6 DEF Flushed
    <3>8. y[n] = k[r] /\ \A i \in Locs \ {n} : y[i] = k[i]
      <4>1. n .. n + 1 - 1 = {n} /\ r + (n - n) = r
        BY <1>1, <2>3, <2>4
      <4> QED BY <3>7, <4>1 DEF MoveCells
    <3>9. \A s \in Slots :
            /\ \A m, b : Placed(c.cells, s, m, b) => Placed(x, s, m, b)
            /\ d.c.merged \/ \A a : Matches(c.cells, c.kv, s, a) => Matches(x, y, s, a)
      BY <2>11, <3>1, <3>8
    <3>10. Defragging(c, z, n + 1)
      BY <1>2, <2>10, <3>4, <3>5, <3>6, <3>9 DEF Defragging
    <3> QED BY <2>4, <3>10
  <2> QED BY <2>12, <2>13
<1> QED BY <1>1, <1>3, <1>4, <1>5

(* The recursive function that Defrag is made of exists.                   *)
DefragStart(c) == [c |-> c, src |-> Capacity - 1, p |-> [src |-> 0, dst |-> 0, len |-> 0]]
Steps(c, m, f) ==
  f = [n \in 0 .. m |-> IF n = 0 THEN DefragStart(c) ELSE DefragStep(f[n - 1], n - 1)]

(* If there were a least number of steps without one, a step could be      *)
(* added to the ones before.                                               *)
LEMMA StepsExist ==
  ASSUME NEW c
  PROVE  \A m \in Nat : \E f : Steps(c, m, f)
<1> SUFFICES ASSUME NEW n \in Nat, ~ \E f : Steps(c, n, f) PROVE FALSE
  OBVIOUS
<1> DEFINE T == {k \in Nat : ~ \E f : Steps(c, k, f)}
<1>1. PICK m \in T : \A k \in T : m <= k
  <2>1. T \subseteq Nat /\ T # {}
    OBVIOUS
  <2> HIDE DEF T
  <2> QED BY <2>1, LeastElement
<1>2. CASE m = 0
  <2>1. Steps(c, 0, [k \in 0 .. 0 |-> DefragStart(c)])
    BY DEF Steps
  <2> QED BY <1>2, <2>1
<1>3. CASE m # 0
  <2>1. PICK f : Steps(c, m - 1, f)
    BY <1>1, <1>3
  <2> DEFINE g == [k \in 0 .. m |-> IF k = m THEN DefragStep(f[m - 1], m - 1) ELSE f[k]]
  <2>2. Steps(c, m, g)
    BY <1>3, <2>1 DEF Steps
  <2> QED BY <2>2
<1> QED BY <1>2, <1>3

(* Where the steps lead, by induction over their number.                   *)
LEMMA StepsTaken ==
  ASSUME NEW c, CacheT(c), NEW f, Steps(c, Capacity, f)
  PROVE  Defragging(c, f[Capacity], Capacity)
<1>1. /\ Capacity \in Nat \ {0} /\ Locs = 0 .. Capacity - 1
      /\ f = [n \in 0 .. Capacity |-> IF n = 0 THEN DefragStart(c) ELSE DefragStep(f[n - 1], n - 1)]
  BY CacheSize DEF Locs, Steps
<1>2. Defragging(c, f[0], 0)
  <2>1. PICK d : d = DefragStart(c)
    OBVIOUS
  <2>2. /\ d = [c |-> d.c, src |-> d.src, p |-> d.p] /\ d.c = c /\ d.src = Capacity - 1
        /\ d.p = [src |-> 0, dst |-> 0, len |-> 0]
    BY <2>1 DEF DefragStart
  <2>3. d.src \in Locs /\ \A i \in Locs : ~(i > d.src) /\ ~(i < 0)
    BY <1>1, <2>2
  <2>4. \A i \in Locs : Flushed(d)[i] = c.kv[i]
    <3>1. Flushed(d) = MoveCells(c.kv, 0, 0, 0)
      BY <2>2 DEF Flushed
    <3>2. \A i \in Locs : i \notin 0 .. 0 + 0 - 1
      OBVIOUS
    <3> QED BY <3>1, <3>2 DEF MoveCells
  <2>5. \A s \in Slots : \A a : Matches(c.cells, c.kv, s, a) => Matches(c.cells, Flushed(d), s, a)
    BY <2>4 DEF Matches, Holding
  <2>6. Defragging(c, d, 0)
    BY <2>2, <2>3, <2>5 DEF Defragging
  <2> QED BY <1>1, <2>1, <2>6
<1>3. ASSUME NEW n \in Locs, Defragging(c, f[n], n) PROVE Defragging(c, f[n + 1], n + 1)
  <2>1. n + 1 \in 0 .. Capacity /\ n + 1 # 0 /\ (n + 1) - 1 = n
    BY <1>1
  <2>2. f[n + 1] = DefragStep(f[n], n)
    BY <1>1, <2>1
  <2> QED BY <1>3, <2>2, DefragNext
<1>4. \A n \in 0 .. Capacity : Defragging(c, f[n], n)
  <2> SUFFICES ASSUME NEW b \in 0 .. Capacity, ~ Defragging(c, f[b], b) PROVE FALSE
    OBVIOUS
  <2> DEFINE T == {k \in 0 .. Capacity : ~ Defragging(c, f[k], k)}
  <2>1. PICK m \in T : \A k \in T : m <= k
    <3>1. T \subseteq Nat /\ T # {}
      BY CacheSize
    <3> HIDE DEF T
    <3> QED BY <3>1, LeastElement
  <2>2. m # 0
    BY <1>2
  <2>3. m - 1 \in Locs /\ m - 1 \in 0 .. Capacity /\ ~(m <= m - 1) /\ (m - 1) + 1 = m
    BY <1>1, <2>2
  <2>4. Defragging(c, f[m - 1], m - 1)
    BY <2>1, <2>3
  <2>5. Defragging(c, f[m], m)
    BY <1>3, <2>3, <2>4
  <2> QED BY <2>5
<1> QED BY <1>1, <1>4

(* Defrag leaves every slot what it holds, and the free cells at the end.  *)
Defragged(c, d) ==
  /\ CacheT(d) /\ (c.merged => d.merged)
  /\ \A s \in Slots : \A a, b : Holds(c, s, a, b) => Holds(d, s, a, b)
  /\ \E m \in 0 .. Capacity : Free(d.cells) = m .. Capacity - 1

(* It does so in any state of the cache.                                   *)
LEMMA DefragWorks ==
  ASSUME NEW c, CacheT(c)
  PROVE  Defragged(c, Defrag(c))
<1> DEFINE upTo == CHOOSE t : t = [n \in 0 .. Capacity |->
                     IF n = 0 THEN DefragStart(c) ELSE DefragStep(t[n - 1], n - 1)]
<1>0. Capacity \in Nat \ {0} /\ Locs = 0 .. Capacity - 1
  BY CacheSize DEF Locs
<1>1. Steps(c, Capacity, upTo)
  <2>1. \E f : Steps(c, Capacity, f)
    BY <1>0, StepsExist
  <2> QED BY <2>1 DEF Steps
<1>2. PICK d : d = upTo[Capacity]
  OBVIOUS
<1>3. Defrag(c) = Tidy([d.c EXCEPT !.kv = MoveCells(@, d.p.src, d.p.dst, d.p.len),
                                   !.ranges = [s \in Slots |-> Span(d.c.cells, s)]])
  BY <1>2 DEF Defrag, DefragStart
<1>4. Defragging(c, d, Capacity)
  BY <1>1, <1>2, StepsTaken
<1> HIDE DEF upTo
<1>5. PICK k, r, e : /\ k = Flushed(d) /\ r = [s \in Slots |-> Span(d.c.cells, s)]
                     /\ e = [d.c EXCEPT !.kv = k, !.ranges = r]
  OBVIOUS
<1>6. Defrag(c) = Tidy(e)
  BY <1>3, <1>5 DEF Flushed
<1>7. /\ CacheT(d.c) /\ d.src \in Locs
      /\ \A i \in Locs : i > d.src => i \in Free(d.c.cells)
      /\ \A i \in Locs : i < Capacity /\ i < d.src => i \notin Free(d.c.cells)
      /\ c.merged => d.c.merged
  BY <1>4 DEF Defragging
<1>8. /\ e.cells = d.c.cells /\ e.kv = k /\ e.ranges = r /\ e.merged = d.c.merged
      /\ e = [cells |-> e.cells, ranges |-> e.ranges, kv |-> e.kv, mask |-> e.mask, merged |-> e.merged]
  BY <1>5, <1>7 DEF CacheT
<1>9. r \in [Slots -> CellRange] /\ \A s \in Slots : Holding(e.cells, s) \subseteq Within(r[s])
  <2>1. \A s \in Slots : /\ Span(d.c.cells, s) \in CellRange
                         /\ Holding(d.c.cells, s) \subseteq Within(Span(d.c.cells, s))
    BY SpanFits DEF Span, Holding
  <2> QED BY <1>5, <1>8, <2>1
<1>10. CacheT(e)
  BY <1>7, <1>8, <1>9 DEF CacheT
<1>11. \A s \in Slots : \A a, b : Holds(c, s, a, b) => Holds(e, s, a, b)
  BY <1>4, <1>5, <1>7, <1>8, <1>9 DEF Holds, Defragging, Spanned
<1>12. \E m \in 0 .. Capacity : Free(e.cells) = m .. Capacity - 1
  <2>1. PICK m : m = IF d.src \in Free(e.cells) THEN d.src ELSE d.src + 1
    OBVIOUS
  <2>2. m \in 0 .. Capacity
    BY <1>0, <1>7, <2>1
  <2>3. \A i \in Locs : i \in Free(e.cells) <=> i >= m
    <3> SUFFICES ASSUME NEW i \in Locs PROVE i \in Free(e.cells) <=> i >= m
      OBVIOUS
    <3>1. d.src \in Nat /\ i \in Nat /\ i < Capacity
      BY <1>0, <1>7
    <3>2. CASE i > d.src
      BY <1>7, <1>8, <2>1, <3>1, <3>2
    <3>3. CASE i < d.src
      BY <1>7, <1>8, <2>1, <3>1, <3>3
    <3>4. CASE i = d.src
      BY <2>1, <3>1, <3>4
    <3> QED BY <3>1, <3>2, <3>3, <3>4
  <2>4. Free(e.cells) = m .. Capacity - 1
    BY <1>0, <2>2, <2>3 DEF Free
  <2> QED BY <2>2, <2>4
<1>13. PICK f : f = Tidy(e)
  OBVIOUS
<1>14. CacheT(f) /\ f.merged = e.merged /\ Free(f.cells) = Free(e.cells)
  BY <1>10, <1>13, TidyKeeps
<1>15. \A s \in Slots : \A a, b : Holds(e, s, a, b) => Holds(f, s, a, b)
  BY <1>10, <1>13, TidyHolds
<1>16. Defragged(c, f)
  BY <1>7, <1>8, <1>11, <1>12, <1>14, <1>15 DEF Defragged
<1> QED BY <1>6, <1>13, <1>16

-----------------------------------------------------------------------------
(* Room for every batch.                                                   *)

(* The sizes of intervals.                                                 *)
LEMMA IntervalSize ==
  ASSUME NEW n \in Nat
  PROVE  /\ IsFiniteSet(0 .. n - 1) /\ Cardinality(0 .. n - 1) = n
         /\ IsFiniteSet(1 .. n) /\ Cardinality(1 .. n) = n
<1>1. PICK m \in Int : m = n - 1
  OBVIOUS
<1>2. IsFiniteSet(0 .. m) /\ Cardinality(0 .. m) = IF 0 > m THEN 0 ELSE m - 0 + 1
  BY FS_Interval
<1>3. IsFiniteSet(1 .. n) /\ Cardinality(1 .. n) = IF 1 > n THEN 0 ELSE n - 1 + 1
  BY FS_Interval
<1> QED BY <1>1, <1>2, <1>3

(* Two functions into a set that give no value twice, and share none.      *)
LEMMA TwoImages ==
  ASSUME NEW S, NEW T, NEW G, IsFiniteSet(S), IsFiniteSet(T), IsFiniteSet(G),
         NEW f \in [S -> G], NEW g \in [T -> G],
         \A a, b \in S : f[a] = f[b] => a = b, \A a, b \in T : g[a] = g[b] => a = b,
         \A a \in S, b \in T : f[a] # g[b]
  PROVE  Cardinality(S) + Cardinality(T) <= Cardinality(G)
<1> DEFINE A == {f[x] : x \in S}
           B == {g[x] : x \in T}
<1>1. f \in [S -> A] /\ g \in [T -> B] /\ A \subseteq G /\ B \subseteq G /\ A \cap B = {}
  OBVIOUS
<1>2. (\A t \in A : \E a \in S : f[a] = t) /\ (\A t \in B : \E a \in T : g[a] = t)
  OBVIOUS
<1> HIDE DEF A, B
<1>3. IsFiniteSet(A) /\ Cardinality(A) = Cardinality(S)
  BY <1>1, <1>2, SameSize
<1>4. IsFiniteSet(B) /\ Cardinality(B) = Cardinality(T)
  BY <1>1, <1>2, SameSize
<1>5. Cardinality(A \cup B) = Cardinality(A) + Cardinality(B) - Cardinality(A \cap B)
  BY <1>3, <1>4, FS_Union
<1>6. Cardinality(A \cap B) = 0
  BY <1>1, FS_EmptySet
<1>7. Cardinality(A \cup B) <= Cardinality(G)
  <2>1. A \cup B \in SUBSET G
    BY <1>1
  <2> QED BY <2>1, FS_Subset
<1>8. Cardinality(A) \in Nat /\ Cardinality(B) \in Nat /\ Cardinality(G) \in Nat
  BY <1>3, <1>4, FS_CardinalityType
<1> QED BY <1>3, <1>4, <1>5, <1>6, <1>7, <1>8

(* The slots and seats that the lemmas below are about.                    *)
Shares(sl, sq) == SeatsOK(sl, sq) /\ InShare(sl, sq)

(* What a seat's sequence has.                                             *)
LEMMA SeatTypes ==
  ASSUME NEW sl, NEW sq, Shares(sl, sq), NEW i \in Seats, sq[i] # NoSeq
  PROVE  /\ sq[i].slot \in Slots /\ sl[sq[i].slot].inUse
         /\ sl[sq[i].slot].inputs \in Seq(Tokens) /\ sq[i].pendingInputs \in Seq(Tokens)
         /\ Len(sl[sq[i].slot].inputs) \in Nat /\ Len(sq[i].pendingInputs) \in Nat
         /\ Len(sl[sq[i].slot].inputs) + Len(sq[i].pendingInputs) <= NumCtx
<1>1. sq[i] \in Sequence /\ sl \in [Slots -> SlotOK] /\ UsedBySeats(sl, sq)
  BY DEF Shares, SeatsOK
<1>2. sq[i].slot \in Slots /\ sq[i].pendingInputs \in Seq(Tokens)
  BY <1>1 DEF Sequence
<1>3. sl[sq[i].slot].inUse /\ sl[sq[i].slot].inputs \in Seq(Tokens)
  BY <1>1, <1>2 DEF UsedBySeats, SlotOK
<1>4. Len(sl[sq[i].slot].inputs) + Len(sq[i].pendingInputs) <= NumCtx
  BY DEF Shares, InShare
<1>5. Len(sl[sq[i].slot].inputs) \in Nat /\ Len(sq[i].pendingInputs) \in Nat
  BY <1>2, <1>3, LenProperties
<1> QED BY <1>2, <1>3, <1>4, <1>5

(* Every cell lies in the share of each slot it belongs to, before the     *)
(* submitted inputs of that slot.                                          *)
LEMMA CellInShare ==
  ASSUME NEW c, NEW sl, NEW sq, Shares(sl, sq), Before(c, sl, sq),
         NEW s \in Slots, NEW i \in Holding(c.cells, s)
  PROVE  /\ c.cells[i].pos \in 0 .. NumCtx - 1
         /\ \A j \in Holding(c.cells, s) : c.cells[i].pos = c.cells[j].pos => i = j
         /\ \A k \in Seats : sq[k] # NoSeq /\ sq[k].slot = s => c.cells[i].pos < Len(sl[s].inputs)
<1>1. c.cells[i].pos \in Nat
  BY Positions DEF Before
<1>2. NumCtx \in Nat
  BY ContextSize
<1>3. CASE ~ sl[s].inUse
  <2>1. Holds(c, s, sl[s].inputs, NumCtx)
    BY <1>3 DEF Before, Idle
  <2>2. ~ \E k \in Seats : sq[k] # NoSeq /\ sq[k].slot = s
    BY <1>3 DEF Shares, SeatsOK, UsedBySeats
  <2>3. /\ c.cells[i].pos < NumCtx
        /\ \A j \in Holding(c.cells, s) : c.cells[i].pos = c.cells[j].pos => i = j
    BY <2>1 DEF Holds, Placed
  <2> QED BY <1>1, <1>2, <2>2, <2>3
<1>4. CASE sl[s].inUse
  <2>1. PICK k \in Seats : sq[k] # NoSeq /\ sq[k].slot = s
    BY <1>4 DEF Shares, SeatsOK, UsedBySeats
  <2>2. Holds(c, s, sl[s].inputs, Len(sl[s].inputs))
    BY <2>1 DEF Before
  <2>3. /\ c.cells[i].pos < Len(sl[s].inputs)
        /\ \A j \in Holding(c.cells, s) : c.cells[i].pos = c.cells[j].pos => i = j
    BY <2>2 DEF Holds, Placed
  <2>4. Len(sl[s].inputs) \in Nat /\ Len(sl[s].inputs) <= NumCtx
    <3>1. PICK m, n : m = Len(sl[s].inputs) /\ n = Len(sq[k].pendingInputs)
      OBVIOUS
    <3>2. m \in Nat /\ n \in Nat /\ m + n <= NumCtx
      BY <2>1, <3>1, SeatTypes
    <3>3. m <= NumCtx
      BY <1>2, <3>2
    <3> QED BY <3>1, <3>2, <3>3
  <2> QED BY <1>1, <1>2, <2>3, <2>4
<1> QED BY <1>3, <1>4

(* An input of the batch lies in the share of its slot, after the inputs   *)
(* that the cache holds.                                                   *)
LEMMA InputInShare ==
  ASSUME NEW sl, NEW sq, Shares(sl, sq),
         NEW b \in Seq(BatchInput), BatchOK(b, sl, sq), NEW k \in 1 .. Len(b)
  PROVE  /\ b[k].slot \in Slots /\ b[k].pos \in 0 .. NumCtx - 1
         /\ \E i \in Seats : /\ sq[i] # NoSeq /\ sq[i].slot = b[k].slot
                             /\ b[k].pos >= Len(sl[b[k].slot].inputs)
<1>1. b[k] \in BatchInput
  OBVIOUS
<1>2. PICK i \in Seats : sq[i] # NoSeq /\ FromSeat(b[k], sl[sq[i].slot].inputs, sq[i])
  BY DEF BatchOK
<1>3. PICK x, m, n : x = b[k].pos /\ m = Len(sl[sq[i].slot].inputs) /\ n = Len(sq[i].pendingInputs)
  OBVIOUS
<1>4. m \in Nat /\ n \in Nat /\ m + n <= NumCtx /\ NumCtx \in Nat /\ x \in Int
  BY <1>1, <1>2, <1>3, SeatTypes, ContextSize DEF BatchInput
<1>5. sq[i].slot = b[k].slot /\ x - m \in 0 .. n - 1
  BY <1>2, <1>3 DEF FromSeat
<1>6. x \in 0 .. NumCtx - 1 /\ x >= m
  BY <1>4, <1>5
<1>7. b[k].slot \in Slots
  BY <1>1 DEF BatchInput
<1> QED BY <1>2, <1>3, <1>5, <1>6, <1>7

(* So the cells in use and the batch are no more than the cache can hold.  *)
LEMMA BatchHasRoom ==
  ASSUME NEW c, NEW sl, NEW sq, Shares(sl, sq), Before(c, sl, sq),
         NEW b \in Seq(BatchInput), BatchOK(b, sl, sq)
  PROVE  /\ IsFiniteSet(Locs \ Free(c.cells))
         /\ Cardinality(Locs \ Free(c.cells)) + Len(b) <= Capacity
<1> DEFINE S == Locs \ Free(c.cells)
           T == 1 .. Len(b)
           G == Slots \X (0 .. NumCtx - 1)
           owner(i) == CHOOSE s \in Slots : i \in Holding(c.cells, s)
           f == [i \in S |-> <<owner(i), c.cells[i].pos>>]
           g == [k \in T |-> <<b[k].slot, b[k].pos>>]
<1>1. /\ Capacity \in Nat \ {0} /\ Locs = 0 .. Capacity - 1 /\ Parallel * NumCtx <= Capacity
      /\ NumCtx \in Nat \ {0} /\ Parallel \in Nat \ {0} /\ Len(b) \in Nat
  BY CacheSize, ContextSize DEF Locs
<1>2. IsFiniteSet(S) /\ IsFiniteSet(T) /\ Cardinality(T) = Len(b)
  <2>1. IsFiniteSet(Locs)
    BY <1>1, FS_Interval
  <2>2. IsFiniteSet(S)
    BY <2>1, FS_Difference
  <2>3. IsFiniteSet(T) /\ Cardinality(T) = Len(b)
    BY <1>1, IntervalSize
  <2> QED BY <2>2, <2>3
<1>3. IsFiniteSet(G) /\ Cardinality(G) = Parallel * NumCtx
  <2>1. IsFiniteSet(Slots) /\ Cardinality(Slots) = Parallel
    BY <1>1, IntervalSize DEF Slots
  <2>2. IsFiniteSet(0 .. NumCtx - 1) /\ Cardinality(0 .. NumCtx - 1) = NumCtx
    BY <1>1, IntervalSize
  <2> QED BY <2>1, <2>2, FS_Product
<1>4. ASSUME NEW i \in S PROVE owner(i) \in Slots /\ i \in Holding(c.cells, owner(i))
  <2>1. c.cells[i] \in Cell /\ c.cells[i].seqs # {} /\ i \in Locs
    BY DEF Free, Before, CacheT
  <2>2. \E s \in Slots : i \in Holding(c.cells, s)
    BY <2>1 DEF Holding, Cell
  <2> QED BY <2>2
<1> HIDE DEF owner
<1>5. f \in [S -> G]
  BY <1>4, CellInShare
<1>6. g \in [T -> G]
  BY InputInShare
<1>7. \A x, y \in S : f[x] = f[y] => x = y
  <2> SUFFICES ASSUME NEW x \in S, NEW y \in S, f[x] = f[y] PROVE x = y
    OBVIOUS
  <2>1. owner(x) = owner(y) /\ c.cells[x].pos = c.cells[y].pos
    OBVIOUS
  <2>2. x \in Holding(c.cells, owner(x)) /\ y \in Holding(c.cells, owner(x)) /\ owner(x) \in Slots
    BY <1>4, <2>1
  <2> QED BY <2>1, <2>2, CellInShare
<1>8. \A x, y \in T : g[x] = g[y] => x = y
  BY DEF BatchOK
<1>9. \A x \in S, k \in T : f[x] # g[k]
  <2> SUFFICES ASSUME NEW x \in S, NEW k \in T, f[x] = g[k] PROVE FALSE
    OBVIOUS
  <2>1. owner(x) = b[k].slot /\ c.cells[x].pos = b[k].pos
    OBVIOUS
  <2>2. PICK i \in Seats : /\ sq[i] # NoSeq /\ sq[i].slot = b[k].slot
                           /\ b[k].pos >= Len(sl[b[k].slot].inputs)
    BY InputInShare
  <2>3. c.cells[x].pos < Len(sl[owner(x)].inputs) /\ c.cells[x].pos \in Nat
    BY <1>4, <2>1, <2>2, CellInShare
  <2>4. Len(sl[owner(x)].inputs) \in Nat
    BY <2>1, <2>2, SeatTypes
  <2> QED BY <2>1, <2>2, <2>3, <2>4
<1> HIDE DEF f, g, G, T, S
<1>10. Cardinality(S) + Cardinality(T) <= Cardinality(G)
  BY <1>2, <1>3, <1>5, <1>6, <1>7, <1>8, <1>9, TwoImages
<1>11. Cardinality(S) \in Nat
  BY <1>2, FS_CardinalityType
<1>12. Cardinality(S) + Len(b) <= Capacity
  <2>1. Parallel * NumCtx \in Nat
    BY <1>1
  <2> QED BY <1>1, <1>2, <1>3, <1>10, <1>11, <2>1
<1> QED BY <1>2, <1>12 DEF S

(* A defragmentation keeps what Before says.                               *)
LEMMA DefragKeeps ==
  ASSUME NEW c, NEW sl, NEW sq, Shares(sl, sq), Before(c, sl, sq)
  PROVE  Before(Defrag(c), sl, sq)
<1>1. PICK d : d = Defrag(c)
  OBVIOUS
<1>2. CacheT(c) /\ Defragged(c, d)
  BY <1>1, DefragWorks DEF Before
<1>3. Idle(d, sl)
  BY <1>2 DEF Before, Idle, Defragged
<1>4. \A i \in Seats : sq[i] # NoSeq => sq[i].slot \in Slots
  BY SeatTypes
<1>5. \A i \in Seats : sq[i] # NoSeq =>
        Holds(d, sq[i].slot, sl[sq[i].slot].inputs, Len(sl[sq[i].slot].inputs))
  <2> SUFFICES ASSUME NEW i \in Seats, sq[i] # NoSeq
               PROVE  Holds(d, sq[i].slot, sl[sq[i].slot].inputs, Len(sl[sq[i].slot].inputs))
    OBVIOUS
  <2>1. Holds(c, sq[i].slot, sl[sq[i].slot].inputs, Len(sl[sq[i].slot].inputs))
    BY DEF Before
  <2>2. PICK s, a, b : s = sq[i].slot /\ a = sl[sq[i].slot].inputs /\ b = Len(sl[sq[i].slot].inputs)
    OBVIOUS
  <2>3. Holds(d, s, a, b)
    BY <1>2, <1>4, <2>1, <2>2 DEF Defragged
  <2> QED BY <2>2, <2>3
<1>6. CacheT(d)
  BY <1>2 DEF Defragged
<1>7. Before(d, sl, sq)
  BY <1>3, <1>5, <1>6 DEF Before
<1> QED BY <1>1, <1>7

(* After it, the batch fits.                                               *)
LEMMA RoomAfterDefrag ==
  ASSUME NEW c, NEW sl, NEW sq, Shares(sl, sq), Before(c, sl, sq),
         NEW b \in Seq(BatchInput), BatchOK(b, sl, sq), b # <<>>
  PROVE  StartLocs(Defrag(c).cells, Len(b)) # {}
<1>1. PICK d : d = Defrag(c)
  OBVIOUS
<1>2. Before(d, sl, sq) /\ Defragged(c, d)
  BY <1>1, DefragKeeps, DefragWorks DEF Before
<1>3. PICK m \in 0 .. Capacity : Free(d.cells) = m .. Capacity - 1
  BY <1>2 DEF Defragged
<1>4. Cardinality(Locs \ Free(d.cells)) + Len(b) <= Capacity
  BY <1>2, BatchHasRoom
<1>5. Capacity \in Nat \ {0} /\ Locs = 0 .. Capacity - 1 /\ Len(b) \in Nat \ {0} /\ m \in Nat
  <2>1. Len(b) \in Nat /\ Len(b) # 0
    BY EmptySeq
  <2> QED BY <2>1, CacheSize DEF Locs
<1>6. Locs \ Free(d.cells) = 0 .. m - 1
  BY <1>3, <1>5
<1>7. Cardinality(0 .. m - 1) = m
  BY <1>5, IntervalSize
<1>8. m + Len(b) <= Capacity
  BY <1>4, <1>6, <1>7
<1>9. m \in Locs /\ m .. m + Len(b) - 1 \subseteq Free(d.cells)
  BY <1>3, <1>5, <1>8
<1>10. m \in StartLocs(d.cells, Len(b))
  BY <1>8, <1>9 DEF StartLocs
<1> QED BY <1>1, <1>10

-----------------------------------------------------------------------------
(* Forward.                                                                *)

(* What an input may attend to: the cells of its own slot in the window.   *)
Attended(cells, x) ==
  {j \in Holding(cells, x.slot) : cells[j].pos <= x.pos /\ cells[j].pos >= x.pos - WindowSize}

At(loc, k) == loc + k - 1

(* The batch b is stored in d, from location loc on: that gives e.         *)
Put(d, b, loc, e) ==
  /\ CacheT(e) /\ e.merged = d.merged /\ loc \in Locs
  /\ \A k \in DOMAIN b :
       /\ At(loc, k) \in Free(d.cells)
       /\ e.cells[At(loc, k)] = [pos |-> b[k].pos, seqs |-> {b[k].slot}]
       /\ e.kv[At(loc, k)] = [tok |-> b[k].tok, pos |-> b[k].pos]
       /\ e.mask[k] = Attended(e.cells, b[k])
  /\ \A i \in Locs :
       \/ e.cells[i] = d.cells[i] /\ e.kv[i] = d.kv[i]
       \/ \E k \in DOMAIN b : i = At(loc, k)
  /\ \A s \in Slots : Spanned(e, s)

(* The mask shows nothing outside of the cache, and all cells of the slots *)
(* of the batch.                                                           *)
LEMMA MaskExact ==
  ASSUME NEW cells \in [Locs -> Cell], NEW ranges \in [Slots -> CellRange],
         \A s \in Slots : Holding(cells, s) \subseteq Within(ranges[s]),
         NEW U \in SUBSET Slots, NEW x, x.slot \in U, NEW span,
         span = [min |-> Min({ranges[s].min : s \in U}), max |-> Max({ranges[s].max : s \in U})]
  PROVE  Visible(cells, span, x) = Attended(cells, x)
<1> DEFINE A == {ranges[s].min : s \in U}
           B == {ranges[s].max : s \in U}
<1>1. /\ Capacity \in Nat \ {0} /\ Locs = 0 .. Capacity - 1
      /\ CachePadding \in Nat \ {0} /\ KvSize \in Nat /\ Capacity = RoundUp(KvSize, CachePadding)
  BY CacheSize, CausalCacheAssumption DEF Locs, Capacity
<1>2. \A s \in Slots : ranges[s].min \in Nat /\ ranges[s].max \in 0 .. Capacity - 1
  BY <1>1 DEF CellRange
<1>3. A \subseteq Nat /\ A # {} /\ B \subseteq 0 .. Capacity - 1 /\ B # {} /\ Capacity - 1 \in Nat
  BY <1>1, <1>2
<1>4. ranges[x.slot].min \in A /\ ranges[x.slot].max \in B /\ x.slot \in Slots
  OBVIOUS
<1>5. span.min = Min(A) /\ span.max = Max(B)
  OBVIOUS
<1> HIDE DEF A, B
<1>6. span.min \in Nat /\ span.min <= ranges[x.slot].min
  BY <1>3, <1>4, <1>5, MinFound
<1>7. span.max \in 0 .. Capacity - 1 /\ ranges[x.slot].max <= span.max
  BY <1>3, <1>4, <1>5, MaxFound
<1>8. PICK m, n : m = RoundDown(span.min, CachePadding) /\ n = RoundUp(span.max + 1, CachePadding)
  OBVIOUS
<1>9. m \in Nat /\ m <= span.min
  BY <1>1, <1>6, <1>8, Rounding
<1>10. n \in Nat /\ n >= span.max + 1 /\ n <= Capacity
  <2>0. PICK v : v = span.max
    OBVIOUS
  <2>1. PICK y \in Nat : y = span.max + 1
    <3>1. v \in 0 .. Capacity - 1
      BY <1>7, <2>0
    <3>2. v + 1 \in Nat
      BY <1>1, <3>1
    <3> QED BY <2>0, <3>2
  <2>2. y <= Capacity
    BY <1>1, <1>7, <2>1
  <2>3. n = RoundUp(y, CachePadding)
    BY <1>8, <2>1
  <2> QED BY <1>1, <2>1, <2>2, <2>3, Rounding, RoundingUp
<1>11. m .. n - 1 \subseteq Locs
  BY <1>1, <1>9, <1>10
<1>12. \A j \in Holding(cells, x.slot) : j \in m .. n - 1
  <2> SUFFICES ASSUME NEW j \in Holding(cells, x.slot) PROVE j \in m .. n - 1
    OBVIOUS
  <2>1. j \in ranges[x.slot].min .. ranges[x.slot].max /\ j \in Nat
    BY <1>1, <1>4 DEF Within, Holding
  <2> QED BY <1>1, <1>2, <1>4, <1>6, <1>7, <1>9, <1>10, <2>1, SMTT(40)
<1>13. Visible(cells, span, x) =
         {j \in m .. n - 1 : /\ x.slot \in cells[j].seqs
                             /\ cells[j].pos <= x.pos /\ cells[j].pos >= x.pos - WindowSize}
  BY <1>8 DEF Visible
<1> QED BY <1>11, <1>12, <1>13 DEF Attended, Holding

(* StartForward stores the batch.                                          *)
LEMMA ForwardPuts ==
  ASSUME NEW c, CacheT(c), CacheT(Defrag(c)),
         \A s \in Slots : Spanned(c, s) /\ Spanned(Defrag(c), s), NEW b \in Seq(BatchInput), b # <<>>,
         ~KvCacheFull(c, b), \A k \in 1 .. Len(b) : b[k].pos \in Nat
  PROVE  \E d, loc : /\ d = c \/ d = Defrag(c)
                     /\ Put(d, b, loc, StartForward(c, b))
<1> DEFINE n == Len(b)
           d == IF StartLocs(c.cells, n) = {} THEN Defrag(c) ELSE c
           loc == Min(StartLocs(d.cells, n))
           new == loc .. loc + n - 1
           input(i) == b[i - loc + 1]
           cells == [i \in Locs |-> IF i \notin new THEN d.cells[i]
                                    ELSE [pos |-> input(i).pos, seqs |-> {input(i).slot}]]
           ranges == [s \in Slots |-> Covering(d.ranges[s], {i \in new : input(i).slot = s})]
           used == {b[k].slot : k \in 1 .. n}
           span == [min |-> Min({ranges[s].min : s \in used}),
                    max |-> Max({ranges[s].max : s \in used})]
           kv == [i \in Locs |-> IF i \notin new THEN d.kv[i]
                                 ELSE [tok |-> input(i).tok, pos |-> input(i).pos]]
           mask == [k \in 1 .. n |-> Visible(cells, span, b[k])]
<1>1. PICK e : e = StartForward(c, b)
  OBVIOUS
<1>2. e = [d EXCEPT !.cells = cells, !.ranges = ranges,
                    !.kv = [i \in Locs |-> IF i \notin new THEN @[i]
                                           ELSE [tok |-> input(i).tok, pos |-> input(i).pos]],
                    !.mask = mask]
  BY <1>1 DEF StartForward
<1>3. e = [d EXCEPT !.cells = cells, !.ranges = ranges, !.kv = kv, !.mask = mask]
  BY <1>2
<1>4. CacheT(d) /\ StartLocs(d.cells, n) # {}
  BY DEF KvCacheFull
<1>5. PICK g : g = d
  OBVIOUS
<1>6. /\ g = [cells |-> g.cells, ranges |-> g.ranges, kv |-> g.kv, mask |-> g.mask, merged |-> g.merged]
      /\ g.cells \in [Locs -> Cell] /\ g.ranges \in [Slots -> CellRange]
  BY <1>4, <1>5 DEF CacheT
<1>7. /\ Capacity \in Nat \ {0} /\ Locs = 0 .. Capacity - 1 /\ n \in Nat
  BY CacheSize DEF Locs
<1>8. loc \in Locs /\ loc + n <= Capacity /\ new \subseteq Free(g.cells)
  <2>1. StartLocs(d.cells, n) \subseteq Nat
    BY <1>7 DEF StartLocs
  <2>2. loc \in StartLocs(d.cells, n)
    BY <1>4, <2>1, MinFound
  <2> QED BY <1>5, <2>2 DEF StartLocs
<1> HIDE DEF loc
<1>9. \A i \in new : /\ i - loc + 1 \in 1 .. n /\ i \in Locs
                     /\ input(i).slot \in Slots /\ input(i).pos \in Nat
  <2> SUFFICES ASSUME NEW i \in new
               PROVE  /\ i - loc + 1 \in 1 .. n /\ i \in Locs
                      /\ input(i).slot \in Slots /\ input(i).pos \in Nat
    OBVIOUS
  <2>1. i - loc + 1 \in 1 .. n
    BY <1>7, <1>8
  <2>2. i \in Locs
    BY <1>8 DEF Free
  <2>3. input(i) \in BatchInput /\ input(i).pos \in Nat
    BY <2>1
  <2> QED BY <2>1, <2>2, <2>3 DEF BatchInput
<1>10. \A k \in 1 .. n : loc + k - 1 \in new /\ (loc + k - 1) - loc + 1 = k /\ loc + k - 1 \in Locs
  BY <1>7, <1>8
<1>11. \A k \in 1 .. n : b[k].slot \in Slots
  <2>1. \A k \in 1 .. Len(b) : b[k] \in BatchInput
    OBVIOUS
  <2> QED BY <2>1 DEF BatchInput
<1>11a. \A i \in new : \E k \in 1 .. n : i = loc + k - 1
  <2> SUFFICES ASSUME NEW i \in new PROVE \E k \in 1 .. n : i = loc + k - 1
    OBVIOUS
  <2>1. i - loc + 1 \in 1 .. n /\ i = loc + (i - loc + 1) - 1
    BY <1>7, <1>8, <1>9
  <2> QED BY <2>1
<1> HIDE DEF n
<1>12. cells \in [Locs -> Cell]
  <2> SUFFICES ASSUME NEW i \in Locs PROVE cells[i] \in Cell
    OBVIOUS
  <2>1. CASE i \notin new
    BY <1>5, <1>6, <2>1
  <2>2. CASE i \in new
    <3>1. cells[i] = [pos |-> input(i).pos, seqs |-> {input(i).slot}]
      BY <2>2
    <3>2. input(i).pos \in Nat /\ input(i).slot \in Slots
      BY <1>9, <2>2
    <3> QED BY <3>1, <3>2 DEF Cell
  <2> QED BY <2>1, <2>2
<1>13. /\ \A i \in Locs : i \notin new => cells[i] = g.cells[i] /\ kv[i] = g.kv[i]
       /\ \A k \in 1 .. n : /\ cells[loc + k - 1] = [pos |-> b[k].pos, seqs |-> {b[k].slot}]
                             /\ kv[loc + k - 1] = [tok |-> b[k].tok, pos |-> b[k].pos]
  BY <1>5, <1>10
<1>14. ASSUME NEW s \in Slots
       PROVE  ranges[s] \in CellRange /\ Holding(cells, s) \subseteq Within(ranges[s])
  <2>1. PICK r, S : r = g.ranges[s] /\ S = {i \in new : input(i).slot = s}
    OBVIOUS
  <2>2. r \in CellRange /\ S \in SUBSET Locs /\ ranges[s] = Covering(r, S)
    BY <1>5, <1>6, <1>9, <2>1
  <2>3. /\ ranges[s] \in CellRange /\ S \subseteq Within(ranges[s])
        /\ Within(r) \subseteq Within(ranges[s])
    BY <2>2, CoveringFits
  <2>4. ASSUME NEW i \in Holding(cells, s) PROVE i \in S \/ i \in Within(r)
    <3>1. i \in Locs /\ s \in cells[i].seqs
      BY DEF Holding
    <3>2. CASE i \in new
      BY <2>1, <3>1, <3>2
    <3>3. CASE i \notin new
      BY <1>5, <1>13, <2>1, <3>1, <3>3 DEF Spanned, Holding
    <3> QED BY <3>2, <3>3
  <2> QED BY <2>3, <2>4
<1>15. ranges \in [Slots -> CellRange]
  BY <1>14
<1>16. used \in SUBSET Slots /\ \A k \in 1 .. n : b[k].slot \in used
  BY <1>11
<1>17. PICK x, r, v, w, u, t : /\ x = cells /\ r = ranges /\ v = kv /\ w = mask
                               /\ u = used /\ t = span
  OBVIOUS
<1>18. \A k \in 1 .. n : w[k] = Visible(x, t, b[k])
  BY <1>17
<1>19. t = [min |-> Min({r[s].min : s \in u}), max |-> Max({r[s].max : s \in u})]
  BY <1>17
<1> HIDE DEF cells, ranges, kv, mask, used, span
<1>20. \A k \in 1 .. n : w[k] = Attended(x, b[k])
  <2> SUFFICES ASSUME NEW k \in 1 .. n PROVE Visible(x, t, b[k]) = Attended(x, b[k])
    BY <1>18
  <2>1. /\ x \in [Locs -> Cell] /\ r \in [Slots -> CellRange] /\ u \in SUBSET Slots
        /\ \A s \in Slots : Holding(x, s) \subseteq Within(r[s])
    BY <1>12, <1>14, <1>15, <1>16, <1>17
  <2>2. PICK y : y = b[k]
    OBVIOUS
  <2>3. y.slot \in u
    BY <1>16, <1>17, <2>2
  <2>4. Visible(x, t, y) = Attended(x, y)
    BY <1>19, <2>1, <2>3, MaskExact
  <2> QED BY <2>2, <2>4
<1>21. /\ e.cells = x /\ e.ranges = r /\ e.kv = v /\ e.mask = w /\ e.merged = g.merged
       /\ e = [cells |-> e.cells, ranges |-> e.ranges, kv |-> e.kv, mask |-> e.mask, merged |-> e.merged]
  <2>1. e = [g EXCEPT !.cells = x, !.ranges = r, !.kv = v, !.mask = w]
    BY <1>3, <1>5, <1>17
  <2> QED BY <1>6, <2>1
<1>22. CacheT(e)
  BY <1>12, <1>15, <1>17, <1>21 DEF CacheT
<1>23. \A s \in Slots : Spanned(e, s)
  BY <1>14, <1>17, <1>21 DEF Spanned
<1>24. \A i \in Locs :
         \/ e.cells[i] = g.cells[i] /\ e.kv[i] = g.kv[i]
         \/ \E k \in 1 .. n : i = loc + k - 1
  BY <1>11a, <1>13, <1>17, <1>21
<1>25. \A k \in 1 .. n :
         /\ loc + k - 1 \in Free(g.cells)
         /\ e.cells[loc + k - 1] = [pos |-> b[k].pos, seqs |-> {b[k].slot}]
         /\ e.kv[loc + k - 1] = [tok |-> b[k].tok, pos |-> b[k].pos]
         /\ e.mask[k] = Attended(e.cells, b[k])
  BY <1>8, <1>10, <1>13, <1>17, <1>20, <1>21
<1>26. Put(g, b, loc, e)
  <2>1. DOMAIN b = 1 .. n
    BY LenProperties DEF n
  <2> QED BY <1>8, <1>21, <1>22, <1>23, <1>24, <1>25, <2>1 DEF Put, At
<1>27. g = c \/ g = Defrag(c)
  BY <1>5
<1> QED BY <1>1, <1>26, <1>27

(* The cells of a slot after that: the ones before, and the ones of its    *)
(* inputs in the batch.                                                    *)
Joined(d, b, loc, e, s) ==
  /\ \A i \in Holding(d.cells, s) :
       i \in Holding(e.cells, s) /\ e.cells[i] = d.cells[i] /\ e.kv[i] = d.kv[i]
  /\ \A k \in DOMAIN b : b[k].slot = s =>
       /\ At(loc, k) \in Holding(e.cells, s) /\ e.cells[At(loc, k)].pos = b[k].pos
       /\ e.kv[At(loc, k)] = [tok |-> b[k].tok, pos |-> b[k].pos]
  /\ \A i \in Holding(e.cells, s) :
       i \in Holding(d.cells, s) \/ \E k \in DOMAIN b : i = At(loc, k) /\ b[k].slot = s

(* This is what Put leads to.                                              *)
LEMMA PutCells ==
  ASSUME NEW d, NEW b \in Seq(BatchInput), NEW loc, NEW e, Put(d, b, loc, e), NEW s \in Slots
  PROVE  Joined(d, b, loc, e, s)
<1>1. \A k \in DOMAIN b :
        /\ At(loc, k) \in Locs /\ d.cells[At(loc, k)].seqs = {}
        /\ e.cells[At(loc, k)].pos = b[k].pos /\ e.cells[At(loc, k)].seqs = {b[k].slot}
        /\ e.kv[At(loc, k)] = [tok |-> b[k].tok, pos |-> b[k].pos]
  <2> SUFFICES ASSUME NEW k \in DOMAIN b
               PROVE  /\ At(loc, k) \in Locs /\ d.cells[At(loc, k)].seqs = {}
                      /\ e.cells[At(loc, k)].pos = b[k].pos /\ e.cells[At(loc, k)].seqs = {b[k].slot}
                      /\ e.kv[At(loc, k)] = [tok |-> b[k].tok, pos |-> b[k].pos]
    OBVIOUS
  <2>1. /\ At(loc, k) \in Free(d.cells)
        /\ e.cells[At(loc, k)] = [pos |-> b[k].pos, seqs |-> {b[k].slot}]
        /\ e.kv[At(loc, k)] = [tok |-> b[k].tok, pos |-> b[k].pos]
    BY DEF Put
  <2> QED BY <2>1 DEF Free
<1>2. \A i \in Locs :
        \/ e.cells[i] = d.cells[i] /\ e.kv[i] = d.kv[i]
        \/ \E k \in DOMAIN b : i = At(loc, k)
  BY DEF Put
<1>3. ASSUME NEW i \in Holding(d.cells, s)
      PROVE  i \in Holding(e.cells, s) /\ e.cells[i] = d.cells[i] /\ e.kv[i] = d.kv[i]
  <2>1. i \in Locs /\ s \in d.cells[i].seqs
    BY DEF Holding
  <2>2. ~ \E k \in DOMAIN b : i = At(loc, k)
    BY <1>1, <2>1
  <2>3. e.cells[i] = d.cells[i] /\ e.kv[i] = d.kv[i]
    BY <1>2, <2>1, <2>2
  <2> QED BY <2>1, <2>3 DEF Holding
<1>4. ASSUME NEW i \in Holding(e.cells, s)
      PROVE  i \in Holding(d.cells, s) \/ \E k \in DOMAIN b : i = At(loc, k) /\ b[k].slot = s
  <2>1. i \in Locs /\ s \in e.cells[i].seqs
    BY DEF Holding
  <2>2. CASE e.cells[i] = d.cells[i]
    BY <2>1, <2>2 DEF Holding
  <2>3. CASE \E k \in DOMAIN b : i = At(loc, k)
    <3>1. PICK k \in DOMAIN b : i = At(loc, k)
      BY <2>3
    <3>2. e.cells[i].seqs = {b[k].slot}
      BY <1>1, <3>1
    <3> QED BY <2>1, <3>1, <3>2
  <2> QED BY <1>2, <2>1, <2>2, <2>3
<1>5. \A k \in DOMAIN b : b[k].slot = s => At(loc, k) \in Holding(e.cells, s)
  BY <1>1 DEF Holding
<1> QED BY <1>1, <1>3, <1>4, <1>5 DEF Joined

(* The inputs x of a slot with their positions, in order after those of a. *)
Submits(b, s, a, x) ==
  /\ \A k \in DOMAIN b : b[k].slot = s =>
       b[k].pos - Len(a) \in 0 .. Len(x) - 1 /\ b[k].pos \in Nat /\ b[k].tok = x[b[k].pos - Len(a) + 1]
  /\ \A k, m \in DOMAIN b : b[k].slot = s /\ b[m].slot = s /\ b[k].pos = b[m].pos => k = m
  /\ \A p \in 0 .. Len(x) - 1 : \E k \in DOMAIN b : b[k].slot = s /\ b[k].pos = Len(a) + p

(* A slot then holds its submitted inputs, too.                            *)
LEMMA PutHolds ==
  ASSUME NEW d, CacheT(d), NEW b \in Seq(BatchInput), NEW loc, NEW e, Put(d, b, loc, e),
         NEW s \in Slots,
         NEW a \in Seq(Tokens), NEW x \in Seq(Tokens), Holds(d, s, a, Len(a)), Submits(b, s, a, x)
  PROVE  Holds(e, s, a \o x, Len(a) + Len(x))
<1>0. Joined(d, b, loc, e, s)
  BY PutCells
<1>1. PICK l, n : l = Len(a) /\ n = Len(x)
  OBVIOUS
<1>2. l \in Nat /\ n \in Nat
  BY <1>1
<1>3. /\ Len(a \o x) = l + n
      /\ \A p \in 0 .. l - 1 : (a \o x)[p + 1] = a[p + 1]
      /\ \A p \in l .. l + n - 1 : (a \o x)[p + 1] = x[p - l + 1]
  <2>1. /\ Len(a \o x) = Len(a) + Len(x)
        /\ \A i \in 1 .. Len(a) + Len(x) : (a \o x)[i] = IF i <= Len(a) THEN a[i] ELSE x[i - Len(a)]
    BY ConcatProperties
  <2>2. \A p \in 0 .. l - 1 : p + 1 \in 1 .. l + n /\ p + 1 <= l
    BY <1>2
  <2>3. \A p \in l .. l + n - 1 : p + 1 \in 1 .. l + n /\ ~(p + 1 <= l) /\ p + 1 - l = p - l + 1
    BY <1>2
  <2> QED BY <1>1, <2>1, <2>2, <2>3
<1>4. ASSUME NEW i \in Holding(d.cells, s)
      PROVE  /\ i \in Holding(e.cells, s) /\ e.cells[i] = d.cells[i] /\ e.kv[i] = d.kv[i]
             /\ e.cells[i].pos \in 0 .. l - 1
  <2>1. i \in Holding(e.cells, s) /\ e.cells[i] = d.cells[i] /\ e.kv[i] = d.kv[i]
    BY <1>0 DEF Joined
  <2>2. d.cells[i].pos \in Nat /\ d.cells[i].pos < l
    BY <1>1, Positions DEF Holds, Placed
  <2> QED BY <1>2, <2>1, <2>2
<1>5. ASSUME NEW k \in DOMAIN b, b[k].slot = s
      PROVE  /\ At(loc, k) \in Holding(e.cells, s) /\ e.cells[At(loc, k)].pos = b[k].pos
             /\ b[k].pos \in l .. l + n - 1
             /\ e.kv[At(loc, k)] = [tok |-> x[b[k].pos - l + 1], pos |-> b[k].pos]
  <2>1. /\ At(loc, k) \in Holding(e.cells, s) /\ e.cells[At(loc, k)].pos = b[k].pos
        /\ e.kv[At(loc, k)] = [tok |-> b[k].tok, pos |-> b[k].pos]
    BY <1>0, <1>5 DEF Joined
  <2>2. b[k].pos - l \in 0 .. n - 1 /\ b[k].pos \in Nat /\ b[k].tok = x[b[k].pos - l + 1]
    BY <1>1, <1>5 DEF Submits
  <2>3. b[k].pos \in l .. l + n - 1
    BY <1>2, <2>2
  <2> QED BY <2>1, <2>2, <2>3
<1>6. \A i \in Holding(e.cells, s) :
        i \in Holding(d.cells, s) \/ \E k \in DOMAIN b : i = At(loc, k) /\ b[k].slot = s
  BY <1>0 DEF Joined
<1>7. Placed(e.cells, s, l + n, l + n)
  <2>1. ASSUME NEW i \in Holding(e.cells, s) PROVE e.cells[i].pos < l + n
    <3>1. e.cells[i].pos \in 0 .. l - 1 \/ e.cells[i].pos \in l .. l + n - 1
      <4>1. CASE i \in Holding(d.cells, s)
        BY <1>4, <4>1
      <4>2. CASE i \notin Holding(d.cells, s)
        <5>1. PICK k \in DOMAIN b : i = At(loc, k) /\ b[k].slot = s
          BY <1>6, <4>2
        <5> QED BY <1>5, <5>1
      <4> QED BY <4>1, <4>2
    <3> QED BY <1>2, <3>1
  <2>2. ASSUME NEW i \in Holding(e.cells, s), NEW j \in Holding(e.cells, s), e.cells[i].pos = e.cells[j].pos
        PROVE  i = j
    <3>1. CASE i \in Holding(d.cells, s) /\ j \in Holding(d.cells, s)
      BY <1>4, <2>2, <3>1 DEF Holds, Placed
    <3>2. ASSUME NEW k \in DOMAIN b, b[k].slot = s, NEW m \in DOMAIN b, b[m].slot = s,
                 i = At(loc, k), j = At(loc, m)
          PROVE  i = j
      <4>1. b[k].pos = b[m].pos
        BY <1>5, <2>2, <3>2
      <4>2. k = m
        BY <3>2, <4>1 DEF Submits
      <4> QED BY <3>2, <4>2
    <3>3. \A p \in 0 .. l - 1 : p \notin l .. l + n - 1
      BY <1>2
    <3>4. CASE i \in Holding(d.cells, s) /\ j \notin Holding(d.cells, s)
      <4>1. PICK k \in DOMAIN b : j = At(loc, k) /\ b[k].slot = s
        BY <1>6, <3>4
      <4>2. e.cells[j].pos \in l .. l + n - 1 /\ e.cells[i].pos \in 0 .. l - 1
        BY <1>4, <1>5, <3>4, <4>1
      <4> QED BY <2>2, <3>3, <4>2
    <3>5. CASE i \notin Holding(d.cells, s) /\ j \in Holding(d.cells, s)
      <4>1. PICK k \in DOMAIN b : i = At(loc, k) /\ b[k].slot = s
        BY <1>6, <3>5
      <4>2. e.cells[i].pos \in l .. l + n - 1 /\ e.cells[j].pos \in 0 .. l - 1
        BY <1>4, <1>5, <3>5, <4>1
      <4> QED BY <2>2, <3>3, <4>2
    <3> QED BY <1>6, <3>1, <3>2, <3>4, <3>5
  <2>3. ASSUME NEW p \in 0 .. l + n - 1 PROVE \E i \in Holding(e.cells, s) : e.cells[i].pos = p
    <3>1. CASE p < l
      <4>1. p \in 0 .. Len(a) - 1
        BY <1>1, <1>2, <3>1
      <4>2. PICK i \in Holding(d.cells, s) : d.cells[i].pos = p
        BY <4>1 DEF Holds, Placed
      <4> QED BY <1>4, <4>2
    <3>2. CASE ~(p < l)
      <4>1. p - l \in 0 .. Len(x) - 1 /\ Len(a) + (p - l) = p
        BY <1>1, <1>2, <3>2
      <4>2. PICK k \in DOMAIN b : b[k].slot = s /\ b[k].pos = p
        BY <4>1 DEF Submits
      <4>3. At(loc, k) \in Holding(e.cells, s) /\ e.cells[At(loc, k)].pos = p
        BY <1>5, <4>2
      <4> QED BY <4>3
    <3> QED BY <3>1, <3>2
  <2> QED BY <1>2, <2>1, <2>2, <2>3 DEF Placed
<1>8. Matches(d.cells, d.kv, s, a) => Matches(e.cells, e.kv, s, a \o x)
  <2> SUFFICES ASSUME Matches(d.cells, d.kv, s, a), NEW i \in Holding(e.cells, s)
               PROVE  e.kv[i] = [tok |-> (a \o x)[e.cells[i].pos + 1], pos |-> e.cells[i].pos]
    BY DEF Matches
  <2>1. CASE i \in Holding(d.cells, s)
    <3>1. e.cells[i].pos \in 0 .. l - 1 /\ e.cells[i] = d.cells[i] /\ e.kv[i] = d.kv[i]
      BY <1>4, <2>1
    <3>2. PICK p \in 0 .. l - 1 : p = e.cells[i].pos
      BY <3>1
    <3>3. p < Len(a)
      BY <1>1, <1>2
    <3>4. e.kv[i] = [tok |-> a[p + 1], pos |-> p]
      BY <2>1, <3>1, <3>2, <3>3 DEF Matches
    <3> QED BY <1>3, <3>2, <3>4
  <2>2. CASE \E k \in DOMAIN b : i = At(loc, k) /\ b[k].slot = s
    <3>1. PICK k \in DOMAIN b : i = At(loc, k) /\ b[k].slot = s
      BY <2>2
    <3>2. PICK p \in l .. l + n - 1 : p = b[k].pos
      BY <1>5, <3>1
    <3>3. e.cells[i].pos = p /\ e.kv[i] = [tok |-> x[p - l + 1], pos |-> p]
      BY <1>5, <3>1, <3>2
    <3> QED BY <1>3, <3>3
  <2> QED BY <1>6, <2>1, <2>2
<1>9. Spanned(e, s) /\ e.merged = d.merged
  BY DEF Put
<1> QED BY <1>1, <1>3, <1>7, <1>8, <1>9 DEF Holds

(* What BatchOK says of one sequence.                                      *)
LEMMA SeatSubmits ==
  ASSUME NEW sl, NEW sq, Shares(sl, sq), NEW b \in Seq(BatchInput), BatchOK(b, sl, sq),
         NEW i \in Seats, sq[i] # NoSeq
  PROVE  Submits(b, sq[i].slot, sl[sq[i].slot].inputs, sq[i].pendingInputs)
<1>1. ASSUME NEW k \in 1 .. Len(b), b[k].slot = sq[i].slot
      PROVE  FromSeat(b[k], sl[sq[i].slot].inputs, sq[i]) /\ b[k].pos \in Nat
  <2>1. PICK j \in Seats : sq[j] # NoSeq /\ FromSeat(b[k], sl[sq[j].slot].inputs, sq[j])
    BY DEF BatchOK
  <2>2. sq[j].slot = sq[i].slot
    BY <1>1, <2>1 DEF FromSeat
  <2>3. j = i
    BY <2>1, <2>2 DEF Shares, SeatsOK, Apart
  <2>4. b[k].pos \in 0 .. NumCtx - 1
    BY InputInShare
  <2> QED BY <2>1, <2>3, <2>4, ContextSize
<1>2. DOMAIN b = 1 .. Len(b)
  BY LenProperties
<1>3. \A k \in DOMAIN b : b[k].slot = sq[i].slot =>
        FromSeat(b[k], sl[sq[i].slot].inputs, sq[i]) /\ b[k].pos \in Nat
  BY <1>1, <1>2
<1>4. /\ \A k, m \in DOMAIN b : b[k].slot = b[m].slot /\ b[k].pos = b[m].pos => k = m
      /\ \A p \in 0 .. Len(sq[i].pendingInputs) - 1 :
           \E k \in DOMAIN b : b[k].slot = sq[i].slot /\ b[k].pos = Len(sl[sq[i].slot].inputs) + p
  BY <1>2 DEF BatchOK
<1> QED BY <1>3, <1>4 DEF Submits, FromSeat

(* All slots, when the batch has the submitted inputs of the sequences.    *)
LEMMA PutAll ==
  ASSUME NEW sl, NEW sq, Shares(sl, sq), NEW d, Before(d, sl, sq),
         NEW b \in Seq(BatchInput), BatchOK(b, sl, sq), NEW loc, NEW e, Put(d, b, loc, e)
  PROVE  After(e, sl, sq)
<1>1. CacheT(d) /\ CacheT(e) /\ e.merged = d.merged /\ \A s \in Slots : Spanned(e, s)
  BY DEF Before, Put
<1>2. ASSUME NEW s \in Slots, ~ sl[s].inUse PROVE Holds(e, s, sl[s].inputs, NumCtx)
  <2>1. \A k \in DOMAIN b : b[k].slot # s
    <3> SUFFICES ASSUME NEW k \in 1 .. Len(b), b[k].slot = s PROVE FALSE
      BY LenProperties
    <3>1. PICK i \in Seats : sq[i] # NoSeq /\ FromSeat(b[k], sl[sq[i].slot].inputs, sq[i])
      BY DEF BatchOK
    <3>2. sq[i].slot = s
      BY <3>1 DEF FromSeat
    <3> QED BY <1>2, <3>1, <3>2, SeatTypes
  <2>2. /\ \A i \in Holding(d.cells, s) :
             i \in Holding(e.cells, s) /\ e.cells[i] = d.cells[i] /\ e.kv[i] = d.kv[i]
        /\ \A i \in Holding(e.cells, s) : i \in Holding(d.cells, s)
    <3>1. Joined(d, b, loc, e, s)
      BY PutCells
    <3> QED BY <2>1, <3>1 DEF Joined
  <2>3. Holding(e.cells, s) = Holding(d.cells, s)
    BY <2>2
  <2>4. Holds(d, s, sl[s].inputs, NumCtx)
    BY <1>2 DEF Before, Idle
  <2>5. PICK a, m : a = sl[s].inputs /\ m = NumCtx
    OBVIOUS
  <2>6. Holds(e, s, a, m)
    BY <1>1, <2>2, <2>3, <2>4, <2>5, Unmoved
  <2> QED BY <2>5, <2>6
<1>3. ASSUME NEW i \in Seats, sq[i] # NoSeq
      PROVE  Holds(e, sq[i].slot, sl[sq[i].slot].inputs \o sq[i].pendingInputs,
                   Len(sl[sq[i].slot].inputs) + Len(sq[i].pendingInputs))
  <2>1. PICK s, a, x : s = sq[i].slot /\ a = sl[sq[i].slot].inputs /\ x = sq[i].pendingInputs
    OBVIOUS
  <2>2. s \in Slots /\ a \in Seq(Tokens) /\ x \in Seq(Tokens)
    BY <1>3, <2>1, SeatTypes
  <2>3. Holds(d, s, a, Len(a))
    BY <1>3, <2>1 DEF Before
  <2>4. Submits(b, s, a, x)
    BY <1>3, <2>1, SeatSubmits
  <2>5. Holds(e, s, a \o x, Len(a) + Len(x))
    BY <1>1, <2>2, <2>3, <2>4, PutHolds
  <2> QED BY <2>1, <2>5
<1> QED BY <1>1, <1>2, <1>3 DEF After, Idle

-----------------------------------------------------------------------------
(* Attention.                                                              *)

(* What an input at position pos attends to in a slot that holds y, and    *)
(* what it should: the inputs of z, which begins with y.                   *)
Window(pos) == Max({0, pos - WindowSize}) .. pos
Wanted(z, pos) == {[tok |-> z[p + 1], pos |-> p] : p \in Window(pos)}
Exact(e, M, P) ==
  /\ {e.cells[j].pos : j \in M} = {d.pos : d \in P} /\ Cardinality(M) = Cardinality(P)
  /\ e.merged \/ {e.kv[j] : j \in M} = P

(* A number that is not negative.                                          *)
LEMMA MaxOfZero ==
  ASSUME NEW m \in Int
  PROVE  Max({0, m}) = IF m > 0 THEN m ELSE 0
<1>1. PICK n : n = IF m > 0 THEN m ELSE 0
  OBVIOUS
<1>2. n \in {0, m} /\ n \in Int /\ \A k \in {0, m} : n >= k
  BY <1>1
<1>3. Max({0, m}) \in {0, m} /\ \A k \in {0, m} : Max({0, m}) >= k
  BY <1>2 DEF Max
<1> QED BY <1>1, <1>2, <1>3

(* It attends to just that.                                                *)
LEMMA AttendsExactly ==
  ASSUME NEW e, CacheT(e), NEW y \in Seq(Tokens), NEW x, x.slot \in Slots,
         Holds(e, x.slot, y, Len(y)), x.pos \in 0 .. Len(y) - 1,
         NEW z, \A p \in 0 .. Len(y) - 1 : z[p + 1] = y[p + 1]
  PROVE  Exact(e, Attended(e.cells, x), Wanted(z, x.pos))
<1>1. PICK s, pos, l, M, P, W :
        /\ s = x.slot /\ pos = x.pos /\ l = Len(y) /\ M = Attended(e.cells, x)
        /\ P = Wanted(z, x.pos) /\ W = Window(pos)
  OBVIOUS
<1>2. s \in Slots /\ pos \in 0 .. l - 1 /\ l \in Nat /\ WindowSize \in Nat /\ pos \in Nat
  BY <1>1, CausalCacheAssumption
<1>3. \A p \in Nat : p \in W <=> p <= pos /\ p >= pos - WindowSize
  <2>1. PICK m \in Int : m = pos - WindowSize
    BY <1>2
  <2>2. Max({0, m}) = IF m > 0 THEN m ELSE 0
    BY <2>1, MaxOfZero
  <2>3. W = Max({0, m}) .. pos
    BY <1>1, <2>1 DEF Window
  <2> QED BY <1>2, <2>1, <2>2, <2>3
<1>4. W \subseteq 0 .. l - 1
  <2>1. PICK m \in Int : m = pos - WindowSize
    BY <1>2
  <2>2. Max({0, m}) = IF m > 0 THEN m ELSE 0
    BY <2>1, MaxOfZero
  <2>3. W = Max({0, m}) .. pos
    BY <1>1, <2>1 DEF Window
  <2> QED BY <1>2, <2>1, <2>2, <2>3
<1>5. P = {[tok |-> z[p + 1], pos |-> p] : p \in W}
  BY <1>1 DEF Wanted
<1>6. M = {j \in Holding(e.cells, s) : e.cells[j].pos <= pos /\ e.cells[j].pos >= pos - WindowSize}
  BY <1>1 DEF Attended
<1>7. \A j \in Holding(e.cells, s) : e.cells[j].pos \in Nat
  BY <1>2, Positions
<1>8. M = {j \in Holding(e.cells, s) : e.cells[j].pos \in W}
  BY <1>3, <1>6, <1>7
<1>9. Placed(e.cells, s, l, l) /\ (e.merged \/ Matches(e.cells, e.kv, s, y))
  BY <1>1 DEF Holds
<1>10. \A p \in W : \E j \in M : e.cells[j].pos = p
  BY <1>4, <1>8, <1>9 DEF Placed
<1>11. {e.cells[j].pos : j \in M} = W
  BY <1>8, <1>10
<1>12. {d.pos : d \in P} = W
  <2>1. \A d \in P : d.pos \in W
    BY <1>5
  <2>2. ASSUME NEW p \in W PROVE \E d \in P : d.pos = p
    <3>1. PICK d : d = [tok |-> z[p + 1], pos |-> p]
      OBVIOUS
    <3>2. d \in P /\ d.pos = p
      BY <1>5, <3>1
    <3> QED BY <3>2
  <2> QED BY <2>1, <2>2
<1>13. Cardinality(M) = Cardinality(P)
  <2> DEFINE f == [j \in M |-> [tok |-> z[e.cells[j].pos + 1], pos |-> e.cells[j].pos]]
  <2>1. f \in [M -> P]
    BY <1>5, <1>8
  <2>2. ASSUME NEW i \in M, NEW j \in M, f[i] = f[j] PROVE i = j
    <3>1. f[i].pos = e.cells[i].pos /\ f[j].pos = e.cells[j].pos
      OBVIOUS
    <3>2. e.cells[i].pos = e.cells[j].pos
      BY <2>2, <3>1
    <3> QED BY <1>8, <1>9, <3>2 DEF Placed
  <2>3. \A t \in P : \E j \in M : f[j] = t
    BY <1>5, <1>10
  <2>4. IsFiniteSet(M)
    <3>1. IsFiniteSet(Locs)
      BY CacheSize, IntervalSize DEF Locs
    <3>2. M \in SUBSET Locs
      BY <1>8 DEF Holding
    <3> QED BY <3>1, <3>2, FS_Subset
  <2> HIDE DEF f
  <2> QED BY <2>1, <2>2, <2>3, <2>4, SameSize
<1>14. ASSUME ~ e.merged PROVE {e.kv[j] : j \in M} = P
  <2>1. ASSUME NEW j \in M PROVE e.kv[j] = [tok |-> z[e.cells[j].pos + 1], pos |-> e.cells[j].pos]
    <3>1. j \in Holding(e.cells, s) /\ e.cells[j].pos \in 0 .. l - 1
      BY <1>4, <1>8
    <3>2. e.cells[j].pos < Len(y)
      BY <1>1, <1>2, <3>1
    <3>3. e.kv[j] = [tok |-> y[e.cells[j].pos + 1], pos |-> e.cells[j].pos]
      BY <1>9, <1>14, <3>1, <3>2 DEF Matches
    <3>4. z[e.cells[j].pos + 1] = y[e.cells[j].pos + 1]
      BY <1>1, <3>1
    <3> QED BY <3>3, <3>4
  <2>2. \A j \in M : e.kv[j] \in P
    BY <1>5, <1>8, <2>1
  <2>3. ASSUME NEW d \in P PROVE \E j \in M : e.kv[j] = d
    <3>1. PICK p \in W : d = [tok |-> z[p + 1], pos |-> p]
      BY <1>5
    <3>2. PICK j \in M : e.cells[j].pos = p
      BY <1>10
    <3> QED BY <2>1, <3>1, <3>2
  <2> QED BY <2>2, <2>3
<1> QED BY <1>1, <1>11, <1>12, <1>13, <1>14 DEF Exact

(* The past of an input, of the sequence that it belongs to.               *)
LEMMA PastOfSeat ==
  ASSUME Shares(slots, seqs), NEW i \in Seats, seqs[i] # NoSeq,
         NEW k, batch[k].slot = seqs[i].slot
  PROVE  Past(k) = Wanted(Context(seqs[i]), batch[k].pos)
<1>1. seqs[i] \in Live
  BY DEF Live, Nil
<1>2. \A q \in Live : q.slot = batch[k].slot => q = seqs[i]
  BY DEF Live, Nil, Shares, SeatsOK, Apart
<1>3. (CHOOSE q \in Live : q.slot = batch[k].slot) = seqs[i]
  BY <1>1, <1>2
<1> QED BY <1>3 DEF Past, Wanted, Window

(* Everything the batch attends to.                                        *)
AllExact == \A k \in 1 .. Len(batch) : Exact(cache, cache.mask[k], Past(k))

(* Forward finds room, stores the batch and shows each input its past.     *)
LEMMA ForwardWorks ==
  ASSUME NEW c, NEW sl, NEW sq, Shares(sl, sq), Before(c, sl, sq),
         NEW b \in Seq(BatchInput), BatchOK(b, sl, sq), b # <<>>
  PROVE  /\ ~KvCacheFull(c, b) /\ After(StartForward(c, b), sl, sq)
         /\ \A k \in 1 .. Len(b) :
              StartForward(c, b).mask[k] = Attended(StartForward(c, b).cells, b[k])
<1>1. ~KvCacheFull(c, b)
  BY RoomAfterDefrag DEF KvCacheFull
<1>2. Before(Defrag(c), sl, sq)
  BY DefragKeeps
<1>3. ASSUME NEW d, Before(d, sl, sq) PROVE CacheT(d) /\ \A s \in Slots : Spanned(d, s)
  <2>1. ASSUME NEW s \in Slots PROVE Spanned(d, s)
    <3>1. CASE ~ sl[s].inUse
      BY <1>3, <3>1 DEF Before, Idle, Holds
    <3>2. CASE sl[s].inUse
      <4>1. PICK i \in Seats : sq[i] # NoSeq /\ sq[i].slot = s
        BY <3>2 DEF Shares, SeatsOK, UsedBySeats
      <4> QED BY <1>3, <4>1 DEF Before, Holds
    <3> QED BY <3>1, <3>2
  <2> QED BY <1>3, <2>1 DEF Before
<1>4. \A k \in 1 .. Len(b) : b[k].pos \in Nat
  <2> SUFFICES ASSUME NEW k \in 1 .. Len(b) PROVE b[k].pos \in Nat
    OBVIOUS
  <2>1. b[k].pos \in 0 .. NumCtx - 1
    BY InputInShare
  <2> QED BY <2>1, ContextSize
<1>5. PICK e : e = StartForward(c, b)
  OBVIOUS
<1>6. PICK d, loc : (d = c \/ d = Defrag(c)) /\ Put(d, b, loc, e)
  BY <1>1, <1>2, <1>3, <1>4, <1>5, ForwardPuts
<1>7. Before(d, sl, sq)
  BY <1>2, <1>6
<1>8. After(e, sl, sq)
  BY <1>6, <1>7, PutAll
<1>9. \A k \in 1 .. Len(b) : e.mask[k] = Attended(e.cells, b[k])
  BY <1>6, LenProperties DEF Put
<1> QED BY <1>1, <1>5, <1>8, <1>9

(* Forward neither fails nor lets an input attend to anything but its past.*)
LEMMA ForwardExact ==
  ASSUME RunnerInv, CacheInv, panic = "no", Forward
  PROVE  CacheInv' /\ panic' = "no" /\ AllExact'
<1>1. PICK c, sl, sq, b : c = cache /\ sl = slots /\ sq = seqs /\ b = batch
  OBVIOUS
<1>2. /\ phase = "forward" /\ Shares(sl, sq) /\ Before(c, sl, sq) /\ BatchOK(b, sl, sq)
      /\ b \in Seq(BatchInput) /\ b # <<>>
  BY <1>1 DEF Forward, RunnerInv, CacheInv, Shares
<1>3. PICK e : e = StartForward(c, b)
  OBVIOUS
<1>4. /\ ~KvCacheFull(c, b) /\ After(e, sl, sq)
      /\ \A k \in 1 .. Len(b) : e.mask[k] = Attended(e.cells, b[k])
  BY <1>2, <1>3, ForwardWorks
<1>5. /\ cache' = e /\ panic' = "no" /\ phase' = "sample"
      /\ slots' = slots /\ seqs' = seqs /\ batch' = batch
  BY <1>1, <1>3, <1>4 DEF Forward
<1>6. CacheInv'
  BY <1>1, <1>4, <1>5 DEF CacheInv
<1>7. ASSUME NEW k \in 1 .. Len(b) PROVE Exact(e, e.mask[k], Past(k))
  <2>1. PICK i \in Seats : sq[i] # NoSeq /\ FromSeat(b[k], sl[sq[i].slot].inputs, sq[i])
    BY <1>2 DEF BatchOK
  <2>2. PICK a, x, w, y, s, z : /\ a = sl[sq[i].slot].inputs /\ x = sq[i].pendingInputs
                                /\ w = sq[i].inputs /\ y = a \o x /\ s = b[k].slot /\ z = y \o w
    OBVIOUS
  <2>3. /\ s \in Slots /\ s = sq[i].slot /\ b[k].pos - Len(a) \in 0 .. Len(x) - 1
        /\ b[k].pos \in Nat
    <3>1. b[k].slot \in Slots /\ b[k].pos \in 0 .. NumCtx - 1
      BY <1>2, InputInShare
    <3>2. b[k].pos \in Nat
      BY <3>1, ContextSize
    <3> QED BY <2>1, <2>2, <3>1, <3>2 DEF FromSeat
  <2>4. a \in Seq(Tokens) /\ x \in Seq(Tokens) /\ w \in Seq(Tokens)
    <3>1. sq[i] \in Sequence
      BY <1>2, <2>1 DEF Shares, SeatsOK
    <3>2. a \in Seq(Tokens)
      BY <1>2, <2>1, <2>2, SeatTypes
    <3> QED BY <2>2, <3>1, <3>2 DEF Sequence
  <2>5. y \in Seq(Tokens) /\ Len(y) = Len(a) + Len(x) /\ Len(a) \in Nat /\ Len(x) \in Nat
    <3>1. a \o x \in Seq(Tokens) /\ Len(a \o x) = Len(a) + Len(x)
      BY <2>4, ConcatProperties
    <3>2. Len(a) \in Nat /\ Len(x) \in Nat
      BY <2>4, LenProperties
    <3> QED BY <2>2, <3>1, <3>2
  <2>6. \A p \in 0 .. Len(y) - 1 : z[p + 1] = y[p + 1]
    <3>1. \A j \in 1 .. Len(y) + Len(w) : (y \o w)[j] = IF j <= Len(y) THEN y[j] ELSE w[j - Len(y)]
      BY <2>4, <2>5, ConcatProperties
    <3>2. \A p \in 0 .. Len(y) - 1 : p + 1 \in 1 .. Len(y) + Len(w) /\ p + 1 <= Len(y)
      BY <2>4, <2>5
    <3> QED BY <2>2, <3>1, <3>2
  <2>7. Holds(e, s, y, Len(y))
    BY <1>4, <2>1, <2>2, <2>3, <2>5 DEF After
  <2>8. b[k].pos \in 0 .. Len(y) - 1
    BY <2>3, <2>5
  <2>9. PICK v : v = b[k]
    OBVIOUS
  <2>10. CacheT(e)
    BY <1>4 DEF After
  <2>11. Exact(e, Attended(e.cells, v), Wanted(z, v.pos))
    BY <2>2, <2>3, <2>5, <2>6, <2>7, <2>8, <2>9, <2>10, AttendsExactly
  <2>12. Past(k) = Wanted(z, v.pos)
    <3>1. Past(k) = Wanted(Context(seqs[i]), batch[k].pos)
      BY <1>1, <1>2, <2>1, <2>2, <2>3, PastOfSeat
    <3>2. Context(seqs[i]) = z
      BY <1>1, <2>2, <2>3 DEF Context
    <3> QED BY <1>1, <2>9, <3>1, <3>2
  <2> QED BY <1>4, <2>9, <2>11, <2>12
<1>8. ASSUME NEW k PROVE Past(k)' = Past(k)
  BY <1>5 DEF Past, Live, Context, Nil
<1>9. AllExact'
  BY <1>1, <1>5, <1>7, <1>8 DEF AllExact
<1> QED BY <1>5, <1>6, <1>9

-----------------------------------------------------------------------------
(* LoadCacheSlot.                                                          *)

(* A slot without the rest of its context, perhaps after taking the prefix *)
(* of another one, holds that prefix.                                      *)
LEMMA LoadHolds ==
  ASSUME NEW c, CacheT(c), NEW s \in Slots, NEW from \in Slots, NEW a \in Seq(Tokens), NEW b,
         Holds(c, from, a, b), NEW n \in Nat, NEW m \in n .. Len(a),
         NEW d, d = Remove(IF from = s THEN c ELSE CopyPrefix(c, from, s, m), s, n, ToTheEnd)
  PROVE  /\ CacheT(d) /\ Holds(d, s, SubSeq(a, 1, n), n)
         /\ \A t \in Slots \ {s} : \A x, y : Holds(c, t, x, y) => Holds(d, t, x, y)
<1>1. m \in Nat /\ n <= m /\ m <= Len(a) /\ Len(a) \in Nat
  OBVIOUS
<1>2. PICK f : f = IF from = s THEN c ELSE CopyPrefix(c, from, s, m)
  OBVIOUS
<1>3. \E x, y :
        /\ x \in Seq(Tokens) /\ CacheT(f) /\ Holds(f, s, x, y) /\ n <= Len(x) /\ SubSeq(x, 1, n) = SubSeq(a, 1, n)
        /\ \A t \in Slots \ {s} : \A u, v : Holds(c, t, u, v) => Holds(f, t, u, v)
  <2>1. CASE from = s
    <3>1. f = c
      BY <1>2, <2>1
    <3>2. n <= Len(a)
      BY <1>1
    <3> QED BY <2>1, <3>1, <3>2
  <2>2. CASE from # s
    <3>1. Copied(c, from, s, m, f)
      BY <1>1, <1>2, <2>2, CopyWorks
    <3>2. CacheT(f)
      BY <3>1 DEF Copied
    <3>3. Holds(f, s, SubSeq(a, 1, m), m)
      BY <1>1, <3>1, CopyHolds
    <3>4. \A t \in Slots \ {s} : \A u, v : Holds(c, t, u, v) => Holds(f, t, u, v)
      BY <3>1, CopyKeeps
    <3>5. SubSeq(a, 1, m) \in Seq(Tokens) /\ Len(SubSeq(a, 1, m)) = m
      BY <1>1, SubSeqProperties
    <3>6. SubSeq(SubSeq(a, 1, m), 1, n) = SubSeq(a, 1, n)
      <4>1. PICK x \in Seq(Tokens) : x = SubSeq(a, 1, m)
        BY <3>5
      <4>2. SubSeq(x, 1, m) = SubSeq(a, 1, m)
        BY <3>5, <4>1, SubSeqFull
      <4>3. SubSeq(x, 1, n) = SubSeq(a, 1, n)
        BY <1>1, <3>5, <4>1, <4>2, ShorterPrefix
      <4> QED BY <4>1, <4>3
    <3> QED BY <1>1, <3>2, <3>3, <3>4, <3>5, <3>6
  <2> QED BY <2>1, <2>2
<1>4. PICK x, y :
        /\ x \in Seq(Tokens) /\ CacheT(f) /\ Holds(f, s, x, y) /\ n <= Len(x) /\ SubSeq(x, 1, n) = SubSeq(a, 1, n)
        /\ \A t \in Slots \ {s} : \A u, v : Holds(c, t, u, v) => Holds(f, t, u, v)
  BY <1>3
<1>5. Removed(f, s, n, ToTheEnd, d)
  <2>1. ~RemoveFails(f, s, ToTheEnd)
    BY DEF RemoveFails, Shared, Later
  <2> QED BY <1>2, <1>4, <2>1, RemoveWorks
<1>6. CacheT(d)
  BY <1>5 DEF Removed
<1>7. Holds(d, s, SubSeq(a, 1, n), n)
  BY <1>4, <1>5, CutHolds
<1>8. ASSUME NEW t \in Slots \ {s}, NEW u, NEW v, Holds(c, t, u, v) PROVE Holds(d, t, u, v)
  <2>1. Holds(f, t, u, v)
    BY <1>4, <1>8
  <2> QED BY <1>5, <2>1, OthersKeep
<1> QED BY <1>6, <1>7, <1>8

(* While the loop is idle, nothing is submitted.                           *)
Quiet(sq) == \A i \in Seats : sq[i] # NoSeq => sq[i].pendingInputs = <<>>

(* Then Before and After say the same.                                     *)
LEMMA QuietSame ==
  ASSUME NEW c, NEW sl, NEW sq, sl \in [Slots -> SlotOK], sq \in [Seats -> Sequence \cup {NoSeq}],
         Quiet(sq)
  PROVE  Before(c, sl, sq) <=> After(c, sl, sq)
<1>1. ASSUME NEW i \in Seats, sq[i] # NoSeq
      PROVE  /\ sl[sq[i].slot].inputs \o sq[i].pendingInputs = sl[sq[i].slot].inputs
             /\ Len(sl[sq[i].slot].inputs) + Len(sq[i].pendingInputs) = Len(sl[sq[i].slot].inputs)
  <2>1. sq[i].slot \in Slots /\ sq[i].pendingInputs = <<>>
    BY <1>1 DEF Quiet, Sequence
  <2>2. PICK a \in Seq(Tokens) : a = sl[sq[i].slot].inputs
    BY <2>1 DEF SlotOK
  <2>3. a \o <<>> = a /\ Len(a) + Len(<<>>) = Len(a)
    BY ConcatEmptySeq, EmptySeq
  <2> QED BY <2>1, <2>2, <2>3
<1> QED BY <1>1 DEF Before, After

(* LoadCacheSlot leaves the slot the common prefix, and the others alone.  *)
LEMMA LoadCache ==
  ASSUME RunnerInv, CacheInv, panic = "no", NEW r \in Requests, LoadCacheSlot(r)
  PROVE  CacheInv' /\ phase' = "idle" /\ panic' = "no"
<1>1. PICK s \in Unused, from \in Slots, n \in 0 .. Len(job[r].prompt) - 1 :
           /\ n <= Len(slots[from].inputs)
           /\ slots' = [t \in Slots |->
                IF t = s THEN [inputs |-> SubSeq(slots[from].inputs, 1, n),
                               inUse |-> TRUE, lastUsed |-> UsedNow(s)[s]]
                ELSE [slots[t] EXCEPT !.lastUsed = UsedNow(s)[t]]]
           /\ seqs' = [seqs EXCEPT ![Min(Nil)] =
                [req |-> r, slot |-> s,
                 inputs |-> SubSeq(job[r].prompt, n + 1, Len(job[r].prompt)),
                 pendingInputs |-> <<>>, numPredicted |-> 0, pendingResponses |-> 0]]
           /\ \E m \in n .. Len(slots[from].inputs) :
                cache' = Remove(IF from = s THEN cache ELSE CopyPrefix(cache, from, s, m),
                                s, n, ToTheEnd)
  BY SlotFound
<1>2. phase = "idle" /\ phase' = "idle" /\ panic' = "no"
  BY DEF LoadCacheSlot, loopVars
<1>3. RunnerInv'
  BY LoadStep
<1>4. PICK c, sl, sq, d, tl, tq :
        c = cache /\ sl = slots /\ sq = seqs /\ d = cache' /\ tl = slots' /\ tq = seqs'
  OBVIOUS
<1>5. Shares(sl, sq) /\ Quiet(sq) /\ Shares(tl, tq) /\ Quiet(tq)
  <2>1. Shares(sl, sq) /\ Shares(tl, tq)
    BY <1>3, <1>4 DEF RunnerInv, Shares
  <2>2. Waiting /\ Waiting'
    BY <1>3 DEF RunnerInv
  <2>3. Quiet(sq)
    BY <1>2, <1>4, <2>2 DEF Waiting, Ready, Quiet
  <2>4. Quiet(tq)
    BY <1>2, <1>4, <2>2 DEF Waiting, Ready, Quiet
  <2> QED BY <2>1, <2>3, <2>4
<1>6. Before(c, sl, sq)
  <2>1. After(c, sl, sq)
    BY <1>2, <1>4 DEF CacheInv
  <2> QED BY <1>5, <2>1, QuietSame DEF Shares, SeatsOK
<1>7. PICK m \in n .. Len(sl[from].inputs) :
        d = Remove(IF from = s THEN c ELSE CopyPrefix(c, from, s, m), s, n, ToTheEnd)
  BY <1>1, <1>4
<1>8. PICK a \in Seq(Tokens) : a = sl[from].inputs
  BY <1>5 DEF Shares, SeatsOK, SlotOK
<1>9. PICK b : Holds(c, from, a, b)
  <2>1. CASE ~ sl[from].inUse
    BY <1>6, <1>8, <2>1 DEF Before, Idle
  <2>2. CASE sl[from].inUse
    <3>1. PICK i \in Seats : sq[i] # NoSeq /\ sq[i].slot = from
      BY <1>5, <2>2 DEF Shares, SeatsOK, UsedBySeats
    <3> QED BY <1>6, <1>8, <3>1 DEF Before
  <2> QED BY <2>1, <2>2
<1>10. s \in Slots /\ ~ sl[s].inUse /\ CacheT(c) /\ n \in Nat /\ n <= Len(a)
  BY <1>1, <1>4, <1>6, <1>8 DEF Unused, Before
<1>11. /\ CacheT(d) /\ Holds(d, s, SubSeq(a, 1, n), n)
       /\ \A t \in Slots \ {s} : \A x, y : Holds(c, t, x, y) => Holds(d, t, x, y)
  BY <1>7, <1>8, <1>9, <1>10, LoadHolds
<1>12. /\ tl[s].inputs = SubSeq(a, 1, n) /\ tl[s].inUse
       /\ \A t \in Slots \ {s} : tl[t].inputs = sl[t].inputs /\ tl[t].inUse = sl[t].inUse
  <2>1. slots \in [Slots -> SlotOK]
    BY DEF RunnerInv, SeatsOK
  <2>2. PICK l : l = UsedNow(s)
    OBVIOUS
  <2>3. slots' = [t \in Slots |->
                IF t = s THEN [inputs |-> SubSeq(slots[from].inputs, 1, n),
                               inUse |-> TRUE, lastUsed |-> l[s]]
                ELSE [slots[t] EXCEPT !.lastUsed = l[t]]]
    BY <1>1, <2>2
  <2>4. slots'[s] = [inputs |-> SubSeq(a, 1, n), inUse |-> TRUE, lastUsed |-> l[s]]
    BY <1>4, <1>8, <1>10, <2>3
  <2>5. \A t \in Slots \ {s} : slots'[t] = [slots[t] EXCEPT !.lastUsed = l[t]] /\ slots[t] \in SlotOK
    BY <2>1, <2>3
  <2>6. \A t \in Slots \ {s} : slots'[t].inputs = slots[t].inputs /\ slots'[t].inUse = slots[t].inUse
    BY <2>5 DEF SlotOK
  <2> QED BY <1>4, <2>4, <2>6
<1>13. \A i \in Seats : tq[i] # NoSeq => \/ tq[i].slot = s
                                         \/ tq[i] = sq[i] /\ sq[i].slot \in Slots \ {s}
  <2>1. \A i \in Seats : sq[i] # NoSeq => sq[i].slot \in Slots /\ sl[sq[i].slot].inUse
    BY <1>5, SeatTypes
  <2>2. \A i \in Seats : tq[i].slot = s \/ tq[i] = sq[i]
    BY <1>1, <1>4, <1>5 DEF Shares, SeatsOK
  <2> QED BY <1>10, <2>1, <2>2
<1>14. Idle(d, tl)
  <2>1. \A t \in Slots \ {s} : ~ sl[t].inUse => Holds(c, t, sl[t].inputs, NumCtx)
    BY <1>6 DEF Before, Idle
  <2>2. \A t \in Slots \ {s} : ~ tl[t].inUse => Holds(d, t, tl[t].inputs, NumCtx)
    <3> SUFFICES ASSUME NEW t \in Slots \ {s}, ~ tl[t].inUse PROVE Holds(d, t, tl[t].inputs, NumCtx)
      OBVIOUS
    <3>1. PICK x, y : x = sl[t].inputs /\ y = NumCtx
      OBVIOUS
    <3>2. Holds(c, t, x, y)
      BY <1>12, <2>1, <3>1
    <3>3. Holds(d, t, x, y)
      BY <1>11, <3>2
    <3> QED BY <1>12, <3>1, <3>3
  <2> QED BY <1>12, <2>2 DEF Idle
<1>15. ASSUME NEW i \in Seats, tq[i] # NoSeq
       PROVE  Holds(d, tq[i].slot, tl[tq[i].slot].inputs, Len(tl[tq[i].slot].inputs))
  <2>1. CASE tq[i].slot = s
    <3>1. Len(SubSeq(a, 1, n)) = n
      BY <1>10, SubSeqProperties
    <3> QED BY <1>11, <1>12, <2>1, <3>1
  <2>2. CASE tq[i] = sq[i] /\ sq[i].slot \in Slots \ {s}
    <3>1. PICK t, x, y : t = sq[i].slot /\ x = sl[t].inputs /\ y = Len(x)
      OBVIOUS
    <3>2. Holds(c, t, x, y)
      BY <1>6, <1>15, <2>2, <3>1 DEF Before
    <3>3. Holds(d, t, x, y)
      BY <1>11, <2>2, <3>1, <3>2
    <3> QED BY <1>12, <2>2, <3>1, <3>3
  <2> QED BY <1>13, <1>15, <2>1, <2>2
<1>16. Before(d, tl, tq)
  BY <1>11, <1>14, <1>15 DEF Before
<1>17. After(d, tl, tq)
  BY <1>5, <1>16, QuietSame DEF Shares, SeatsOK
<1>18. CacheInv'
  BY <1>2, <1>4, <1>17 DEF CacheInv
<1> QED BY <1>2, <1>18

-----------------------------------------------------------------------------
(* Steps that change one seat and its slot.                                *)

(* A step that concerns slot s leaves what others have in the cache.       *)
Spares(c, s, e) ==
  CacheT(e) /\ \A t \in Slots \ {s} : \A x, y : Holds(c, t, x, y) => Holds(e, t, x, y)
Elsewhere(sl, sq, i, s, tl, tq) ==
  /\ \A t \in Slots \ {s} : tl[t].inputs = sl[t].inputs /\ tl[t].inUse = sl[t].inUse
  /\ \A k \in Seats \ {i} : tq[k] = sq[k]

(* Other seats have other slots.                                           *)
LEMMA OtherSlots ==
  ASSUME NEW sl, NEW sq, Shares(sl, sq), NEW i \in Seats, sq[i] # NoSeq,
         NEW k \in Seats \ {i}, sq[k] # NoSeq
  PROVE  sq[k].slot \in Slots \ {sq[i].slot}
BY SeatTypes DEF Shares, SeatsOK, Apart

(* What the seat's slot holds decides, after Forward ...                   *)
LEMMA SeatAfter ==
  ASSUME NEW c, NEW sl, NEW sq, Shares(sl, sq), After(c, sl, sq),
         NEW i \in Seats, sq[i] # NoSeq, NEW s, s = sq[i].slot,
         NEW e, NEW tl, NEW tq, Spares(c, s, e), Elsewhere(sl, sq, i, s, tl, tq),
         ~ tl[s].inUse => Holds(e, s, tl[s].inputs, NumCtx),
         tq[i] # NoSeq => /\ tq[i].slot = s
                          /\ Holds(e, s, tl[s].inputs \o tq[i].pendingInputs,
                                   Len(tl[s].inputs) + Len(tq[i].pendingInputs))
  PROVE  After(e, tl, tq)
<1>1. Idle(e, tl)
  <2> SUFFICES ASSUME NEW t \in Slots, ~ tl[t].inUse PROVE Holds(e, t, tl[t].inputs, NumCtx)
    BY DEF Idle
  <2>1. CASE t # s
    <3>1. PICK x, y : x = sl[t].inputs /\ y = NumCtx
      OBVIOUS
    <3>2. Holds(c, t, x, y)
      BY <2>1, <3>1 DEF After, Idle, Elsewhere
    <3>3. Holds(e, t, x, y)
      BY <2>1, <3>2 DEF Spares
    <3> QED BY <2>1, <3>1, <3>3 DEF Elsewhere
  <2> QED BY <2>1
<1>2. ASSUME NEW k \in Seats, tq[k] # NoSeq
      PROVE  Holds(e, tq[k].slot, tl[tq[k].slot].inputs \o tq[k].pendingInputs,
                   Len(tl[tq[k].slot].inputs) + Len(tq[k].pendingInputs))
  <2>1. CASE k # i
    <3>1. tq[k] = sq[k]
      BY <2>1 DEF Elsewhere
    <3>2. PICK t : t = sq[k].slot
      OBVIOUS
    <3>3. t \in Slots \ {s}
      BY <1>2, <2>1, <3>1, <3>2, OtherSlots
    <3>4. PICK x, y : x = sl[t].inputs \o sq[k].pendingInputs
                      /\ y = Len(sl[t].inputs) + Len(sq[k].pendingInputs)
      OBVIOUS
    <3>5. Holds(c, t, x, y)
      BY <1>2, <3>1, <3>2, <3>4 DEF After
    <3>6. Holds(e, t, x, y)
      BY <3>3, <3>5 DEF Spares
    <3>7. tl[t].inputs = sl[t].inputs
      BY <3>3 DEF Elsewhere
    <3> QED BY <3>1, <3>2, <3>4, <3>6, <3>7
  <2> QED BY <1>2, <2>1
<1> QED BY <1>1, <1>2 DEF After, Spares

(* ... and before it.                                                      *)
LEMMA SeatBefore ==
  ASSUME NEW c, NEW sl, NEW sq, Shares(sl, sq), Before(c, sl, sq),
         NEW i \in Seats, sq[i] # NoSeq, NEW s, s = sq[i].slot,
         NEW e, NEW tl, NEW tq, Spares(c, s, e), Elsewhere(sl, sq, i, s, tl, tq),
         ~ tl[s].inUse => Holds(e, s, tl[s].inputs, NumCtx),
         tq[i] # NoSeq => tq[i].slot = s /\ Holds(e, s, tl[s].inputs, Len(tl[s].inputs))
  PROVE  Before(e, tl, tq)
<1>1. Idle(e, tl)
  <2> SUFFICES ASSUME NEW t \in Slots, ~ tl[t].inUse PROVE Holds(e, t, tl[t].inputs, NumCtx)
    BY DEF Idle
  <2>1. CASE t # s
    <3>1. PICK x, y : x = sl[t].inputs /\ y = NumCtx
      OBVIOUS
    <3>2. Holds(c, t, x, y)
      BY <2>1, <3>1 DEF Before, Idle, Elsewhere
    <3>3. Holds(e, t, x, y)
      BY <2>1, <3>2 DEF Spares
    <3> QED BY <2>1, <3>1, <3>3 DEF Elsewhere
  <2> QED BY <2>1
<1>2. ASSUME NEW k \in Seats, tq[k] # NoSeq
      PROVE  Holds(e, tq[k].slot, tl[tq[k].slot].inputs, Len(tl[tq[k].slot].inputs))
  <2>1. CASE k # i
    <3>1. tq[k] = sq[k]
      BY <2>1 DEF Elsewhere
    <3>2. PICK t : t = sq[k].slot
      OBVIOUS
    <3>3. t \in Slots \ {s}
      BY <1>2, <2>1, <3>1, <3>2, OtherSlots
    <3>4. PICK x, y : x = sl[t].inputs /\ y = Len(sl[t].inputs)
      OBVIOUS
    <3>5. Holds(c, t, x, y)
      BY <1>2, <3>1, <3>2, <3>4 DEF Before
    <3>6. Holds(e, t, x, y)
      BY <3>3, <3>5 DEF Spares
    <3>7. tl[t].inputs = sl[t].inputs
      BY <3>3 DEF Elsewhere
    <3> QED BY <3>1, <3>2, <3>4, <3>6, <3>7
  <2> QED BY <1>2, <2>1
<1> QED BY <1>1, <1>2 DEF Before, Spares

(* A slot that forgets its last inputs still holds the others.             *)
LEMMA HoldsLess ==
  ASSUME NEW c, CacheT(c), NEW s \in Slots, NEW a \in Seq(Tokens), NEW b, b \in Nat, b <= NumCtx,
         Holds(c, s, a, b), NEW n \in 0 .. Len(a)
  PROVE  Holds(c, s, SubSeq(a, 1, n), NumCtx)
<1>1. \A i \in Holding(c.cells, s) : c.cells[i].pos \in Nat
  BY Positions
<1>2. n \in Nat /\ n <= Len(a) /\ Len(a) \in Nat /\ NumCtx \in Nat
  BY ContextSize
<1>3. Len(SubSeq(a, 1, n)) = n /\ \A p \in 0 .. n - 1 : SubSeq(a, 1, n)[p + 1] = a[p + 1]
  BY <1>2, SubSeqProperties
<1>4. Placed(c.cells, s, n, NumCtx)
  <2>1. \A p \in 0 .. n - 1 : p \in 0 .. Len(a) - 1
    BY <1>2
  <2>2. Placed(c.cells, s, Len(a), b)
    BY DEF Holds
  <2>3. \A i \in Holding(c.cells, s) : c.cells[i].pos < NumCtx
    BY <1>1, <1>2, <2>2 DEF Placed
  <2> QED BY <2>1, <2>2, <2>3 DEF Placed
<1>5. Matches(c.cells, c.kv, s, a) => Matches(c.cells, c.kv, s, SubSeq(a, 1, n))
  <2> SUFFICES ASSUME Matches(c.cells, c.kv, s, a), NEW i \in Holding(c.cells, s), c.cells[i].pos < n
               PROVE  c.kv[i] = [tok |-> SubSeq(a, 1, n)[c.cells[i].pos + 1], pos |-> c.cells[i].pos]
    BY <1>3 DEF Matches
  <2>1. c.cells[i].pos \in 0 .. n - 1 /\ c.cells[i].pos < Len(a)
    BY <1>1, <1>2
  <2>2. c.kv[i] = [tok |-> a[c.cells[i].pos + 1], pos |-> c.cells[i].pos]
    BY <2>1 DEF Matches
  <2>3. SubSeq(a, 1, n)[c.cells[i].pos + 1] = a[c.cells[i].pos + 1]
    BY <1>3, <2>1
  <2> QED BY <2>2, <2>3
<1> QED BY <1>3, <1>4, <1>5 DEF Holds

-----------------------------------------------------------------------------
(* The turns of the sequences after Forward.                               *)

(* Forgetting the mask changes nothing that is held.                       *)
LEMMA MaskForgotten ==
  ASSUME NEW c, CacheT(c), NEW e, e = c \/ e = [c EXCEPT !.mask = <<>>]
  PROVE  CacheT(e) /\ \A s, x, y : Holds(c, s, x, y) <=> Holds(e, s, x, y)
<1>1. CASE e = [c EXCEPT !.mask = <<>>]
  <2>1. PICK x, r, k, g, m : /\ c = [cells |-> x, ranges |-> r, kv |-> k, mask |-> m, merged |-> g]
                             /\ x \in [Locs -> Cell] /\ r \in [Slots -> CellRange]
    BY DEF CacheT
  <2>2. e = [cells |-> x, ranges |-> r, kv |-> k, mask |-> <<>>, merged |-> g]
    BY <1>1, <2>1
  <2>3. /\ e.cells = c.cells /\ e.ranges = c.ranges /\ e.kv = c.kv /\ e.merged = c.merged
        /\ e.cells = x /\ e.ranges = r
    BY <2>1, <2>2
  <2>4. e = [cells |-> e.cells, ranges |-> e.ranges, kv |-> e.kv, mask |-> e.mask,
             merged |-> e.merged]
    BY <2>2
  <2>5. CacheT(e)
    BY <2>1, <2>3, <2>4 DEF CacheT
  <2> QED BY <2>3, <2>5 DEF Holds, Spanned
<1> QED BY <1>1

(* A turn begins after Forward and leaves what the cache holds; another    *)
(* Forward comes before the next one to begin with the first seat.         *)
LEMMA TurnCache ==
  ASSUME RunnerInv, CacheInv, panic = "no", NEW i \in Seats, Turn(i)
  PROVE  /\ After(cache, slots, seqs) /\ Shares(slots, seqs)
         /\ phase' # "forward" /\ ~ Forwarded' /\ CacheT(cache')
         /\ \A s, x, y : Holds(cache, s, x, y) <=> Holds(cache', s, x, y)
<1>1. After(cache, slots, seqs) /\ Shares(slots, seqs)
  BY DEF Turn, CacheInv, RunnerInv, Shares
<1>2. phase' # "forward" /\ ~ Forwarded'
  BY DEF Turn, Forwarded
<1>3. cache' = cache \/ cache' = [cache EXCEPT !.mask = <<>>]
  BY DEF Turn
<1>4. PICK c, e : c = cache /\ e = cache'
  OBVIOUS
<1>5. CacheT(c) /\ (e = c \/ e = [c EXCEPT !.mask = <<>>])
  BY <1>1, <1>3, <1>4 DEF After
<1>6. CacheT(e) /\ \A s, x, y : Holds(c, s, x, y) <=> Holds(e, s, x, y)
  BY <1>5, MaskForgotten
<1> QED BY <1>1, <1>2, <1>4, <1>6

(* The pending inputs of a sequence that goes on are stored.               *)
LEMMA StoreCache ==
  ASSUME RunnerInv, CacheInv, panic = "no", NEW i \in Seats, Turn(i), seqs[i] # NoSeq, NEW q,
         q.slot = seqs[i].slot, q.pendingInputs = <<>>,
         slots' = [slots EXCEPT ![seqs[i].slot].inputs = Stored(seqs[i])],
         seqs' = [seqs EXCEPT ![i] = q]
  PROVE  CacheInv' /\ ~ Forwarded'
<1>1. PICK c, sl, sq, e, tl, tq :
        c = cache /\ sl = slots /\ sq = seqs /\ e = cache' /\ tl = slots' /\ tq = seqs'
  OBVIOUS
<1>2. /\ After(c, sl, sq) /\ Shares(sl, sq) /\ CacheT(e)
      /\ \A s, x, y : Holds(c, s, x, y) <=> Holds(e, s, x, y)
  BY <1>1, TurnCache
<1>3. PICK s, a : s = sq[i].slot /\ a = sl[s].inputs \o sq[i].pendingInputs
  OBVIOUS
<1>4. /\ s \in Slots /\ sl \in [Slots -> SlotOK] /\ sq \in [Seats -> Sequence \cup {NoSeq}]
      /\ sl[s].inputs \in Seq(Tokens) /\ sq[i].pendingInputs \in Seq(Tokens) /\ sl[s].inUse
  BY <1>1, <1>2, <1>3, SeatTypes DEF Shares, SeatsOK
<1>5. /\ a \in Seq(Tokens) /\ Len(a) = Len(sl[s].inputs) + Len(sq[i].pendingInputs)
      /\ a \o <<>> = a /\ Len(a) + Len(<<>>) = Len(a)
  BY <1>3, <1>4, ConcatProperties, ConcatEmptySeq, EmptySeq
<1>6. tl = [sl EXCEPT ![s] = [sl[s] EXCEPT !.inputs = a]] /\ tq = [sq EXCEPT ![i] = q]
  BY <1>1, <1>3 DEF Stored
<1>7. PICK u : u = [sl[s] EXCEPT !.inputs = a]
  OBVIOUS
<1>8. u.inputs = a /\ u.inUse = sl[s].inUse
  BY <1>4, <1>7 DEF SlotOK
<1>9. tl = [sl EXCEPT ![s] = u]
  BY <1>6, <1>7
<1>10. Elsewhere(sl, sq, i, s, tl, tq) /\ tl[s] = u /\ tq[i] = q
  BY <1>4, <1>6, <1>9 DEF Elsewhere
<1>11. Spares(c, s, e)
  BY <1>2 DEF Spares
<1>12. Holds(e, s, a, Len(a))
  <2>1. Holds(c, s, a, Len(a))
    <3>1. PICK l : l = Len(sl[s].inputs) + Len(sq[i].pendingInputs)
      OBVIOUS
    <3>2. Holds(c, s, a, l)
      BY <1>1, <1>2, <1>3, <3>1 DEF After
    <3> QED BY <1>5, <3>1, <3>2
  <2> QED BY <1>2, <2>1
<1>13. Holds(e, s, tl[s].inputs \o tq[i].pendingInputs,
             Len(tl[s].inputs) + Len(tq[i].pendingInputs))
  BY <1>5, <1>8, <1>10, <1>12
<1>14. tl[s].inUse /\ tq[i].slot = s
  BY <1>1, <1>3, <1>4, <1>8, <1>10
<1>15. After(e, tl, tq)
  BY <1>1, <1>2, <1>3, <1>10, <1>11, <1>13, <1>14, SeatAfter
<1>16. phase' # "forward" /\ ~ Forwarded'
  BY TurnCache
<1> QED BY <1>1, <1>15, <1>16 DEF CacheInv

(* A sequence that ends leaves its slot no more than the cache holds.      *)
LEMMA EndCache ==
  ASSUME RunnerInv, CacheInv, panic = "no", NEW i \in Seats, Turn(i), seqs[i] # NoSeq,
         NEW n \in 0 .. Len(Stored(seqs[i])), EndSequence(i, SubSeq(Stored(seqs[i]), 1, n))
  PROVE  CacheInv' /\ ~ Forwarded'
<1>1. PICK c, sl, sq, e, tl, tq :
        c = cache /\ sl = slots /\ sq = seqs /\ e = cache' /\ tl = slots' /\ tq = seqs'
  OBVIOUS
<1>2. /\ After(c, sl, sq) /\ Shares(sl, sq) /\ CacheT(e)
      /\ \A s, x, y : Holds(c, s, x, y) <=> Holds(e, s, x, y)
  BY <1>1, TurnCache
<1>3. PICK s, a : s = sq[i].slot /\ a = sl[s].inputs \o sq[i].pendingInputs
  OBVIOUS
<1>4. /\ s \in Slots /\ sl \in [Slots -> SlotOK] /\ sq \in [Seats -> Sequence \cup {NoSeq}]
      /\ sl[s].inputs \in Seq(Tokens) /\ sq[i].pendingInputs \in Seq(Tokens)
      /\ Len(sl[s].inputs) + Len(sq[i].pendingInputs) <= NumCtx
  BY <1>1, <1>2, <1>3, SeatTypes DEF Shares, SeatsOK
<1>5. a \in Seq(Tokens) /\ Len(a) = Len(sl[s].inputs) + Len(sq[i].pendingInputs)
  BY <1>3, <1>4, ConcatProperties
<1>6. PICK w : w = SubSeq(a, 1, n)
  OBVIOUS
<1>7. /\ tl = [sl EXCEPT ![s].inputs = w, ![s].inUse = FALSE]
      /\ tq = [sq EXCEPT ![i] = NoSeq] /\ n \in 0 .. Len(a)
  BY <1>1, <1>3, <1>6 DEF Stored, EndSequence, Retire
<1>8. PICK u : u = [sl[s] EXCEPT !.inputs = w, !.inUse = FALSE]
  OBVIOUS
<1>9. u.inputs = w /\ u.inUse = FALSE
  BY <1>4, <1>8 DEF SlotOK
<1>10. tl = [sl EXCEPT ![s] = u]
  BY <1>4, <1>7, <1>8
<1>11. Elsewhere(sl, sq, i, s, tl, tq) /\ tl[s] = u /\ tq[i] = NoSeq
  BY <1>4, <1>7, <1>10 DEF Elsewhere
<1>12. Spares(c, s, e)
  BY <1>2 DEF Spares
<1>13. Holds(e, s, w, NumCtx)
  <2>1. Holds(c, s, a, Len(a))
    <3>1. PICK l : l = Len(sl[s].inputs) + Len(sq[i].pendingInputs)
      OBVIOUS
    <3>2. Holds(c, s, a, l)
      BY <1>1, <1>2, <1>3, <3>1 DEF After
    <3> QED BY <1>5, <3>1, <3>2
  <2>2. Holds(e, s, a, Len(a))
    BY <1>2, <2>1
  <2>3. Len(a) \in Nat /\ Len(a) <= NumCtx
    <3>1. Len(a) \in Nat
      BY <1>5, LenProperties
    <3>2. Len(a) <= NumCtx
      BY <1>4, <1>5, Zenon
    <3> QED BY <3>1, <3>2
  <2> QED BY <1>2, <1>4, <1>5, <1>6, <1>7, <2>2, <2>3, HoldsLess
<1>14. After(e, tl, tq)
  BY <1>1, <1>2, <1>3, <1>9, <1>11, <1>12, <1>13, SeatAfter
<1>15. phase' # "forward" /\ ~ Forwarded'
  BY TurnCache
<1> QED BY <1>1, <1>14, <1>15 DEF CacheInv

(* Each way the turn of a sequence ends.                                   *)
LEMMA SampleCache ==
  ASSUME RunnerInv, CacheInv, panic = "no", NEW i \in Seats, Sample(i)
  PROVE  CacheInv' /\ panic' # "full" /\ ~ Forwarded'
<1>1. CASE SampleNil(i)
  <2>1. Turn(i) /\ UNCHANGED <<slots, seqs, panic>>
    BY <1>1 DEF SampleNil
  <2>2. /\ After(cache, slots, seqs) /\ phase' # "forward" /\ ~ Forwarded' /\ CacheT(cache')
        /\ \A s, x, y : Holds(cache, s, x, y) <=> Holds(cache', s, x, y)
    BY <2>1, TurnCache
  <2>3. PICK c, sl, sq, e : c = cache /\ sl = slots /\ sq = seqs /\ e = cache'
    OBVIOUS
  <2>4. /\ After(c, sl, sq) /\ CacheT(e)
        /\ \A s, x, y : Holds(c, s, x, y) <=> Holds(e, s, x, y)
    BY <2>2, <2>3
  <2>5. Idle(e, sl)
    <3> SUFFICES ASSUME NEW s \in Slots, ~ sl[s].inUse PROVE Holds(e, s, sl[s].inputs, NumCtx)
      BY DEF Idle
    <3>1. Holds(c, s, sl[s].inputs, NumCtx)
      BY <2>4 DEF After, Idle
    <3> QED BY <2>4, <3>1
  <2>6. ASSUME NEW k \in Seats, sq[k] # NoSeq
        PROVE  Holds(e, sq[k].slot, sl[sq[k].slot].inputs \o sq[k].pendingInputs,
                     Len(sl[sq[k].slot].inputs) + Len(sq[k].pendingInputs))
    <3>1. Holds(c, sq[k].slot, sl[sq[k].slot].inputs \o sq[k].pendingInputs,
                Len(sl[sq[k].slot].inputs) + Len(sq[k].pendingInputs))
      BY <2>4, <2>6 DEF After
    <3> QED BY <2>4, <3>1
  <2>7. After(e, sl, sq)
    BY <2>4, <2>5, <2>6 DEF After
  <2>8. CacheInv'
    BY <2>1, <2>2, <2>3, <2>7 DEF CacheInv
  <2> QED BY <2>1, <2>2, <2>8
<1>2. CASE seqs[i] # NoSeq
  <2>1. seqs[i] \in Sequence /\ Stored(seqs[i]) \in Seq(Tokens)
    BY <1>2, StoredFits DEF RunnerInv
  <2>2. CASE ProcessPrompt(i)
    <3>1. PICK q : q = [seqs[i] EXCEPT !.pendingInputs = <<>>]
      OBVIOUS
    <3>2. q.slot = seqs[i].slot /\ q.pendingInputs = <<>>
      <4>1. PICK z, b : z = seqs[i] /\ b = <<>>
        OBVIOUS
      <4>2. z \in Sequence /\ b \in Seq(Tokens) /\ q = [z EXCEPT !.pendingInputs = b]
        BY <2>1, <3>1, <4>1
      <4>3. q.slot = z.slot /\ q.pendingInputs = b
        BY <4>2, StoredSequence
      <4> QED BY <4>1, <4>3
    <3>3. /\ slots' = [slots EXCEPT ![seqs[i].slot].inputs = Stored(seqs[i])]
          /\ seqs' = [seqs EXCEPT ![i] = q] /\ Turn(i) /\ panic' = "no"
      BY <2>2, <3>1 DEF ProcessPrompt
    <3>4. CacheInv' /\ ~ Forwarded'
      BY <1>2, <3>2, <3>3, StoreCache
    <3> QED BY <3>3, <3>4
  <2>3. ASSUME NEW tok, NEW held, Turn(i), Continue(i, tok, held)
        PROVE  CacheInv' /\ panic' # "full" /\ ~ Forwarded'
    <3>1. PICK q : q = [seqs[i] EXCEPT !.inputs = <<tok>>, !.pendingInputs = <<>>,
                          !.pendingResponses = held,
                          !.numPredicted = Least(seqs[i].numPredicted + 1, MaxPredict)]
      OBVIOUS
    <3>2. q.slot = seqs[i].slot /\ q.pendingInputs = <<>>
      <4>1. PICK z, a, b, m : z = seqs[i] /\ a = <<tok>> /\ b = <<>>
                              /\ m = Least(seqs[i].numPredicted + 1, MaxPredict)
        OBVIOUS
      <4>2. z \in Sequence /\ q = [z EXCEPT !.inputs = a, !.pendingInputs = b,
                                            !.pendingResponses = held, !.numPredicted = m]
        BY <2>1, <3>1, <4>1
      <4>3. q.slot = z.slot /\ q.pendingInputs = b
        BY <4>2 DEF Sequence
      <4> QED BY <4>1, <4>3
    <3>3. /\ slots' = [slots EXCEPT ![seqs[i].slot].inputs = Stored(seqs[i])]
          /\ seqs' = [seqs EXCEPT ![i] = q] /\ panic' = "no"
      BY <2>3, <3>1 DEF Continue
    <3>4. CacheInv' /\ ~ Forwarded'
      BY <1>2, <2>3, <3>2, <3>3, StoreCache
    <3> QED BY <3>3, <3>4
  <2>4. CASE HoldBack(i) \/ FlushPending(i)
    <3>1. Turn(i) /\ \E tok, held : Continue(i, tok, held)
      BY <2>4 DEF HoldBack, FlushPending, SampleToken
    <3> QED BY <2>3, <3>1
  <2>5. CASE SampleEnd(i) \/ ConnectionClosed(i)
    <3>1. PICK n : n = Len(Stored(seqs[i]))
      OBVIOUS
    <3>2. n \in 0 .. Len(Stored(seqs[i])) /\ SubSeq(Stored(seqs[i]), 1, n) = Stored(seqs[i])
      BY <2>1, <3>1, SubSeqFull
    <3>3. Turn(i) /\ EndSequence(i, SubSeq(Stored(seqs[i]), 1, n)) /\ panic' = "no"
      BY <2>5, <3>2 DEF SampleEnd, ConnectionClosed, SampleToken
    <3>4. CacheInv' /\ ~ Forwarded'
      BY <1>2, <3>2, <3>3, EndCache
    <3> QED BY <3>3, <3>4
  <2>6. CASE HitStop(i)
    <3> DEFINE origLen == seqs[i].pendingResponses + 1
    <3>1. PICK newLen \in 0 .. origLen, tokenTruncated \in BOOLEAN :
            LET tokenLen == TokenLen(Len(Stored(seqs[i])), origLen, newLen, tokenTruncated)
            IN  /\ IF tokenTruncated THEN newLen > 0 ELSE newLen < origLen
                /\ panic' = IF tokenLen < 0 THEN "bounds" ELSE "no"
                /\ EndSequence(i, SubSeq(Stored(seqs[i]), 1, tokenLen))
      BY <2>6 DEF HitStop
    <3>2. PICK n : n = TokenLen(Len(Stored(seqs[i])), origLen, newLen, tokenTruncated)
      OBVIOUS
    <3>3. Len(Stored(seqs[i])) \in Nat /\ origLen \in Nat
      BY <2>1, RunnerAssumption DEF Sequence
    <3>4. n \in Int /\ n <= Len(Stored(seqs[i]))
      <4> HIDE DEF origLen
      <4> QED BY <3>1, <3>2, <3>3 DEF TokenLen
    <3>5. /\ EndSequence(i, SubSeq(Stored(seqs[i]), 1, n)) /\ Turn(i)
          /\ panic' = IF n < 0 THEN "bounds" ELSE "no"
      BY <2>6, <3>1, <3>2 DEF HitStop, SampleToken
    <3>6. CASE n < 0
      BY <3>5, <3>6 DEF CacheInv, Forwarded
    <3>7. CASE n >= 0
      <4>1. n \in 0 .. Len(Stored(seqs[i]))
        BY <3>3, <3>4, <3>7
      <4>2. CacheInv' /\ ~ Forwarded'
        BY <1>2, <3>5, <4>1, EndCache
      <4> QED BY <3>5, <4>2
    <3> QED BY <3>4, <3>6, <3>7
  <2>7. CASE SampleNil(i)
    BY <1>2, <2>7 DEF SampleNil
  <2> QED BY <2>2, <2>4, <2>5, <2>6, <2>7 DEF Sample
<1>3. seqs[i] = NoSeq => SampleNil(i)
  BY DEF Sample, ProcessPrompt, SampleEnd, HitStop, HoldBack, FlushPending, ConnectionClosed,
         SampleToken, Samples
<1> QED BY <1>1, <1>2, <1>3

-----------------------------------------------------------------------------
(* Gather, one sequence after the other.                                   *)

(* A sequence whose inputs are not in the batch yet has none of it.        *)
LEMMA NotInBatch ==
  ASSUME NEW sl, NEW sq, NEW b, BatchOK(b, sl, sq), Shares(sl, sq),
         NEW i \in Seats, sq[i] # NoSeq, sq[i].pendingInputs = <<>>, NEW k \in 1 .. Len(b)
  PROVE  \E m \in Seats \ {i} : /\ sq[m] # NoSeq /\ FromSeat(b[k], sl[sq[m].slot].inputs, sq[m])
                                /\ sq[m].slot \in Slots \ {sq[i].slot}
<1>1. PICK m \in Seats : sq[m] # NoSeq /\ FromSeat(b[k], sl[sq[m].slot].inputs, sq[m])
  BY DEF BatchOK
<1>2. ASSUME m = i PROVE FALSE
  <2>1. PICK z : z = b[k].pos - Len(sl[sq[m].slot].inputs)
    OBVIOUS
  <2>2. z \in 0 .. Len(<<>>) - 1
    BY <1>1, <1>2, <2>1 DEF FromSeat
  <2> QED BY <2>2
<1>3. sq[m].slot \in Slots \ {sq[i].slot}
  BY <1>1, <1>2, OtherSlots
<1> QED BY <1>1, <1>2, <1>3

(* A sequence that reached its limit is not in the batch and leaves its    *)
(* slot with what the cache holds.                                         *)
LEMMA DroppedCache ==
  ASSUME NEW c, NEW sl, NEW sq, NEW b, Shares(sl, sq), Before(c, sl, sq), BatchOK(b, sl, sq),
         NEW i \in Seats, sq[i] # NoSeq, sq[i].pendingInputs = <<>>,
         NEW tl, tl = [sl EXCEPT ![sq[i].slot].inUse = FALSE],
         NEW tq, tq = [sq EXCEPT ![i] = NoSeq]
  PROVE  Before(c, tl, tq) /\ BatchOK(b, tl, tq)
<1>1. PICK s, a : s = sq[i].slot /\ a = sl[s].inputs
  OBVIOUS
<1>2. /\ s \in Slots /\ sl \in [Slots -> SlotOK] /\ sq \in [Seats -> Sequence \cup {NoSeq}]
      /\ a \in Seq(Tokens)
  BY <1>1, SeatTypes DEF Shares, SeatsOK
<1>3. Len(a) \in Nat /\ Len(a) <= NumCtx /\ SubSeq(a, 1, Len(a)) = a
  BY <1>1, <1>2, LenProperties, SubSeqFull DEF Shares, InShare
<1>4. PICK u : u = [sl[s] EXCEPT !.inUse = FALSE]
  OBVIOUS
<1>5. u.inputs = a /\ u.inUse = FALSE /\ tl = [sl EXCEPT ![s] = u]
  BY <1>1, <1>2, <1>4 DEF SlotOK
<1>6. Elsewhere(sl, sq, i, s, tl, tq) /\ tl[s] = u /\ tq[i] = NoSeq
  BY <1>1, <1>2, <1>5 DEF Elsewhere
<1>7. CacheT(c) /\ Holds(c, s, a, Len(a))
  BY <1>1 DEF Before
<1>8. Holds(c, s, a, NumCtx)
  <2>1. Len(a) \in 0 .. Len(a)
    BY <1>3
  <2> QED BY <1>2, <1>3, <1>7, <2>1, HoldsLess
<1>9. Before(c, tl, tq)
  <2>1. Spares(c, s, c)
    BY <1>7 DEF Spares
  <2> QED BY <1>1, <1>5, <1>6, <1>8, <2>1, SeatBefore, ZenonT(40)
<1>10. \A k \in Seats : tq[k] # NoSeq => k \in Seats \ {i} /\ tq[k] = sq[k]
  BY <1>6 DEF Elsewhere
<1>11. \A t \in Slots : tl[t].inputs = sl[t].inputs
  BY <1>1, <1>5, <1>6 DEF Elsewhere
<1>12. \A k \in Seats : sq[k] # NoSeq => sq[k].slot \in Slots
  BY SeatTypes
<1>13. BatchOK(b, tl, tq)
  <2>1. ASSUME NEW k \in 1 .. Len(b)
        PROVE  \E m \in Seats : tq[m] # NoSeq /\ FromSeat(b[k], tl[tq[m].slot].inputs, tq[m])
    <3>1. PICK m \in Seats \ {i} : sq[m] # NoSeq /\ FromSeat(b[k], sl[sq[m].slot].inputs, sq[m])
      BY NotInBatch
    <3>2. tq[m] = sq[m] /\ tl[sq[m].slot].inputs = sl[sq[m].slot].inputs
      BY <1>6, <1>11, <1>12, <3>1 DEF Elsewhere
    <3> QED BY <3>1, <3>2
  <2>2. ASSUME NEW m \in Seats, tq[m] # NoSeq, NEW p \in 0 .. Len(tq[m].pendingInputs) - 1
        PROVE  \E k \in 1 .. Len(b) :
                 b[k].slot = tq[m].slot /\ b[k].pos = Len(tl[tq[m].slot].inputs) + p
    <3>1. tq[m] = sq[m] /\ tl[sq[m].slot].inputs = sl[sq[m].slot].inputs
      BY <1>10, <1>11, <1>12, <2>2
    <3> QED BY <2>2, <3>1 DEF BatchOK
  <2> QED BY <2>1, <2>2 DEF BatchOK
<1> QED BY <1>9, <1>13

(* The inputs x of slot s, behind its inputs a, at the end of the batch.   *)
Added(b, s, a, x, d) ==
  /\ \A k \in 1 .. Len(b) : k \in 1 .. Len(d) /\ d[k] = b[k]
  /\ \A k \in 1 .. Len(d) :
       \/ k \in 1 .. Len(b)
       \/ \E m \in 1 .. Len(x) :
            k = Len(b) + m /\ d[k].slot = s /\ d[k].pos = Len(a) + m - 1 /\ d[k].tok = x[m]
  /\ \A m \in 1 .. Len(x) :
       /\ Len(b) + m \in 1 .. Len(d)
       /\ d[Len(b) + m].slot = s /\ d[Len(b) + m].pos = Len(a) + m - 1

(* The batch with them.                                                    *)
LEMMA BatchGrows ==
  ASSUME NEW b \in Seq(BatchInput), NEW s \in Slots, NEW a \in Seq(Tokens),
         NEW q \in Seq(Tokens), NEW n \in 0 .. Len(q),
         NEW d, d = b \o [k \in 1 .. n |-> [slot |-> s, pos |-> Len(a) + k - 1, tok |-> q[k]]]
  PROVE  Added(b, s, a, SubSeq(q, 1, n), d)
<1> DEFINE z == [k \in 1 .. n |-> [slot |-> s, pos |-> Len(a) + k - 1, tok |-> q[k]]]
           x == SubSeq(q, 1, n)
<1>1. n \in Nat /\ Len(b) \in Nat
  BY LenProperties
<1>2. Len(x) = n /\ \A m \in 1 .. n : x[m] = q[m]
  BY <1>1, SubSeqProperties
<1>3. \A m \in 1 .. n : z[m].slot = s /\ z[m].pos = Len(a) + m - 1 /\ z[m].tok = q[m]
  OBVIOUS
<1>4. z \in Seq(BatchInput) /\ Len(z) = n
  <2>1. Len(a) \in Nat
    BY LenProperties
  <2>2. \A k \in 1 .. n : [slot |-> s, pos |-> Len(a) + k - 1, tok |-> q[k]] \in BatchInput
    BY <1>1, <2>1 DEF BatchInput
  <2> QED BY <1>1, <2>2
<1> HIDE DEF z, x
<1>5. /\ Len(d) = Len(b) + n
      /\ \A k \in 1 .. Len(b) + n : d[k] = IF k <= Len(b) THEN b[k] ELSE z[k - Len(b)]
  <2>1. d = b \o z
    BY DEF z
  <2> QED BY <1>4, <2>1, ConcatProperties
<1>6. \A k \in 1 .. Len(b) : k \in 1 .. Len(d) /\ d[k] = b[k]
  BY <1>1, <1>5
<1>7. ASSUME NEW m \in 1 .. n
      PROVE  Len(b) + m \in 1 .. Len(d) /\ d[Len(b) + m] = z[m]
  <2>1. /\ Len(b) + m \in 1 .. Len(b) + n /\ ~(Len(b) + m <= Len(b)) /\ (Len(b) + m) - Len(b) = m
    BY <1>1
  <2> QED BY <1>5, <2>1
<1>8. ASSUME NEW k \in 1 .. Len(d), k \notin 1 .. Len(b)
      PROVE  \E m \in 1 .. n : k = Len(b) + m
  <2>1. k - Len(b) \in 1 .. n /\ k = Len(b) + (k - Len(b))
    BY <1>1, <1>5, <1>8
  <2> QED BY <2>1
<1>9. Added(b, s, a, x, d)
  <2>1. ASSUME NEW k \in 1 .. Len(d), k \notin 1 .. Len(b)
        PROVE  \E m \in 1 .. Len(x) :
                 k = Len(b) + m /\ d[k].slot = s /\ d[k].pos = Len(a) + m - 1 /\ d[k].tok = x[m]
    <3>1. PICK m \in 1 .. n : k = Len(b) + m
      BY <1>8, <2>1
    <3>2. d[k] = z[m]
      BY <1>7, <3>1
    <3> QED BY <1>2, <1>3, <3>1, <3>2
  <2>2. ASSUME NEW m \in 1 .. Len(x)
        PROVE  /\ Len(b) + m \in 1 .. Len(d)
               /\ d[Len(b) + m].slot = s /\ d[Len(b) + m].pos = Len(a) + m - 1
    BY <1>2, <1>3, <1>7
  <2> QED BY <1>6, <2>1, <2>2 DEF Added
<1> QED BY <1>9 DEF x

(* A sequence takes the inputs a of its slot, perhaps shifted, to the      *)
(* batch with n more.                                                      *)
Shifted(c, s, w, a, e) ==
  \/ a = w /\ e = c
  \/ \E keep, discard \in Nat :
       /\ keep + discard <= Len(w) /\ ~ RemoveFails(c, s, keep + discard)
       /\ a = Without(w, keep, discard) /\ e = Remove(c, s, keep, keep + discard)
Takes(c, sl, sq, b, i, a, x, e, tl, tq, d) ==
  /\ Shares(sl, sq) /\ Before(c, sl, sq) /\ BatchOK(b, sl, sq) /\ b \in Seq(BatchInput)
  /\ sq[i] # NoSeq /\ sq[i].pendingInputs = <<>>
  /\ Shifted(c, sq[i].slot, sl[sq[i].slot].inputs, a, e)
  /\ Elsewhere(sl, sq, i, sq[i].slot, tl, tq)
  /\ tl[sq[i].slot].inputs = a /\ tl[sq[i].slot].inUse
  /\ tq[i] # NoSeq /\ tq[i].slot = sq[i].slot /\ tq[i].pendingInputs = x
  /\ x \in Seq(Tokens) /\ Added(b, sq[i].slot, a, x, d)

(* A shift leaves the slot what the cache holds for it.                    *)
LEMMA ShiftedCache ==
  ASSUME NEW c, CacheT(c), NEW s \in Slots, NEW w \in Seq(Tokens), Holds(c, s, w, Len(w)),
         NEW a, NEW e, Shifted(c, s, w, a, e)
  PROVE  a \in Seq(Tokens) /\ Spares(c, s, e) /\ Holds(e, s, a, Len(a))
<1>1. CASE a = w /\ e = c
  BY <1>1 DEF Spares
<1>2. CASE ~(a = w /\ e = c)
  <2>1. PICK keep \in Nat, discard \in Nat :
             /\ keep + discard <= Len(w) /\ ~ RemoveFails(c, s, keep + discard)
             /\ a = Without(w, keep, discard) /\ e = Remove(c, s, keep, keep + discard)
    BY <1>2 DEF Shifted
  <2>2. PICK end : end = keep + discard
    OBVIOUS
  <2>3. end \in Nat /\ keep <= end
    BY <2>2
  <2>4. Removed(c, s, keep, end, e)
    BY <2>1, <2>2, <2>3, RemoveWorks
  <2>5. a \in Seq(Tokens) /\ Len(a) = Len(w) - discard
    BY <2>1, WithoutShorter
  <2>6. Holds(e, s, a, Len(a))
    BY <2>1, <2>2, <2>4, <2>5, ShiftHolds
  <2>7. CacheT(e)
    BY <2>4 DEF Removed
  <2>8. ASSUME NEW t \in Slots \ {s}, NEW u, NEW v, Holds(c, t, u, v) PROVE Holds(e, t, u, v)
    BY <2>4, <2>8, OthersKeep
  <2> QED BY <2>5, <2>6, <2>7, <2>8 DEF Spares
<1> QED BY <1>1, <1>2

(* Then the batch still has the submitted inputs of every sequence.        *)
LEMMA TakesCache ==
  ASSUME NEW c, NEW sl, NEW sq, NEW b, NEW i \in Seats, NEW a, NEW x, NEW e, NEW tl, NEW tq, NEW d,
         Takes(c, sl, sq, b, i, a, x, e, tl, tq, d)
  PROVE  Before(e, tl, tq) /\ BatchOK(d, tl, tq)
<1>1. PICK s, w : s = sq[i].slot /\ w = sl[s].inputs
  OBVIOUS
<1>2. /\ Shares(sl, sq) /\ Before(c, sl, sq) /\ BatchOK(b, sl, sq) /\ b \in Seq(BatchInput)
      /\ sq[i] # NoSeq /\ sq[i].pendingInputs = <<>> /\ Shifted(c, s, w, a, e)
      /\ Elsewhere(sl, sq, i, s, tl, tq) /\ tl[s].inputs = a /\ tl[s].inUse
      /\ tq[i] # NoSeq /\ tq[i].slot = s /\ tq[i].pendingInputs = x
      /\ x \in Seq(Tokens) /\ Added(b, s, a, x, d)
  BY <1>1 DEF Takes
<1>3. s \in Slots /\ w \in Seq(Tokens) /\ CacheT(c) /\ Holds(c, s, w, Len(w))
  BY <1>1, <1>2, SeatTypes DEF Before
<1>4. a \in Seq(Tokens) /\ Spares(c, s, e) /\ Holds(e, s, a, Len(a))
  BY <1>2, <1>3, ShiftedCache
<1>5. Before(e, tl, tq)
  BY <1>1, <1>2, <1>4, SeatBefore
<1>6. Len(a) \in Nat /\ Len(b) \in Nat /\ Len(x) \in Nat
  BY <1>2, <1>4, LenProperties
<1>7. /\ \A k \in 1 .. Len(b) : k \in 1 .. Len(d) /\ d[k] = b[k]
      /\ \A k \in 1 .. Len(d) :
           \/ k \in 1 .. Len(b)
           \/ \E m \in 1 .. Len(x) :
                k = Len(b) + m /\ d[k].slot = s /\ d[k].pos = Len(a) + m - 1 /\ d[k].tok = x[m]
      /\ \A m \in 1 .. Len(x) :
           /\ Len(b) + m \in 1 .. Len(d)
           /\ d[Len(b) + m].slot = s /\ d[Len(b) + m].pos = Len(a) + m - 1
  BY <1>2 DEF Added
<1>8. ASSUME NEW k \in 1 .. Len(b)
      PROVE  b[k].slot # s /\ \E m \in Seats : tq[m] # NoSeq /\ FromSeat(b[k], tl[tq[m].slot].inputs, tq[m])
  <2>1. PICK m \in Seats \ {i} : /\ sq[m] # NoSeq /\ FromSeat(b[k], sl[sq[m].slot].inputs, sq[m])
                                 /\ sq[m].slot \in Slots \ {s}
    BY <1>1, <1>2, NotInBatch
  <2>2. tq[m] = sq[m] /\ tl[sq[m].slot].inputs = sl[sq[m].slot].inputs
    BY <1>2, <2>1 DEF Elsewhere
  <2> QED BY <2>1, <2>2 DEF FromSeat
<1>9. ASSUME NEW k \in 1 .. Len(d)
      PROVE  \E m \in Seats : tq[m] # NoSeq /\ FromSeat(d[k], tl[tq[m].slot].inputs, tq[m])
  <2>1. CASE k \in 1 .. Len(b)
    BY <1>7, <1>8, <2>1
  <2>2. CASE k \notin 1 .. Len(b)
    <3>1. PICK m \in 1 .. Len(x) : d[k].slot = s /\ d[k].pos = Len(a) + m - 1 /\ d[k].tok = x[m]
      BY <1>7, <2>2
    <3>2. d[k].pos - Len(a) = m - 1 /\ m - 1 \in 0 .. Len(x) - 1 /\ (m - 1) + 1 = m
      BY <1>6, <3>1
    <3>3. FromSeat(d[k], a, tq[i])
      BY <1>2, <3>1, <3>2 DEF FromSeat
    <3> QED BY <1>2, <3>3
  <2> QED BY <2>1, <2>2
<1>10. ASSUME NEW k \in 1 .. Len(d), NEW l \in 1 .. Len(d), d[k].slot = d[l].slot, d[k].pos = d[l].pos
       PROVE  k = l
  <2>1. CASE k \in 1 .. Len(b) /\ l \in 1 .. Len(b)
    <3>1. d[k] = b[k] /\ d[l] = b[l]
      BY <1>7, <2>1
    <3>2. b[k].slot = b[l].slot /\ b[k].pos = b[l].pos
      BY <1>10, <3>1
    <3>3. \A u, v \in 1 .. Len(b) : b[u].slot = b[v].slot /\ b[u].pos = b[v].pos => u = v
      BY <1>2 DEF BatchOK
    <3> QED BY <2>1, <3>2, <3>3
  <2>2. CASE k \notin 1 .. Len(b) /\ l \notin 1 .. Len(b)
    <3>1. PICK m \in 1 .. Len(x) : k = Len(b) + m /\ d[k].pos = Len(a) + m - 1
      BY <1>7, <2>2
    <3>2. PICK n \in 1 .. Len(x) : l = Len(b) + n /\ d[l].pos = Len(a) + n - 1
      BY <1>7, <2>2
    <3>3. m = n
      BY <1>6, <1>10, <3>1, <3>2
    <3> QED BY <3>1, <3>2, <3>3
  <2>3. CASE k \in 1 .. Len(b) /\ l \notin 1 .. Len(b)
    BY <1>7, <1>8, <1>10, <2>3
  <2>4. CASE k \notin 1 .. Len(b) /\ l \in 1 .. Len(b)
    BY <1>7, <1>8, <1>10, <2>4
  <2> QED BY <2>1, <2>2, <2>3, <2>4
<1>11. ASSUME NEW m \in Seats, tq[m] # NoSeq, NEW p \in 0 .. Len(tq[m].pendingInputs) - 1
       PROVE  \E k \in 1 .. Len(d) :
                d[k].slot = tq[m].slot /\ d[k].pos = Len(tl[tq[m].slot].inputs) + p
  <2>1. CASE m = i
    <3>1. p \in 0 .. Len(x) - 1
      BY <1>2, <1>11, <2>1
    <3>2. p + 1 \in 1 .. Len(x) /\ Len(a) + (p + 1) - 1 = Len(a) + p
      BY <1>6, <3>1
    <3>3. PICK k : k = Len(b) + (p + 1)
      OBVIOUS
    <3>4. k \in 1 .. Len(d) /\ d[k].slot = s /\ d[k].pos = Len(a) + p
      BY <1>7, <3>2, <3>3
    <3> QED BY <1>2, <2>1, <3>4
  <2>2. CASE m # i
    <3>1. tq[m] = sq[m]
      BY <1>2, <2>2 DEF Elsewhere
    <3>2. sq[m].slot \in Slots \ {s}
      BY <1>1, <1>2, <1>11, <2>2, <3>1, OtherSlots
    <3>3. tl[sq[m].slot].inputs = sl[sq[m].slot].inputs
      BY <1>2, <3>2 DEF Elsewhere
    <3>4. PICK k \in 1 .. Len(b) : b[k].slot = sq[m].slot /\ b[k].pos = Len(sl[sq[m].slot].inputs) + p
      BY <1>2, <1>11, <3>1 DEF BatchOK
    <3> QED BY <1>7, <3>1, <3>3, <3>4
  <2> QED BY <2>1, <2>2
<1>12. BatchOK(d, tl, tq)
  BY <1>9, <1>10, <1>11 DEF BatchOK
<1> QED BY <1>5, <1>12

(* Gather so far, unless a shift has failed.                               *)
GatherCached(g) ==
  g.failed \/ (Before(g.cache, g.slots, g.seqs) /\ BatchOK(g.batch, g.slots, g.seqs))

(* The sequence in seat i joins the batch.                                 *)
Joins(g, i, a, n, p, h) ==
  /\ g.seqs[i] # NoSeq /\ a \in Seq(Tokens) /\ n \in 0 .. Len(g.seqs[i].inputs)
  /\ Shifted(g.cache, g.seqs[i].slot, g.slots[g.seqs[i].slot].inputs, a, h.cache)
  /\ h.slots = [g.slots EXCEPT ![g.seqs[i].slot] = [@ EXCEPT !.inputs = a]]
  /\ h.seqs = [g.seqs EXCEPT ![i] = p]
  /\ p.slot = g.seqs[i].slot /\ p.pendingInputs = SubSeq(g.seqs[i].inputs, 1, n)
  /\ h.batch = g.batch \o
       [k \in 1 .. n |-> [slot |-> g.seqs[i].slot, pos |-> Len(a) + k - 1,
                          tok |-> g.seqs[i].inputs[k]]]

(* The ways a sequence's turn can go.                                      *)
LEMMA GatherCases ==
  ASSUME JobsOK, Served, NEW g, NEW i \in Seats, GatherState(g), GatherInv(g),
         NEW h, h = GatherSeq(g, i)
  PROVE  \/ h = g \/ h.failed
         \/ /\ g.seqs[i] # NoSeq /\ h.cache = g.cache /\ h.batch = g.batch
            /\ h.seqs = [g.seqs EXCEPT ![i] = NoSeq]
            /\ h.slots = [g.slots EXCEPT ![g.seqs[i].slot].inUse = FALSE]
         \/ \E a, n, p : Joins(g, i, a, n, p, h)
<1> DEFINE q == g.seqs[i]
           j == job[q.req]
           stored == g.slots[q.slot].inputs
           discard == IF Len(stored) + 1 > NumCtx THEN ShiftDiscard(Len(stored), j.numKeep) ELSE 0
           inputs == IF discard = 0 THEN stored ELSE Without(stored, j.numKeep, discard)
           shifted == IF discard = 0 THEN g.cache
                      ELSE Remove(g.cache, q.slot, j.numKeep, j.numKeep + discard)
           room == NumCtx - Len(inputs)
           n == BatchLen(q.inputs, room)
           added == [k \in 1 .. n |-> [slot |-> q.slot, pos |-> Len(inputs) + k - 1,
                                       tok |-> q.inputs[k]]]
<1>1. CASE h = [g EXCEPT !.cache = shifted, !.failed = TRUE]
  <2> HIDE DEF shifted
  <2>1. h.failed
    BY <1>1 DEF GatherState
  <2> QED BY <2>1
<1>2. CASE q # NoSeq /\ h = [g EXCEPT !.seqs[i] = NoSeq, !.slots[q.slot].inUse = FALSE]
  BY <1>2 DEF GatherState
<1>3. CASE /\ q # NoSeq /\ ~(discard > 0 /\ RemoveFails(g.cache, q.slot, j.numKeep + discard))
           /\ h = [g EXCEPT !.cache = shifted, !.slots[q.slot].inputs = inputs,
                            !.batch = @ \o added,
                            !.nextSeq = IF n < Most(q.inputs, room) THEN i ELSE @,
                            !.seqs[i] = [q EXCEPT !.inputs = SubSeq(@, n + 1, Len(@)),
                                                  !.pendingInputs = SubSeq(q.inputs, 1, n)]]
  <2>1. /\ q \in Sequence /\ q.slot \in Slots /\ q.inputs \in Seq(Tokens) /\ q.req \in Requests
        /\ stored \in Seq(Tokens) /\ Len(stored) <= NumCtx /\ q.req = seqs[i].req /\ seqs[i] # NoSeq
        /\ g.seqs \in [Seats -> Sequence \cup {NoSeq}] /\ g.slots \in [Slots -> SlotOK]
    <3>1. /\ g.seqs \in [Seats -> Sequence \cup {NoSeq}] /\ g.slots \in [Slots -> SlotOK]
          /\ \A t \in Slots : Len(g.slots[t].inputs) <= NumCtx
      BY DEF GatherInv, SeatsOK, InShare
    <3>2. q \in Sequence /\ seqs[i] # NoSeq /\ q.req = seqs[i].req
      BY <1>3, <3>1 DEF GatherInv
    <3>3. q.slot \in Slots /\ q.inputs \in Seq(Tokens) /\ q.req \in Requests
      BY <3>2 DEF Sequence
    <3>4. g.slots[q.slot] \in SlotOK
      BY <3>1, <3>3
    <3>5. stored \in Seq(Tokens) /\ Len(stored) <= NumCtx
      BY <3>1, <3>3, <3>4 DEF SlotOK
    <3> QED BY <3>1, <3>2, <3>3, <3>5
  <2>2. PICK keep : keep = j.numKeep /\ keep \in 0 .. NumCtx - 1
    <3>1. PICK r \in Requests : r = q.req
      BY <2>1
    <3>2. job[r].numKeep \in 0 .. NumCtx - 1
      BY DEF JobsOK
    <3> QED BY <3>1, <3>2
  <2> HIDE DEF j, stored, q
  <2>3. /\ inputs \in Seq(Tokens) /\ Len(inputs) <= NumCtx
        /\ Shifted(g.cache, q.slot, stored, inputs, shifted)
    <3>1. CASE Len(stored) + 1 > NumCtx
      <4>1. Len(stored) = NumCtx
        BY <2>1, <3>1, ContextSize
      <4>2. discard = ShiftDiscard(NumCtx, keep)
        BY <2>2, <3>1, <4>1
      <4>3. discard \in Nat \ {0} /\ keep + discard <= Len(stored) /\ keep \in Nat
        <5>1. keep \in Nat
          BY <2>2, ContextSize
        <5>2. /\ ShiftDiscard(NumCtx, keep) \in Nat \ {0}
              /\ keep + ShiftDiscard(NumCtx, keep) <= NumCtx
          BY <2>2, DiscardFits
        <5> HIDE DEF discard
        <5> QED BY <4>1, <4>2, <5>1, <5>2
      <4> HIDE DEF discard
      <4>4. /\ Without(stored, keep, discard) \in Seq(Tokens)
            /\ Len(Without(stored, keep, discard)) = Len(stored) - discard
        BY <2>1, <4>3, WithoutShorter
      <4>5. /\ inputs = Without(stored, keep, discard)
            /\ shifted = Remove(g.cache, q.slot, keep, keep + discard)
            /\ ~ RemoveFails(g.cache, q.slot, keep + discard)
        BY <1>3, <2>2, <4>3
      <4>6. Len(stored) - discard <= NumCtx
        BY <4>1, <4>3, ContextSize
      <4>7. discard \in Nat /\ keep \in Nat
        BY <4>3
      <4> HIDE DEF inputs, shifted
      <4>8. Shifted(g.cache, q.slot, stored, inputs, shifted)
        BY <4>3, <4>5, <4>7 DEF Shifted
      <4> QED BY <4>4, <4>5, <4>6, <4>8
    <3>2. CASE ~(Len(stored) + 1 > NumCtx)
      <4>1. inputs = stored /\ shifted = g.cache
        BY <3>2
      <4> HIDE DEF inputs, shifted
      <4> QED BY <2>1, <4>1 DEF Shifted
    <3> QED BY <3>1, <3>2
  <2> HIDE DEF inputs, discard, shifted
  <2>4. room \in Nat
    BY <2>3, ContextSize
  <2>5. n \in 0 .. Len(q.inputs)
    <3> HIDE DEF room
    <3> QED BY <2>1, <2>4, BatchFits
  <2> DEFINE x == SubSeq(q.inputs, n + 1, Len(q.inputs))
             y == SubSeq(q.inputs, 1, n)
             next == IF n < Most(q.inputs, room) THEN i ELSE g.nextSeq
  <2> HIDE DEF n, added, next
  <2>6. PICK p : p = [q EXCEPT !.inputs = x, !.pendingInputs = y]
    OBVIOUS
  <2>7. p.slot = q.slot /\ p.pendingInputs = y
    <3>1. PICK b, c, v : b = x /\ c = y /\ v = q
      OBVIOUS
    <3>2. v \in Sequence /\ p = [v EXCEPT !.inputs = b, !.pendingInputs = c]
      BY <2>1, <2>6, <3>1
    <3>3. p.slot = v.slot /\ p.pendingInputs = c
      BY <3>2 DEF Sequence
    <3> QED BY <3>1, <3>3
  <2>8. /\ h.seqs = [g.seqs EXCEPT ![i] = p]
        /\ h.slots = [g.slots EXCEPT ![q.slot].inputs = inputs]
        /\ h.batch = g.batch \o added /\ h.cache = shifted
    <3>1. h = [g EXCEPT !.cache = shifted, !.slots[q.slot].inputs = inputs,
                        !.batch = @ \o added, !.nextSeq = next, !.seqs[i] = p]
      BY <1>3, <2>6 DEF next
    <3> QED BY <3>1 DEF GatherState
  <2>9. Joins(g, i, inputs, n, p, h)
    <3>1. h.slots = [g.slots EXCEPT ![q.slot] = [@ EXCEPT !.inputs = inputs]]
      BY <2>8
    <3>2. h.batch = g.batch \o [k \in 1 .. n |-> [slot |-> q.slot, pos |-> Len(inputs) + k - 1,
                                                  tok |-> q.inputs[k]]]
      BY <2>8 DEF added
    <3>3. Shifted(g.cache, q.slot, stored, inputs, h.cache)
      BY <2>3, <2>8
    <3> QED BY <1>3, <2>3, <2>5, <2>7, <2>8, <3>1, <3>2, <3>3 DEF Joins, q, stored
  <2> QED BY <2>9
<1>4. \/ h = g
      \/ h = [g EXCEPT !.cache = shifted, !.failed = TRUE]
      \/ q # NoSeq /\ h = [g EXCEPT !.seqs[i] = NoSeq, !.slots[q.slot].inUse = FALSE]
      \/ /\ q # NoSeq /\ ~(discard > 0 /\ RemoveFails(g.cache, q.slot, j.numKeep + discard))
         /\ h = [g EXCEPT !.cache = shifted, !.slots[q.slot].inputs = inputs,
                          !.batch = @ \o added,
                          !.nextSeq = IF n < Most(q.inputs, room) THEN i ELSE @,
                          !.seqs[i] = [q EXCEPT !.inputs = SubSeq(@, n + 1, Len(@)),
                                                !.pendingInputs = SubSeq(q.inputs, 1, n)]]
  BY Zenon DEF GatherSeq
<1> QED BY <1>1, <1>2, <1>3, <1>4

(* A turn keeps the cache and the batch in agreement.                      *)
LEMMA GatherTurnCache ==
  ASSUME JobsOK, Served, NEW g, NEW i \in Seats, GatherState(g), GatherInv(g), GatherCached(g),
         g.seqs[i] # NoSeq => Ready(g.seqs[i]), NEW h, h = GatherSeq(g, i)
  PROVE  GatherCached(h)
<1>1. CASE g.failed
  <2>1. h = g
    BY <1>1 DEF GatherSeq
  <2> QED BY <1>1, <2>1 DEF GatherCached
<1>2. CASE ~ g.failed /\ h # g /\ ~ h.failed
  <2>1. PICK c, sl, sq, b, e, tl, tq, d : /\ c = g.cache /\ sl = g.slots /\ sq = g.seqs /\ b = g.batch
                                          /\ e = h.cache /\ tl = h.slots /\ tq = h.seqs /\ d = h.batch
    OBVIOUS
  <2>2. /\ Shares(sl, sq) /\ Before(c, sl, sq) /\ BatchOK(b, sl, sq) /\ b \in Seq(BatchInput)
        /\ sq[i] # NoSeq => Ready(sq[i])
    BY <1>2, <2>1 DEF GatherCached, GatherInv, Shares
  <2>3. CASE /\ sq[i] # NoSeq /\ e = c /\ d = b
             /\ tq = [sq EXCEPT ![i] = NoSeq] /\ tl = [sl EXCEPT ![sq[i].slot].inUse = FALSE]
    <3>1. sq[i].pendingInputs = <<>>
      BY <2>2, <2>3 DEF Ready
    <3>2. Before(c, tl, tq) /\ BatchOK(b, tl, tq)
      BY <2>2, <2>3, <3>1, DroppedCache
    <3> QED BY <2>1, <2>3, <3>2 DEF GatherCached
  <2>4. CASE \E a, n, p : Joins(g, i, a, n, p, h)
    <3>1. PICK a, n, p : Joins(g, i, a, n, p, h)
      BY <2>4
    <3>2. PICK q, s : q = sq[i] /\ s = q.slot
      OBVIOUS
    <3>3. /\ q # NoSeq /\ a \in Seq(Tokens) /\ n \in 0 .. Len(q.inputs)
          /\ Shifted(c, s, sl[s].inputs, a, e)
          /\ tl = [sl EXCEPT ![s] = [sl[s] EXCEPT !.inputs = a]] /\ tq = [sq EXCEPT ![i] = p]
          /\ p.slot = s /\ p.pendingInputs = SubSeq(q.inputs, 1, n)
          /\ d = b \o [k \in 1 .. n |-> [slot |-> s, pos |-> Len(a) + k - 1, tok |-> q.inputs[k]]]
      BY <2>1, <3>1, <3>2 DEF Joins
    <3>4. /\ s \in Slots /\ sl[s].inUse /\ sl \in [Slots -> SlotOK]
          /\ sq \in [Seats -> Sequence \cup {NoSeq}] /\ q.inputs \in Seq(Tokens)
      <4>1. sl \in [Slots -> SlotOK] /\ sq \in [Seats -> Sequence \cup {NoSeq}]
        BY <2>2 DEF Shares, SeatsOK
      <4>2. q \in Sequence
        BY <3>2, <3>3, <4>1
      <4>3. s \in Slots /\ sl[s].inUse
        BY <2>2, <3>2, <3>3, SeatTypes
      <4> QED BY <4>1, <4>2, <4>3 DEF Sequence
    <3>5. PICK x : x = SubSeq(q.inputs, 1, n)
      OBVIOUS
    <3>6. x \in Seq(Tokens) /\ Added(b, s, a, x, d)
      <4>1. n \in Int /\ \A k \in 1 .. n : q.inputs[k] \in Tokens
        BY <3>3, <3>4
      <4>2. x \in Seq(Tokens)
        BY <3>4, <3>5, <4>1, SubSeqProperties
      <4>3. PICK w : w = q.inputs
        OBVIOUS
      <4>4. w \in Seq(Tokens) /\ n \in 0 .. Len(w)
            /\ d = b \o [k \in 1 .. n |-> [slot |-> s, pos |-> Len(a) + k - 1, tok |-> w[k]]]
        BY <3>3, <3>4, <4>3
      <4>5. Added(b, s, a, SubSeq(w, 1, n), d)
        BY <2>2, <3>3, <3>4, <4>4, BatchGrows
      <4> QED BY <3>5, <4>2, <4>3, <4>5
    <3>7. PICK u : u = [sl[s] EXCEPT !.inputs = a]
      OBVIOUS
    <3>8. u.inputs = a /\ u.inUse = sl[s].inUse /\ tl = [sl EXCEPT ![s] = u]
      BY <3>3, <3>4, <3>7 DEF SlotOK
    <3>9. Elsewhere(sl, sq, i, s, tl, tq) /\ tl[s] = u /\ tq[i] = p
      BY <3>3, <3>4, <3>8 DEF Elsewhere
    <3>10. p # NoSeq
      <4>1. -1 \notin Slots /\ NoSeq.slot = -1
        BY ContextSize DEF Slots, NoSeq
      <4> QED BY <3>3, <3>4, <4>1
    <3>11. Takes(c, sl, sq, b, i, a, x, e, tl, tq, d)
      <4>1. sq[i] # NoSeq /\ sq[i].pendingInputs = <<>> /\ sq[i].slot = s
        BY <2>2, <3>2, <3>3 DEF Ready
      <4>2. tl[s].inputs = a /\ tl[s].inUse
        BY <3>4, <3>8, <3>9
      <4>3. tq[i] # NoSeq /\ tq[i].slot = s /\ tq[i].pendingInputs = x
        BY <3>3, <3>5, <3>9, <3>10
      <4> QED BY <2>2, <3>3, <3>6, <3>9, <4>1, <4>2, <4>3 DEF Takes
    <3>12. Before(e, tl, tq) /\ BatchOK(d, tl, tq)
      BY <3>11, TakesCache
    <3> QED BY <2>1, <3>12 DEF GatherCached
  <2> QED BY <1>2, <2>1, <2>3, <2>4, GatherCases
<1> QED BY <1>1, <1>2 DEF GatherCached

(* By induction over the turns, so does the loop.                          *)
LEMMA GatheredCache ==
  ASSUME RunnerInv, CacheInv, phase = "idle", panic = "no"
  PROVE  GatherCached(Gathered)
<1> DEFINE turn == CHOOSE t : t = [n \in 0 .. Parallel |->
                     IF n = 0 THEN GatherStart
                     ELSE GatherSeq(t[n - 1], (nextSeq + n - 1) % Parallel)]
           Good(g, n) == GatherOK(g, n) /\ GatherCached(g)
<1>1. Turns(Parallel, turn)
  BY TurnsExist, ContextSize DEF Turns
<1>2. Gathered = turn[Parallel]
  BY DEF Gathered, GatherStart
<1>3. PICK t : t = turn
  OBVIOUS
<1> HIDE DEF turn
<1>4. t = [n \in 0 .. Parallel |->
             IF n = 0 THEN GatherStart ELSE GatherSeq(t[n - 1], (nextSeq + n - 1) % Parallel)]
  BY <1>1, <1>3 DEF Turns
<1>5. Good(t[0], 0)
  <2>1. t[0] = GatherStart
    BY <1>4, ContextSize
  <2>2. /\ GatherStart.slots = slots /\ GatherStart.seqs = seqs /\ GatherStart.cache = cache
        /\ GatherStart.batch = <<>> /\ GatherStart.nextSeq = nextSeq /\ GatherState(GatherStart)
    BY DEF GatherStart, GatherState
  <2>3. GatherInv(GatherStart)
    <3>1. <<>> \in Seq(BatchInput)
      OBVIOUS
    <3> QED BY <2>2, <3>1 DEF GatherInv, RunnerInv, ControlOK, Waiting
  <2>4. Quiet(seqs)
    BY DEF RunnerInv, Waiting, Ready, Quiet
  <2>5. Before(cache, slots, seqs)
    <3>1. PICK c, sl, sq : c = cache /\ sl = slots /\ sq = seqs
      OBVIOUS
    <3>2. /\ After(c, sl, sq) /\ Quiet(sq) /\ sl \in [Slots -> SlotOK]
          /\ sq \in [Seats -> Sequence \cup {NoSeq}]
      BY <2>4, <3>1 DEF CacheInv, RunnerInv, SeatsOK
    <3> QED BY <3>1, <3>2, QuietSame
  <2>6. BatchOK(<<>>, slots, seqs)
    <3>1. Len(<<>>) = 0 /\ 1 .. 0 = {} /\ 0 .. 0 - 1 = {}
      BY EmptySeq
    <3> QED BY <2>4, <3>1 DEF BatchOK, Quiet
  <2> QED BY <2>1, <2>2, <2>3, <2>5, <2>6 DEF GatherOK, GatherCached
<1>6. ASSUME NEW n \in 0 .. Parallel - 1, Good(t[n], n)
      PROVE  Good(t[n + 1], n + 1)
  <2>1. PICK g, h : g = t[n] /\ h = t[n + 1]
    OBVIOUS
  <2>2. n + 1 \in 0 .. Parallel /\ n + 1 # 0 /\ (n + 1) - 1 = n
    BY ContextSize
  <2>3. nextSeq + (n + 1) - 1 = nextSeq + n
    BY ContextSize DEF RunnerInv, ControlOK, Seats, Slots
  <2>4. h = GatherSeq(g, (nextSeq + n) % Parallel)
    BY <1>4, <2>1, <2>2, <2>3
  <2>5. GatherOK(g, n) /\ GatherCached(g)
    BY <1>6, <2>1
  <2>6. GatherOK(h, n + 1)
    BY <2>4, <2>5, GatherNext
  <2>7. GatherCached(h)
    <3>1. PICK i : i = (nextSeq + n) % Parallel
      OBVIOUS
    <3>2. PICK a \in Seats : a = nextSeq
      BY DEF RunnerInv, ControlOK
    <3>3. i \in Seats
      BY <3>1, <3>2, RoundRobin
    <3>4. g.seqs[i] = seqs[i]
      BY <2>5, <3>1, ContextSize DEF GatherOK
    <3>5. g.seqs[i] # NoSeq => Ready(g.seqs[i])
      BY <3>3, <3>4 DEF RunnerInv, Waiting
    <3>6. JobsOK /\ Served /\ GatherState(g) /\ GatherInv(g)
      BY <2>5 DEF RunnerInv, GatherOK
    <3> QED BY <2>4, <2>5, <3>1, <3>3, <3>5, <3>6, GatherTurnCache
  <2> QED BY <2>1, <2>6, <2>7
<1> HIDE DEF Good
<1>7. \A n \in 0 .. Parallel : Good(t[n], n)
  <2> SUFFICES ASSUME NEW b \in 0 .. Parallel, ~ Good(t[b], b) PROVE FALSE
    OBVIOUS
  <2> DEFINE T == {k \in 0 .. Parallel : ~ Good(t[k], k)}
  <2>1. PICK m \in T : \A k \in T : m <= k
    <3>1. T \subseteq Nat /\ T # {}
      BY ContextSize
    <3> HIDE DEF T
    <3> QED BY <3>1, LeastElement
  <2>2. m # 0
    BY <1>5
  <2>3. m - 1 \in 0 .. Parallel - 1 /\ m - 1 \in 0 .. Parallel /\ ~(m <= m - 1) /\ (m - 1) + 1 = m
    BY <2>2, ContextSize
  <2>4. Good(t[m - 1], m - 1)
    BY <2>1, <2>3
  <2>5. Good(t[m], m)
    BY <1>6, <2>3, <2>4
  <2> QED BY <2>5
<1>8. Parallel \in 0 .. Parallel
  BY ContextSize
<1> QED BY <1>2, <1>3, <1>7, <1>8 DEF Good

(* The whole of Gather.                                                    *)
LEMMA GatherCache ==
  ASSUME RunnerInv, CacheInv, panic = "no", Gather
  PROVE  CacheInv' /\ panic' # "full" /\ ~ Forwarded'
<1>1. PICK g : g = Gathered
  OBVIOUS
<1>2. /\ phase = "idle" /\ cache' = g.cache /\ slots' = g.slots /\ seqs' = g.seqs
      /\ batch' = g.batch /\ phase' = (IF g.batch = <<>> THEN "idle" ELSE "forward")
      /\ panic' = IF g.failed THEN "shared" ELSE "no"
  BY <1>1 DEF Gather, Retire
<1>3. GatherInv(g) /\ GatherCached(g)
  BY <1>1, <1>2, GatheredOK, GatheredCache DEF GatherOK
<1>4. ASSUME ~ g.failed, g.batch = <<>> PROVE After(g.cache, g.slots, g.seqs)
  <2>1. PICK c, sl, sq : c = g.cache /\ sl = g.slots /\ sq = g.seqs
    OBVIOUS
  <2>2. Before(c, sl, sq) /\ SeatsOK(sl, sq)
    BY <1>3, <1>4, <2>1 DEF GatherCached, GatherInv
  <2>3. Quiet(sq)
    BY <1>3, <1>4, <2>1 DEF GatherInv, Ready, Quiet
  <2>4. After(c, sl, sq)
    BY <2>2, <2>3, QuietSame DEF SeatsOK
  <2> QED BY <2>1, <2>4
<1>5. CacheInv'
  BY <1>2, <1>3, <1>4 DEF CacheInv, GatherInv, GatherCached
<1> QED BY <1>2, <1>5 DEF Forwarded

-----------------------------------------------------------------------------
(* The theorems.                                                           *)

(* What holds in every state: the cache has what the slots say, no batch   *)
(* was rejected, and what was just decoded attended to its past.           *)
CacheOK == CacheInv /\ NeverFull /\ (Forwarded => AllExact)

(* At first the cache and the slots are empty.                             *)
LEMMA InitCached ==
  ASSUME Init
  PROVE  CacheOK
<1>1. PICK c, sl, sq : c = cache /\ sl = slots /\ sq = seqs
  OBVIOUS
<1>2. /\ c = InitCache /\ sl = [s \in Slots |-> [inputs |-> <<>>, inUse |-> FALSE, lastUsed |-> 0]]
      /\ sq = [i \in Seats |-> NoSeq] /\ phase = "idle" /\ panic = "no"
  BY <1>1 DEF Init
<1>3. CacheT(c) /\ \A s \in Slots : Holding(c.cells, s) = {}
  <2>1. Capacity \in Nat \ {0} /\ Capacity - 1 \in Nat /\ Locs = 0 .. Capacity - 1
    BY CacheSize DEF Locs
  <2> QED BY <1>2, <2>1 DEF CacheT, InitCache, Cell, CellRange, EmptyCell, Holding, NewRange
<1>4. Idle(c, sl)
  <2> SUFFICES ASSUME NEW s \in Slots PROVE Holds(c, s, <<>>, NumCtx)
    BY <1>2 DEF Idle
  <2>1. Len(<<>>) = 0 /\ 0 .. 0 - 1 = {}
    BY EmptySeq
  <2> QED BY <1>3, <2>1 DEF Holds, Placed, Spanned, Matches
<1>5. After(c, sl, sq)
  BY <1>2, <1>3, <1>4 DEF After
<1> QED BY <1>1, <1>2, <1>5 DEF CacheOK, CacheInv, NeverFull, Forwarded

(* A step that leaves the loop, the slots and the cache alone.             *)
LEMMA CacheStutters ==
  ASSUME CacheOK, UNCHANGED <<cache, slots, seqs, phase, cur, batch, panic>>
  PROVE  CacheOK'
<1>1. CacheInv' /\ NeverFull' /\ Forwarded' = Forwarded
  BY DEF CacheOK, CacheInv, NeverFull, Forwarded
<1>2. ASSUME NEW k PROVE Past(k)' = Past(k)
  BY DEF Past, Live, Context, Nil
<1>3. AllExact => AllExact'
  BY <1>2 DEF AllExact
<1> QED BY <1>1, <1>3 DEF CacheOK

(* CacheInvariant: whatever is loaded, forked, shifted, defragmented and   *)
(* decoded, the KV cache holds the inputs that the slots record.           *)
THEOREM CacheInvariant == Spec => []CacheOK
<1>1. Init => CacheOK
  BY InitCached
<1>2. RunnerInv /\ CacheOK /\ [Next]_vars => CacheOK'
  <2> SUFFICES ASSUME RunnerInv, CacheOK, [Next]_vars PROVE CacheOK'
    OBVIOUS
  <2>1. CacheInv
    BY DEF CacheOK
  <2>2. CASE panic = "no" /\ Gather
    BY <2>1, <2>2, GatherCache DEF CacheOK, NeverFull
  <2>3. CASE panic = "no" /\ Forward
    <3>1. CacheInv' /\ panic' = "no" /\ AllExact'
      BY <2>1, <2>3, ForwardExact
    <3> QED BY <3>1 DEF CacheOK, NeverFull
  <2>4. CASE panic = "no" /\ \E i \in Seats : Sample(i)
    BY <2>1, <2>4, SampleCache DEF CacheOK, NeverFull
  <2>5. CASE panic = "no" /\ \E r \in Requests : Handler(r)
    <3>1. PICK r \in Requests : Handler(r)
      BY <2>5
    <3>2. CASE LoadCacheSlot(r)
      <4>1. CacheInv' /\ phase' = "idle" /\ panic' = "no"
        BY <2>1, <2>5, <3>2, LoadCache
      <4> QED BY <4>1 DEF CacheOK, NeverFull, Forwarded
    <3>3. CASE NewSequence(r) \/ Acquire(r) \/ AbortAcquire(r) \/ CloseQuit(r)
      <4>1. UNCHANGED <<cache, slots, seqs, phase, cur, batch, panic>>
        BY <3>3 DEF NewSequence, Acquire, AbortAcquire, CloseQuit, loopVars
      <4> QED BY <4>1, CacheStutters
    <3> QED BY <3>1, <3>2, <3>3 DEF Handler
  <2>6. CASE UNCHANGED vars
    <3>1. UNCHANGED <<cache, slots, seqs, phase, cur, batch, panic>>
      BY <2>6 DEF vars, loopVars
    <3> QED BY <3>1, CacheStutters
  <2> QED BY <2>2, <2>3, <2>4, <2>5, <2>6 DEF Next, Ended
<1> QED BY <1>1, <1>2, RunnerInvariant, PTL DEF Spec

(* CacheHasRoom: no batch is ever rejected by the cache, since with the    *)
(* slots in their shares there is room for it, if only after Defrag.       *)
THEOREM CacheHasRoom == Spec => []NeverFull
<1>1. CacheOK => NeverFull
  BY DEF CacheOK
<1> QED BY <1>1, CacheInvariant, PTL

(* PositionsAreExact: the mask of every decoded input shows one cell for   *)
(* each position of its own past in the window, and no other.              *)
THEOREM PositionsAreExact == Spec => []PositionsExact
<1>1. CacheOK => PositionsExact
  BY DEF CacheOK, PositionsExact, AllExact, Exact
<1> QED BY <1>1, CacheInvariant, PTL

(* AttentionIsExact: unless a defragmentation combined two moves, the keys *)
(* and values behind those cells are the ones of the sequence's own inputs.*)
THEOREM AttentionIsExact == Spec => []AttentionExactUnlessMerged
<1>1. CacheOK => AttentionExactUnlessMerged
  BY DEF CacheOK, AttentionExactUnlessMerged, AttentionExact, AllExact, Exact
<1> QED BY <1>1, CacheInvariant, PTL

=============================================================================
