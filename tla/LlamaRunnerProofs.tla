------------------------- MODULE LlamaRunnerProofs --------------------------
(***************************************************************************)
(* The KV cache of llama.cpp counts its cells right, and it holds what the *)
(* runner's slots say and shows each input its past, for any number of     *)
(* sequences, requests and inputs and any size of the cache.               *)
(***************************************************************************)
EXTENDS LlamaKvCacheProofs

(* The slots and the seats: no two sequences share a slot, and a slot is   *)
(* in use if a sequence has it.  No slot outgrows its share of the         *)
(* context, not even with the inputs that were submitted.                  *)
SlotOK == [inputs : Seq(Tokens), inUse : BOOLEAN, lastUsed : Nat]
SeqOK ==
  [slot : SeqIds, numKeep : NumKeeps, inputs : Seq(Tokens), pendingInputs : Seq(Tokens),
   numPredicted : Nat, held : Nat, text : Seq(Tokens)]
SeatsOK(sl, sq) ==
  /\ sl \in [SeqIds -> SlotOK] /\ sq \in [Seats -> SeqOK \cup {NoSeq}]
  /\ \A i, k \in Seats : sq[i] # NoSeq /\ sq[k] # NoSeq /\ sq[i].slot = sq[k].slot => i = k
  /\ \A s \in SeqIds : sl[s].inUse <=> \E i \in Seats : sq[i] # NoSeq /\ sq[i].slot = s
InShare(sl, sq) ==
  /\ \A s \in SeqIds : Len(sl[s].inputs) <= NumCtx
  /\ \A i \in Seats : sq[i] # NoSeq =>
       Len(sl[sq[i].slot].inputs) + Len(sq[i].pendingInputs) <= NumCtx

(* The text of a sequence is what its slot has, what was submitted and     *)
(* what is left.                                                           *)
TextsOK(sl, sq) ==
  \A i \in Seats : sq[i] # NoSeq =>
    sq[i].text = (sl[sq[i].slot].inputs \o sq[i].pendingInputs) \o sq[i].inputs
Shares(sl, sq) == SeatsOK(sl, sq) /\ InShare(sl, sq) /\ TextsOK(sl, sq)

(* The inputs of a batch were submitted, in the order of their positions.  *)
FromSeat(b, a, q) ==
  /\ b.seq = q.slot /\ b.pos - Len(a) \in 0 .. Len(q.pendingInputs) - 1
  /\ b.tok = q.pendingInputs[b.pos - Len(a) + 1]
BatchOK(b, sl, sq) ==
  /\ b \in Seq(BatchInput)
  /\ \A k \in 1 .. Len(b) :
       \E i \in Seats : sq[i] # NoSeq /\ FromSeat(b[k], sl[sq[i].slot].inputs, sq[i])
  /\ \A k, m \in 1 .. Len(b) : k < m /\ b[k].seq = b[m].seq => b[k].pos < b[m].pos

(* A sequence none of whose cells were moved by others has what its slot   *)
(* says: at a seat, all it has submitted except the inputs sb and ub, of   *)
(* which ub have cells, but no rows yet.                                   *)
All(sl, q) == 0 .. Len(sl[q.slot].inputs) + Len(q.pendingInputs) - 1
Cached(c, sl, sq, sb, ub) ==
  \A s \in SeqIds \ c.torn :
    /\ ~ sl[s].inUse =>
         Holds(c, s, sl[s].inputs, 0 .. Len(sl[s].inputs) - 1, 0 .. NumCtx - 1)
    /\ \A i \in Seats : sq[i] # NoSeq /\ sq[i].slot = s =>
         Holds(c, s, sl[s].inputs \o sq[i].pendingInputs,
               (All(sl, sq[i]) \ Left(sb, s)) \ Left(ub, s), All(sl, sq[i]) \ Left(sb, s))

(* The inputs of batch a come before those of batch b.                     *)
Before(a, b) ==
  \A k \in 1 .. Len(a), m \in 1 .. Len(b) : a[k].seq = b[m].seq => a[k].pos < b[m].pos

(* Where the loop of the runner and llama_decode are: inputs are submitted *)
(* and not in a slot yet only while a batch is decoded and for the seats   *)
(* that sampling has not reached.                                          *)
Quiet(q) == q # NoSeq => q.pendingInputs = <<>>
Now == IF phase = "compute" THEN ubatch ELSE <<>>
LoopOK ==
  /\ code = 0 /\ cur \in Seats /\ phase \in {"idle", "prepare", "compute", "sample"}
  /\ phase # "sample" => cur = 0
  /\ phase = "idle" => ubatch = <<>> /\ \A i \in Seats : Quiet(seqs[i])
  /\ phase = "sample" => \A i \in Seats : i < cur => Quiet(seqs[i])
  /\ phase \in {"idle", "sample"} => sbatch = <<>>
  /\ phase = "prepare" => sbatch # <<>>
  /\ phase = "compute" =>
       /\ Slotted(cache, ubatch) /\ BatchOK(ubatch, slots, seqs) /\ Before(ubatch, sbatch)
       /\ \A i \in Cells : cache.cells[i].delta = 0
RestorerOK == restorer.head \in 0 .. KvSize /\ restorer.boundaries \in Seq(Nat \X Nat)

(* The inductive invariant.  Nothing is said of the slots of a runner that *)
(* has panicked.                                                           *)
LlamaInv ==
  /\ CacheOK(cache) /\ NeverFull /\ RestorerOK
  /\ phase # "dead" =>
       /\ LoopOK /\ Shares(slots, seqs) /\ BatchOK(sbatch, slots, seqs)
       /\ Cached(cache, slots, seqs, sbatch, Now) /\ AttentionExactUnlessTorn

-----------------------------------------------------------------------------
(* Seats and batches.                                                      *)

(* NoSeq is no sequence.                                                   *)
LEMMA NoSeqDiffers == NoSeq \notin SeqOK
BY DEF NoSeq, SeqOK, SeqIds

(* What a seat's sequence has.                                             *)
LEMMA SeatTypes ==
  ASSUME NEW sl, NEW sq, SeatsOK(sl, sq), NEW i \in Seats, sq[i] # NoSeq
  PROVE  /\ sq[i] \in SeqOK /\ sq[i].slot \in SeqIds /\ sl[sq[i].slot].inUse
         /\ sl[sq[i].slot].inputs \in Seq(Tokens) /\ sq[i].pendingInputs \in Seq(Tokens)
         /\ sq[i].inputs \in Seq(Tokens) /\ sq[i].text \in Seq(Tokens)
         /\ Len(sl[sq[i].slot].inputs) \in Nat /\ Len(sq[i].pendingInputs) \in Nat
<1>1. sq[i] \in SeqOK /\ sl \in [SeqIds -> SlotOK]
  BY DEF SeatsOK
<1>2. /\ sq[i].slot \in SeqIds /\ sq[i].pendingInputs \in Seq(Tokens)
      /\ sq[i].inputs \in Seq(Tokens) /\ sq[i].text \in Seq(Tokens)
  BY <1>1 DEF SeqOK
<1>3. sl[sq[i].slot] \in SlotOK
  BY <1>1, <1>2
<1>4. sl[sq[i].slot].inputs \in Seq(Tokens)
  BY <1>3 DEF SlotOK
<1>5. sl[sq[i].slot].inUse
  BY <1>2 DEF SeatsOK
<1> QED BY <1>1, <1>2, <1>4, <1>5, LenProperties

(* An input of the batch comes from the seat with its sequence.            *)
InText(x, sl, q) ==
  /\ FromSeat(x, sl[q.slot].inputs, q) /\ x.pos \in All(sl, q)
  /\ x.tok = (sl[q.slot].inputs \o q.pendingInputs)[x.pos + 1]

LEMMA InputOfSeat ==
  ASSUME NEW sl, NEW sq, SeatsOK(sl, sq), NEW b, BatchOK(b, sl, sq),
         NEW i \in Seats, sq[i] # NoSeq, NEW k \in 1 .. Len(b), b[k].seq = sq[i].slot
  PROVE  InText(b[k], sl, sq[i])
<1>1. PICK j \in Seats : sq[j] # NoSeq /\ FromSeat(b[k], sl[sq[j].slot].inputs, sq[j])
  BY DEF BatchOK
<1>2. j = i
  BY <1>1 DEF FromSeat, SeatsOK
<1>3. PICK a, e, p : a = sl[sq[i].slot].inputs /\ e = sq[i].pendingInputs /\ p = b[k].pos
  OBVIOUS
<1>4. a \in Seq(Tokens) /\ e \in Seq(Tokens)
  BY <1>3, SeatTypes
<1>5. FromSeat(b[k], a, sq[i])
  BY <1>1, <1>2, <1>3
<1>6. p - Len(a) \in 0 .. Len(e) - 1 /\ b[k].tok = e[p - Len(a) + 1] /\ p \in Int
  <2>1. b[k] \in BatchInput
    BY DEF BatchOK
  <2>2. p \in Int
    BY <1>3, <2>1 DEF BatchInput
  <2> QED BY <1>3, <1>5, <2>2 DEF FromSeat
<1>7. p \in 0 .. Len(a) + Len(e) - 1 /\ p + 1 \in 1 .. Len(a) + Len(e) /\ ~(p + 1 <= Len(a))
      /\ p + 1 - Len(a) = p - Len(a) + 1
  BY <1>4, <1>6
<1>8. (a \o e)[p + 1] = e[p + 1 - Len(a)]
  BY <1>4, <1>7, ConcatProperties
<1> QED BY <1>3, <1>5, <1>6, <1>7, <1>8 DEF All, InText

LEMMA LeftOfSeat ==
  ASSUME NEW sl, NEW sq, SeatsOK(sl, sq), NEW b, BatchOK(b, sl, sq),
         NEW i \in Seats, sq[i] # NoSeq
  PROVE  Left(b, sq[i].slot) \subseteq All(sl, sq[i])
<1>1. PICK s : s = sq[i].slot
  OBVIOUS
<1>2. ASSUME NEW k \in 1 .. Len(b), b[k].seq = s PROVE b[k].pos \in All(sl, sq[i])
  <2>1. InText(b[k], sl, sq[i])
    BY <1>1, <1>2, InputOfSeat
  <2> QED BY <2>1 DEF InText
<1>3. Left(b, s) \subseteq All(sl, sq[i])
  BY <1>2 DEF Left
<1> QED BY <1>1, <1>3

(* A slot that nobody uses has no inputs there.                            *)
LEMMA NoInputs ==
  ASSUME NEW sl, NEW sq, SeatsOK(sl, sq), NEW b, BatchOK(b, sl, sq),
         NEW s \in SeqIds, ~ sl[s].inUse
  PROVE  Left(b, s) = {}
<1>1. ASSUME NEW k \in 1 .. Len(b), b[k].seq = s PROVE FALSE
  <2>1. PICK j \in Seats : sq[j] # NoSeq /\ FromSeat(b[k], sl[sq[j].slot].inputs, sq[j])
    BY DEF BatchOK
  <2>2. sq[j].slot = s
    BY <1>1, <2>1 DEF FromSeat
  <2> QED BY <2>1, <2>2 DEF SeatsOK
<1> QED BY <1>1 DEF Left

LEMMA NothingLeft == \A s : Left(<<>>, s) = {}
BY DEF Left

(* The batch is cut into ubatches.                                         *)
Cut(b, n, u, r, sl, sq) ==
  /\ BatchOK(u, sl, sq) /\ BatchOK(r, sl, sq) /\ Len(u) = n /\ Before(u, r)
  /\ \A s : Left(b, s) = Left(u, s) \cup Left(r, s) /\ Left(u, s) \cap Left(r, s) = {}

LEMMA SplitBatch ==
  ASSUME NEW sl, NEW sq, NEW b, BatchOK(b, sl, sq), NEW n \in 1 .. Len(b),
         NEW u, u = SubSeq(b, 1, n), NEW r, r = SubSeq(b, n + 1, Len(b))
  PROVE  Cut(b, n, u, r, sl, sq)
<1>1. /\ b \in Seq(BatchInput)
      /\ \A k \in 1 .. Len(b) :
           \E i \in Seats : sq[i] # NoSeq /\ FromSeat(b[k], sl[sq[i].slot].inputs, sq[i])
      /\ \A k, m \in 1 .. Len(b) : k < m /\ b[k].seq = b[m].seq => b[k].pos < b[m].pos
  BY DEF BatchOK
<1>2. u \in Seq(BatchInput) /\ Len(u) = n /\ \A k \in 1 .. n : u[k] = b[k]
  BY <1>1, SubSeqProperties
<1>3. PICK l \in Nat : l = Len(b) - n
  <2>1. Len(b) \in Nat /\ Len(b) - n \in Nat
    BY <1>1
  <2> QED BY <2>1
<1>4. r \in Seq(BatchInput) /\ Len(r) = l /\ \A k \in 1 .. l : r[k] = b[n + k]
  BY <1>1, <1>3, SubSeqProperties
<1>5. \A k \in 1 .. l : n + k \in 1 .. Len(b) /\ n < n + k
  BY <1>1, <1>3
<1>6. \A k \in 1 .. n : k \in 1 .. Len(b)
  BY <1>1
<1>7. BatchOK(u, sl, sq)
  <2>1. \A k, m \in 1 .. n : k < m /\ u[k].seq = u[m].seq => u[k].pos < u[m].pos
    BY <1>1, <1>2, <1>6
  <2>2. \A k \in 1 .. n :
          \E i \in Seats : sq[i] # NoSeq /\ FromSeat(u[k], sl[sq[i].slot].inputs, sq[i])
    BY <1>1, <1>2, <1>6
  <2> QED BY <1>2, <2>1, <2>2 DEF BatchOK
<1>8. BatchOK(r, sl, sq)
  <2>1. \A k, m \in 1 .. l : k < m => n + k < n + m
    BY <1>3
  <2>2. ASSUME NEW k \in 1 .. l, NEW m \in 1 .. l, k < m, r[k].seq = r[m].seq
        PROVE  r[k].pos < r[m].pos
    <3>1. PICK x \in 1 .. Len(b), y \in 1 .. Len(b) : x = n + k /\ y = n + m /\ x < y
      BY <1>5, <2>1, <2>2
    <3>2. r[k] = b[x] /\ r[m] = b[y]
      BY <1>4, <3>1
    <3> QED BY <1>1, <2>2, <3>1, <3>2
  <2>3. \A k \in 1 .. l :
          \E i \in Seats : sq[i] # NoSeq /\ FromSeat(r[k], sl[sq[i].slot].inputs, sq[i])
    BY <1>1, <1>4, <1>5
  <2> QED BY <1>4, <2>2, <2>3 DEF BatchOK
<1>9. Before(u, r)
  <2>1. \A k \in 1 .. n, m \in 1 .. l : k < n + m
    BY <1>3
  <2>2. ASSUME NEW k \in 1 .. n, NEW m \in 1 .. l, u[k].seq = r[m].seq
        PROVE  u[k].pos < r[m].pos
    <3>1. PICK y \in 1 .. Len(b) : y = n + m /\ k < y
      BY <1>5, <2>1
    <3>2. u[k] = b[k] /\ r[m] = b[y] /\ k \in 1 .. Len(b)
      BY <1>2, <1>4, <1>6, <3>1
    <3> QED BY <1>1, <2>2, <3>1, <3>2
  <2> QED BY <1>2, <1>4, <2>2 DEF Before
<1>10. ASSUME NEW s
       PROVE  Left(b, s) = Left(u, s) \cup Left(r, s) /\ Left(u, s) \cap Left(r, s) = {}
  <2>1. \A x \in {b, u, r} : \A p : p \in Left(x, s) <=> \E k \in 1 .. Len(x) : x[k].seq = s /\ x[k].pos = p
    BY DEF Left
  <2>2. ASSUME NEW p \in Left(b, s) PROVE p \in Left(u, s) \cup Left(r, s)
    <3>1. PICK k \in 1 .. Len(b) : b[k].seq = s /\ b[k].pos = p
      BY <2>1
    <3>2. CASE k <= n
      <4>1. k \in 1 .. n
        BY <3>2
      <4> QED BY <1>2, <2>1, <3>1, <4>1
    <3>3. CASE ~(k <= n)
      <4>1. PICK m \in 1 .. l : k = n + m
        <5>1. k - n \in 1 .. l /\ k = n + (k - n)
          BY <1>3, <3>3
        <5> QED BY <5>1
      <4>2. r[m].seq = s /\ r[m].pos = p
        BY <1>4, <3>1, <4>1
      <4> QED BY <1>4, <2>1, <4>1, <4>2
    <3> QED BY <3>2, <3>3
  <2>3. ASSUME NEW p \in Left(u, s) PROVE p \in Left(b, s)
    BY <1>2, <1>6, <2>1
  <2>4. ASSUME NEW p \in Left(r, s) PROVE p \in Left(b, s)
    BY <1>4, <1>5, <2>1
  <2>5. ASSUME NEW p \in Left(u, s), p \in Left(r, s) PROVE FALSE
    <3>1. PICK k \in 1 .. Len(u) : u[k].seq = s /\ u[k].pos = p
      BY <2>1
    <3>2. PICK m \in 1 .. Len(r) : r[m].seq = s /\ r[m].pos = p
      BY <2>1, <2>5
    <3>3. p < p
      BY <1>9, <3>1, <3>2 DEF Before
    <3>4. u[k] \in BatchInput
      BY <1>2
    <3>5. p \in Int
      BY <3>1, <3>4 DEF BatchInput
    <3> QED BY <3>3, <3>5
  <2> QED BY <2>2, <2>3, <2>4, <2>5
<1> QED BY <1>2, <1>7, <1>8, <1>9, <1>10 DEF Cut

(* Every cell lies in the share of each sequence it belongs to, and no     *)
(* input that is left has its position.                                    *)
LEMMA CellInShare ==
  ASSUME NEW c, CacheOK(c), NEW sl, NEW sq, Shares(sl, sq), NEW b, BatchOK(b, sl, sq),
         Cached(c, sl, sq, b, <<>>), NEW s \in SeqIds \ c.torn, NEW i \in Has(c, s)
  PROVE  /\ c.cells[i].pos \in 0 .. NumCtx - 1 /\ c.cells[i].pos \notin Left(b, s)
         /\ \A j \in Has(c, s) : c.cells[i].pos = c.cells[j].pos => i = j
<1>1. CASE ~ sl[s].inUse
  <2>1. Holds(c, s, sl[s].inputs, 0 .. Len(sl[s].inputs) - 1, 0 .. NumCtx - 1)
    BY <1>1 DEF Cached
  <2>2. Left(b, s) = {}
    BY <1>1, NoInputs DEF Shares
  <2> QED BY <2>1, <2>2 DEF Holds
<1>2. CASE sl[s].inUse
  <2>1. PICK k \in Seats : sq[k] # NoSeq /\ sq[k].slot = s
    BY <1>2 DEF Shares, SeatsOK
  <2>2. Holds(c, s, sl[s].inputs \o sq[k].pendingInputs,
              (All(sl, sq[k]) \ Left(b, s)) \ Left(<<>>, s), All(sl, sq[k]) \ Left(b, s))
    BY <2>1 DEF Cached
  <2>3. /\ c.cells[i].pos \in All(sl, sq[k]) /\ c.cells[i].pos \notin Left(b, s)
        /\ \A j \in Has(c, s) : c.cells[i].pos = c.cells[j].pos => i = j
    BY <2>2 DEF Holds
  <2>4. PICK m, n : m = Len(sl[s].inputs) /\ n = Len(sq[k].pendingInputs)
    OBVIOUS
  <2>5. m \in Nat /\ n \in Nat /\ m + n <= NumCtx
    BY <2>1, <2>4, SeatTypes DEF Shares, InShare
  <2>6. All(sl, sq[k]) = 0 .. m + n - 1
    BY <2>1, <2>4 DEF All
  <2>7. c.cells[i].pos \in 0 .. NumCtx - 1
    BY <2>3, <2>5, <2>6, ContextSize
  <2> QED BY <2>3, <2>7
<1> QED BY <1>1, <1>2

(* So the cells in use and the batch are no more than the cache can hold.  *)
LEMMA BatchHasRoom ==
  ASSUME NEW c, CacheOK(c), NEW sl, NEW sq, Shares(sl, sq), NEW b, BatchOK(b, sl, sq),
         Cached(c, sl, sq, b, <<>>), c.torn = {}
  PROVE  c.used + Len(b) <= KvSize
<1> DEFINE S == Owned(c.cells)
           T == 1 .. Len(b)
           G == SeqIds \X (0 .. NumCtx - 1)
           owner(i) == CHOOSE s \in SeqIds : i \in Has(c, s)
           f == [i \in S |-> <<owner(i), c.cells[i].pos>>]
           g == [k \in T |-> <<b[k].seq, b[k].pos>>]
<1>1. /\ KvSize \in Nat \ {0} /\ Parallel * NumCtx <= KvSize
      /\ NumCtx \in Nat \ {0} /\ Parallel \in Nat \ {0} /\ Len(b) \in Nat
  <2>1. b \in Seq(BatchInput)
    BY DEF BatchOK
  <2>2. Len(b) \in Nat
    BY <2>1
  <2>3. NumCtx * Parallel <= KvSize
    BY RingSize, ContextSize DEF NumCtx
  <2>4. Parallel * NumCtx = NumCtx * Parallel
    BY ContextSize
  <2> QED BY <2>2, <2>3, <2>4, RingSize, ContextSize
<1>2. IsFiniteSet(S) /\ IsFiniteSet(T) /\ Cardinality(T) = Len(b) /\ c.used = Cardinality(S)
  <2>1. S \in SUBSET Cells
    BY DEF Owned
  <2>2. IsFiniteSet(S)
    BY <2>1, CellsFinite
  <2>3. IsFiniteSet(T) /\ Cardinality(T) = Len(b)
    BY <1>1, IntervalSize
  <2> QED BY <2>2, <2>3 DEF CacheOK, Counted
<1>3. IsFiniteSet(G) /\ Cardinality(G) = Parallel * NumCtx
  <2>1. IsFiniteSet(SeqIds) /\ Cardinality(SeqIds) = Parallel
    BY <1>1, IntervalSize DEF SeqIds
  <2>2. PICK I : I = 0 .. NumCtx - 1
    OBVIOUS
  <2>3. IsFiniteSet(I) /\ Cardinality(I) = NumCtx
    BY <1>1, <2>2, IntervalSize
  <2>4. IsFiniteSet(SeqIds \X I) /\ Cardinality(SeqIds \X I) = Cardinality(SeqIds) * Cardinality(I)
    BY <2>1, <2>3, FS_Product
  <2> QED BY <2>1, <2>2, <2>3, <2>4
<1>4. ASSUME NEW i \in S PROVE owner(i) \in SeqIds \ c.torn /\ i \in Has(c, owner(i))
  <2>1. i \in Cells /\ c.cells[i].seqs # {}
    BY DEF Owned
  <2>2. c.cells[i] \in CellT
    BY <2>1 DEF CacheOK, CacheT
  <2>3. \E s \in SeqIds : i \in Has(c, s)
    BY <2>1, <2>2 DEF Has, CellT
  <2> QED BY <2>3
<1> HIDE DEF owner
<1>5. f \in [S -> G]
  <2>1. \A i \in S : owner(i) \in SeqIds /\ c.cells[i].pos \in 0 .. NumCtx - 1
    BY <1>4, CellInShare
  <2> QED BY <2>1
<1>6. g \in [T -> G]
  <2>1. \A k \in T : b[k] \in BatchInput
    BY DEF BatchOK
  <2>2. \A x \in BatchInput : x.seq \in SeqIds /\ x.pos \in 0 .. NumCtx - 1
    BY DEF BatchInput
  <2> QED BY <2>1, <2>2
<1>7. \A x, y \in S : f[x] = f[y] => x = y
  <2> SUFFICES ASSUME NEW x \in S, NEW y \in S, f[x] = f[y] PROVE x = y
    OBVIOUS
  <2>1. owner(x) = owner(y) /\ c.cells[x].pos = c.cells[y].pos
    OBVIOUS
  <2>2. /\ x \in Has(c, owner(x)) /\ y \in Has(c, owner(x)) /\ owner(x) \in SeqIds \ c.torn
    BY <1>4, <2>1
  <2> QED BY <2>1, <2>2, CellInShare
<1>8. \A x, y \in T : g[x] = g[y] => x = y
  <2> SUFFICES ASSUME NEW x \in T, NEW y \in T, g[x] = g[y] PROVE x = y
    OBVIOUS
  <2>1. PICK p : b[x].pos = p /\ b[y].pos = p /\ b[x].seq = b[y].seq
    OBVIOUS
  <2>2. b[x] \in BatchInput
    BY DEF BatchOK
  <2>3. p \in Int /\ x \in Int /\ y \in Int
    BY <2>1, <2>2 DEF BatchInput
  <2>4. (x < y => p < p) /\ (y < x => p < p)
    BY <2>1 DEF BatchOK
  <2> QED BY <2>3, <2>4
<1>9. \A x \in S, k \in T : f[x] # g[k]
  <2> SUFFICES ASSUME NEW x \in S, NEW k \in T, f[x] = g[k] PROVE FALSE
    OBVIOUS
  <2>1. owner(x) = b[k].seq /\ c.cells[x].pos = b[k].pos
    OBVIOUS
  <2>2. c.cells[x].pos \in Left(b, owner(x))
    BY <2>1 DEF Left
  <2>3. c.cells[x].pos \notin Left(b, owner(x))
    BY <1>4, CellInShare
  <2> QED BY <2>2, <2>3
<1> HIDE DEF f, g, G, T, S
<1>10. Cardinality(S) + Cardinality(T) <= Cardinality(G)
  BY <1>2, <1>3, <1>5, <1>6, <1>7, <1>8, <1>9, TwoImages
<1>11. Cardinality(S) \in Nat
  BY <1>2, FS_CardinalityType
<1>12. Parallel * NumCtx \in Nat
  BY <1>1
<1> QED BY <1>1, <1>2, <1>3, <1>10, <1>11, <1>12

-----------------------------------------------------------------------------
(* llama_decode_impl.                                                      *)

(* Whatever was done to find a slot, every sequence keeps what it holds.   *)
LEMMA PreparedKeeps ==
  ASSUME NEW c, CacheOK(c), NEW n \in Nat \ {0}, NEW r, r = SlotFor(Rewound(KShift(c), n), n)
  PROVE  /\ CacheOK(r.cache) /\ r.cache.torn = c.torn
         /\ \A i \in Cells : r.cache.cells[i].delta = 0
         /\ r.slot.found \in BOOLEAN /\ r.slot.head \in 0 .. KvSize
         /\ r.slot.found => FreeAt(r.cache, n, r.slot.head)
         /\ ~ r.slot.found => c.used + n > KvSize
         /\ \A s \in SeqIds : \A a, P, B : Holds(c, s, a, P, B) => Holds(r.cache, s, a, P, B)
<1>1. PICK d, e : d = KShift(c) /\ e = Rewound(d, n)
  OBVIOUS
<1>2. CacheOK(d) /\ Turned(c, d)
  BY <1>1, KShiftWorks
<1>3. /\ CacheOK(e) /\ e.cells = d.cells /\ e.rows = d.rows /\ e.used = d.used
      /\ e.torn = d.torn
  BY <1>1, <1>2, RewoundWorks
<1>4. PICK x, slot : x = r.cache /\ slot = r.slot
  OBVIOUS
<1>5. /\ CacheOK(x) /\ \E f : Relocated(e, f, x)
      /\ slot.found \in BOOLEAN /\ slot.head \in 0 .. KvSize
      /\ slot.found => FreeAt(x, n, slot.head)
      /\ ~ slot.found => e.used + n > KvSize
  BY <1>1, <1>3, <1>4, SlotForWorks
<1>6. PICK f : Relocated(e, f, x)
  BY <1>5
<1>7. x.torn = c.torn /\ e.used = c.used
  BY <1>2, <1>3, <1>6 DEF Relocated, Turned
<1>8. \A i \in Cells : x.cells[i].delta = 0
  <2>1. \A i \in Cells : e.cells[i].delta = 0
    <3> SUFFICES ASSUME NEW i \in Cells PROVE d.cells[i].delta = 0
      BY <1>3
    <3>1. PICK p, t : p = c.cells[i].pos /\ t = c.cells[i].seqs
      OBVIOUS
    <3>2. d.cells[i] = [pos |-> p, delta |-> 0, seqs |-> t]
      BY <1>2, <3>1 DEF Turned
    <3> QED BY <3>2
  <2> QED BY <1>6, <2>1 DEF Relocated
<1>9. ASSUME NEW s \in SeqIds, NEW a, NEW P, NEW B, Holds(c, s, a, P, B)
      PROVE  Holds(x, s, a, P, B)
  <2>1. Holds(d, s, a, P, B)
    BY <1>2, <1>9, TurnedHolds
  <2>2. Holds(e, s, a, P, B)
    BY <1>3, <2>1 DEF Holds, Has
  <2> QED BY <1>6, <2>2, RelocatedHolds
<1> QED BY <1>4, <1>5, <1>7, <1>8, <1>9

(* The ubatch has its cells, and the rest of the batch is left.            *)
Undecoded(c, sl, sq, b) ==
  CacheOK(c) /\ Shares(sl, sq) /\ BatchOK(b, sl, sq) /\ Cached(c, sl, sq, b, <<>>)
InSlot(d, sl, sq, r, u) ==
  /\ CacheOK(d) /\ Slotted(d, u) /\ Cached(d, sl, sq, r, u)
  /\ \A i \in Cells : d.cells[i].delta = 0

LEMMA OccupiedCached ==
  ASSUME NEW c, NEW sl, NEW sq, NEW b, Undecoded(c, sl, sq, b), NEW n \in 1 .. Len(b),
         NEW u, u = SubSeq(b, 1, n), NEW r, r = SubSeq(b, n + 1, Len(b)),
         NEW h \in 0 .. KvSize, FreeAt(c, n, h), NEW d, d = Occupy(c, h, u),
         \A i \in Cells : c.cells[i].delta = 0
  PROVE  InSlot(d, sl, sq, r, u)
<1> USE DEF Undecoded
<1>1. /\ BatchOK(u, sl, sq) /\ BatchOK(r, sl, sq) /\ Len(u) = n
      /\ \A s : Left(b, s) = Left(u, s) \cup Left(r, s) /\ Left(u, s) \cap Left(r, s) = {}
  <2>1. Cut(b, n, u, r, sl, sq)
    BY SplitBatch
  <2> QED BY <2>1 DEF Cut
<1>2. /\ u \in Seq(BatchInput)
      /\ \A k, m \in 1 .. Len(u) : k < m /\ u[k].seq = u[m].seq => u[k].pos < u[m].pos
  BY <1>1 DEF BatchOK
<1>3. CacheOK(d) /\ Seated(c, h, u, d)
  BY <1>1, <1>2, OccupyWorks
<1>4. d.torn = c.torn /\ d.head = h
  BY <1>3 DEF Seated
<1>5. ASSUME NEW k \in 1 .. Len(u)
      PROVE  d.cells[h + k - 1] = [pos |-> u[k].pos, delta |-> 0, seqs |-> {u[k].seq}]
  BY <1>3 DEF Seated
<1>6. Slotted(d, u)
  <2>1. h + Len(u) <= KvSize
    BY <1>1 DEF FreeAt
  <2> QED BY <1>2, <1>4, <1>5, <2>1 DEF Slotted
<1>7. ASSUME NEW i \in Cells PROVE d.cells[i].delta = 0
  <2>1. CASE i \in h .. h + Len(u) - 1
    <3>1. PICK k \in 1 .. Len(u) : i = h + k - 1
      <4>1. i - h + 1 \in 1 .. Len(u) /\ i = h + (i - h + 1) - 1
        BY <1>1, <2>1
      <4> QED BY <4>1
    <3>2. PICK p, t : p = u[k].pos /\ t = u[k].seq
      OBVIOUS
    <3>3. d.cells[i] = [pos |-> p, delta |-> 0, seqs |-> {t}]
      BY <1>5, <3>1, <3>2
    <3> QED BY <3>3
  <2>2. CASE i \notin h .. h + Len(u) - 1
    BY <1>3, <2>2 DEF Seated
  <2> QED BY <2>1, <2>2
<1>8. ASSUME NEW s \in SeqIds \ d.torn
      PROVE  /\ ~ sl[s].inUse =>
                  Holds(d, s, sl[s].inputs, 0 .. Len(sl[s].inputs) - 1, 0 .. NumCtx - 1)
             /\ \A i \in Seats : sq[i] # NoSeq /\ sq[i].slot = s =>
                  Holds(d, s, sl[s].inputs \o sq[i].pendingInputs,
                        (All(sl, sq[i]) \ Left(r, s)) \ Left(u, s), All(sl, sq[i]) \ Left(r, s))
  <2>1. s \in SeqIds \ c.torn /\ SeatsOK(sl, sq)
    BY <1>4 DEF Shares
  <2>2. ASSUME ~ sl[s].inUse
        PROVE  Holds(d, s, sl[s].inputs, 0 .. Len(sl[s].inputs) - 1, 0 .. NumCtx - 1)
    <3>1. PICK P, B : P = 0 .. Len(sl[s].inputs) - 1 /\ B = 0 .. NumCtx - 1
      OBVIOUS
    <3>2. Holds(c, s, sl[s].inputs, P, B)
      BY <2>1, <2>2, <3>1 DEF Cached
    <3>3. Left(u, s) = {}
      BY <1>1, <2>1, <2>2, NoInputs
    <3>4. P \subseteq B
      <4>1. sl[s] \in SlotOK /\ Len(sl[s].inputs) <= NumCtx
        BY <2>1 DEF SeatsOK, Shares, InShare
      <4>2. PICK l \in Nat : l = Len(sl[s].inputs)
        BY <4>1 DEF SlotOK
      <4> QED BY <3>1, <4>1, <4>2, ContextSize
    <3>5. Holds(d, s, sl[s].inputs, P, B \cup Left(u, s))
      BY <1>2, <1>3, <2>1, <3>2, <3>3, <3>4, SeatedHolds
    <3>6. B \cup Left(u, s) = B
      BY <3>3
    <3> QED BY <3>1, <3>5, <3>6
  <2>3. ASSUME NEW i \in Seats, sq[i] # NoSeq, sq[i].slot = s
        PROVE  Holds(d, s, sl[s].inputs \o sq[i].pendingInputs,
                     (All(sl, sq[i]) \ Left(r, s)) \ Left(u, s), All(sl, sq[i]) \ Left(r, s))
    <3>1. PICK A, L, M, a : /\ A = All(sl, sq[i]) /\ L = Left(u, s) /\ M = Left(r, s)
                            /\ a = sl[s].inputs \o sq[i].pendingInputs
      OBVIOUS
    <3>2. Left(b, s) = L \cup M /\ L \cap M = {}
      BY <1>1, <3>1
    <3>3. L \subseteq A
      BY <1>1, <2>1, <2>3, <3>1, LeftOfSeat
    <3>4. Holds(c, s, a, (A \ Left(b, s)) \ Left(<<>>, s), A \ Left(b, s))
      BY <2>1, <2>3, <3>1 DEF Cached
    <3>5. PICK P : P = A \ (L \cup M)
      OBVIOUS
    <3>6. Holds(c, s, a, P, P)
      <4>1. (A \ Left(b, s)) \ Left(<<>>, s) = P /\ A \ Left(b, s) = P
        BY <3>2, <3>5, NothingLeft
      <4> QED BY <3>4, <4>1
    <3>7. Holds(d, s, a, P, P \cup L)
      <4>1. Left(u, s) \cap P = {} /\ P \subseteq P
        BY <3>1, <3>5
      <4> QED BY <1>2, <1>3, <2>1, <3>1, <3>6, <4>1, SeatedHolds
    <3>8. (A \ M) \ L = P /\ A \ M = P \cup L
      BY <3>2, <3>3, <3>5
    <3> QED BY <3>1, <3>7, <3>8
  <2> QED BY <2>2, <2>3
<1>9. Cached(d, sl, sq, r, u)
  BY <1>8 DEF Cached
<1> QED BY <1>3, <1>6, <1>7, <1>9 DEF InSlot

(* The ubatch is computed.                                                 *)
LEMMA ComputedCached ==
  ASSUME NEW c, CacheOK(c), NEW sl, NEW sq, Shares(sl, sq), NEW b, BatchOK(b, sl, sq),
         NEW u, BatchOK(u, sl, sq), Slotted(c, u), Cached(c, sl, sq, b, u),
         NEW d, d = Advance(WriteRows(c, u), Len(u))
  PROVE  CacheOK(d) /\ d.torn = c.torn /\ d.cells = c.cells /\ Cached(d, sl, sq, b, <<>>)
<1>1. CacheOK(d) /\ Written(c, u, d)
  BY ComputeWorks DEF Slotted
<1>2. d.torn = c.torn /\ d.cells = c.cells
  BY <1>1 DEF Written
<1>3. ASSUME NEW s \in SeqIds \ d.torn
      PROVE  /\ ~ sl[s].inUse =>
                  Holds(d, s, sl[s].inputs, 0 .. Len(sl[s].inputs) - 1, 0 .. NumCtx - 1)
             /\ \A i \in Seats : sq[i] # NoSeq /\ sq[i].slot = s =>
                  Holds(d, s, sl[s].inputs \o sq[i].pendingInputs,
                        (All(sl, sq[i]) \ Left(b, s)) \ Left(<<>>, s), All(sl, sq[i]) \ Left(b, s))
  <2>1. s \in SeqIds \ c.torn /\ SeatsOK(sl, sq)
    BY <1>2 DEF Shares
  <2>2. ASSUME ~ sl[s].inUse
        PROVE  Holds(d, s, sl[s].inputs, 0 .. Len(sl[s].inputs) - 1, 0 .. NumCtx - 1)
    <3>1. PICK P, B, a : P = 0 .. Len(sl[s].inputs) - 1 /\ B = 0 .. NumCtx - 1 /\ a = sl[s].inputs
      OBVIOUS
    <3>2. Holds(c, s, a, P, B)
      BY <2>1, <2>2, <3>1 DEF Cached
    <3>3. Left(u, s) = {}
      BY <2>1, <2>2, NoInputs
    <3>4. \A k \in 1 .. Len(u) : u[k].seq # s
      BY <3>3 DEF Left
    <3>5. Holds(d, s, a, P \cup Left(u, s), B)
      BY <1>1, <2>1, <3>2, <3>4, WrittenHolds
    <3>6. P \cup Left(u, s) = P
      BY <3>3
    <3> QED BY <3>1, <3>5, <3>6
  <2>3. ASSUME NEW i \in Seats, sq[i] # NoSeq, sq[i].slot = s
        PROVE  Holds(d, s, sl[s].inputs \o sq[i].pendingInputs,
                     (All(sl, sq[i]) \ Left(b, s)) \ Left(<<>>, s), All(sl, sq[i]) \ Left(b, s))
    <3>1. PICK A, L, M, a : /\ A = All(sl, sq[i]) /\ L = Left(u, s) /\ M = Left(b, s)
                            /\ a = sl[s].inputs \o sq[i].pendingInputs
      OBVIOUS
    <3>2. Holds(c, s, a, (A \ M) \ L, A \ M)
      BY <2>1, <2>3, <3>1 DEF Cached
    <3>3. ASSUME NEW k \in 1 .. Len(u), u[k].seq = s PROVE u[k].tok = a[u[k].pos + 1]
      <4>1. InText(u[k], sl, sq[i])
        BY <2>1, <2>3, <3>3, InputOfSeat
      <4> QED BY <2>3, <3>1, <4>1 DEF InText
    <3>4. PICK P, B : P = (A \ M) \ L /\ B = A \ M
      OBVIOUS
    <3>5. Holds(d, s, a, P \cup L, B)
      BY <1>1, <2>1, <3>1, <3>2, <3>3, <3>4, WrittenHolds
    <3>6. B \subseteq P \cup L /\ B \subseteq B
      BY <3>4
    <3>7. Holds(d, s, a, B, B)
      BY <3>5, <3>6, HoldsLess
    <3>8. (A \ M) \ Left(<<>>, s) = B
      BY <3>4, NothingLeft
    <3> QED BY <3>1, <3>4, <3>7, <3>8
  <2> QED BY <2>2, <2>3
<1> QED BY <1>1, <1>2, <1>3 DEF Cached

(* The next ubatch gets its slot; only a cache that another sequence's     *)
(* shift has disturbed may have none.                                      *)
LEMMA PrepareStep ==
  ASSUME LlamaInv, PrepareUbatch
  PROVE  LlamaInv'
<1>1. PICK c, sl, sq, b, d, e : /\ c = cache /\ sl = slots /\ sq = seqs /\ b = sbatch
                                /\ d = cache' /\ e = restorer'
  OBVIOUS
<1>2. /\ CacheOK(c) /\ Shares(sl, sq) /\ BatchOK(b, sl, sq) /\ Cached(c, sl, sq, b, <<>>)
      /\ b # <<>> /\ phase = "prepare" /\ code = 0 /\ cur = 0
  BY <1>1 DEF PrepareUbatch, LlamaInv, LoopOK, Now
<1>3. PICK n : n = Least(UBatchSize, Len(b))
  OBVIOUS
<1>4. n \in 1 .. Len(b) /\ n \in Nat \ {0}
  <2>1. b \in Seq(BatchInput)
    BY <1>2 DEF BatchOK
  <2>2. Len(b) \in Nat \ {0}
    BY <1>2, <2>1, EmptySeq
  <2> QED BY <1>3, <2>2, RunnerAssumption DEF Least
<1>5. PICK u, r : u = SubSeq(b, 1, n) /\ r = SubSeq(b, n + 1, Len(b))
  OBVIOUS
<1>6. Cut(b, n, u, r, sl, sq)
  BY <1>2, <1>4, <1>5, SplitBatch
<1>7. PICK x : x = SlotFor(Rewound(KShift(c), n), n)
  OBVIOUS
<1>8. /\ CacheOK(x.cache) /\ x.cache.torn = c.torn
      /\ \A i \in Cells : x.cache.cells[i].delta = 0
      /\ x.slot.found \in BOOLEAN /\ x.slot.head \in 0 .. KvSize
      /\ x.slot.found => FreeAt(x.cache, n, x.slot.head)
      /\ ~ x.slot.found => c.used + n > KvSize
      /\ \A s \in SeqIds : \A a, P, B : Holds(c, s, a, P, B) => Holds(x.cache, s, a, P, B)
  BY <1>2, <1>4, <1>7, PreparedKeeps
<1>9. /\ ubatch' = u /\ sbatch' = r /\ slots' = sl /\ seqs' = sq /\ cur' = 0
      /\ IF x.slot.found
         THEN /\ d = Occupy(x.cache, x.slot.head, u) /\ phase' = "compute" /\ code' = 0
              /\ e = [restorer EXCEPT !.boundaries = Append(@, <<x.slot.head, x.slot.head + n>>)]
         ELSE /\ d = [x.cache EXCEPT !.head = x.slot.head] /\ phase' = "dead"
              /\ code' = 1 /\ e = restorer
  BY <1>1, <1>2, <1>3, <1>5, <1>7 DEF PrepareUbatch
<1>10. PICK y, h : y = x.cache /\ h = x.slot.head
  OBVIOUS
<1>11. CASE x.slot.found
  <2>1. Cached(y, sl, sq, b, <<>>)
    <3>1. y.torn = c.torn
      BY <1>8, <1>10
    <3>2. \A s \in SeqIds : \A a, P, B : Holds(c, s, a, P, B) => Holds(y, s, a, P, B)
      BY <1>8, <1>10
    <3>3. ASSUME NEW s \in SeqIds \ y.torn, ~ sl[s].inUse
          PROVE  Holds(y, s, sl[s].inputs, 0 .. Len(sl[s].inputs) - 1, 0 .. NumCtx - 1)
      <4>1. Holds(c, s, sl[s].inputs, 0 .. Len(sl[s].inputs) - 1, 0 .. NumCtx - 1)
        BY <1>2, <3>1, <3>3 DEF Cached
      <4> QED BY <3>2, <4>1
    <3>4. ASSUME NEW s \in SeqIds \ y.torn, NEW i \in Seats, sq[i] # NoSeq, sq[i].slot = s
          PROVE  Holds(y, s, sl[s].inputs \o sq[i].pendingInputs,
                       (All(sl, sq[i]) \ Left(b, s)) \ Left(<<>>, s), All(sl, sq[i]) \ Left(b, s))
      <4>1. Holds(c, s, sl[s].inputs \o sq[i].pendingInputs,
                  (All(sl, sq[i]) \ Left(b, s)) \ Left(<<>>, s), All(sl, sq[i]) \ Left(b, s))
        BY <1>2, <3>1, <3>4 DEF Cached
      <4> QED BY <3>2, <4>1
    <3> QED BY <3>3, <3>4 DEF Cached
  <2>2. /\ CacheOK(d) /\ Slotted(d, u) /\ Cached(d, sl, sq, r, u)
        /\ \A i \in Cells : d.cells[i].delta = 0
    <3>1. /\ CacheOK(y) /\ h \in 0 .. KvSize /\ FreeAt(y, n, h) /\ d = Occupy(y, h, u)
          /\ \A i \in Cells : y.cells[i].delta = 0
      BY <1>8, <1>9, <1>10, <1>11
    <3>2. Undecoded(y, sl, sq, b)
      BY <1>2, <2>1, <3>1 DEF Undecoded
    <3>3. InSlot(d, sl, sq, r, u)
      BY <1>4, <1>5, <3>1, <3>2, OccupiedCached
    <3> QED BY <3>3 DEF InSlot
  <2>3. RestorerOK'
    <3>1. h \in Nat /\ h + n \in Nat
      BY <1>4, <1>8, <1>10
    <3>2. PICK k \in Nat \X Nat : k = <<h, h + n>>
      BY <3>1
    <3>3. PICK v \in Seq(Nat \X Nat) : v = restorer.boundaries
      BY DEF LlamaInv, RestorerOK
    <3>4. Append(v, k) \in Seq(Nat \X Nat)
      BY AppendProperties
    <3>5. PICK w : w = Append(v, k)
      OBVIOUS
    <3>6. e = [restorer EXCEPT !.boundaries = w]
      BY <1>9, <1>10, <1>11, <3>2, <3>3, <3>5
    <3> QED BY <1>1, <3>4, <3>5, <3>6 DEF LlamaInv, RestorerOK
  <2>4. 0 \in Seats
    BY ContextSize DEF Seats, SeqIds
  <2>5. LoopOK'
    <3>1. Slotted(cache, ubatch)' /\ BatchOK(ubatch, slots, seqs)' /\ Before(ubatch, sbatch)'
      BY <1>1, <1>6, <1>9, <2>2 DEF Cut
    <3>2. (\A i \in Cells : cache.cells[i].delta = 0)'
      BY <1>1, <2>2
    <3>3. phase' = "compute" /\ code' = 0 /\ cur' = 0
      BY <1>9, <1>11
    <3> QED BY <2>4, <3>1, <3>2, <3>3 DEF LoopOK
  <2>6. Now' = u
    BY <1>9, <1>11 DEF Now
  <2>7. AttentionExactUnlessTorn' /\ NeverFull'
    BY <1>9, <1>11 DEF AttentionExactUnlessTorn, NeverFull
  <2> QED BY <1>1, <1>2, <1>6, <1>9, <2>2, <2>3, <2>5, <2>6, <2>7 DEF LlamaInv, Cut
<1>12. CASE ~ x.slot.found
  <2>1. CacheOK(d) /\ d.torn = c.torn
    BY <1>8, <1>9, <1>10, <1>12, HeadMoves
  <2>2. c.torn # {}
    <3> SUFFICES ASSUME c.torn = {} PROVE FALSE
      OBVIOUS
    <3>1. c.used + Len(b) <= KvSize
      BY <1>2, BatchHasRoom
    <3>2. c.used + n > KvSize
      BY <1>8, <1>12
    <3>3. c.used \in Nat /\ n <= Len(b) /\ Len(b) \in Nat /\ n \in Nat
      BY <1>2, <1>4, StraysMatch, RingSize
    <3> QED BY <3>1, <3>2, <3>3, RingSize
  <2>3. NeverFull'
    BY <1>1, <2>1, <2>2 DEF NeverFull
  <2>4. RestorerOK'
    BY <1>1, <1>9, <1>12 DEF LlamaInv, RestorerOK
  <2>5. phase' = "dead"
    BY <1>9, <1>12
  <2> QED BY <1>1, <2>1, <2>3, <2>4, <2>5 DEF LlamaInv
<1> QED BY <1>8, <1>11, <1>12

(* The mask shows an input the cells of its sequence up to its position.   *)
LEMMA MaskShows ==
  ASSUME NEW c, CacheOK(c), NEW s \in SeqIds, NEW p \in Nat
  PROVE  Visible(c, s, p) = {i \in Has(c, s) : c.cells[i].pos <= p}
<1>1. ASSUME NEW i \in Has(c, s) PROVE i \in 0 .. CellMax(c) - 1
  <2>1. i \in Owned(c.cells) /\ i \in Cells
    BY <1>1, HasCells
  <2>2. PICK m \in Nat : m = KvSize - 1
    BY RingSize
  <2>3. Owned(c.cells) \subseteq 0 .. m
    BY <2>2 DEF Owned, Cells
  <2>4. Max(Owned(c.cells)) \in Owned(c.cells) /\ i <= Max(Owned(c.cells))
    BY <2>1, <2>2, <2>3, MaxFound
  <2>5. PICK x \in 0 .. m : x = Max(Owned(c.cells))
    BY <2>3, <2>4
  <2>6. CellMax(c) = x + 1
    BY <2>1, <2>5 DEF CellMax
  <2> QED BY <2>1, <2>2, <2>4, <2>5, <2>6 DEF Cells
<1>2. 0 .. CellMax(c) - 1 \subseteq Cells
  <2>1. CASE Owned(c.cells) = {}
    BY <2>1 DEF CellMax
  <2>2. CASE Owned(c.cells) # {}
    <3>1. PICK m \in Nat : m = KvSize - 1
      BY RingSize
    <3>2. Owned(c.cells) \subseteq 0 .. m
      BY <3>1 DEF Owned, Cells
    <3>3. PICK x \in 0 .. m : x = Max(Owned(c.cells))
      BY <2>2, <3>2, MaxFound
    <3>4. CellMax(c) = x + 1
      BY <2>2, <3>3 DEF CellMax
    <3> QED BY <3>1, <3>3, <3>4 DEF Cells
  <2> QED BY <2>1, <2>2
<1> QED BY <1>1, <1>2 DEF Visible, Has

(* So it sees the text up to itself, each token once.                      *)
Saw(c, s, p, text) ==
  /\ Cardinality(Visible(c, s, p)) = p + 1
  /\ {c.rows[i] : i \in Visible(c, s, p)} = {[tok |-> text[q + 1], at |-> q] : q \in 0 .. p}

LEMMA SeesText ==
  ASSUME NEW c, CacheOK(c), NEW s \in SeqIds, NEW a, NEW P, NEW B, Holds(c, s, a, P, B),
         NEW p \in Nat, 0 .. p \subseteq P, NEW text, \A q \in 0 .. p : text[q + 1] = a[q + 1],
         \A i \in Cells : c.cells[i].delta = 0
  PROVE  Saw(c, s, p, text)
<1>1. PICK V : V = Visible(c, s, p)
  OBVIOUS
<1>2. /\ V \in SUBSET Cells /\ V \subseteq Has(c, s) /\ \A i \in V : c.cells[i].pos \in 0 .. p
      /\ \A i \in Has(c, s) : c.cells[i].pos \in 0 .. p => i \in V
  <2>1. V = {i \in Has(c, s) : c.cells[i].pos <= p}
    BY <1>1, MaskShows
  <2>2. \A i \in Has(c, s) : c.cells[i].pos \in Nat /\ i \in Cells
    BY HasCells
  <2> QED BY <2>1, <2>2
<1>3. \A q \in 0 .. p : \E i \in V : c.cells[i].pos = q
  <2> SUFFICES ASSUME NEW q \in 0 .. p PROVE \E i \in V : c.cells[i].pos = q
    OBVIOUS
  <2>1. PICK i \in Has(c, s) : c.cells[i].pos = q
    BY DEF Holds
  <2> QED BY <1>2, <2>1
<1>4. \A i, j \in V : c.cells[i].pos = c.cells[j].pos => i = j
  BY <1>2 DEF Holds
<1>5. Cardinality(V) = p + 1
  <2>1. IsFiniteSet(V)
    BY <1>2, CellsFinite
  <2>2. PICK f : f = [i \in V |-> c.cells[i].pos]
    OBVIOUS
  <2>3. f \in [V -> 0 .. p] /\ \A i \in V : f[i] = c.cells[i].pos
    BY <1>2, <2>2
  <2>4. PICK T : T = 0 .. p
    OBVIOUS
  <2>5. (\A i, j \in V : f[i] = f[j] => i = j) /\ \A q \in T : \E i \in V : f[i] = q
    BY <1>3, <1>4, <2>3, <2>4
  <2>6. f \in [V -> T]
    BY <2>3, <2>4
  <2>7. Cardinality(T) = Cardinality(V)
    BY <2>1, <2>5, <2>6, SameSize
  <2>8. PICK m \in Nat : m = p + 1
    OBVIOUS
  <2>9. Cardinality(0 .. m - 1) = m /\ 0 .. m - 1 = 0 .. p
    BY <2>8, IntervalSize
  <2> QED BY <2>4, <2>7, <2>8, <2>9
<1>6. ASSUME NEW i \in V, NEW q \in 0 .. p, c.cells[i].pos = q
      PROVE  c.rows[i] = [tok |-> text[q + 1], at |-> q]
  <2>1. i \in Cells /\ i \in Has(c, s) /\ q \in P /\ q \in Int
    BY <1>2
  <2>2. /\ c.rows[i] # NoRow /\ c.rows[i].tok = a[q + 1] /\ c.rows[i].at + c.cells[i].delta = q
    BY <1>6, <2>1 DEF Holds
  <2>3. c.cells[i].delta = 0
    BY <2>1
  <2>4. c.rows[i] \in Row
    BY <2>1, <2>2 DEF CacheOK, CacheT
  <2>5. PICK r \in Row : r = c.rows[i]
    BY <2>4
  <2>6. r.at \in Int /\ r.tok = text[q + 1]
    BY <2>2, <2>5 DEF Row
  <2>7. r.at = q
    BY <2>1, <2>2, <2>3, <2>5, <2>6
  <2> QED BY <2>5, <2>6, <2>7 DEF Row
<1>7. {c.rows[i] : i \in V} = {[tok |-> text[q + 1], at |-> q] : q \in 0 .. p}
  <2>1. ASSUME NEW i \in V PROVE c.rows[i] \in {[tok |-> text[q + 1], at |-> q] : q \in 0 .. p}
    <3>1. PICK q \in 0 .. p : c.cells[i].pos = q
      BY <1>2
    <3> QED BY <1>6, <3>1
  <2>2. ASSUME NEW q \in 0 .. p PROVE [tok |-> text[q + 1], at |-> q] \in {c.rows[i] : i \in V}
    <3>1. PICK i \in V : c.cells[i].pos = q
      BY <1>3
    <3> QED BY <1>6, <3>1
  <2> QED BY <2>1, <2>2
<1> QED BY <1>1, <1>5, <1>7 DEF Saw

(* What the ubatch saw when it was computed.                               *)
LEMMA ComputedSaw ==
  ASSUME NEW d, NEW sl, NEW sq, NEW b, Undecoded(d, sl, sq, b),
         NEW u, BatchOK(u, sl, sq), Before(u, b), \A i \in Cells : d.cells[i].delta = 0,
         NEW k \in 1 .. Len(u), NEW i \in Seats, sq[i] # NoSeq, sq[i].slot = u[k].seq,
         u[k].seq \notin d.torn
  PROVE  Saw(d, u[k].seq, u[k].pos, sq[i].text)
<1>1. SeatsOK(sl, sq) /\ BatchOK(b, sl, sq) /\ CacheOK(d)
  BY DEF Undecoded, Shares
<1>2. PICK s \in SeqIds, p \in Nat : s = u[k].seq /\ p = u[k].pos
  <2>1. u[k] \in BatchInput
    BY DEF BatchOK
  <2> QED BY <2>1, ContextSize DEF BatchInput
<1>3. PICK a, A : a = sl[s].inputs \o sq[i].pendingInputs /\ A = All(sl, sq[i])
  OBVIOUS
<1>4. /\ sl[s].inputs \in Seq(Tokens) /\ sq[i].pendingInputs \in Seq(Tokens)
      /\ sq[i].inputs \in Seq(Tokens)
  BY <1>1, <1>2, SeatTypes
<1>5. /\ a \in Seq(Tokens) /\ A = 0 .. Len(a) - 1 /\ Len(a) \in Nat
      /\ sq[i].text = a \o sq[i].inputs
  <2>1. a \in Seq(Tokens) /\ Len(a) = Len(sl[s].inputs) + Len(sq[i].pendingInputs)
    BY <1>3, <1>4, ConcatProperties
  <2>2. A = 0 .. Len(a) - 1
    BY <1>2, <1>3, <2>1 DEF All
  <2>3. sq[i].text = a \o sq[i].inputs
    BY <1>2, <1>3 DEF Undecoded, Shares, TextsOK
  <2>4. Len(a) \in Nat
    BY <2>1, LenProperties
  <2> QED BY <2>1, <2>2, <2>3, <2>4
<1>6. p \in 0 .. Len(a) - 1
  <2>1. InText(u[k], sl, sq[i])
    BY <1>1, InputOfSeat
  <2> QED BY <1>2, <1>3, <1>5, <2>1 DEF InText
<1>7. 0 .. p \subseteq A \ Left(b, s)
  <2> SUFFICES ASSUME NEW q \in 0 .. p, q \in Left(b, s) PROVE FALSE
    BY <1>5, <1>6
  <2>1. PICK m \in 1 .. Len(b) : b[m].seq = s /\ q = b[m].pos
    BY DEF Left
  <2>2. p < q
    BY <1>2, <2>1 DEF Before
  <2> QED BY <2>2
<1>8. PICK P : P = A \ Left(b, s)
  OBVIOUS
<1>9. Holds(d, s, a, P, P)
  <2>1. Holds(d, s, a, P \ Left(<<>>, s), P)
    BY <1>2, <1>3, <1>8 DEF Undecoded, Cached
  <2>2. P \ Left(<<>>, s) = P
    BY NothingLeft
  <2> QED BY <2>1, <2>2
<1>10. PICK text : text = sq[i].text
  OBVIOUS
<1>11. \A q \in 0 .. p : text[q + 1] = a[q + 1]
  <2> SUFFICES ASSUME NEW q \in 0 .. p PROVE text[q + 1] = a[q + 1]
    OBVIOUS
  <2>1. q + 1 \in 1 .. Len(a)
    BY <1>5, <1>6
  <2> QED BY <1>4, <1>5, <1>10, <2>1, ConcatProperties
<1>12. 0 .. p \subseteq P
  BY <1>7, <1>8
<1>13. Saw(d, s, p, text)
  BY <1>1, <1>9, <1>11, <1>12, SeesText
<1> QED BY <1>2, <1>10, <1>13

(* The graph is computed.                                                  *)
LEMMA ComputeStep ==
  ASSUME LlamaInv, ComputeUbatch
  PROVE  LlamaInv'
<1>1. PICK c, sl, sq, b, u, d : /\ c = cache /\ sl = slots /\ sq = seqs /\ b = sbatch
                                /\ u = ubatch /\ d = cache'
  OBVIOUS
<1>2. /\ CacheOK(c) /\ Shares(sl, sq) /\ BatchOK(b, sl, sq) /\ Cached(c, sl, sq, b, u)
      /\ phase = "compute" /\ code = 0 /\ cur = 0
      /\ Slotted(c, u) /\ BatchOK(u, sl, sq) /\ Before(u, b)
      /\ \A i \in Cells : c.cells[i].delta = 0
  BY <1>1 DEF ComputeUbatch, LlamaInv, LoopOK, Now
<1>3. /\ ubatch' = u /\ sbatch' = b /\ slots' = sl /\ seqs' = sq /\ cur' = 0 /\ code' = 0
      /\ d = Advance(WriteRows(c, u), Len(u)) /\ phase' = (IF b = <<>> THEN "sample" ELSE "prepare")
      /\ restorer' = IF b = <<>> THEN NoRestorer ELSE restorer
  BY <1>1, <1>2 DEF ComputeUbatch
<1>4. CacheOK(d) /\ d.torn = c.torn /\ d.cells = c.cells /\ Cached(d, sl, sq, b, <<>>)
  BY <1>2, <1>3, ComputedCached
<1>5. Undecoded(d, sl, sq, b) /\ \A i \in Cells : d.cells[i].delta = 0
  BY <1>2, <1>4 DEF Undecoded
<1>6. AttentionExactUnlessTorn'
  <2> SUFFICES ASSUME NEW k \in 1 .. Len(u), NEW i \in Seats, sq[i] # NoSeq,
                      sq[i].slot = u[k].seq, u[k].seq \notin d.torn
               PROVE  SawText(u[k], sq[i].text)'
    BY <1>1, <1>3 DEF AttentionExactUnlessTorn, Nil
  <2>1. Saw(d, u[k].seq, u[k].pos, sq[i].text)
    BY <1>2, <1>5, ComputedSaw
  <2> QED BY <1>1, <2>1 DEF Saw, SawText
<1>7. LoopOK'
  <2>1. 0 \in Seats /\ \A i \in Seats : ~ (i < 0)
    BY ContextSize DEF Seats, SeqIds
  <2> QED BY <1>3, <2>1 DEF LoopOK
<1>8. RestorerOK'
  BY <1>3, RingSize DEF LlamaInv, RestorerOK, NoRestorer
<1>9. NeverFull'
  BY <1>3 DEF NeverFull
<1>10. Now' = <<>> /\ phase' # "dead"
  BY <1>3 DEF Now
<1> QED BY <1>1, <1>2, <1>3, <1>4, <1>6, <1>7, <1>8, <1>9, <1>10 DEF LlamaInv

(* A failure gives the cells back; after it the runner panics.             *)
LEMMA ComputeFailsStep ==
  ASSUME LlamaInv, ComputeFails
  PROVE  LlamaInv'
<1>1. CacheOK(cache) /\ restorer.head \in 0 .. KvSize /\ restorer.boundaries \in Seq(Nat \X Nat)
  BY DEF LlamaInv, RestorerOK
<1>2. CacheOK(cache')
  BY <1>1, RestoreWorks DEF ComputeFails
<1>3. phase' = "dead" /\ code' = -3 /\ restorer' = restorer
  BY DEF ComputeFails
<1>4. RestorerOK' /\ NeverFull'
  BY <1>1, <1>3 DEF RestorerOK, NeverFull
<1> QED BY <1>2, <1>3, <1>4 DEF LlamaInv

-----------------------------------------------------------------------------
(* LoadCacheSlot on the cache.                                             *)

(* Removing from a sequence does not touch another one ...                 *)
LEMMA TrimKeeps ==
  ASSUME NEW c, NEW s, NEW p0, NEW p1, NEW d, Trimmed(c, s, p0, p1, d), CacheOK(d),
         NEW t \in SeqIds, t # s, NEW a, NEW P, NEW B, Holds(c, t, a, P, B)
  PROVE  Holds(d, t, a, P, B)
<1>1. Has(d, t) = Has(c, t)
  BY DEF Trimmed
<1>2. \A i \in Has(c, t) : Same(c, d, i)
  BY <1>1, HasCells DEF Trimmed
<1> QED BY <1>1, <1>2, Unmoved

(* ... nor does copying to it.                                             *)
LEMMA CopyKeeps ==
  ASSUME NEW c, NEW src, NEW s, NEW p0, NEW p1, NEW d, Copied(c, src, s, p0, p1, d),
         NEW t \in SeqIds, t # s, NEW a, NEW P, NEW B, Holds(c, t, a, P, B)
  PROVE  Holds(d, t, a, P, B)
<1>1. Has(d, t) = Has(c, t)
  BY DEF Copied
<1>2. \A i \in Has(c, t) : Same(c, d, i)
  BY DEF Copied, Has
<1> QED BY <1>1, <1>2, Unmoved

(* Without its end a sequence holds the rest.                              *)
LEMMA CutHolds ==
  ASSUME NEW c, CacheOK(c), NEW s \in SeqIds, NEW a, NEW P, NEW B, Holds(c, s, a, P, B),
         NEW n \in Nat, 0 .. n - 1 \subseteq P, NEW d, CacheOK(d), Trimmed(c, s, n, -1, d)
  PROVE  Holds(d, s, a, 0 .. n - 1, 0 .. n - 1)
<1>1. \A i \in Has(d, s) : i \in Has(c, s) /\ Same(c, d, i)
  BY HasCells DEF Trimmed
<1>2. \A i \in Has(c, s) : c.cells[i].pos \in Nat
  BY HasCells
<1>3. \A i \in Has(c, s) : i \in Has(d, s) <=> c.cells[i].pos \in 0 .. n - 1
  <2> SUFFICES ASSUME NEW i \in Has(c, s)
               PROVE  i \in Has(d, s) <=> c.cells[i].pos \in 0 .. n - 1
    OBVIOUS
  <2>1. PICK p \in Nat : p = c.cells[i].pos
    BY <1>2
  <2>2. Within(c.cells[i], n, -1) <=> p >= n
    BY <2>1 DEF Within
  <2>3. i \in Has(d, s) <=> ~ Within(c.cells[i], n, -1)
    BY DEF Trimmed
  <2> QED BY <2>1, <2>2, <2>3
<1>4. \A i \in Has(d, s) : /\ d.cells[i].pos = c.cells[i].pos /\ d.cells[i].delta = c.cells[i].delta
                           /\ d.rows[i] = c.rows[i] /\ c.cells[i].pos \in 0 .. n - 1
  BY <1>1, <1>3 DEF Same
<1>5. \A i, j \in Has(d, s) : d.cells[i].pos = d.cells[j].pos => i = j
  BY <1>1, <1>4 DEF Holds
<1>6. \A p \in 0 .. n - 1 : \E i \in Has(d, s) : d.cells[i].pos = p
  <2> SUFFICES ASSUME NEW p \in 0 .. n - 1 PROVE \E i \in Has(d, s) : d.cells[i].pos = p
    OBVIOUS
  <2>1. PICK i \in Has(c, s) : c.cells[i].pos = p
    BY DEF Holds
  <2> QED BY <1>3, <1>4, <2>1
<1>7. ASSUME NEW i \in Has(d, s)
      PROVE  /\ d.rows[i] # NoRow /\ d.rows[i].tok = a[d.cells[i].pos + 1]
             /\ d.rows[i].at + d.cells[i].delta = d.cells[i].pos
  <2>1. i \in Has(c, s) /\ c.cells[i].pos \in P
    BY <1>1, <1>4
  <2>2. /\ c.rows[i] # NoRow /\ c.rows[i].tok = a[c.cells[i].pos + 1]
        /\ c.rows[i].at + c.cells[i].delta = c.cells[i].pos
    BY <2>1 DEF Holds
  <2> QED BY <1>4, <2>2
<1> QED BY <1>4, <1>5, <1>6, <1>7 DEF Holds

(* An empty sequence that takes the start of another one holds it.         *)
LEMMA CopyHolds ==
  ASSUME NEW c, CacheOK(c), NEW src \in SeqIds, NEW s \in SeqIds, Has(c, s) = {},
         NEW a, NEW P, NEW B, Holds(c, src, a, P, B),
         NEW m \in Nat, 0 .. m - 1 \subseteq P, NEW d, Copied(c, src, s, 0, m, d)
  PROVE  Holds(d, s, a, 0 .. m - 1, 0 .. m - 1)
<1>1. \A i \in Has(c, src) : c.cells[i].pos \in Nat /\ i \in Cells
  BY HasCells
<1>2. \A i \in Has(d, s) : i \in Has(c, src) /\ Same(c, d, i)
  BY <1>1 DEF Copied
<1>3. \A i \in Has(c, src) : i \in Has(d, s) <=> c.cells[i].pos \in 0 .. m - 1
  <2> SUFFICES ASSUME NEW i \in Has(c, src)
               PROVE  i \in Has(d, s) <=> c.cells[i].pos \in 0 .. m - 1
    OBVIOUS
  <2>1. PICK p \in Nat : p = c.cells[i].pos
    BY <1>1
  <2>2. Within(c.cells[i], 0, m) <=> p < m
    BY <2>1 DEF Within
  <2>3. i \in Has(d, s) <=> Within(c.cells[i], 0, m)
    BY DEF Copied
  <2> QED BY <2>1, <2>2, <2>3
<1>4. \A i \in Has(d, s) : /\ d.cells[i].pos = c.cells[i].pos /\ d.cells[i].delta = c.cells[i].delta
                           /\ d.rows[i] = c.rows[i] /\ c.cells[i].pos \in 0 .. m - 1
  BY <1>2, <1>3 DEF Same
<1>5. \A i, j \in Has(d, s) : d.cells[i].pos = d.cells[j].pos => i = j
  BY <1>2, <1>4 DEF Holds
<1>6. \A p \in 0 .. m - 1 : \E i \in Has(d, s) : d.cells[i].pos = p
  <2> SUFFICES ASSUME NEW p \in 0 .. m - 1 PROVE \E i \in Has(d, s) : d.cells[i].pos = p
    OBVIOUS
  <2>1. PICK i \in Has(c, src) : c.cells[i].pos = p
    BY DEF Holds
  <2> QED BY <1>3, <1>4, <2>1
<1>7. ASSUME NEW i \in Has(d, s)
      PROVE  /\ d.rows[i] # NoRow /\ d.rows[i].tok = a[d.cells[i].pos + 1]
             /\ d.rows[i].at + d.cells[i].delta = d.cells[i].pos
  <2>1. i \in Has(c, src) /\ c.cells[i].pos \in P
    BY <1>2, <1>4
  <2>2. /\ c.rows[i] # NoRow /\ c.rows[i].tok = a[c.cells[i].pos + 1]
        /\ c.rows[i].at + c.cells[i].delta = c.cells[i].pos
    BY <2>1 DEF Holds
  <2> QED BY <1>4, <2>2
<1> QED BY <1>4, <1>5, <1>6, <1>7 DEF Holds

(* The slot s with the first m inputs of another slot, then cut to n.      *)
Forks(c, from, s, m) ==
  IF from = s THEN c ELSE SeqCp(SeqRm(c, s, 0, -1), from, s, 0, m)

(* A fork leaves the other sequences alone, and s is what from was.        *)
Taken(c, s, a, m, y) ==
  /\ CacheOK(y) /\ \A t \in SeqIds \ {s} : t \in y.torn <=> t \in c.torn
  /\ \A t \in SeqIds \ {s} : \A x, P, B : Holds(c, t, x, P, B) => Holds(y, t, x, P, B)
  /\ s \notin y.torn => \E P, B : 0 .. m - 1 \subseteq P /\ Holds(y, s, a, P, B)

LEMMA ForkHolds ==
  ASSUME NEW c, CacheOK(c), NEW s \in SeqIds, NEW from \in SeqIds, NEW a \in Seq(Tokens), NEW B0,
         from \notin c.torn => Holds(c, from, a, 0 .. Len(a) - 1, B0),
         NEW m \in 0 .. Len(a), NEW y, y = Forks(c, from, s, m)
  PROVE  Taken(c, s, a, m, y)
<1>1. PICK P0 : P0 = 0 .. Len(a) - 1
  OBVIOUS
<1>2. 0 .. m - 1 \subseteq P0 /\ m \in Nat
  BY <1>1
<1>3. CASE from = s
  <2>1. y = c
    BY <1>3 DEF Forks
  <2>2. s \notin y.torn => Holds(y, s, a, P0, B0)
    BY <1>1, <1>3, <2>1
  <2>3. s \notin y.torn => \E P, B : 0 .. m - 1 \subseteq P /\ Holds(y, s, a, P, B)
    BY <1>2, <2>2
  <2> QED BY <2>1, <2>3 DEF Taken
<1>4. CASE from # s
  <2>1. PICK x : x = SeqRm(c, s, 0, -1)
    OBVIOUS
  <2>2. CacheOK(x) /\ Trimmed(c, s, 0, -1, x)
    <3>1. PICK p0 \in Nat, p1 \in Int : p0 = 0 /\ p1 = -1
      OBVIOUS
    <3>2. x = SeqRm(c, s, p0, p1) /\ s \in SeqIds \cup {-1}
      BY <2>1, <3>1
    <3>3. CacheOK(x) /\ Trimmed(c, s, p0, p1, x)
      BY <3>2, SeqRmWorks
    <3> QED BY <3>1, <3>3
  <2>3. y = SeqCp(x, from, s, 0, m)
    BY <1>4, <2>1 DEF Forks
  <2>4. CacheOK(y) /\ Copied(x, from, s, 0, m, y)
    BY <2>2, <2>3, SeqCpWorks
  <2>5. x.torn = c.torn \ {s} /\ y.torn = IF from \in x.torn THEN x.torn \cup {s} ELSE x.torn \ {s}
    BY <2>2, <2>4 DEF Trimmed, Copied
  <2>6. Has(x, s) = {}
    <3> SUFFICES ASSUME NEW i \in Has(x, s) PROVE FALSE
      OBVIOUS
    <3>1. i \in Has(c, s) /\ ~ Within(c.cells[i], 0, -1)
      BY <2>2 DEF Trimmed
    <3>2. c.cells[i].pos \in Nat
      BY <3>1, HasCells
    <3> QED BY <3>1, <3>2 DEF Within
  <2>7. ASSUME NEW t \in SeqIds \ {s}, NEW z, NEW P, NEW B, Holds(c, t, z, P, B)
        PROVE  Holds(x, t, z, P, B) /\ Holds(y, t, z, P, B)
    <3>1. Holds(x, t, z, P, B)
      BY <2>2, <2>7, TrimKeeps
    <3>2. Holds(y, t, z, P, B)
      BY <2>4, <3>1, CopyKeeps
    <3> QED BY <3>1, <3>2
  <2>8. ASSUME s \notin y.torn PROVE \E P, B : 0 .. m - 1 \subseteq P /\ Holds(y, s, a, P, B)
    <3>1. from \notin c.torn
      BY <1>4, <2>5, <2>8
    <3>2. Holds(x, from, a, P0, B0)
      BY <1>1, <1>4, <2>7, <3>1
    <3>3. PICK Q : Q = 0 .. m - 1
      OBVIOUS
    <3>4. Holds(y, s, a, Q, Q)
      BY <1>2, <2>2, <2>4, <2>6, <3>2, <3>3, CopyHolds
    <3> QED BY <3>3, <3>4
  <2>9. \A t \in SeqIds \ {s} : t \in y.torn <=> t \in c.torn
    BY <2>5
  <2> QED BY <2>4, <2>7, <2>8, <2>9 DEF Taken
<1> QED BY <1>3, <1>4

(* The cache after LoadCacheSlot.                                          *)
Loaded(c, s, a, n, d) ==
  /\ CacheOK(d) /\ \A t \in SeqIds \ {s} : t \in d.torn <=> t \in c.torn
  /\ \A t \in SeqIds \ {s} : \A x, P, B : Holds(c, t, x, P, B) => Holds(d, t, x, P, B)
  /\ s \notin d.torn => Holds(d, s, SubSeq(a, 1, n), 0 .. n - 1, 0 .. n - 1)

LEMMA LoadHolds ==
  ASSUME NEW c, CacheOK(c), NEW s \in SeqIds, NEW from \in SeqIds, NEW a \in Seq(Tokens), NEW B0,
         from \notin c.torn => Holds(c, from, a, 0 .. Len(a) - 1, B0),
         NEW n \in Nat, NEW m \in n .. Len(a), NEW d, d = SeqRm(Forks(c, from, s, m), s, n, -1)
  PROVE  Loaded(c, s, a, n, d)
<1>1. m \in 0 .. Len(a) /\ m \in Nat /\ n <= m /\ Len(a) \in Nat
  OBVIOUS
<1>2. PICK y : y = Forks(c, from, s, m)
  OBVIOUS
<1>3. Taken(c, s, a, m, y)
  BY <1>1, <1>2, ForkHolds
<1>4. CacheOK(y)
  BY <1>3 DEF Taken
<1>5. CacheOK(d) /\ Trimmed(y, s, n, -1, d)
  BY <1>2, <1>4, SeqRmWorks
<1>6. d.torn = IF n = 0 THEN y.torn \ {s} ELSE y.torn
  BY <1>5 DEF Trimmed
<1>7. \A t \in SeqIds \ {s} : t \in d.torn <=> t \in c.torn
  BY <1>3, <1>6 DEF Taken
<1>8. ASSUME NEW t \in SeqIds \ {s}, NEW x, NEW P, NEW B, Holds(c, t, x, P, B)
      PROVE  Holds(d, t, x, P, B)
  <2>1. Holds(y, t, x, P, B)
    BY <1>3, <1>8 DEF Taken
  <2> QED BY <1>5, <2>1, TrimKeeps
<1>9. ASSUME s \notin d.torn PROVE Holds(d, s, SubSeq(a, 1, n), 0 .. n - 1, 0 .. n - 1)
  <2>1. CASE n = 0
    <3>1. Has(d, s) = {}
      <4> SUFFICES ASSUME NEW i \in Has(d, s) PROVE FALSE
        OBVIOUS
      <4>1. i \in Has(y, s) /\ ~ Within(y.cells[i], 0, -1)
        BY <1>5, <2>1 DEF Trimmed
      <4>2. y.cells[i].pos \in Nat
        BY <1>4, <4>1, HasCells
      <4> QED BY <4>1, <4>2 DEF Within
    <3>2. 0 .. n - 1 = {}
      BY <2>1
    <3> QED BY <3>1, <3>2 DEF Holds
  <2>2. CASE n # 0
    <3>1. PICK P, B : 0 .. m - 1 \subseteq P /\ Holds(y, s, a, P, B)
      BY <1>3, <1>6, <1>9, <2>2 DEF Taken
    <3>2. 0 .. n - 1 \subseteq P
      BY <1>1, <3>1
    <3>3. PICK Q : Q = 0 .. n - 1
      OBVIOUS
    <3>4. Holds(d, s, a, Q, Q)
      BY <1>4, <1>5, <3>1, <3>2, <3>3, CutHolds
    <3>5. PICK e : e = SubSeq(a, 1, n)
      OBVIOUS
    <3>6. \A p \in Q : e[p + 1] = a[p + 1]
      <4> SUFFICES ASSUME NEW p \in Q PROVE e[p + 1] = a[p + 1]
        OBVIOUS
      <4>1. PICK k \in 1 .. n : k = p + 1
        BY <3>3
      <4> QED BY <1>1, <3>5, <4>1, SubSeqProperties
    <3>7. Holds(d, s, e, Q, Q)
      BY <3>4, <3>6, HoldsLess
    <3> QED BY <3>3, <3>5, <3>7
  <2> QED BY <2>1, <2>2
<1> QED BY <1>5, <1>7, <1>8, <1>9 DEF Loaded

-----------------------------------------------------------------------------
(* LoadCacheSlot on the slots.                                             *)

(* A slot with the longest common prefix.                                  *)
LEMMA LongestFound ==
  ASSUME slots \in [SeqIds -> SlotOK], NEW S \in SUBSET SeqIds, S # {},
         NEW prompt \in Seq(Tokens)
  PROVE  Longest(S, prompt) \in S
<1> DEFINE T == {Common(t, prompt) : t \in S}
           B == {s \in S : \A t \in S : Common(t, prompt) <= Common(s, prompt)}
<1>1. \A t \in S : Common(t, prompt) \in 0 .. Len(prompt)
  <2> SUFFICES ASSUME NEW t \in S PROVE Common(t, prompt) \in 0 .. Len(prompt)
    OBVIOUS
  <2>1. PICK a \in Seq(Tokens) : a = slots[t].inputs
    BY DEF SlotOK
  <2>2. CountCommonPrefix(a, prompt) \in Nat /\ CountCommonPrefix(a, prompt) <= Len(prompt)
    BY CommonPrefix
  <2> QED BY <2>1, <2>2 DEF Common
<1>2. T \subseteq 0 .. Len(prompt) /\ T # {} /\ Len(prompt) \in Nat
  BY <1>1
<1>3. Max(T) \in T /\ \A m \in T : m <= Max(T)
  <2> HIDE DEF T
  <2> QED BY <1>2, MaxFound
<1>4. B # {}
  <2>1. PICK s \in S : Common(s, prompt) = Max(T)
    BY <1>3
  <2>2. \A t \in S : Common(t, prompt) <= Common(s, prompt)
    BY <1>3, <2>1
  <2> QED BY <2>2
<1>5. B \subseteq Nat
  <2>1. S \subseteq Nat
    BY ContextSize DEF SeqIds
  <2> QED BY <2>1
<1>6. Min(B) \in B
  <2> HIDE DEF B
  <2> QED BY <1>4, <1>5, MinFound
<1>7. Longest(S, prompt) = Min(B)
  BY DEF Longest
<1> QED BY <1>6, <1>7

(* The slot that was not used for the longest time.                        *)
LEMMA OldestFound ==
  ASSUME slots \in [SeqIds -> SlotOK], Unused # {}
  PROVE  Oldest \in Unused
<1> DEFINE T == {slots[t].lastUsed : t \in Unused}
           B == {s \in Unused : \A t \in Unused : slots[s].lastUsed <= slots[t].lastUsed}
<1>1. T \subseteq Nat /\ T # {}
  BY DEF Unused, SlotOK
<1>2. Min(T) \in T /\ \A m \in T : Min(T) <= m
  <2> HIDE DEF T
  <2> QED BY <1>1, MinFound
<1>3. PICK s \in Unused : slots[s].lastUsed = Min(T)
  BY <1>2
<1>4. \A t \in Unused : slots[s].lastUsed <= slots[t].lastUsed
  BY <1>2, <1>3
<1>5. B # {} /\ B \subseteq Nat
  BY <1>4, ContextSize DEF Unused, SeqIds
<1>6. Min(B) \in B
  <2> HIDE DEF B
  <2> QED BY <1>5, MinFound
<1>7. Oldest = Min(B)
  BY DEF Oldest
<1> QED BY <1>6, <1>7

(* The ranks of the slots remain numbers.                                  *)
LEMMA UsedNowTypes ==
  ASSUME slots \in [SeqIds -> SlotOK], NEW s \in SeqIds, NEW t \in SeqIds
  PROVE  UsedNow(s)[t] \in Nat
<1>1. Cardinality({u \in SeqIds : slots[u].lastUsed > 0}) \in Nat
  BY SeatsFinite DEF Seats
<1>2. slots[s].lastUsed \in Nat /\ slots[t].lastUsed \in Nat
  BY DEF SlotOK
<1> QED BY <1>1, <1>2 DEF UsedNow

(* What LoadCacheSlot finds: an unused slot, and another one or the same   *)
(* that holds the first inputs of the prompt, but not all of it.           *)
Loads(p, k, s, from, n, m) ==
  /\ n <= Len(slots[from].inputs)
  /\ SubSeq(slots[from].inputs, 1, n) = SubSeq(p, 1, n)
  /\ m \in n .. Len(slots[from].inputs)
  /\ cache' = SeqRm(Forks(cache, from, s, m), s, n, -1)
  /\ slots' = [t \in SeqIds |->
       IF t = s THEN [inputs |-> SubSeq(slots[from].inputs, 1, n),
                      inUse |-> TRUE, lastUsed |-> UsedNow(s)[s]]
       ELSE [slots[t] EXCEPT !.lastUsed = UsedNow(s)[t]]]
  /\ seqs' = [seqs EXCEPT ![Min(Nil)] =
       [slot |-> s, numKeep |-> k, pendingInputs |-> <<>>, numPredicted |-> 0,
        held |-> 0, inputs |-> SubSeq(p, n + 1, Len(p)), text |-> p]]

LEMMA SlotFound ==
  ASSUME slots \in [SeqIds -> SlotOK], NEW p \in Seq(Tokens), Len(p) \in Nat \ {0}, NEW k,
         NEW b \in BOOLEAN, LoadCacheSlot(p, k, b)
  PROVE  \E s \in Unused, from \in SeqIds, n \in 0 .. Len(p) - 1, m \in Nat :
           Loads(p, k, s, from, n, m)
<1> DEFINE found == IF multiUserCache THEN FindBestCacheSlot(p) ELSE FindLongestCacheSlot(p)
           n == NumPast(p, b, found)
<1>1. Unused # {} /\ Unused \subseteq SeqIds
  BY DEF LoadCacheSlot, Unused
<1>2. \A t \in SeqIds : slots[t].inputs \in Seq(Tokens)
  BY DEF SlotOK
<1>3. /\ found.slot \in Unused /\ found.from \in SeqIds
      /\ \/ found.numPast = CountCommonPrefix(slots[found.from].inputs, p)
         \/ found.numPast = 0
  <2>1. CASE multiUserCache
    <3> DEFINE s == Longest(SeqIds, p)
               longest == Common(s, p)
               whole == longest = Len(slots[s].inputs) /\ s \in Unused
               target == IF whole THEN s ELSE Oldest
    <3>1. s \in SeqIds /\ target \in Unused
      <4>1. s \in SeqIds
        <5>1. SeqIds # {}
          BY <1>1
        <5> QED BY <5>1, LongestFound
      <4> QED BY <1>1, <4>1, OldestFound
    <3>2. longest = CountCommonPrefix(slots[s].inputs, p)
      BY DEF Common
    <3>3. longest \in Nat
      <4>1. PICK a \in Seq(Tokens) : a = slots[s].inputs
        BY <1>2, <3>1
      <4> QED BY <3>2, <4>1, CommonPrefix
    <3>4. found = [slot |-> target, from |-> IF longest > 0 THEN s ELSE target,
                   numPast |-> longest]
      BY <2>1 DEF FindBestCacheSlot
    <3>5. /\ found.slot = target /\ found.from = (IF longest > 0 THEN s ELSE target)
          /\ found.numPast = longest
      BY <3>4
    <3> HIDE DEF found, s, longest, whole, target
    <3> QED BY <1>1, <3>1, <3>2, <3>3, <3>5
  <2>2. CASE ~multiUserCache
    <3> DEFINE s == Longest(Unused, p)
    <3>1. s \in Unused
      BY <1>1, LongestFound
    <3>2. found = [slot |-> s, from |-> s, numPast |-> Common(s, p)]
      BY <2>2 DEF FindLongestCacheSlot
    <3> HIDE DEF s, found
    <3> QED BY <1>1, <3>1, <3>2 DEF Common
  <2> QED BY <2>1, <2>2
<1>4. /\ slots' = [t \in SeqIds |->
           IF t = found.slot
           THEN [inputs |-> SubSeq(slots[found.from].inputs, 1, n),
                 inUse |-> TRUE, lastUsed |-> UsedNow(found.slot)[found.slot]]
           ELSE [slots[t] EXCEPT !.lastUsed = UsedNow(found.slot)[t]]]
      /\ seqs' = [seqs EXCEPT ![Min(Nil)] =
           [slot |-> found.slot, numKeep |-> k, pendingInputs |-> <<>>, numPredicted |-> 0,
            held |-> 0, inputs |-> SubSeq(p, n + 1, Len(p)), text |-> p]]
      /\ cache' = SeqRm(Forks(cache, found.from, found.slot, found.numPast), found.slot, n, -1)
  BY DEF LoadCacheSlot, Forked, Forks
<1> HIDE DEF found
<1>5. PICK a \in Seq(Tokens) : a = slots[found.from].inputs
  BY <1>2, <1>3
<1>6. PICK m \in Nat : /\ m = found.numPast /\ m <= Len(a) /\ m <= Len(p)
                       /\ SubSeq(a, 1, m) = SubSeq(p, 1, m)
  <2>1. CASE found.numPast = 0
    BY <1>5, <2>1, SubSeqEmpty
  <2> QED BY <1>3, <1>5, <2>1, CommonPrefix
<1>7. n \in 0 .. m /\ n <= Len(p) - 1 /\ n \in Nat
  <2>1. n = LET x == IF b THEN m ELSE 0 IN IF x = Len(p) THEN x - 1 ELSE x
    BY <1>6 DEF NumPast
  <2> HIDE DEF n
  <2> QED BY <1>6, <2>1
<1> HIDE DEF n
<1>8. SubSeq(a, 1, n) = SubSeq(p, 1, n)
  BY <1>6, <1>7, ShorterPrefix
<1>9. n \in 0 .. Len(p) - 1 /\ n <= Len(a) /\ m \in n .. Len(a)
  BY <1>6, <1>7
<1>10. Loads(p, k, found.slot, found.from, n, m)
  BY <1>4, <1>5, <1>6, <1>8, <1>9 DEF Loads
<1> QED BY <1>3, <1>9, <1>10

(* A slot that is taken with inputs a by sequence q, which has seat e.     *)
Takes(sl, sq, s, e, a, q, tl, tq) ==
  /\ tq \in [Seats -> SeqOK \cup {NoSeq}] /\ tq[e] = q
  /\ \A i \in Seats : i # e => tq[i] = sq[i]
  /\ tl \in [SeqIds -> SlotOK] /\ tl[s].inputs = a /\ tl[s].inUse
  /\ \A t \in SeqIds : t # s => tl[t].inputs = sl[t].inputs /\ tl[t].inUse = sl[t].inUse

LEMMA TakesShares ==
  ASSUME NEW sl, NEW sq, Shares(sl, sq), NEW s \in SeqIds, ~ sl[s].inUse,
         NEW e \in Seats, sq[e] = NoSeq, NEW a \in Seq(Tokens), Len(a) <= NumCtx,
         NEW q \in SeqOK, q.slot = s, q.pendingInputs = <<>>, q.text = a \o q.inputs,
         NEW tl, NEW tq, Takes(sl, sq, s, e, a, q, tl, tq)
  PROVE  Shares(tl, tq)
<1> USE DEF Takes
<1>1. q # NoSeq
  BY NoSeqDiffers
<1>2. \A i \in Seats : sq[i] # NoSeq => sq[i].slot # s /\ sq[i].slot \in SeqIds
  BY SeatTypes DEF Shares
<1>3. SeatsOK(tl, tq)
  <2>1. \A i, k \in Seats : tq[i] # NoSeq /\ tq[k] # NoSeq /\ tq[i].slot = tq[k].slot => i = k
    BY <1>1, <1>2 DEF Shares, SeatsOK
  <2>2. \A t \in SeqIds : tl[t].inUse <=> \E i \in Seats : tq[i] # NoSeq /\ tq[i].slot = t
    <3> SUFFICES ASSUME NEW t \in SeqIds
                 PROVE  tl[t].inUse <=> \E i \in Seats : tq[i] # NoSeq /\ tq[i].slot = t
      OBVIOUS
    <3>1. CASE t = s
      BY <1>1, <3>1
    <3>2. CASE t # s
      <4>1. sl[t].inUse <=> \E i \in Seats : sq[i] # NoSeq /\ sq[i].slot = t
        BY DEF Shares, SeatsOK
      <4> QED BY <3>2, <4>1
    <3> QED BY <3>1, <3>2
  <2> QED BY <2>1, <2>2 DEF SeatsOK
<1>4. InShare(tl, tq)
  <2>1. Len(<<>>) = 0 /\ Len(a) \in Nat
    BY EmptySeq
  <2>2. \A t \in SeqIds : Len(tl[t].inputs) <= NumCtx
    BY DEF Shares, InShare
  <2>3. \A i \in Seats : tq[i] # NoSeq =>
          Len(tl[tq[i].slot].inputs) + Len(tq[i].pendingInputs) <= NumCtx
    <3> SUFFICES ASSUME NEW i \in Seats, tq[i] # NoSeq
                 PROVE  Len(tl[tq[i].slot].inputs) + Len(tq[i].pendingInputs) <= NumCtx
      OBVIOUS
    <3>1. CASE i = e
      <4>1. tl[tq[i].slot].inputs = a /\ tq[i].pendingInputs = <<>>
        BY <3>1
      <4>2. Len(a) + Len(<<>>) <= NumCtx
        BY <2>1, ContextSize
      <4> QED BY <4>1, <4>2
    <3>2. CASE i # e
      <4>1. tq[i] = sq[i] /\ tl[sq[i].slot].inputs = sl[sq[i].slot].inputs
        BY <1>2, <3>2
      <4> QED BY <4>1 DEF Shares, InShare
    <3> QED BY <3>1, <3>2
  <2> QED BY <2>2, <2>3 DEF InShare
<1>5. TextsOK(tl, tq)
  <2> SUFFICES ASSUME NEW i \in Seats, tq[i] # NoSeq
               PROVE  tq[i].text = (tl[tq[i].slot].inputs \o tq[i].pendingInputs) \o tq[i].inputs
    BY DEF TextsOK
  <2>1. CASE i = e
    <3>1. a \o <<>> = a
      BY ConcatEmptySeq
    <3> QED BY <2>1, <3>1
  <2>2. CASE i # e
    <3>1. tq[i] = sq[i] /\ tl[sq[i].slot].inputs = sl[sq[i].slot].inputs
      BY <1>2, <2>2
    <3>2. sq[i].text = (sl[sq[i].slot].inputs \o sq[i].pendingInputs) \o sq[i].inputs
      BY <3>1 DEF Shares, TextsOK
    <3> QED BY <3>1, <3>2
  <2> QED BY <2>1, <2>2
<1> QED BY <1>3, <1>4, <1>5 DEF Shares

(* What the cache has for a seat without submitted inputs.                 *)
Plain(sl, q, s) ==
  /\ sl[s].inputs \o q.pendingInputs = sl[s].inputs
  /\ (All(sl, q) \ Left(<<>>, s)) \ Left(<<>>, s) = 0 .. Len(sl[s].inputs) - 1
  /\ All(sl, q) \ Left(<<>>, s) = 0 .. Len(sl[s].inputs) - 1

LEMMA QuietSeat ==
  ASSUME NEW sl, NEW sq, SeatsOK(sl, sq), NEW i \in Seats, sq[i] # NoSeq, Quiet(sq[i]),
         NEW s, s = sq[i].slot
  PROVE  Plain(sl, sq[i], s)
<1>0. PICK P : P = 0 .. Len(sl[s].inputs) - 1
  OBVIOUS
<1>1. sq[i].pendingInputs = <<>>
  BY DEF Quiet
<1>2. sl[s].inputs \in Seq(Tokens) /\ Len(sl[s].inputs) \in Nat
  BY SeatTypes
<1>3. sl[s].inputs \o <<>> = sl[s].inputs /\ Len(<<>>) = 0
  BY <1>2, ConcatEmptySeq, EmptySeq
<1>4. All(sl, sq[i]) = P
  <2>1. Len(sl[s].inputs) + Len(<<>>) - 1 = Len(sl[s].inputs) - 1
    BY <1>2, <1>3
  <2> QED BY <1>0, <1>1, <2>1 DEF All
<1>5. (P \ Left(<<>>, s)) \ Left(<<>>, s) = P /\ P \ Left(<<>>, s) = P
  BY NothingLeft
<1> QED BY <1>0, <1>1, <1>3, <1>4, <1>5 DEF Plain

(* The cache has what the slots say after LoadCacheSlot.                   *)
LEMMA LoadedCached ==
  ASSUME NEW c, NEW sl, NEW sq, Undecoded(c, sl, sq, <<>>), \A i \in Seats : Quiet(sq[i]),
         NEW s \in SeqIds, ~ sl[s].inUse, NEW e \in Seats, sq[e] = NoSeq,
         NEW f \in Seq(Tokens), NEW n \in 0 .. Len(f), NEW q, q \in SeqOK, q.slot = s,
         q.pendingInputs = <<>>, NEW tl, NEW tq, Takes(sl, sq, s, e, SubSeq(f, 1, n), q, tl, tq),
         Shares(tl, tq), NEW d, Loaded(c, s, f, n, d)
  PROVE  Cached(d, tl, tq, <<>>, <<>>) /\ \A i \in Seats : Quiet(tq[i])
<1>1. SeatsOK(sl, sq) /\ SeatsOK(tl, tq)
  BY DEF Undecoded, Shares
<1>2. \A i \in Seats : sq[i] # NoSeq => sq[i].slot # s /\ sq[i].slot \in SeqIds
  BY <1>1, SeatTypes
<1>3. \A i \in Seats : Quiet(tq[i])
  BY DEF Takes, Quiet
<1>4. ASSUME NEW t \in SeqIds \ d.torn, ~ tl[t].inUse
      PROVE  Holds(d, t, tl[t].inputs, 0 .. Len(tl[t].inputs) - 1, 0 .. NumCtx - 1)
  <2>1. t # s /\ ~ sl[t].inUse /\ tl[t].inputs = sl[t].inputs
    BY <1>4 DEF Takes
  <2>2. t \notin c.torn
    BY <2>1 DEF Loaded
  <2>3. PICK x, P, B : x = sl[t].inputs /\ P = 0 .. Len(x) - 1 /\ B = 0 .. NumCtx - 1
    OBVIOUS
  <2>4. Holds(c, t, x, P, B)
    BY <2>1, <2>2, <2>3 DEF Undecoded, Cached
  <2>5. Holds(d, t, x, P, B)
    BY <2>1, <2>4 DEF Loaded
  <2> QED BY <2>1, <2>3, <2>5
<1>5. ASSUME NEW t \in SeqIds \ d.torn, NEW i \in Seats, tq[i] # NoSeq, tq[i].slot = t
      PROVE  Holds(d, t, tl[t].inputs \o tq[i].pendingInputs,
                   (All(tl, tq[i]) \ Left(<<>>, t)) \ Left(<<>>, t), All(tl, tq[i]) \ Left(<<>>, t))
  <2>1. PICK x, P : x = tl[t].inputs /\ P = 0 .. Len(x) - 1
    OBVIOUS
  <2>2. Holds(d, t, x, P, P)
    <3>1. CASE i = e
      <4>1. t = s /\ x = SubSeq(f, 1, n)
        BY <1>5, <2>1, <3>1 DEF Takes
      <4>2. Len(x) = n
        BY <4>1, SubSeqProperties
      <4>3. Holds(d, s, SubSeq(f, 1, n), 0 .. n - 1, 0 .. n - 1)
        BY <4>1 DEF Loaded
      <4> QED BY <2>1, <4>1, <4>2, <4>3
    <3>2. CASE i # e
      <4>1. sq[i] = tq[i] /\ t # s /\ x = sl[t].inputs /\ Quiet(sq[i])
        BY <1>2, <1>5, <2>1, <3>2 DEF Takes
      <4>2. t \notin c.torn
        BY <4>1 DEF Loaded
      <4>3. Holds(c, t, sl[t].inputs \o sq[i].pendingInputs,
                  (All(sl, sq[i]) \ Left(<<>>, t)) \ Left(<<>>, t), All(sl, sq[i]) \ Left(<<>>, t))
        BY <1>5, <4>1, <4>2 DEF Undecoded, Cached
      <4>4. Plain(sl, sq[i], t)
        BY <1>1, <1>5, <4>1, QuietSeat
      <4>5. Holds(c, t, x, P, P)
        BY <2>1, <4>1, <4>3, <4>4 DEF Plain
      <4> QED BY <4>1, <4>5 DEF Loaded
    <3> QED BY <3>1, <3>2
  <2>3. Plain(tl, tq[i], t)
    BY <1>1, <1>3, <1>5, QuietSeat
  <2> QED BY <2>1, <2>2, <2>3 DEF Plain
<1>6. Cached(d, tl, tq, <<>>, <<>>)
  BY <1>4, <1>5 DEF Cached
<1> QED BY <1>3, <1>6

(* While nothing is submitted, the cache has the inputs of every slot.     *)
LEMMA SlotHeld ==
  ASSUME NEW c, NEW sl, NEW sq, Undecoded(c, sl, sq, <<>>), \A i \in Seats : Quiet(sq[i]),
         NEW s \in SeqIds \ c.torn
  PROVE  \E B : Holds(c, s, sl[s].inputs, 0 .. Len(sl[s].inputs) - 1, B)
<1>1. SeatsOK(sl, sq)
  BY DEF Undecoded, Shares
<1>2. PICK a, P, N : a = sl[s].inputs /\ P = 0 .. Len(a) - 1 /\ N = 0 .. NumCtx - 1
  OBVIOUS
<1>3. CASE ~ sl[s].inUse
  <2>1. Holds(c, s, a, P, N)
    BY <1>2, <1>3 DEF Undecoded, Cached
  <2> QED BY <1>2, <2>1
<1>4. CASE sl[s].inUse
  <2>1. PICK i \in Seats : sq[i] # NoSeq /\ sq[i].slot = s
    BY <1>1, <1>4 DEF SeatsOK
  <2>2. Plain(sl, sq[i], s)
    BY <1>1, <2>1, QuietSeat
  <2>3. Holds(c, s, sl[s].inputs \o sq[i].pendingInputs,
              (All(sl, sq[i]) \ Left(<<>>, s)) \ Left(<<>>, s), All(sl, sq[i]) \ Left(<<>>, s))
    BY <2>1 DEF Undecoded, Cached
  <2>4. Holds(c, s, a, P, P)
    BY <1>2, <2>2, <2>3 DEF Plain
  <2> QED BY <1>2, <2>4
<1> QED BY <1>3, <1>4

(* The idle loop.                                                          *)
LEMMA IdleMeans ==
  ASSUME LlamaInv, phase = "idle"
  PROVE  /\ Undecoded(cache, slots, seqs, <<>>) /\ \A i \in Seats : Quiet(seqs[i])
         /\ sbatch = <<>> /\ ubatch = <<>> /\ code = 0 /\ cur = 0 /\ cur \in Seats
<1>1. Now = <<>>
  BY DEF Now
<1> QED BY <1>1 DEF LlamaInv, LoopOK, Undecoded

LEMMA IdleAgain ==
  ASSUME Undecoded(cache, slots, seqs, <<>>)', (\A i \in Seats : Quiet(seqs[i]))', RestorerOK',
         phase' = "idle", sbatch' = <<>>, ubatch' = <<>>, code' = 0, cur' = 0
  PROVE  LlamaInv'
<1>1. 0 \in Seats
  BY ContextSize DEF Seats, SeqIds
<1>2. LoopOK'
  BY <1>1 DEF LoopOK
<1>3. Now' = <<>>
  BY DEF Now
<1>4. AttentionExactUnlessTorn' /\ NeverFull'
  BY DEF AttentionExactUnlessTorn, NeverFull
<1> QED BY <1>2, <1>3, <1>4 DEF LlamaInv, Undecoded

(* LoadCacheSlot seats a sequence whose slot holds the prefix that its     *)
(* prompt has in common with some slot.                                    *)
LEMMA LoadStep ==
  ASSUME LlamaInv, NEW p \in Prompts, NEW k \in NumKeeps, NEW b \in BOOLEAN,
         LoadCacheSlot(p, k, b)
  PROVE  LlamaInv'
<1>1. PICK c, sl, sq, d, tl, tq : /\ c = cache /\ sl = slots /\ sq = seqs
                                  /\ d = cache' /\ tl = slots' /\ tq = seqs'
  OBVIOUS
<1>2. /\ phase = "idle" /\ Nil # {} /\ phase' = "idle" /\ sbatch' = sbatch /\ ubatch' = ubatch
      /\ code' = code /\ cur' = cur /\ restorer' = restorer
  BY DEF LoadCacheSlot, decodeVars
<1>3. /\ Undecoded(c, sl, sq, <<>>) /\ \A i \in Seats : Quiet(sq[i])
      /\ sbatch = <<>> /\ ubatch = <<>> /\ code = 0 /\ cur = 0
  BY <1>1, <1>2, IdleMeans
<1>4. CacheOK(c) /\ Shares(sl, sq) /\ sl \in [SeqIds -> SlotOK] /\ sq \in [Seats -> SeqOK \cup {NoSeq}]
  BY <1>3 DEF Undecoded, Shares, SeatsOK
<1>5. p \in Seq(Tokens) /\ Len(p) \in Nat \ {0} /\ Len(p) <= NumCtx
  <2>1. Len(p) \in 1 .. NumCtx /\ p \in Seq(Tokens)
    BY RunnerAssumption
  <2> QED BY <2>1, ContextSize
<1>6. PICK s \in Unused, from \in SeqIds, n \in 0 .. Len(p) - 1, m \in Nat :
        Loads(p, k, s, from, n, m)
  BY <1>1, <1>4, <1>5, SlotFound
<1>7. PICK e \in Nil : e = Min(Nil)
  <2>1. Nil \subseteq Nat
    BY ContextSize DEF Nil, Seats, SeqIds
  <2> QED BY <1>2, <2>1, MinFound
<1>8. s \in SeqIds /\ ~ sl[s].inUse /\ e \in Seats /\ sq[e] = NoSeq
  BY <1>1 DEF Unused, Nil
<1>9. PICK f \in Seq(Tokens) : f = sl[from].inputs
  BY <1>4 DEF SlotOK
<1>10. PICK a, r : a = SubSeq(f, 1, n) /\ r = SubSeq(p, n + 1, Len(p))
  OBVIOUS
<1>11. n \in Nat /\ n \in 0 .. Len(f) /\ a = SubSeq(p, 1, n) /\ m \in n .. Len(f) /\ n <= Len(p)
  BY <1>1, <1>5, <1>6, <1>9, <1>10 DEF Loads
<1>12. a \in Seq(Tokens) /\ Len(a) = n /\ r \in Seq(Tokens) /\ p = a \o r
  <2>1. a \in Seq(Tokens) /\ Len(a) = n
    BY <1>10, <1>11, SubSeqProperties
  <2>2. r \in Seq(Tokens)
    <3>1. \A i \in n + 1 .. Len(p) : p[i] \in Tokens
      BY <1>5, <1>11
    <3> QED BY <1>5, <1>10, <1>11, <3>1, SubSeqProperties
  <2>3. p = a \o r
    BY <1>5, <1>10, <1>11, ConcatAdjacentSubSeq, SubSeqFull
  <2> QED BY <2>1, <2>2, <2>3
<1>13. PICK q : q = [slot |-> s, numKeep |-> k, pendingInputs |-> <<>>, numPredicted |-> 0,
                     held |-> 0, inputs |-> r, text |-> p]
  OBVIOUS
<1>14. /\ q \in SeqOK /\ q.slot = s /\ q.pendingInputs = <<>> /\ q.text = a \o q.inputs
  <2>1. <<>> \in Seq(Tokens)
    BY EmptySeq
  <2> QED BY <1>5, <1>8, <1>12, <1>13, <2>1 DEF SeqOK
<1>15. Takes(sl, sq, s, e, a, q, tl, tq)
  <2>1. tq = [sq EXCEPT ![e] = q]
    BY <1>1, <1>6, <1>7, <1>10, <1>13 DEF Loads
  <2>2. \A t \in SeqIds : UsedNow(s)[t] \in Nat
    BY <1>1, <1>4, <1>8, UsedNowTypes
  <2>3. PICK l : l = [t \in SeqIds |-> UsedNow(s)[t]]
    OBVIOUS
  <2>4. l \in [SeqIds -> Nat]
    BY <2>2, <2>3
  <2>5. tl = [t \in SeqIds |-> IF t = s THEN [inputs |-> a, inUse |-> TRUE, lastUsed |-> l[s]]
                               ELSE [sl[t] EXCEPT !.lastUsed = l[t]]]
    BY <1>1, <1>6, <1>8, <1>9, <1>10, <2>3 DEF Loads
  <2>6. /\ tl[s] = [inputs |-> a, inUse |-> TRUE, lastUsed |-> l[s]]
        /\ \A t \in SeqIds : t # s => tl[t] = [sl[t] EXCEPT !.lastUsed = l[t]]
    BY <1>8, <2>5
  <2>7. \A t \in SeqIds : t # s =>
          tl[t] \in SlotOK /\ tl[t].inputs = sl[t].inputs /\ tl[t].inUse = sl[t].inUse
    <3> SUFFICES ASSUME NEW t \in SeqIds, t # s
                 PROVE  /\ tl[t] \in SlotOK /\ tl[t].inputs = sl[t].inputs
                        /\ tl[t].inUse = sl[t].inUse
      OBVIOUS
    <3>1. PICK u \in SlotOK, j \in Nat : u = sl[t] /\ j = l[t]
      BY <1>4, <2>4
    <3>2. tl[t] = [u EXCEPT !.lastUsed = j]
      BY <2>6, <3>1
    <3>3. tl[t] \in SlotOK /\ tl[t].inputs = u.inputs /\ tl[t].inUse = u.inUse
      BY <3>2 DEF SlotOK
    <3> QED BY <3>1, <3>3
  <2>8. tl[s] \in SlotOK /\ tl[s].inputs = a /\ tl[s].inUse
    BY <1>8, <1>12, <2>4, <2>6 DEF SlotOK
  <2>9. tl \in [SeqIds -> SlotOK]
    BY <2>5, <2>7, <2>8
  <2>10. /\ tq \in [Seats -> SeqOK \cup {NoSeq}] /\ tq[e] = q
         /\ \A i \in Seats : i # e => tq[i] = sq[i]
    BY <1>4, <1>8, <1>14, <2>1
  <2> QED BY <2>7, <2>8, <2>9, <2>10 DEF Takes
<1>16. Shares(tl, tq)
  <2>1. Len(a) <= NumCtx
    BY <1>5, <1>11, <1>12, ContextSize
  <2> QED BY <1>4, <1>8, <1>12, <1>14, <1>15, <2>1, TakesShares
<1>17. Loaded(c, s, f, n, d)
  <2>1. PICK B0 : from \notin c.torn => Holds(c, from, f, 0 .. Len(f) - 1, B0)
    BY <1>3, <1>9, SlotHeld
  <2>2. d = SeqRm(Forks(c, from, s, m), s, n, -1)
    BY <1>1, <1>6 DEF Loads
  <2> QED BY <1>4, <1>8, <1>11, <2>1, <2>2, LoadHolds
<1>18. Cached(d, tl, tq, <<>>, <<>>) /\ \A i \in Seats : Quiet(tq[i])
  BY <1>3, <1>8, <1>10, <1>11, <1>14, <1>15, <1>16, <1>17, LoadedCached
<1>19. BatchOK(<<>>, tl, tq)
  <2>1. <<>> \in Seq(BatchInput) /\ Len(<<>>) = 0
    BY EmptySeq
  <2> QED BY <2>1 DEF BatchOK
<1>20. Undecoded(d, tl, tq, <<>>)
  BY <1>16, <1>17, <1>18, <1>19 DEF Undecoded, Loaded
<1>21. RestorerOK'
  BY <1>2 DEF LlamaInv, RestorerOK
<1> QED BY <1>1, <1>2, <1>3, <1>18, <1>20, <1>21, IdleAgain

-----------------------------------------------------------------------------
(* The second loop of processBatch.                                        *)

(* A part of a sequence from its start.                                    *)
LEMMA StartOf ==
  ASSUME NEW x \in Seq(Tokens), NEW n \in Int, n <= Len(x), NEW y, y = SubSeq(x, 1, n)
  PROVE  /\ y \in Seq(Tokens) /\ Len(y) \in Nat /\ Len(y) <= Len(x)
         /\ \A p \in 0 .. Len(y) - 1 : y[p + 1] = x[p + 1]
<1>1. CASE n < 1
  <2>1. y = <<>>
    BY <1>1, SubSeqEmpty
  <2> QED BY <2>1, EmptySeq
<1>2. CASE n >= 1
  <2>1. n \in 1 .. Len(x) /\ \A j \in 1 .. n : x[j] \in Tokens
    BY <1>2
  <2>2. y \in Seq(Tokens) /\ Len(y) = n /\ \A j \in 1 .. n : y[j] = x[j]
    BY <2>1, SubSeqProperties
  <2>3. \A p \in 0 .. n - 1 : p + 1 \in 1 .. n
    BY <2>1
  <2> QED BY <2>1, <2>2, <2>3
<1> QED BY <1>1, <1>2

(* Once the batch is decoded, the cache has all that a seat submitted.     *)
Decoded(c, sl, q, x) ==
  /\ x \in Seq(Tokens) /\ Len(x) \in Nat /\ Len(x) <= NumCtx /\ q.text = x \o q.inputs
  /\ q.slot \notin c.torn => Holds(c, q.slot, x, 0 .. Len(x) - 1, 0 .. Len(x) - 1)

LEMMA SeatDecoded ==
  ASSUME NEW c, NEW sl, NEW sq, Undecoded(c, sl, sq, <<>>), NEW i \in Seats, sq[i] # NoSeq,
         NEW x, x = sl[sq[i].slot].inputs \o sq[i].pendingInputs
  PROVE  Decoded(c, sl, sq[i], x)
<1>1. SeatsOK(sl, sq) /\ InShare(sl, sq) /\ TextsOK(sl, sq)
  BY DEF Undecoded, Shares
<1>2. PICK s \in SeqIds, a \in Seq(Tokens), b \in Seq(Tokens) :
        s = sq[i].slot /\ a = sl[s].inputs /\ b = sq[i].pendingInputs
  BY <1>1, SeatTypes
<1>3. x = a \o b /\ x \in Seq(Tokens) /\ Len(x) = Len(a) + Len(b) /\ Len(x) \in Nat
  <2>1. x = a \o b /\ x \in Seq(Tokens) /\ Len(x) = Len(a) + Len(b)
    BY <1>2, ConcatProperties
  <2>2. Len(x) \in Nat
    BY <2>1, LenProperties
  <2> QED BY <2>1, <2>2
<1>4. Len(x) <= NumCtx /\ sq[i].text = x \o sq[i].inputs
  BY <1>1, <1>2, <1>3 DEF InShare, TextsOK
<1>5. ASSUME s \notin c.torn PROVE Holds(c, s, x, 0 .. Len(x) - 1, 0 .. Len(x) - 1)
  <2>1. PICK A : A = 0 .. Len(x) - 1
    OBVIOUS
  <2>2. All(sl, sq[i]) = A
    BY <1>2, <1>3, <2>1 DEF All
  <2>3. Holds(c, s, a \o b, (All(sl, sq[i]) \ Left(<<>>, s)) \ Left(<<>>, s),
              All(sl, sq[i]) \ Left(<<>>, s))
    BY <1>2, <1>5 DEF Undecoded, Cached
  <2>4. (A \ Left(<<>>, s)) \ Left(<<>>, s) = A /\ A \ Left(<<>>, s) = A
    BY NothingLeft
  <2> QED BY <1>3, <2>1, <2>2, <2>3, <2>4
<1> QED BY <1>2, <1>3, <1>4, <1>5 DEF Decoded

(* Only slot s and seat i change, and slot s is in use if the seat is.     *)
Alters(sl, sq, s, i, tl, tq) ==
  /\ tl \in [SeqIds -> SlotOK] /\ tq \in [Seats -> SeqOK \cup {NoSeq}]
  /\ \A t \in SeqIds : t # s => tl[t] = sl[t]
  /\ \A k \in Seats : k # i => tq[k] = sq[k]
  /\ tq[i] # NoSeq => tq[i].slot = s
  /\ tl[s].inUse <=> tq[i] # NoSeq

(* The other sequences are where they were.                                *)
Stays(sl, sq, i, tl, tq, k) ==
  /\ tq[k] = sq[k] /\ tq[k].slot # sq[i].slot /\ tq[k].slot \in SeqIds
  /\ tl[tq[k].slot] = sl[tq[k].slot]

LEMMA OthersStay ==
  ASSUME NEW sl, NEW sq, SeatsOK(sl, sq), NEW i \in Seats, sq[i] # NoSeq,
         NEW tl, NEW tq, Alters(sl, sq, sq[i].slot, i, tl, tq),
         NEW k \in Seats, k # i, tq[k] # NoSeq
  PROVE  Stays(sl, sq, i, tl, tq, k)
<1>1. tq[k] = sq[k]
  BY DEF Alters
<1>2. sq[k].slot \in SeqIds
  BY <1>1, SeatTypes
<1>3. sq[k].slot # sq[i].slot
  BY <1>1 DEF SeatsOK
<1> QED BY <1>1, <1>2, <1>3 DEF Alters, Stays

(* The slots and the seats still agree.                                    *)
LEMMA AltersSeats ==
  ASSUME NEW sl, NEW sq, SeatsOK(sl, sq), NEW i \in Seats, sq[i] # NoSeq,
         NEW tl, NEW tq, Alters(sl, sq, sq[i].slot, i, tl, tq)
  PROVE  SeatsOK(tl, tq)
<1>1. tl \in [SeqIds -> SlotOK] /\ tq \in [Seats -> SeqOK \cup {NoSeq}]
  BY DEF Alters
<1>0. ASSUME NEW k \in Seats, k # i, tq[k] # NoSeq PROVE tq[k].slot # sq[i].slot
  <2>1. Stays(sl, sq, i, tl, tq, k)
    BY <1>0, OthersStay
  <2> QED BY <2>1 DEF Stays
<1>2. ASSUME NEW j \in Seats, NEW k \in Seats, tq[j] # NoSeq, tq[k] # NoSeq, tq[j].slot = tq[k].slot
      PROVE  j = k
  <2>1. CASE j # i /\ k # i
    <3>1. tq[j] = sq[j] /\ tq[k] = sq[k]
      BY <2>1 DEF Alters
    <3> QED BY <1>2, <3>1 DEF SeatsOK
  <2>2. CASE j = i \/ k = i
    <3>1. tq[i] # NoSeq => tq[i].slot = sq[i].slot
      BY DEF Alters
    <3> QED BY <1>0, <1>2, <2>2, <3>1
  <2> QED BY <2>1, <2>2
<1>3. ASSUME NEW t \in SeqIds
      PROVE  tl[t].inUse <=> \E k \in Seats : tq[k] # NoSeq /\ tq[k].slot = t
  <2>1. CASE t = sq[i].slot
    <3>1. (tl[t].inUse <=> tq[i] # NoSeq) /\ (tq[i] # NoSeq => tq[i].slot = t)
      BY <2>1 DEF Alters
    <3>2. \A k \in Seats : tq[k] # NoSeq /\ tq[k].slot = t => k = i
      BY <1>0, <2>1
    <3> QED BY <3>1, <3>2
  <2>2. CASE t # sq[i].slot
    <3>1. tl[t] = sl[t]
      BY <2>2 DEF Alters
    <3>2. sl[t].inUse <=> \E k \in Seats : sq[k] # NoSeq /\ sq[k].slot = t
      BY DEF SeatsOK
    <3>3. \A k \in Seats : sq[k] # NoSeq /\ sq[k].slot = t => tq[k] = sq[k]
      BY <2>2 DEF Alters
    <3>4. \A k \in Seats : tq[k] # NoSeq /\ tq[k].slot = t => tq[k] = sq[k]
      BY <2>2 DEF Alters
    <3> QED BY <3>1, <3>2, <3>3, <3>4
  <2> QED BY <2>1, <2>2
<1> QED BY <1>1, <1>2, <1>3 DEF SeatsOK

(* A seat whose submitted inputs are stored, and that goes on or ends,     *)
(* perhaps without the inputs of a stop string.                            *)
Settles(x, y, q) ==
  /\ y \in Seq(Tokens) /\ Len(y) \in Nat /\ Len(y) <= Len(x)
  /\ \A p \in 0 .. Len(y) - 1 : y[p + 1] = x[p + 1]
  /\ q # NoSeq => y = x /\ q.pendingInputs = <<>> /\ q.text = x \o q.inputs

LEMMA SettlesShares ==
  ASSUME NEW c, NEW sl, NEW sq, Undecoded(c, sl, sq, <<>>), NEW i \in Seats, sq[i] # NoSeq,
         NEW x, x = sl[sq[i].slot].inputs \o sq[i].pendingInputs,
         NEW tl, NEW tq, Alters(sl, sq, sq[i].slot, i, tl, tq),
         Settles(x, tl[sq[i].slot].inputs, tq[i])
  PROVE  Shares(tl, tq)
<1>1. SeatsOK(sl, sq) /\ InShare(sl, sq) /\ TextsOK(sl, sq)
  BY DEF Undecoded, Shares
<1>2. SeatsOK(tl, tq)
  BY <1>1, AltersSeats
<1>3. PICK s \in SeqIds : s = sq[i].slot
  BY <1>1, SeatTypes
<1>3a. PICK y : y = tl[s].inputs
  OBVIOUS
<1>4. Decoded(c, sl, sq[i], x)
  BY SeatDecoded
<1>5. PICK l \in Nat, n \in Nat :
        /\ x \in Seq(Tokens) /\ Len(x) = l /\ l <= NumCtx
        /\ y \in Seq(Tokens) /\ Len(y) = n /\ n <= l
  <2>1. x \in Seq(Tokens) /\ Len(x) \in Nat /\ Len(x) <= NumCtx
    BY <1>4 DEF Decoded
  <2>2. y \in Seq(Tokens) /\ Len(y) \in Nat /\ Len(y) <= Len(x)
    BY <1>3, <1>3a DEF Settles
  <2> QED BY <2>1, <2>2, Zenon
<1>6. InShare(tl, tq)
  <2>1. ASSUME NEW t \in SeqIds PROVE Len(tl[t].inputs) <= NumCtx
    <3>1. CASE t = s
      BY <1>3, <1>3a, <1>5, <3>1, ContextSize
    <3>2. CASE t # s
      <4>1. tl[t] = sl[t]
        BY <1>3, <1>3a, <3>2 DEF Alters
      <4> QED BY <1>1, <4>1 DEF InShare
    <3> QED BY <3>1, <3>2
  <2>2. ASSUME NEW k \in Seats, tq[k] # NoSeq
        PROVE  Len(tl[tq[k].slot].inputs) + Len(tq[k].pendingInputs) <= NumCtx
    <3>1. CASE k = i
      <4>1. tl[tq[k].slot].inputs = x /\ tq[k].pendingInputs = <<>>
        BY <1>3, <1>3a, <2>2, <3>1 DEF Alters, Settles
      <4>2. Len(x) + Len(<<>>) = l
        BY <1>5, EmptySeq
      <4> QED BY <1>5, <4>1, <4>2
    <3>2. CASE k # i
      <4>1. tq[k] = sq[k] /\ tl[tq[k].slot] = sl[tq[k].slot]
        <5>1. Stays(sl, sq, i, tl, tq, k)
          BY <1>1, <2>2, <3>2, OthersStay
        <5> QED BY <5>1 DEF Stays
      <4> QED BY <1>1, <2>2, <4>1 DEF InShare
    <3> QED BY <3>1, <3>2
  <2> QED BY <2>1, <2>2 DEF InShare
<1>7. TextsOK(tl, tq)
  <2> SUFFICES ASSUME NEW k \in Seats, tq[k] # NoSeq
               PROVE  tq[k].text = (tl[tq[k].slot].inputs \o tq[k].pendingInputs) \o tq[k].inputs
    BY DEF TextsOK
  <2>1. CASE k = i
    <3>1. /\ tl[tq[k].slot].inputs = x /\ tq[k].pendingInputs = <<>>
          /\ tq[k].text = x \o tq[k].inputs
      BY <1>3, <1>3a, <2>1 DEF Alters, Settles
    <3>2. x \o <<>> = x
      BY <1>5, ConcatEmptySeq
    <3> QED BY <3>1, <3>2
  <2>2. CASE k # i
    <3>1. tq[k] = sq[k] /\ tl[tq[k].slot] = sl[tq[k].slot]
      <4>1. Stays(sl, sq, i, tl, tq, k)
        BY <1>1, <2>2, OthersStay
      <4> QED BY <4>1 DEF Stays
    <3>2. sq[k].text = (sl[sq[k].slot].inputs \o sq[k].pendingInputs) \o sq[k].inputs
      BY <1>1, <3>1 DEF TextsOK
    <3> QED BY <3>1, <3>2
  <2> QED BY <2>1, <2>2
<1> QED BY <1>2, <1>6, <1>7 DEF Shares

(* The cache has what the slots say then.                                  *)
LEMMA SettlesCached ==
  ASSUME NEW c, NEW sl, NEW sq, Undecoded(c, sl, sq, <<>>), NEW i \in Seats, sq[i] # NoSeq,
         NEW x, x = sl[sq[i].slot].inputs \o sq[i].pendingInputs,
         NEW tl, NEW tq, Alters(sl, sq, sq[i].slot, i, tl, tq),
         Settles(x, tl[sq[i].slot].inputs, tq[i])
  PROVE  Undecoded(c, tl, tq, <<>>)
<1>1. SeatsOK(sl, sq) /\ CacheOK(c) /\ Shares(tl, tq)
  BY SettlesShares DEF Undecoded, Shares
<1>2. PICK s \in SeqIds : s = sq[i].slot
  BY <1>1, SeatTypes
<1>2a. PICK y : y = tl[s].inputs
  OBVIOUS
<1>3. Decoded(c, sl, sq[i], x)
  BY SeatDecoded
<1>4. PICK l \in Nat, n \in Nat :
        /\ x \in Seq(Tokens) /\ Len(x) = l /\ l <= NumCtx
        /\ y \in Seq(Tokens) /\ Len(y) = n /\ n <= l
  <2>1. x \in Seq(Tokens) /\ Len(x) \in Nat /\ Len(x) <= NumCtx
    BY <1>3 DEF Decoded
  <2>2. y \in Seq(Tokens) /\ Len(y) \in Nat /\ Len(y) <= Len(x)
    BY <1>2, <1>2a DEF Settles
  <2> QED BY <2>1, <2>2, Zenon
<1>5. ASSUME NEW t \in SeqIds \ c.torn, ~ tl[t].inUse
      PROVE  Holds(c, t, tl[t].inputs, 0 .. Len(tl[t].inputs) - 1, 0 .. NumCtx - 1)
  <2>1. CASE t = s
    <3>1. PICK X, Y, N : X = 0 .. Len(x) - 1 /\ Y = 0 .. Len(y) - 1 /\ N = 0 .. NumCtx - 1
      OBVIOUS
    <3>2. Holds(c, s, x, X, X)
      BY <1>2, <1>2a, <1>3, <1>5, <2>1, <3>1 DEF Decoded
    <3>3. Y \subseteq X /\ X \subseteq N
      BY <1>4, <3>1, ContextSize
    <3>4. \A p \in Y : y[p + 1] = x[p + 1]
      BY <1>2, <1>2a, <3>1 DEF Settles
    <3>5. Holds(c, s, y, Y, N)
      BY <3>2, <3>3, <3>4, HoldsLess
    <3> QED BY <1>2, <1>2a, <2>1, <3>1, <3>5
  <2>2. CASE t # s
    <3>1. tl[t] = sl[t]
      BY <1>2, <1>2a, <2>2 DEF Alters
    <3> QED BY <1>5, <3>1 DEF Undecoded, Cached
  <2> QED BY <2>1, <2>2
<1>6. ASSUME NEW t \in SeqIds \ c.torn, NEW k \in Seats, tq[k] # NoSeq, tq[k].slot = t
      PROVE  Holds(c, t, tl[t].inputs \o tq[k].pendingInputs,
                   (All(tl, tq[k]) \ Left(<<>>, t)) \ Left(<<>>, t), All(tl, tq[k]) \ Left(<<>>, t))
  <2>1. CASE k = i
    <3>1. t = s /\ tl[t].inputs = x /\ Quiet(tq[i])
      BY <1>2, <1>2a, <1>6, <2>1 DEF Alters, Settles, Quiet
    <3>2. SeatsOK(tl, tq)
      BY <1>1 DEF Shares
    <3>3. Plain(tl, tq[i], t)
      BY <1>6, <2>1, <3>1, <3>2, QuietSeat
    <3>4. Holds(c, t, x, 0 .. Len(x) - 1, 0 .. Len(x) - 1)
      BY <1>2, <1>2a, <1>3, <3>1 DEF Decoded
    <3> QED BY <2>1, <3>1, <3>3, <3>4 DEF Plain
  <2>2. CASE k # i
    <3>1. tq[k] = sq[k] /\ tl[t] = sl[t]
      <4>1. Stays(sl, sq, i, tl, tq, k)
        BY <1>1, <1>6, <2>2, OthersStay
      <4> QED BY <1>6, <4>1 DEF Stays
    <3>2. All(tl, tq[k]) = All(sl, sq[k])
      BY <1>6, <3>1 DEF All
    <3>3. Holds(c, t, sl[t].inputs \o sq[k].pendingInputs,
                (All(sl, sq[k]) \ Left(<<>>, t)) \ Left(<<>>, t), All(sl, sq[k]) \ Left(<<>>, t))
      BY <1>6, <3>1 DEF Undecoded, Cached
    <3> QED BY <3>1, <3>2, <3>3
  <2> QED BY <2>1, <2>2
<1>7. Cached(c, tl, tq, <<>>, <<>>)
  BY <1>5, <1>6 DEF Cached
<1>8. BatchOK(<<>>, tl, tq)
  <2>1. <<>> \in Seq(BatchInput) /\ Len(<<>>) = 0
    BY EmptySeq
  <2> QED BY <2>1 DEF BatchOK
<1> QED BY <1>1, <1>7, <1>8 DEF Undecoded

(* The turn goes from seat to seat; after the last one the loop is idle.   *)
LEMMA TurnGoesOn ==
  ASSUME LlamaInv, NEW i \in Seats, Turn(i)
  PROVE  /\ Undecoded(cache, slots, seqs, <<>>) /\ cache' = cache /\ RestorerOK'
         /\ sbatch' = <<>> /\ ubatch' = <<>> /\ code' = 0
         /\ cur' \in Seats /\ phase' \in {"idle", "sample"} /\ (phase' # "sample" => cur' = 0)
         /\ \A k \in Seats : (phase' = "idle" \/ k < cur') /\ k # i => Quiet(seqs[k])
<1>1. /\ phase = "sample" /\ cur = i /\ cur' = (i + 1) % Parallel /\ ubatch' = <<>>
      /\ phase' = (IF cur' = 0 THEN "idle" ELSE "sample") /\ cache' = cache
      /\ sbatch' = sbatch /\ code' = code /\ restorer' = restorer
  BY DEF Turn
<1>2. LoopOK /\ Now = <<>>
  BY <1>1 DEF LlamaInv, Now
<1>3. sbatch = <<>> /\ code = 0 /\ \A k \in Seats : k < i => Quiet(seqs[k])
  BY <1>1, <1>2 DEF LoopOK
<1>4. Undecoded(cache, slots, seqs, <<>>)
  BY <1>1, <1>2, <1>3 DEF LlamaInv, Undecoded
<1>5. (i + 1) % Parallel = IF i + 1 < Parallel THEN i + 1 ELSE 0
  BY ContextSize DEF Seats, SeqIds
<1>6. cur' \in Seats /\ \A k \in Seats : (phase' = "idle" \/ k < cur') /\ k # i => k < i
  BY <1>1, <1>5, ContextSize DEF Seats, SeqIds
<1>7. RestorerOK'
  BY <1>1 DEF LlamaInv, RestorerOK
<1> QED BY <1>1, <1>3, <1>4, <1>6, <1>7

LEMMA TurnEnds ==
  ASSUME LlamaInv, NEW i \in Seats, Turn(i), Undecoded(cache, slots', seqs', <<>>),
         Quiet(seqs'[i]), \A k \in Seats : k # i => seqs'[k] = seqs[k]
  PROVE  LlamaInv'
<1>1. /\ cache' = cache /\ RestorerOK' /\ sbatch' = <<>> /\ ubatch' = <<>> /\ code' = 0
      /\ cur' \in Seats /\ phase' \in {"idle", "sample"} /\ (phase' # "sample" => cur' = 0)
      /\ \A k \in Seats : (phase' = "idle" \/ k < cur') /\ k # i => Quiet(seqs[k])
  BY TurnGoesOn
<1>2. \A k \in Seats : phase' = "idle" \/ k < cur' => Quiet(seqs'[k])
  BY <1>1
<1>3. LoopOK'
  BY <1>1, <1>2 DEF LoopOK
<1>4. Now' = <<>> /\ phase' # "dead"
  BY <1>1 DEF Now
<1>5. AttentionExactUnlessTorn' /\ NeverFull'
  <2>1. Len(ubatch') = 0
    BY <1>1, EmptySeq
  <2> QED BY <1>1, <2>1 DEF AttentionExactUnlessTorn, NeverFull
<1> QED BY <1>1, <1>3, <1>4, <1>5 DEF LlamaInv, Undecoded

(* A seat whose inputs are stored and that goes on with q, ...             *)
LEMMA GoesOnStep ==
  ASSUME LlamaInv, NEW i \in Seats, Turn(i), seqs[i] # NoSeq,
         NEW q \in SeqOK, q.slot = seqs[i].slot, q.pendingInputs = <<>>,
         q.text = Stored(seqs[i]) \o q.inputs,
         slots' = [slots EXCEPT ![seqs[i].slot].inputs = Stored(seqs[i])],
         seqs' = [seqs EXCEPT ![i] = q]
  PROVE  LlamaInv'
<1>1. PICK c, sl, sq, tl, tq : /\ c = cache /\ sl = slots /\ sq = seqs
                               /\ tl = slots' /\ tq = seqs'
  OBVIOUS
<1>2. Undecoded(c, sl, sq, <<>>)
  BY <1>1, TurnGoesOn
<1>3. SeatsOK(sl, sq) /\ sl \in [SeqIds -> SlotOK] /\ sq \in [Seats -> SeqOK \cup {NoSeq}]
  BY <1>2 DEF Undecoded, Shares, SeatsOK
<1>4. PICK s \in SeqIds : s = sq[i].slot /\ sl[s].inUse
  BY <1>1, <1>3, SeatTypes
<1>5. PICK x : x = sl[sq[i].slot].inputs \o sq[i].pendingInputs
  OBVIOUS
<1>6. x = Stored(seqs[i])
  BY <1>1, <1>5 DEF Stored
<1>7. Decoded(c, sl, sq[i], x)
  BY <1>1, <1>2, <1>5, SeatDecoded
<1>8. x \in Seq(Tokens) /\ Len(x) \in Nat
  BY <1>7 DEF Decoded
<1>9. PICK u \in SlotOK : u = sl[s]
  BY <1>3
<1>10. PICK v : v = [u EXCEPT !.inputs = x]
  OBVIOUS
<1>11. v \in SlotOK /\ v.inputs = x /\ v.inUse = u.inUse
  BY <1>8, <1>10 DEF SlotOK
<1>12. tl = [sl EXCEPT ![s] = v]
  BY <1>1, <1>4, <1>6, <1>9, <1>10
<1>13. tl \in [SeqIds -> SlotOK] /\ tl[s] = v /\ \A t \in SeqIds : t # s => tl[t] = sl[t]
  BY <1>3, <1>11, <1>12
<1>14. /\ tq \in [Seats -> SeqOK \cup {NoSeq}] /\ tq[i] = q
       /\ \A k \in Seats : k # i => tq[k] = sq[k]
  BY <1>1, <1>3
<1>15. Alters(sl, sq, sq[i].slot, i, tl, tq)
  BY <1>1, <1>4, <1>9, <1>11, <1>13, <1>14, NoSeqDiffers DEF Alters
<1>16. Settles(x, tl[sq[i].slot].inputs, tq[i])
  <2>1. tl[sq[i].slot].inputs = x
    BY <1>4, <1>11, <1>13
  <2>2. q.text = x \o q.inputs
    BY <1>6
  <2>3. Len(x) <= Len(x)
    BY <1>8
  <2>4. Settles(x, x, q)
    BY <1>8, <2>2, <2>3 DEF Settles
  <2> QED BY <1>14, <2>1, <2>4
<1>17. Undecoded(c, tl, tq, <<>>)
  BY <1>1, <1>2, <1>5, <1>15, <1>16, SettlesCached
<1> QED BY <1>1, <1>14, <1>17, TurnEnds DEF Quiet

(* ... or that ends with the inputs y.                                     *)
LEMMA EndsStep ==
  ASSUME LlamaInv, NEW i \in Seats, Turn(i), seqs[i] # NoSeq,
         NEW n \in Int, n <= Len(Stored(seqs[i])), NEW y, y = SubSeq(Stored(seqs[i]), 1, n),
         slots' = [slots EXCEPT ![seqs[i].slot].inputs = y, ![seqs[i].slot].inUse = FALSE],
         seqs' = [seqs EXCEPT ![i] = NoSeq]
  PROVE  LlamaInv'
<1>1. PICK c, sl, sq, tl, tq : /\ c = cache /\ sl = slots /\ sq = seqs
                               /\ tl = slots' /\ tq = seqs'
  OBVIOUS
<1>2. Undecoded(c, sl, sq, <<>>)
  BY <1>1, TurnGoesOn
<1>3. SeatsOK(sl, sq) /\ sl \in [SeqIds -> SlotOK] /\ sq \in [Seats -> SeqOK \cup {NoSeq}]
  BY <1>2 DEF Undecoded, Shares, SeatsOK
<1>4. PICK s \in SeqIds : s = sq[i].slot /\ sl[s].inUse
  BY <1>1, <1>3, SeatTypes
<1>5. PICK x : x = sl[sq[i].slot].inputs \o sq[i].pendingInputs
  OBVIOUS
<1>6. x = Stored(seqs[i])
  BY <1>1, <1>5 DEF Stored
<1>7. Decoded(c, sl, sq[i], x)
  BY <1>1, <1>2, <1>5, SeatDecoded
<1>8. x \in Seq(Tokens) /\ Len(x) \in Nat
  BY <1>7 DEF Decoded
<1>9. /\ y \in Seq(Tokens) /\ Len(y) \in Nat /\ Len(y) <= Len(x)
      /\ \A p \in 0 .. Len(y) - 1 : y[p + 1] = x[p + 1]
  BY <1>6, <1>8, StartOf
<1>10. PICK u \in SlotOK : u = sl[s]
  BY <1>3
<1>11. PICK v : v = [u EXCEPT !.inputs = y, !.inUse = FALSE]
  OBVIOUS
<1>12. v \in SlotOK /\ v.inputs = y /\ v.inUse = FALSE
  BY <1>9, <1>11 DEF SlotOK
<1>13. tl = [sl EXCEPT ![s] = v]
  BY <1>1, <1>3, <1>4, <1>10, <1>11
<1>14. tl \in [SeqIds -> SlotOK] /\ tl[s] = v /\ \A t \in SeqIds : t # s => tl[t] = sl[t]
  BY <1>3, <1>12, <1>13
<1>15. /\ tq \in [Seats -> SeqOK \cup {NoSeq}] /\ tq[i] = NoSeq
       /\ \A k \in Seats : k # i => tq[k] = sq[k]
  BY <1>1, <1>3
<1>16. Alters(sl, sq, sq[i].slot, i, tl, tq)
  BY <1>4, <1>12, <1>14, <1>15 DEF Alters
<1>17. Settles(x, tl[sq[i].slot].inputs, tq[i])
  <2>1. tl[sq[i].slot].inputs = y
    BY <1>4, <1>12, <1>14
  <2> QED BY <1>9, <1>15, <2>1 DEF Settles
<1>18. Undecoded(c, tl, tq, <<>>)
  <2>1. sq[i] # NoSeq
    BY <1>1
  <2> QED BY <1>2, <1>5, <1>16, <1>17, <2>1, SettlesCached
<1> QED BY <1>1, <1>15, <1>18, TurnEnds DEF Quiet

(* What is stored for a seat in its turn.                                  *)
LEMMA StoredIsText ==
  ASSUME LlamaInv, NEW i \in Seats, Turn(i), seqs[i] # NoSeq
  PROVE  /\ Stored(seqs[i]) \in Seq(Tokens) /\ Len(Stored(seqs[i])) \in Nat
         /\ seqs[i].text = Stored(seqs[i]) \o seqs[i].inputs /\ seqs[i] \in SeqOK
         /\ seqs \in [Seats -> SeqOK \cup {NoSeq}] /\ slots \in [SeqIds -> SlotOK]
         /\ seqs[i].slot \in SeqIds
<1>1. Undecoded(cache, slots, seqs, <<>>)
  BY TurnGoesOn
<1>2. PICK x : x = Stored(seqs[i])
  OBVIOUS
<1>3. Decoded(cache, slots, seqs[i], x)
  BY <1>1, <1>2, SeatDecoded DEF Stored
<1>4. SeatsOK(slots, seqs)
  BY <1>1 DEF Undecoded, Shares
<1>5. seqs[i] \in SeqOK /\ seqs[i].slot \in SeqIds
  BY <1>4, SeatTypes
<1> QED BY <1>2, <1>3, <1>4, <1>5 DEF Decoded, SeatsOK

(* The turns of an empty seat, of a seat with a part of its prompt left,   *)
LEMMA NilStep ==
  ASSUME LlamaInv, NEW i \in Seats, SampleNil(i)
  PROVE  LlamaInv'
<1>1. Turn(i) /\ seqs[i] = NoSeq /\ slots' = slots /\ seqs' = seqs
  BY DEF SampleNil
<1>2. Undecoded(cache, slots, seqs, <<>>)
  BY <1>1, TurnGoesOn
<1>3. Undecoded(cache, slots', seqs', <<>>)
  BY <1>1, <1>2
<1> QED BY <1>1, <1>3, TurnEnds DEF Quiet

LEMMA PromptStep ==
  ASSUME LlamaInv, NEW i \in Seats, ProcessPrompt(i)
  PROVE  LlamaInv'
<1>1. /\ Turn(i) /\ seqs[i] # NoSeq
      /\ slots' = [slots EXCEPT ![seqs[i].slot].inputs = Stored(seqs[i])]
      /\ seqs' = [seqs EXCEPT ![i].pendingInputs = <<>>]
  BY DEF ProcessPrompt
<1>2. /\ seqs[i].text = Stored(seqs[i]) \o seqs[i].inputs /\ seqs[i] \in SeqOK
  BY <1>1, StoredIsText
<1>3. PICK q : q = [seqs[i] EXCEPT !.pendingInputs = <<>>]
  OBVIOUS
<1>4. PICK u \in SeqOK : u = seqs[i]
  BY <1>2
<1>5. /\ q \in SeqOK /\ q.slot = u.slot /\ q.pendingInputs = <<>> /\ q.text = u.text
      /\ q.inputs = u.inputs
  <2>1. q = [u EXCEPT !.pendingInputs = <<>>] /\ <<>> \in Seq(Tokens)
    BY <1>3, <1>4, EmptySeq
  <2> QED BY <2>1 DEF SeqOK
<1>6. seqs' = [seqs EXCEPT ![i] = q]
  BY <1>1, <1>3
<1>7. q.slot = seqs[i].slot /\ q.text = Stored(seqs[i]) \o q.inputs
  BY <1>2, <1>4, <1>5
<1> QED BY <1>1, <1>5, <1>6, <1>7, GoesOnStep

(* of a seat whose sequence ends, by itself or at a stop string,           *)
LEMMA EndStep ==
  ASSUME LlamaInv, NEW i \in Seats, SampleEnd(i)
  PROVE  LlamaInv'
<1>1. /\ Turn(i) /\ seqs[i] # NoSeq
      /\ slots' = [slots EXCEPT ![seqs[i].slot].inputs = Stored(seqs[i]),
                                ![seqs[i].slot].inUse = FALSE]
      /\ seqs' = [seqs EXCEPT ![i] = NoSeq]
  BY DEF SampleEnd, Sampled
<1>2. PICK x \in Seq(Tokens), n \in Nat : x = Stored(seqs[i]) /\ n = Len(x)
  BY <1>1, StoredIsText
<1>3. x = SubSeq(x, 1, n) /\ n <= Len(x) /\ n \in Int
  BY <1>2, SubSeqFull
<1> QED BY <1>1, <1>2, <1>3, EndsStep

LEMMA StopStep ==
  ASSUME LlamaInv, NEW i \in Seats, seqs[i] # NoSeq, HitStop(i)
  PROVE  LlamaInv'
<1>1. PICK m \in 0 .. seqs[i].held :
      /\ Turn(i)
      /\ slots' = [slots EXCEPT
           ![seqs[i].slot].inputs = SubSeq(Stored(seqs[i]), 1, Len(Stored(seqs[i])) - m),
           ![seqs[i].slot].inUse = FALSE]
      /\ seqs' = [seqs EXCEPT ![i] = NoSeq]
  BY DEF HitStop, Sampled
<1>2. PICK x \in Seq(Tokens), l \in Nat : x = Stored(seqs[i]) /\ l = Len(x)
  BY <1>1, StoredIsText
<1>3. PICK n \in Int : n = l - m /\ n <= l
  <2>1. seqs[i] \in SeqOK
    BY <1>1, StoredIsText
  <2>2. PICK h \in Nat : h = seqs[i].held
    BY <2>1 DEF SeqOK
  <2>3. m \in 0 .. h
    BY <2>2
  <2> QED BY <1>2, <2>3
<1>4. PICK y : y = SubSeq(x, 1, n)
  OBVIOUS
<1>5. slots' = [slots EXCEPT ![seqs[i].slot].inputs = y, ![seqs[i].slot].inUse = FALSE]
  BY <1>1, <1>2, <1>3, <1>4
<1>6. n <= Len(Stored(seqs[i])) /\ y = SubSeq(Stored(seqs[i]), 1, n)
  BY <1>2, <1>3, <1>4
<1> QED BY <1>1, <1>5, <1>6, EndsStep

(* and of one that samples a token.                                        *)
LEMMA TokenStep ==
  ASSUME LlamaInv, NEW i \in Seats, seqs[i] # NoSeq, NEW tok \in Tokens, SampleToken(i, tok)
  PROVE  LlamaInv'
<1>1. PICK h \in {0, seqs[i].held + 1} :
      /\ Turn(i) /\ seqs[i].inputs = <<>>
      /\ slots' = [slots EXCEPT ![seqs[i].slot].inputs = Stored(seqs[i])]
      /\ seqs' = [seqs EXCEPT ![i] =
           [seqs[i] EXCEPT !.inputs = <<tok>>, !.pendingInputs = <<>>, !.held = h,
                           !.numPredicted = Least(seqs[i].numPredicted + 1, NumPredict),
                           !.text = Append(seqs[i].text, tok)]]
  BY DEF SampleToken, Sampled
<1>2. PICK x \in Seq(Tokens) : x = Stored(seqs[i])
  BY <1>1, StoredIsText
<1>3. PICK u \in SeqOK : u = seqs[i]
  BY <1>1, StoredIsText
<1>4. u.text = x
  <2>1. u.text = x \o <<>>
    BY <1>1, <1>2, <1>3, StoredIsText
  <2>2. x \o <<>> = x
    BY ConcatEmptySeq
  <2> QED BY <2>1, <2>2
<1>5. PICK n \in Nat, t \in Seq(Tokens) : n = Least(u.numPredicted + 1, NumPredict) /\ t = Append(x, tok)
  <2>1. u.numPredicted \in Nat /\ NumPredict \in Nat
    BY RunnerAssumption DEF SeqOK
  <2>2. Least(u.numPredicted + 1, NumPredict) \in Nat
    BY <2>1 DEF Least
  <2>3. Append(x, tok) \in Seq(Tokens)
    BY AppendProperties
  <2> QED BY <2>2, <2>3
<1>6. PICK q : q = [u EXCEPT !.inputs = <<tok>>, !.pendingInputs = <<>>, !.held = h,
                             !.numPredicted = n, !.text = t]
  OBVIOUS
<1>7. h \in Nat /\ <<tok>> \in Seq(Tokens) /\ <<>> \in Seq(Tokens)
  <2>1. u.held \in Nat
    BY DEF SeqOK
  <2> QED BY <1>1, <1>3, <2>1
<1>8. /\ q \in SeqOK /\ q.slot = u.slot /\ q.pendingInputs = <<>> /\ q.text = t
      /\ q.inputs = <<tok>>
  BY <1>6, <1>7 DEF SeqOK
<1>9. seqs' = [seqs EXCEPT ![i] = q]
  <2>1. q = [u EXCEPT !.inputs = <<tok>>, !.pendingInputs = <<>>, !.held = h,
                      !.numPredicted = Least(u.numPredicted + 1, NumPredict),
                      !.text = Append(u.text, tok)]
    BY <1>4, <1>5, <1>6
  <2> QED BY <1>1, <1>3, <2>1
<1>10. q.text = Stored(seqs[i]) \o q.inputs
  <2>1. Append(x, tok) = x \o <<tok>>
    BY AppendIsConcat
  <2> QED BY <1>2, <1>5, <1>8, <2>1
<1>11. q.slot = seqs[i].slot
  BY <1>3, <1>8
<1> QED BY <1>1, <1>8, <1>9, <1>10, <1>11, GoesOnStep

-----------------------------------------------------------------------------
(* The first loop of processBatch.                                         *)

(* A seat that submitted nothing has nothing in the batch.                 *)
LEMMA QuietNone ==
  ASSUME NEW sl, NEW sq, SeatsOK(sl, sq), NEW b, BatchOK(b, sl, sq),
         NEW i \in Seats, sq[i] # NoSeq, Quiet(sq[i])
  PROVE  /\ \A k \in 1 .. Len(b) : b[k].seq # sq[i].slot
         /\ Left(b, sq[i].slot) = {}
<1>1. ASSUME NEW k \in 1 .. Len(b), b[k].seq = sq[i].slot PROVE FALSE
  <2>1. InText(b[k], sl, sq[i])
    BY <1>1, InputOfSeat
  <2>2. b[k].pos - Len(sl[sq[i].slot].inputs) \in 0 .. Len(sq[i].pendingInputs) - 1
    BY <2>1 DEF InText, FromSeat
  <2>3. Len(sq[i].pendingInputs) = 0
    BY EmptySeq DEF Quiet
  <2>4. 0 .. Len(sq[i].pendingInputs) - 1 = {}
    BY <2>3
  <2> QED BY <2>2, <2>4
<1> QED BY <1>1 DEF Left

(* A batch with more inputs.                                               *)
Grown(b, e, f) ==
  /\ f \in Seq(BatchInput) /\ Len(f) = Len(b) + Len(e)
  /\ \A k \in 1 .. Len(b) : f[k] = b[k]
  /\ \A k \in 1 .. Len(f) : k \notin 1 .. Len(b) =>
       k - Len(b) \in 1 .. Len(e) /\ f[k] = e[k - Len(b)]
  /\ \A s : Left(f, s) = Left(b, s) \cup Left(e, s)

LEMMA MoreLeft ==
  ASSUME NEW b \in Seq(BatchInput), NEW e \in Seq(BatchInput), NEW f, f = b \o e
  PROVE  Grown(b, e, f)
<1>1. /\ f \in Seq(BatchInput) /\ Len(f) = Len(b) + Len(e) /\ Len(b) \in Nat /\ Len(e) \in Nat
      /\ \A k \in 1 .. Len(b) + Len(e) : f[k] = IF k <= Len(b) THEN b[k] ELSE e[k - Len(b)]
  BY ConcatProperties
<1>2. PICK m \in Nat, n \in Nat : m = Len(b) /\ n = Len(e)
  BY <1>1
<1>3. \A k \in 1 .. m : f[k] = b[k]
  BY <1>1, <1>2
<1>4. \A k \in 1 .. m + n : k \notin 1 .. m => k - m \in 1 .. n /\ f[k] = e[k - m]
  BY <1>1, <1>2
<1>5. \A k \in 1 .. n : m + k \in 1 .. m + n /\ m + k \notin 1 .. m /\ (m + k) - m = k
  OBVIOUS
<1>6. \A k \in 1 .. n : f[m + k] = e[k]
  BY <1>4, <1>5
<1>7. ASSUME NEW s PROVE Left(f, s) = Left(b, s) \cup Left(e, s)
  <2>1. ASSUME NEW p \in Left(f, s) PROVE p \in Left(b, s) \cup Left(e, s)
    <3>1. PICK k \in 1 .. m + n : f[k].seq = s /\ p = f[k].pos
      BY <1>1, <1>2, <2>1 DEF Left
    <3>2. CASE k \in 1 .. m
      BY <1>2, <1>3, <3>1, <3>2 DEF Left
    <3>3. CASE k \notin 1 .. m
      BY <1>2, <1>4, <3>1, <3>3 DEF Left
    <3> QED BY <3>2, <3>3
  <2>2. ASSUME NEW p \in Left(b, s) PROVE p \in Left(f, s)
    <3>1. PICK k \in 1 .. m : b[k].seq = s /\ p = b[k].pos
      BY <1>2, <2>2 DEF Left
    <3>2. k \in 1 .. m + n
      OBVIOUS
    <3> QED BY <1>1, <1>2, <1>3, <3>1, <3>2 DEF Left
  <2>3. ASSUME NEW p \in Left(e, s) PROVE p \in Left(f, s)
    <3>1. PICK k \in 1 .. n : e[k].seq = s /\ p = e[k].pos
      BY <1>2, <2>3 DEF Left
    <3>2. m + k \in 1 .. m + n
      BY <1>5
    <3> QED BY <1>1, <1>2, <1>6, <3>1, <3>2 DEF Left
  <2> QED BY <2>1, <2>2, <2>3
<1> QED BY <1>1, <1>2, <1>3, <1>4, <1>7 DEF Grown

(* A step on the cache that leaves all but s as it is, unless it moves     *)
(* their cells.                                                            *)
Keeps(c, d, s) ==
  /\ CacheOK(d) /\ c.torn \subseteq d.torn
  /\ \A t \in SeqIds \ d.torn : t # s => \A x, P, B : Holds(c, t, x, P, B) => Holds(d, t, x, P, B)

(* Seat q with slot s, whose inputs in the batch are e.                    *)
Joins(d, tl, q, s, e) ==
  /\ e \in Seq(BatchInput) /\ Len(tl[s].inputs) <= NumCtx
  /\ \A k, m \in 1 .. Len(e) : k < m => e[k].pos < e[m].pos
  /\ q = NoSeq =>
       /\ e = <<>>
       /\ s \notin d.torn =>
            Holds(d, s, tl[s].inputs, 0 .. Len(tl[s].inputs) - 1, 0 .. NumCtx - 1)
  /\ q # NoSeq =>
       /\ Len(tl[s].inputs) + Len(q.pendingInputs) <= NumCtx
       /\ q.text = (tl[s].inputs \o q.pendingInputs) \o q.inputs
       /\ \A k \in 1 .. Len(e) : FromSeat(e[k], tl[s].inputs, q)
       /\ s \notin d.torn =>
            Holds(d, s, tl[s].inputs \o q.pendingInputs, All(tl, q) \ Left(e, s),
                  All(tl, q) \ Left(e, s))

(* The turn of one seat leaves the slots and the seats in order, ...       *)
LEMMA JoinsShares ==
  ASSUME NEW c, NEW sl, NEW sq, NEW b, Undecoded(c, sl, sq, b), NEW i \in Seats, sq[i] # NoSeq,
         NEW s, s = sq[i].slot, NEW tl, NEW tq, Alters(sl, sq, s, i, tl, tq),
         NEW d, NEW e, Joins(d, tl, tq[i], s, e)
  PROVE  Shares(tl, tq)
<1>1. SeatsOK(sl, sq) /\ InShare(sl, sq) /\ TextsOK(sl, sq)
  BY DEF Undecoded, Shares
<1>2. SeatsOK(tl, tq)
  BY <1>1, AltersSeats
<1>3. InShare(tl, tq)
  <2>1. ASSUME NEW t \in SeqIds PROVE Len(tl[t].inputs) <= NumCtx
    <3>1. CASE t = s
      BY <3>1 DEF Joins
    <3>2. CASE t # s
      <4>1. tl[t] = sl[t]
        BY <3>2 DEF Alters
      <4> QED BY <1>1, <4>1 DEF InShare
    <3> QED BY <3>1, <3>2
  <2>2. ASSUME NEW k \in Seats, tq[k] # NoSeq
        PROVE  Len(tl[tq[k].slot].inputs) + Len(tq[k].pendingInputs) <= NumCtx
    <3>1. CASE k = i
      BY <2>2, <3>1 DEF Joins, Alters
    <3>2. CASE k # i
      <4>1. Stays(sl, sq, i, tl, tq, k)
        BY <1>1, <2>2, <3>2, OthersStay
      <4>2. tq[k] = sq[k] /\ tl[tq[k].slot] = sl[tq[k].slot]
        BY <4>1 DEF Stays
      <4> QED BY <1>1, <2>2, <4>2 DEF InShare
    <3> QED BY <3>1, <3>2
  <2> QED BY <2>1, <2>2 DEF InShare
<1>4. TextsOK(tl, tq)
  <2> SUFFICES ASSUME NEW k \in Seats, tq[k] # NoSeq
               PROVE  tq[k].text = (tl[tq[k].slot].inputs \o tq[k].pendingInputs) \o tq[k].inputs
    BY DEF TextsOK
  <2>1. CASE k = i
    BY <2>1 DEF Joins, Alters
  <2>2. CASE k # i
    <3>1. Stays(sl, sq, i, tl, tq, k)
      BY <1>1, <2>2, OthersStay
    <3>2. tq[k] = sq[k] /\ tl[tq[k].slot] = sl[tq[k].slot]
      BY <3>1 DEF Stays
    <3>3. sq[k].text = (sl[sq[k].slot].inputs \o sq[k].pendingInputs) \o sq[k].inputs
      BY <1>1, <3>2 DEF TextsOK
    <3> QED BY <3>2, <3>3
  <2> QED BY <2>1, <2>2
<1> QED BY <1>2, <1>3, <1>4 DEF Shares

(* ... and the batch comes from the seats, ...                             *)
Joined(b, e, f, s, tl, tq) ==
  /\ BatchOK(f, tl, tq) /\ Left(f, s) = Left(e, s)
  /\ \A t : t # s => Left(f, t) = Left(b, t)

LEMMA JoinsBatch ==
  ASSUME NEW c, NEW sl, NEW sq, NEW b, Undecoded(c, sl, sq, b), NEW i \in Seats, sq[i] # NoSeq,
         Quiet(sq[i]), NEW s, s = sq[i].slot, NEW tl, NEW tq, Alters(sl, sq, s, i, tl, tq),
         NEW d, NEW e, Joins(d, tl, tq[i], s, e), NEW f, f = b \o e
  PROVE  Joined(b, e, f, s, tl, tq)
<1>1. SeatsOK(sl, sq) /\ BatchOK(b, sl, sq) /\ b \in Seq(BatchInput) /\ e \in Seq(BatchInput)
  BY DEF Undecoded, Shares, BatchOK, Joins
<1>2. (\A k \in 1 .. Len(b) : b[k].seq # s) /\ Left(b, s) = {}
  BY <1>1, QuietNone
<1>3. /\ f \in Seq(BatchInput) /\ Len(f) = Len(b) + Len(e)
      /\ \A k \in 1 .. Len(b) : f[k] = b[k]
      /\ \A k \in 1 .. Len(f) : k \notin 1 .. Len(b) =>
           k - Len(b) \in 1 .. Len(e) /\ f[k] = e[k - Len(b)]
      /\ \A t : Left(f, t) = Left(b, t) \cup Left(e, t)
  <2>1. Grown(b, e, f)
    BY <1>1, MoreLeft
  <2> QED BY <2>1 DEF Grown
<1>4. ASSUME NEW k \in 1 .. Len(e)
      PROVE  tq[i] # NoSeq /\ tq[i].slot = s /\ FromSeat(e[k], tl[s].inputs, tq[i]) /\ e[k].seq = s
  <2>1. tq[i] # NoSeq
    <3>1. CASE tq[i] = NoSeq
      <4>1. e = <<>>
        BY <3>1 DEF Joins
      <4>2. Len(e) = 0
        BY <4>1, EmptySeq
      <4>3. 1 .. Len(e) = {}
        BY <4>2
      <4> QED BY <1>4, <4>3
    <3> QED BY <3>1
  <2>2. tq[i].slot = s /\ FromSeat(e[k], tl[s].inputs, tq[i])
    BY <1>4, <2>1 DEF Joins, Alters
  <2> QED BY <2>1, <2>2 DEF FromSeat
<1>5. \A t : t # s => Left(e, t) = {}
  BY <1>4 DEF Left
<1>6. ASSUME NEW k \in 1 .. Len(f)
      PROVE  \E j \in Seats : tq[j] # NoSeq /\ FromSeat(f[k], tl[tq[j].slot].inputs, tq[j])
  <2>1. CASE k \in 1 .. Len(b)
    <3>1. PICK j \in Seats : sq[j] # NoSeq /\ FromSeat(b[k], sl[sq[j].slot].inputs, sq[j])
      BY <1>1, <2>1 DEF BatchOK
    <3>2. j # i
      BY <1>2, <2>1, <3>1 DEF FromSeat
    <3>3. tq[j] # NoSeq
      BY <3>1, <3>2 DEF Alters
    <3>4. Stays(sl, sq, i, tl, tq, j)
      BY <1>1, <3>2, <3>3, OthersStay
    <3> QED BY <1>3, <2>1, <3>1, <3>3, <3>4 DEF Stays
  <2>2. CASE k \notin 1 .. Len(b)
    <3>1. k - Len(b) \in 1 .. Len(e) /\ f[k] = e[k - Len(b)]
      BY <1>3, <2>2
    <3> QED BY <1>4, <3>1
  <2> QED BY <2>1, <2>2
<1>7. ASSUME NEW k \in 1 .. Len(f), NEW m \in 1 .. Len(f), k < m, f[k].seq = f[m].seq
      PROVE  f[k].pos < f[m].pos
  <2>1. CASE k \in 1 .. Len(b) /\ m \in 1 .. Len(b)
    BY <1>1, <1>3, <1>7, <2>1 DEF BatchOK
  <2>2. CASE k \in 1 .. Len(b) /\ m \notin 1 .. Len(b)
    <3>1. f[m].seq = s
      BY <1>3, <1>4, <2>2
    <3> QED BY <1>2, <1>3, <1>7, <2>2, <3>1
  <2>3. CASE k \notin 1 .. Len(b)
    <3>1. PICK l \in Nat : l = Len(b)
      BY <1>1, LenProperties
    <3>2. m \notin 1 .. l
      BY <1>7, <2>3, <3>1
    <3>3. /\ k - l \in 1 .. Len(e) /\ f[k] = e[k - l]
          /\ m - l \in 1 .. Len(e) /\ f[m] = e[m - l]
      BY <1>3, <2>3, <3>1, <3>2
    <3>4. k - l < m - l
      BY <1>7
    <3>5. e[k - l].pos < e[m - l].pos
      BY <3>3, <3>4 DEF Joins
    <3> QED BY <3>3, <3>5
  <2> QED BY <2>1, <2>2, <2>3
<1>8. BatchOK(f, tl, tq)
  BY <1>3, <1>6, <1>7 DEF BatchOK
<1> QED BY <1>2, <1>3, <1>5, <1>8 DEF Joined

(* ... and the cache has what they say.                                    *)
LEMMA JoinsCached ==
  ASSUME NEW c, NEW sl, NEW sq, NEW b, Undecoded(c, sl, sq, b), NEW i \in Seats, sq[i] # NoSeq,
         Quiet(sq[i]), NEW s, s = sq[i].slot, NEW tl, NEW tq, Alters(sl, sq, s, i, tl, tq),
         NEW d, Keeps(c, d, s), NEW e, Joins(d, tl, tq[i], s, e), NEW f, f = b \o e
  PROVE  Undecoded(d, tl, tq, f)
<1>1. SeatsOK(sl, sq) /\ Shares(tl, tq) /\ CacheOK(d)
  BY JoinsShares DEF Undecoded, Shares, Keeps
<1>2. BatchOK(f, tl, tq) /\ (\A t : t # s => Left(f, t) = Left(b, t)) /\ Left(f, s) = Left(e, s)
  <2>1. Joined(b, e, f, s, tl, tq)
    BY JoinsBatch
  <2> QED BY <2>1 DEF Joined
<1>3. ASSUME NEW t \in SeqIds \ d.torn, ~ tl[t].inUse
      PROVE  Holds(d, t, tl[t].inputs, 0 .. Len(tl[t].inputs) - 1, 0 .. NumCtx - 1)
  <2>1. CASE t = s
    <3>1. tq[i] = NoSeq
      BY <1>3, <2>1 DEF Alters
    <3> QED BY <1>3, <2>1, <3>1 DEF Joins
  <2>2. CASE t # s
    <3>1. tl[t] = sl[t] /\ t \in SeqIds \ c.torn
      BY <1>3, <2>2 DEF Alters, Keeps
    <3>2. Holds(c, t, tl[t].inputs, 0 .. Len(tl[t].inputs) - 1, 0 .. NumCtx - 1)
      BY <1>3, <3>1 DEF Undecoded, Cached
    <3> QED BY <2>2, <3>2 DEF Keeps
  <2> QED BY <2>1, <2>2
<1>4. ASSUME NEW t \in SeqIds \ d.torn, NEW k \in Seats, tq[k] # NoSeq, tq[k].slot = t
      PROVE  Holds(d, t, tl[t].inputs \o tq[k].pendingInputs,
                   (All(tl, tq[k]) \ Left(f, t)) \ Left(<<>>, t), All(tl, tq[k]) \ Left(f, t))
  <2>0. PICK L, P : L = Left(f, t) /\ P = All(tl, tq[k])
    OBVIOUS
  <2>1. CASE k = i
    <3>1. t = s
      BY <1>4, <2>1 DEF Alters
    <3>2. Holds(d, t, tl[t].inputs \o tq[k].pendingInputs, P \ L, P \ L)
      BY <1>2, <1>4, <2>0, <2>1, <3>1 DEF Joins
    <3>3. (P \ L) \ Left(<<>>, t) = P \ L
      BY NothingLeft
    <3> QED BY <2>0, <3>2, <3>3
  <2>2. CASE k # i
    <3>1. Stays(sl, sq, i, tl, tq, k)
      BY <1>1, <1>4, <2>2, OthersStay
    <3>2. tq[k] = sq[k] /\ tl[t] = sl[t] /\ t # s /\ t \in SeqIds \ c.torn
      BY <1>4, <3>1 DEF Stays, Keeps
    <3>3. All(tl, tq[k]) = All(sl, sq[k]) /\ L = Left(b, t)
      BY <1>2, <1>4, <2>0, <3>2 DEF All
    <3>4. Holds(c, t, sl[t].inputs \o sq[k].pendingInputs,
                (All(sl, sq[k]) \ Left(b, t)) \ Left(<<>>, t), All(sl, sq[k]) \ Left(b, t))
      BY <1>4, <3>2 DEF Undecoded, Cached
    <3>5. Holds(d, t, sl[t].inputs \o sq[k].pendingInputs,
                (All(sl, sq[k]) \ Left(b, t)) \ Left(<<>>, t), All(sl, sq[k]) \ Left(b, t))
      BY <3>2, <3>4 DEF Keeps
    <3> QED BY <2>0, <3>2, <3>3, <3>5
  <2> QED BY <2>1, <2>2
<1>5. Cached(d, tl, tq, f, <<>>)
  BY <1>3, <1>4 DEF Cached
<1> QED BY <1>1, <1>2, <1>5 DEF Undecoded

(* A shift leaves the other sequences their cells, ...                     *)
LEMMA ShiftKeeps ==
  ASSUME NEW c, CacheOK(c), NEW s \in SeqIds, NEW keep \in Nat, NEW discard \in Nat, NEW l \in Nat,
         NEW d, d = ShiftCacheSlot(c, s, l, keep, discard)
  PROVE  \E x : /\ CacheOK(x) /\ Trimmed(c, s, keep, keep + discard, x)
                /\ Moved(x, s, keep + discard, l, -discard, d) /\ Keeps(c, d, s)
<1>1. PICK m \in Nat, n \in Int : m = keep + discard /\ n = -discard
  OBVIOUS
<1>2. PICK x : x = SeqRm(c, s, keep, m)
  OBVIOUS
<1>3. d = SeqAdd(x, s, m, l, n)
  BY <1>1, <1>2 DEF ShiftCacheSlot
<1>4. CacheOK(x) /\ Trimmed(c, s, keep, m, x)
  BY <1>2, SeqRmWorks
<1>5. CacheOK(d) /\ Moved(x, s, m, l, n, d)
  BY <1>3, <1>4, SeqAddWorks
<1>6. c.torn \subseteq d.torn
  <2>1. x.torn = c.torn
    BY <1>4 DEF Trimmed
  <2> QED BY <1>5, <2>1 DEF Moved
<1>7. ASSUME NEW t \in SeqIds \ d.torn, t # s, NEW a, NEW P, NEW B, Holds(c, t, a, P, B)
      PROVE  Holds(d, t, a, P, B)
  <2>1. Holds(x, t, a, P, B)
    BY <1>4, <1>7, TrimKeeps
  <2>2. Has(d, t) = Has(x, t) /\ \A i \in Has(x, t) : Same(x, d, i)
    BY <1>5, <1>7 DEF Moved
  <2> QED BY <2>1, <2>2, Unmoved
<1>8. Keeps(c, d, s)
  BY <1>5, <1>6, <1>7 DEF Keeps
<1> QED BY <1>1, <1>4, <1>5, <1>8

(* ... and the sequence holds what is left of it.                          *)
LEMMA ShiftHolds ==
  ASSUME NEW c, CacheOK(c), NEW s \in SeqIds, NEW keep \in Nat, NEW discard \in Nat,
         NEW a \in Seq(Tokens), NEW l \in Nat, l = Len(a), keep + discard <= l,
         NEW d, d = ShiftCacheSlot(c, s, l, keep, discard), Holds(c, s, a, 0 .. l - 1, 0 .. l - 1)
  PROVE  Holds(d, s, Without(a, keep, discard), 0 .. l - discard - 1, 0 .. l - discard - 1)
<1>1. PICK x : /\ CacheOK(x) /\ Trimmed(c, s, keep, keep + discard, x)
               /\ Moved(x, s, keep + discard, l, -discard, d)
  BY ShiftKeeps
<1> DEFINE To(p) == IF p < keep THEN p ELSE p - discard
           Stay(p) == p < keep \/ p >= keep + discard
<1>2. \A i \in Has(c, s) : c.cells[i].pos \in 0 .. l - 1 /\ c.cells[i].delta \in Int
  BY HasCells DEF Holds
<1>3. Has(x, s) = {i \in Has(c, s) : Stay(c.cells[i].pos)}
  <2>1. ASSUME NEW i \in Has(c, s)
        PROVE  ~ Within(c.cells[i], keep, keep + discard) <=> Stay(c.cells[i].pos)
    <3>1. PICK p \in Nat : p = c.cells[i].pos
      BY <1>2, <2>1
    <3>2. ~(keep + discard < 0)
      OBVIOUS
    <3> QED BY <3>1, <3>2 DEF Within
  <2> QED BY <1>1, <2>1 DEF Trimmed
<1>4. \A i \in Has(x, s) : /\ i \in Has(c, s) /\ x.cells[i].pos = c.cells[i].pos
                           /\ x.cells[i].delta = c.cells[i].delta /\ x.rows[i] = c.rows[i]
  <2>1. \A i \in Has(x, s) : Same(c, x, i)
    BY <1>1, HasCells DEF Trimmed
  <2> QED BY <1>3, <2>1 DEF Same
<1>5. \A i \in Has(x, s) :
        /\ Within(x.cells[i], keep + discard, l) <=> ~(c.cells[i].pos < keep)
        /\ Within(x.cells[i], keep + discard, l) => x.cells[i].pos + (-discard) >= 0
        /\ c.cells[i].pos + (-discard) = c.cells[i].pos - discard
  <2> SUFFICES ASSUME NEW i \in Has(x, s)
               PROVE  /\ Within(x.cells[i], keep + discard, l) <=> ~(c.cells[i].pos < keep)
                      /\ Within(x.cells[i], keep + discard, l) => x.cells[i].pos + (-discard) >= 0
                      /\ c.cells[i].pos + (-discard) = c.cells[i].pos - discard
    OBVIOUS
  <2>1. PICK p \in 0 .. l - 1 : p = c.cells[i].pos /\ p = x.cells[i].pos /\ Stay(p)
    BY <1>2, <1>3, <1>4
  <2>2. Within(x.cells[i], keep + discard, l) <=> p >= keep + discard
    BY <2>1 DEF Within
  <2> QED BY <2>1, <2>2
<1>6. Has(d, s) = Has(x, s)
  BY <1>1, <1>5 DEF Moved
<1>7. \A i \in Has(d, s) :
        /\ i \in Has(c, s) /\ Stay(c.cells[i].pos) /\ d.rows[i] = c.rows[i]
        /\ d.cells[i].pos = To(c.cells[i].pos)
        /\ d.cells[i].delta = c.cells[i].delta + (To(c.cells[i].pos) - c.cells[i].pos)
  <2> SUFFICES ASSUME NEW i \in Has(d, s)
               PROVE  /\ i \in Has(c, s) /\ Stay(c.cells[i].pos) /\ d.rows[i] = c.rows[i]
                      /\ d.cells[i].pos = To(c.cells[i].pos)
                      /\ d.cells[i].delta = c.cells[i].delta + (To(c.cells[i].pos) - c.cells[i].pos)
    OBVIOUS
  <2>1. i \in Has(x, s) /\ i \in Has(c, s) /\ Stay(c.cells[i].pos)
    BY <1>3, <1>6
  <2>2. PICK p \in 0 .. l - 1, q \in Int : p = c.cells[i].pos /\ q = c.cells[i].delta
    BY <1>2, <2>1
  <2>3. /\ d.rows[i] = c.rows[i]
        /\ IF p < keep THEN d.cells[i].pos = p /\ d.cells[i].delta = q
           ELSE d.cells[i].pos = p + (-discard) /\ d.cells[i].delta = q + (-discard)
    BY <1>1, <1>4, <1>5, <2>1, <2>2 DEF Moved
  <2>4. CASE p < keep
    <3>1. To(p) = p /\ q + (To(p) - p) = q
      BY <2>4
    <3> HIDE DEF To, Stay
    <3> QED BY <2>1, <2>2, <2>3, <2>4, <3>1
  <2>5. CASE ~(p < keep)
    <3>1. To(p) = p + (-discard) /\ q + (To(p) - p) = q + (-discard)
      BY <2>5
    <3> HIDE DEF To, Stay
    <3> QED BY <2>1, <2>2, <2>3, <2>5, <3>1
  <2> QED BY <2>4, <2>5
<1>8. \A p \in 0 .. l - 1 : Stay(p) => To(p) \in 0 .. l - discard - 1
  OBVIOUS
<1>9. \A p, q \in 0 .. l - 1 : Stay(p) /\ Stay(q) /\ To(p) = To(q) => p = q
  OBVIOUS
<1>10. \A q \in 0 .. l - discard - 1 : \E p \in 0 .. l - 1 : Stay(p) /\ To(p) = q
  <2> SUFFICES ASSUME NEW q \in 0 .. l - discard - 1
               PROVE  \E p \in 0 .. l - 1 : Stay(p) /\ To(p) = q
    OBVIOUS
  <2>1. PICK p \in Nat : p = IF q < keep THEN q ELSE q + discard
    OBVIOUS
  <2>2. p \in 0 .. l - 1 /\ Stay(p) /\ To(p) = q
    BY <2>1
  <2> QED BY <2>2
<1>11. ASSUME NEW p \in 0 .. l - 1, Stay(p)
       PROVE  Without(a, keep, discard)[To(p) + 1] = a[p + 1]
  <2>1. PICK q \in 0 .. l - discard - 1 : q = To(p)
    BY <1>8, <1>11
  <2>2. Without(a, keep, discard)[q + 1] = a[IF q < keep THEN q + 1 ELSE q + discard + 1]
    BY WithoutElements
  <2>3. (IF q < keep THEN q + 1 ELSE q + discard + 1) = p + 1
    BY <1>11, <2>1
  <2> QED BY <2>1, <2>2, <2>3
<1> HIDE DEF To, Stay
<1>12. \A i \in Has(d, s) : d.cells[i].pos \in 0 .. l - discard - 1
  BY <1>2, <1>7, <1>8
<1>13. \A i, j \in Has(d, s) : d.cells[i].pos = d.cells[j].pos => i = j
  BY <1>2, <1>7, <1>9 DEF Holds
<1>14. ASSUME NEW q \in 0 .. l - discard - 1 PROVE \E i \in Has(d, s) : d.cells[i].pos = q
  <2>1. PICK p \in 0 .. l - 1 : Stay(p) /\ To(p) = q
    BY <1>10
  <2>2. PICK i \in Has(c, s) : c.cells[i].pos = p
    BY DEF Holds
  <2>3. i \in Has(d, s)
    BY <1>3, <1>6, <2>1, <2>2
  <2> QED BY <1>7, <2>1, <2>2, <2>3
<1>15. ASSUME NEW i \in Has(d, s)
       PROVE  /\ d.rows[i] # NoRow /\ d.rows[i].tok = Without(a, keep, discard)[d.cells[i].pos + 1]
              /\ d.rows[i].at + d.cells[i].delta = d.cells[i].pos
  <2>1. PICK p \in 0 .. l - 1, q \in Int : p = c.cells[i].pos /\ q = c.cells[i].delta
    BY <1>2, <1>7
  <2>2. c.rows[i] # NoRow /\ c.rows[i].tok = a[p + 1] /\ c.rows[i].at + q = p
    BY <1>7, <2>1 DEF Holds
  <2>3. c.rows[i].at \in Int
    <3>1. c.rows[i] \in Row
      BY <1>7, <2>2 DEF CacheOK, CacheT, Has
    <3> QED BY <3>1 DEF Row
  <2>4. To(p) \in Int
    BY <1>7, <1>8, <2>1
  <2>5. PICK z \in Int, w \in Int : z = To(p) /\ w = c.rows[i].at
    BY <2>3, <2>4
  <2>6. d.cells[i].pos = z /\ d.cells[i].delta = q + (z - p) /\ d.rows[i] = c.rows[i]
    BY <1>7, <2>1, <2>5
  <2>7. w + (q + (z - p)) = z
    <3>1. w + q = p
      BY <2>2, <2>5
    <3> QED BY <3>1
  <2>8. Without(a, keep, discard)[z + 1] = a[p + 1]
    BY <1>7, <1>11, <2>1, <2>5
  <2> QED BY <2>2, <2>5, <2>6, <2>7, <2>8
<1> QED BY <1>12, <1>13, <1>14, <1>15 DEF Holds

(* A sequence that goes on after a part of its start was taken out.        *)
LEMMA WithoutThenRest ==
  ASSUME NEW a \in Seq(Tokens), NEW r \in Seq(Tokens), NEW keep \in Nat, NEW discard \in Nat,
         keep + discard <= Len(a)
  PROVE  Without(a \o r, keep, discard) = Without(a, keep, discard) \o r
<1>1. PICK l \in Nat, m \in Nat, n \in Nat : l = Len(a) /\ m = Len(r) /\ n = l - discard
  BY LenProperties
<1>2. PICK x : x = a \o r
  OBVIOUS
<1>3. /\ x \in Seq(Tokens) /\ Len(x) = l + m
      /\ \A i \in 1 .. l + m : x[i] = IF i <= l THEN a[i] ELSE r[i - l]
  BY <1>1, <1>2, ConcatProperties
<1>4. PICK y, z : y = Without(a, keep, discard) /\ z = Without(x, keep, discard)
  OBVIOUS
<1>5. y \in Seq(Tokens) /\ Len(y) = n /\ z \in Seq(Tokens) /\ Len(z) = n + m
  <2>1. y \in Seq(Tokens) /\ Len(y) = l - discard
    BY <1>1, <1>4, WithoutShorter
  <2>2. keep + discard <= Len(x)
    BY <1>1, <1>3
  <2>3. z \in Seq(Tokens) /\ Len(z) = Len(x) - discard
    BY <1>3, <1>4, <2>2, WithoutShorter
  <2>4. (l + m) - discard = n + m
    BY <1>1
  <2> QED BY <1>1, <1>3, <2>1, <2>3, <2>4
<1>6. /\ y \o r \in Seq(Tokens) /\ Len(y \o r) = n + m
      /\ \A i \in 1 .. n + m : (y \o r)[i] = IF i <= n THEN y[i] ELSE r[i - n]
  <2>1. PICK u \in Seq(Tokens) : u = y
    BY <1>5
  <2>2. /\ u \o r \in Seq(Tokens) /\ Len(u \o r) = Len(u) + Len(r)
        /\ \A i \in 1 .. Len(u) + Len(r) : (u \o r)[i] = IF i <= Len(u) THEN u[i] ELSE r[i - Len(u)]
    BY ConcatProperties
  <2> QED BY <1>1, <1>5, <2>1, <2>2
<1>7. ASSUME NEW i \in 1 .. n + m PROVE z[i] = (y \o r)[i]
  <2>1. PICK p \in Nat : p = i - 1 /\ p + 1 = i
    OBVIOUS
  <2>2. z[p + 1] = x[IF p < keep THEN p + 1 ELSE p + discard + 1]
    <3>1. keep + discard <= Len(x) /\ p \in 0 .. Len(x) - discard - 1
      BY <1>1, <1>3, <2>1
    <3> QED BY <1>3, <1>4, <3>1, WithoutElements
  <2>3. CASE i <= n
    <3>1. p \in 0 .. Len(a) - discard - 1
      BY <1>1, <2>1, <2>3
    <3>2. y[p + 1] = a[IF p < keep THEN p + 1 ELSE p + discard + 1]
      BY <1>4, <3>1, WithoutElements
    <3>3. PICK j \in 1 .. l : j = IF p < keep THEN p + 1 ELSE p + discard + 1
      BY <1>1, <2>1, <2>3
    <3>4. x[j] = a[j]
      BY <1>3, <3>3
    <3> QED BY <1>6, <2>1, <2>2, <2>3, <3>2, <3>3, <3>4
  <2>4. CASE ~(i <= n)
    <3>1. PICK j \in 1 .. l + m : /\ j = IF p < keep THEN p + 1 ELSE p + discard + 1
                                  /\ ~(j <= l) /\ j - l = i - n
      BY <1>1, <2>1, <2>4
    <3>2. x[j] = r[j - l]
      BY <1>3, <3>1
    <3> QED BY <1>6, <2>1, <2>2, <2>4, <3>1, <3>2
  <2> QED BY <2>3, <2>4
<1>8. z = y \o r
  BY <1>5, <1>6, <1>7, SeqEqual
<1> QED BY <1>2, <1>4, <1>8

(* What the cache has for a seat that submitted nothing.                   *)
Plainly(c, s, a, q) ==
  /\ q.text = a \o q.inputs
  /\ s \notin c.torn => Holds(c, s, a, 0 .. Len(a) - 1, 0 .. Len(a) - 1)

LEMMA QuietHolds ==
  ASSUME NEW c, NEW sl, NEW sq, NEW b, Undecoded(c, sl, sq, b), NEW i \in Seats, sq[i] # NoSeq,
         Quiet(sq[i]), NEW s, s = sq[i].slot, NEW a, a = sl[s].inputs
  PROVE  Plainly(c, s, a, sq[i])
<1>1. SeatsOK(sl, sq) /\ BatchOK(b, sl, sq) /\ TextsOK(sl, sq) /\ s \in SeqIds
  BY SeatTypes DEF Undecoded, Shares
<1>2. Left(b, s) = {} /\ Left(<<>>, s) = {} /\ Plain(sl, sq[i], s)
  BY <1>1, QuietNone, NothingLeft, QuietSeat
<1>3. sq[i].text = a \o sq[i].inputs
  BY <1>1, <1>2 DEF TextsOK, Plain
<1>4. ASSUME s \notin c.torn PROVE Holds(c, s, a, 0 .. Len(a) - 1, 0 .. Len(a) - 1)
  <2>1. Holds(c, s, sl[s].inputs \o sq[i].pendingInputs,
              (All(sl, sq[i]) \ Left(b, s)) \ Left(<<>>, s), All(sl, sq[i]) \ Left(b, s))
    BY <1>1, <1>4 DEF Undecoded, Cached
  <2>2. Left(b, s) = Left(<<>>, s)
    BY <1>2
  <2> QED BY <1>2, <2>1, <2>2 DEF Plain
<1> QED BY <1>3, <1>4 DEF Plainly

(* What a seat without submitted inputs starts from, after the shift.      *)
Based(c, d, s, a, q, text) ==
  /\ Keeps(c, d, s) /\ a \in Seq(Tokens) /\ Len(a) \in Nat /\ Len(a) <= NumCtx
  /\ text = a \o q.inputs /\ text \in Seq(Tokens)
  /\ s \notin d.torn => Holds(d, s, a, 0 .. Len(a) - 1, 0 .. Len(a) - 1)

(* Without one, it starts from its slot.                                   *)
LEMMA SlotBased ==
  ASSUME NEW c, NEW sl, NEW sq, NEW b, Undecoded(c, sl, sq, b), NEW i \in Seats, sq[i] # NoSeq,
         Quiet(sq[i]), NEW s, s = sq[i].slot, NEW a, a = sl[s].inputs
  PROVE  Based(c, c, s, a, sq[i], sq[i].text)
<1>1. SeatsOK(sl, sq) /\ InShare(sl, sq) /\ CacheOK(c)
  BY DEF Undecoded, Shares
<1>2. a \in Seq(Tokens) /\ Len(a) \in Nat /\ sq[i].text \in Seq(Tokens) /\ s \in SeqIds
  BY <1>1, SeatTypes
<1>3. Len(a) <= NumCtx
  BY <1>1, <1>2 DEF InShare
<1>4. Keeps(c, c, s)
  BY <1>1 DEF Keeps
<1>5. Plainly(c, s, a, sq[i])
  BY QuietHolds
<1> QED BY <1>2, <1>3, <1>4, <1>5 DEF Based, Plainly

(* The shift of a full context.                                            *)
LEMMA ShiftBased ==
  ASSUME NEW c, NEW sl, NEW sq, NEW b, Undecoded(c, sl, sq, b), NEW i \in Seats, sq[i] # NoSeq,
         Quiet(sq[i]), NEW s, s = sq[i].slot, NEW a, a = sl[s].inputs, Len(a) + 1 > NumCtx,
         NEW k, k = sq[i].numKeep, NEW m, m = ShiftDiscard(Len(a), k),
         NEW d, d = ShiftCacheSlot(c, s, Len(a), k, m)
  PROVE  Based(c, d, s, Without(a, k, m), sq[i], Without(sq[i].text, k, m))
<1>1. CacheOK(c) /\ SeatsOK(sl, sq)
  BY DEF Undecoded, Shares
<1>2. Based(c, c, s, a, sq[i], sq[i].text)
  BY SlotBased
<1>3. /\ sq[i] \in SeqOK /\ s \in SeqIds /\ a \in Seq(Tokens)
      /\ sq[i].inputs \in Seq(Tokens) /\ sq[i].text \in Seq(Tokens)
  BY <1>1, SeatTypes
<1>4. PICK l \in Nat : l = Len(a) /\ l = NumCtx
  BY <1>2, ContextSize DEF Based
<1>5. k \in 0 .. NumCtx - 1
  BY <1>3, RunnerAssumption DEF SeqOK
<1>6. k \in Nat /\ m \in Nat /\ k + m <= l
  <2>1. m = ShiftDiscard(NumCtx, k)
    BY <1>4
  <2>2. m \in Nat /\ k + m <= NumCtx
    BY <1>5, <2>1, DiscardFits
  <2> QED BY <1>4, <1>5, <2>2
<1>7. d = ShiftCacheSlot(c, s, l, k, m)
  BY <1>4
<1>8. Keeps(c, d, s)
  BY <1>1, <1>3, <1>6, <1>7, ShiftKeeps
<1>9. PICK x, t, r : /\ x = Without(a, k, m) /\ t = Without(sq[i].text, k, m) /\ r = sq[i].inputs
  OBVIOUS
<1>10. x \in Seq(Tokens) /\ Len(x) = l - m /\ l - m \in Nat /\ l - m <= NumCtx
  <2>1. k + m <= Len(a)
    BY <1>4, <1>6
  <2>2. x \in Seq(Tokens) /\ Len(x) = Len(a) - m
    BY <1>3, <1>6, <1>9, <2>1, WithoutShorter
  <2>3. l - m \in Nat /\ l - m <= l
    BY <1>6
  <2> QED BY <1>4, <2>2, <2>3
<1>11. t = x \o r /\ t \in Seq(Tokens)
  <2>1. sq[i].text = a \o r
    BY <1>2, <1>9 DEF Based
  <2>2. Without(a \o r, k, m) = x \o r
    <3>1. PICK u \in Seq(Tokens), v \in Seq(Tokens), i1 \in Nat, i2 \in Nat :
            u = a /\ v = r /\ i1 = k /\ i2 = m
      BY <1>3, <1>6, <1>9
    <3>2. i1 + i2 <= Len(u)
      BY <1>4, <1>6, <3>1
    <3>3. Without(u \o v, i1, i2) = Without(u, i1, i2) \o v
      BY <3>2, WithoutThenRest
    <3> QED BY <1>9, <3>1, <3>3
  <2>3. x \o r \in Seq(Tokens)
    BY <1>3, <1>9, <1>10, ConcatProperties
  <2> QED BY <1>9, <2>1, <2>2, <2>3
<1>12. ASSUME s \notin d.torn PROVE Holds(d, s, x, 0 .. l - m - 1, 0 .. l - m - 1)
  <2>1. s \notin c.torn
    BY <1>8, <1>12 DEF Keeps
  <2>2. Holds(c, s, a, 0 .. l - 1, 0 .. l - 1)
    BY <1>2, <1>4, <2>1 DEF Based
  <2> QED BY <1>1, <1>3, <1>4, <1>6, <1>7, <1>9, <2>2, ShiftHolds
<1>13. Based(c, d, s, x, sq[i], t)
  BY <1>8, <1>9, <1>10, <1>11, <1>12 DEF Based
<1> QED BY <1>9, <1>13

(* A batch takes no more inputs than there are, and than there is room for.*)
LEMMA BatchFits ==
  ASSUME NEW x \in Seq(Tokens), NEW a, Len(a) \in Nat, Len(a) <= NumCtx,
         NEW n, n = BatchLen(x, a)
  PROVE  n \in Nat /\ n <= Len(x) /\ Len(a) + n <= NumCtx
<1>1. PICK l \in Nat, r \in Nat : l = Len(x) /\ r = NumCtx - Len(a)
  BY LenProperties, ContextSize
<1>2. PICK T : T = {l, BatchSize, r}
  OBVIOUS
<1>3. T \subseteq Nat /\ T # {}
  BY <1>2, RunnerAssumption
<1>4. Min(T) \in T /\ \A m \in T : Min(T) <= m
  BY <1>3, MinFound
<1>5. n = Min(T)
  BY <1>1, <1>2 DEF BatchLen
<1>6. n \in Nat /\ n <= l /\ n <= r
  BY <1>2, <1>3, <1>4, <1>5
<1> QED BY <1>1, <1>6, ContextSize

(* The inputs that are added follow those of the slot.                     *)
Adds(e, x, a, s, n) ==
  /\ e \in Seq(BatchInput) /\ Len(e) = n /\ Left(e, s) = Len(a) .. Len(a) + n - 1
  /\ \A k \in 1 .. n : e[k].tok = x[k] /\ e[k].pos = Len(a) + k - 1 /\ e[k].seq = s

LEMMA AddsInputs ==
  ASSUME NEW x \in Seq(Tokens), NEW a \in Seq(Tokens), NEW n \in Nat, n <= Len(x),
         Len(a) + n <= NumCtx, NEW s \in SeqIds,
         NEW e, e = [k \in 1 .. n |-> [tok |-> x[k], pos |-> Len(a) + k - 1, seq |-> s]]
  PROVE  Adds(e, x, a, s, n)
<1>1. PICK l \in Nat : l = Len(a) /\ l + n <= NumCtx
  BY LenProperties
<1>2. ASSUME NEW k \in 1 .. n
      PROVE  /\ e[k] \in BatchInput
             /\ e[k].tok = x[k] /\ e[k].pos = l + k - 1 /\ e[k].seq = s
  <2>1. e[k] = [tok |-> x[k], pos |-> l + k - 1, seq |-> s]
    BY <1>1
  <2>2. x[k] \in Tokens /\ l + k - 1 \in 0 .. NumCtx - 1
    BY <1>1, ContextSize
  <2> QED BY <2>1, <2>2 DEF BatchInput
<1>3. e \in Seq(BatchInput) /\ Len(e) = n
  BY <1>2
<1>4. Left(e, s) = l .. l + n - 1
  <2>1. ASSUME NEW p \in Left(e, s) PROVE p \in l .. l + n - 1
    <3>1. PICK k \in 1 .. n : p = e[k].pos
      BY <1>3 DEF Left
    <3> QED BY <1>2, <3>1
  <2>2. ASSUME NEW p \in l .. l + n - 1 PROVE p \in Left(e, s)
    <3>1. PICK k \in 1 .. n : p = l + k - 1
      <4>1. p - l + 1 \in 1 .. n /\ p = l + (p - l + 1) - 1
        OBVIOUS
      <4> QED BY <4>1
    <3>2. k \in 1 .. Len(e) /\ e[k].seq = s /\ e[k].pos = p
      BY <1>2, <1>3, <3>1
    <3> QED BY <3>2 DEF Left
  <2> QED BY <2>1, <2>2
<1> QED BY <1>1, <1>2, <1>3, <1>4 DEF Adds

(* The parts of the inputs.                                                *)
PartsOf(x, n, y, z) ==
  /\ y \in Seq(Tokens) /\ Len(y) = n /\ z \in Seq(Tokens) /\ y \o z = x
  /\ \A k \in 1 .. n : y[k] = x[k]

LEMMA Parts ==
  ASSUME NEW x \in Seq(Tokens), NEW n \in Nat, n <= Len(x),
         NEW y, y = SubSeq(x, 1, n), NEW z, z = SubSeq(x, n + 1, Len(x))
  PROVE  PartsOf(x, n, y, z)
<1>1. PICK l \in Nat : l = Len(x) /\ n \in 0 .. l
  BY LenProperties
<1>2. \A k \in 1 .. l : x[k] \in Tokens
  BY <1>1
<1>3. y \in Seq(Tokens) /\ Len(y) = n /\ \A k \in 1 .. n : y[k] = x[k]
  BY <1>1, <1>2, SubSeqProperties
<1>4. z \in Seq(Tokens)
  <2>1. \A k \in n + 1 .. l : x[k] \in Tokens
    BY <1>1, <1>2
  <2> QED BY <1>1, <2>1, SubSeqProperties
<1>5. y \o z = SubSeq(x, 1, Len(x))
  <2>1. 1 \in 1 .. Len(x) + 1 /\ n \in 1 - 1 .. Len(x) /\ Len(x) \in n .. Len(x)
    BY <1>1
  <2> QED BY <2>1, ConcatAdjacentSubSeq
<1>6. SubSeq(x, 1, Len(x)) = x
  BY SubSeqFull
<1> QED BY <1>3, <1>4, <1>5, <1>6 DEF PartsOf

(* The turn of a seat that adds n inputs to the batch.                     *)
Joining(d, a, q, text, n, e, p, s) ==
  /\ \E c : Based(c, d, s, a, q, text)
  /\ n \in Nat /\ n <= Len(q.inputs) /\ Len(a) + n <= NumCtx /\ Adds(e, q.inputs, a, s, n)
  /\ p.slot = s /\ p.text = text /\ p.pendingInputs = SubSeq(q.inputs, 1, n)
  /\ p.inputs = SubSeq(q.inputs, n + 1, Len(q.inputs))

LEMMA AddJoins ==
  ASSUME NEW d, NEW s \in SeqIds, NEW a, NEW q \in SeqOK, NEW text, NEW n, NEW e, NEW p \in SeqOK,
         Joining(d, a, q, text, n, e, p, s), NEW tl, tl[s].inputs = a
  PROVE  Joins(d, tl, p, s, e)
<1>0. PICK c : Based(c, d, s, a, q, text)
  BY DEF Joining
<1> USE DEF Joining
<1>1. PICK x \in Seq(Tokens), l \in Nat : x = q.inputs /\ l = Len(a) /\ l + n <= NumCtx
  BY <1>0 DEF SeqOK, Based
<1>2. PICK y, z : y = p.pendingInputs /\ z = p.inputs
  OBVIOUS
<1>3. /\ y \in Seq(Tokens) /\ Len(y) = n /\ z \in Seq(Tokens) /\ y \o z = x
      /\ \A k \in 1 .. n : y[k] = x[k]
  <2>1. /\ n <= Len(x) /\ y = SubSeq(x, 1, n) /\ z = SubSeq(x, n + 1, Len(x))
    BY <1>1, <1>2
  <2>2. PartsOf(x, n, y, z)
    BY <2>1, Parts
  <2> QED BY <2>2 DEF PartsOf
<1>4. a \in Seq(Tokens) /\ text = a \o x
  BY <1>0, <1>1 DEF Based
<1>5. text = (a \o y) \o z
  BY <1>3, <1>4, Rebracket
<1>6. /\ e \in Seq(BatchInput) /\ Len(e) = n /\ Left(e, s) = l .. l + n - 1
      /\ \A k \in 1 .. n : e[k].tok = x[k] /\ e[k].pos = l + k - 1 /\ e[k].seq = s
  BY <1>1 DEF Adds
<1>7. \A k, m \in 1 .. Len(e) : k < m => e[k].pos < e[m].pos
  <2>1. \A k, m \in 1 .. n : k < m => l + k - 1 < l + m - 1
    OBVIOUS
  <2> QED BY <1>6, <2>1
<1>8. ASSUME NEW k \in 1 .. Len(e) PROVE FromSeat(e[k], a, p)
  <2>1. k \in 1 .. n /\ e[k].pos = l + k - 1 /\ e[k].tok = y[k] /\ e[k].seq = s
    BY <1>3, <1>6, <1>8
  <2>2. (l + k - 1) - l \in 0 .. n - 1 /\ ((l + k - 1) - l) + 1 = k
    BY <2>1
  <2> QED BY <1>1, <1>2, <1>3, <2>1, <2>2 DEF FromSeat
<1>9. p # NoSeq
  BY NoSeqDiffers
<1>10. ASSUME s \notin d.torn
       PROVE  Holds(d, s, a \o y, All(tl, p) \ Left(e, s), All(tl, p) \ Left(e, s))
  <2>1. PICK P : P = 0 .. l - 1
    OBVIOUS
  <2>2. All(tl, p) \ Left(e, s) = P
    <3>1. All(tl, p) = 0 .. l + n - 1
      BY <1>1, <1>2, <1>3 DEF All
    <3>2. (0 .. l + n - 1) \ (l .. l + n - 1) = 0 .. l - 1
      OBVIOUS
    <3> QED BY <1>6, <2>1, <3>1, <3>2
  <2>3. Holds(d, s, a, P, P)
    BY <1>0, <1>1, <1>10, <2>1 DEF Based
  <2>4. \A i \in P : (a \o y)[i + 1] = a[i + 1]
    <3>1. \A i \in 1 .. l + n : (a \o y)[i] = IF i <= l THEN a[i] ELSE y[i - l]
      <4>1. PICK u \in Seq(Tokens), v \in Seq(Tokens) : u = a /\ v = y
        BY <1>3, <1>4
      <4>2. \A i \in 1 .. Len(u) + Len(v) : (u \o v)[i] = IF i <= Len(u) THEN u[i] ELSE v[i - Len(u)]
        BY ConcatProperties
      <4> QED BY <1>1, <1>3, <4>1, <4>2
    <3>2. \A i \in P : i + 1 \in 1 .. l + n /\ i + 1 <= l
      BY <2>1
    <3> QED BY <3>1, <3>2
  <2>5. Holds(d, s, a \o y, P, P)
    BY <2>3, <2>4, HoldsLess
  <2> QED BY <2>2, <2>5
<1>11. Len(a) <= NumCtx /\ Len(a) + Len(y) <= NumCtx
  BY <1>0, <1>1, <1>3 DEF Based
<1>12. p.text = text
  OBVIOUS
<1> HIDE DEF Joining
<1> QED BY <1>2, <1>12, <1>5, <1>6, <1>7, <1>8, <1>9, <1>10, <1>11 DEF Joins

(* The first n seats had their turn; the others have submitted nothing.    *)
GatherOK(g, n) ==
  /\ g = [cache |-> g.cache, slots |-> g.slots, seqs |-> g.seqs, batch |-> g.batch]
  /\ Undecoded(g.cache, g.slots, g.seqs, g.batch)
  /\ \A i \in Seats : i >= n \/ g.batch = <<>> => Quiet(g.seqs[i])

(* The turn of a seat with slot s, which adds e to the batch.              *)
TakesTurn(g, i, h, s, e) ==
  /\ s = g.seqs[i].slot
  /\ h = [cache |-> h.cache, slots |-> h.slots, seqs |-> h.seqs, batch |-> g.batch \o e]
  /\ Alters(g.slots, g.seqs, s, i, h.slots, h.seqs) /\ Keeps(g.cache, h.cache, s)
  /\ Joins(h.cache, h.slots, h.seqs[i], s, e) /\ (e = <<>> => Quiet(h.seqs[i]))

LEMMA TurnKeepsOrder ==
  ASSUME NEW i \in Seats, NEW g, GatherOK(g, i), g.seqs[i] # NoSeq,
         NEW h, NEW s, NEW e, TakesTurn(g, i, h, s, e)
  PROVE  GatherOK(h, i + 1)
<1>1. /\ s = g.seqs[i].slot
      /\ h = [cache |-> h.cache, slots |-> h.slots, seqs |-> h.seqs, batch |-> g.batch \o e]
      /\ Alters(g.slots, g.seqs, s, i, h.slots, h.seqs) /\ Keeps(g.cache, h.cache, s)
      /\ Joins(h.cache, h.slots, h.seqs[i], s, e) /\ (e = <<>> => Quiet(h.seqs[i]))
  BY DEF TakesTurn
<1>2. PICK c, sl, sq, b, d, tl, tq, f :
        /\ c = g.cache /\ sl = g.slots /\ sq = g.seqs /\ b = g.batch
        /\ d = h.cache /\ tl = h.slots /\ tq = h.seqs /\ f = b \o e
  OBVIOUS
<1>3. f = h.batch
  BY <1>1, <1>2
<1>4. i \in Nat
  BY DEF Seats, SeqIds
<1>5. Undecoded(c, sl, sq, b) /\ sq[i] # NoSeq /\ Quiet(sq[i]) /\ s = sq[i].slot
  BY <1>1, <1>2, <1>4 DEF GatherOK
<1>6. /\ Alters(sl, sq, s, i, tl, tq) /\ Keeps(c, d, s) /\ Joins(d, tl, tq[i], s, e)
      /\ e = <<>> => Quiet(tq[i])
  BY <1>1, <1>2
<1>7. Undecoded(d, tl, tq, f)
  BY <1>2, <1>5, <1>6, JoinsCached
<1>8. f = <<>> => b = <<>> /\ e = <<>>
  <2>1. b \in Seq(BatchInput) /\ e \in Seq(BatchInput)
    BY <1>5, <1>6 DEF Undecoded, BatchOK, Joins
  <2>2. Len(f) = Len(b) + Len(e) /\ Len(b) \in Nat /\ Len(e) \in Nat
    BY <1>2, <2>1, ConcatProperties, LenProperties
  <2>3. f = <<>> => Len(f) = 0
    BY EmptySeq
  <2>4. f = <<>> => Len(b) = 0 /\ Len(e) = 0
    BY <2>2, <2>3
  <2> QED BY <2>1, <2>4, EmptySeq
<1>9. ASSUME NEW k \in Seats, k >= i + 1 \/ f = <<>> PROVE Quiet(tq[k])
  <2>1. CASE k = i
    <3>1. ~(k >= i + 1)
      BY <1>4, <2>1
    <3> QED BY <1>6, <1>8, <1>9, <2>1, <3>1
  <2>2. CASE k # i
    <3>1. k \in Nat
      BY DEF Seats, SeqIds
    <3>2. k >= i \/ b = <<>>
      BY <1>4, <1>8, <1>9, <3>1
    <3>3. Quiet(sq[k])
      BY <1>2, <3>2 DEF GatherOK
    <3> QED BY <1>6, <2>2, <3>3 DEF Alters
  <2> QED BY <2>1, <2>2
<1>10. h = [cache |-> h.cache, slots |-> h.slots, seqs |-> h.seqs, batch |-> h.batch]
  BY <1>1, <1>2, <1>3
<1> QED BY <1>2, <1>3, <1>7, <1>9, <1>10 DEF GatherOK

LEMMA GatherFields ==
  ASSUME NEW h, NEW c, NEW sl, NEW sq, NEW b,
         h = [cache |-> c, slots |-> sl, seqs |-> sq, batch |-> b]
  PROVE  h.cache = c /\ h.slots = sl /\ h.seqs = sq /\ h.batch = b
OBVIOUS

(* The sequence ends at its limit ...                                      *)
LEMMA LimitForm ==
  ASSUME NEW i, NEW g, NEW n, GatherOK(g, n), NEW s,
         NEW h, h = [g EXCEPT !.seqs[i] = NoSeq, !.slots[s].inUse = FALSE]
  PROVE  h = [cache |-> g.cache, slots |-> [g.slots EXCEPT ![s] = [g.slots[s] EXCEPT !.inUse = FALSE]],
              seqs |-> [g.seqs EXCEPT ![i] = NoSeq], batch |-> g.batch]
<1>1. PICK tl, tq : /\ tl = [g.slots EXCEPT ![s] = [g.slots[s] EXCEPT !.inUse = FALSE]]
                    /\ tq = [g.seqs EXCEPT ![i] = NoSeq]
  OBVIOUS
<1>2. h = [g EXCEPT !.seqs = tq, !.slots = tl]
  BY <1>1
<1>3. g = [cache |-> g.cache, slots |-> g.slots, seqs |-> g.seqs, batch |-> g.batch]
  BY DEF GatherOK
<1> QED BY <1>1, <1>2, <1>3

LEMMA LimitTurn ==
  ASSUME NEW i \in Seats, NEW g, GatherOK(g, i), NEW q, q = g.seqs[i], q # NoSeq, NEW tl, NEW tq,
         tl = [g.slots EXCEPT ![q.slot] = [g.slots[q.slot] EXCEPT !.inUse = FALSE]],
         tq = [g.seqs EXCEPT ![i] = NoSeq],
         NEW h, h = [cache |-> g.cache, slots |-> tl, seqs |-> tq, batch |-> g.batch]
  PROVE  GatherOK(h, i + 1)
<1>1. PICK c, sl, sq, b : c = g.cache /\ sl = g.slots /\ sq = g.seqs /\ b = g.batch
  OBVIOUS
<1>2. i \in Nat
  BY DEF Seats, SeqIds
<1>3. Undecoded(c, sl, sq, b) /\ Quiet(sq[i]) /\ sq[i] = q /\ sq[i] # NoSeq
  BY <1>1, <1>2 DEF GatherOK
<1>4. SeatsOK(sl, sq)
  BY <1>3 DEF Undecoded, Shares
<1>5. PICK s \in SeqIds : s = q.slot
  BY <1>3, <1>4, SeatTypes
<1>6. PICK u \in SlotOK : u = sl[s]
  BY <1>4 DEF SeatsOK
<1>7. PICK v : v = [u EXCEPT !.inUse = FALSE]
  OBVIOUS
<1>8. v \in SlotOK /\ v.inUse = FALSE /\ v.inputs = u.inputs
  BY <1>7 DEF SlotOK
<1>9. tl = [sl EXCEPT ![s] = v] /\ tq = [sq EXCEPT ![i] = NoSeq]
  BY <1>1, <1>5, <1>6, <1>7
<1>10. h = [cache |-> c, slots |-> tl, seqs |-> tq, batch |-> b]
  BY <1>1
<1>11. h.cache = c /\ h.slots = tl /\ h.seqs = tq /\ h.batch = b
  BY <1>10, GatherFields
<1>12. sl \in [SeqIds -> SlotOK] /\ sq \in [Seats -> SeqOK \cup {NoSeq}]
  BY <1>4 DEF SeatsOK
<1>13. /\ tl[s] = v /\ tq[i] = NoSeq /\ (\A t \in SeqIds : t # s => tl[t] = sl[t])
       /\ (\A k \in Seats : k # i => tq[k] = sq[k])
       /\ tl \in [SeqIds -> SlotOK] /\ tq \in [Seats -> SeqOK \cup {NoSeq}]
  BY <1>8, <1>9, <1>12
<1>14. Alters(sl, sq, s, i, tl, tq)
  BY <1>8, <1>13 DEF Alters
<1>15. PICK a : a = sl[s].inputs
  OBVIOUS
<1>16. Based(c, c, s, a, sq[i], sq[i].text)
  BY <1>3, <1>5, <1>15, SlotBased
<1>16a. PICK e \in Seq(BatchInput) : e = <<>> /\ Len(e) = 0
  <2>1. <<>> \in Seq(BatchInput) /\ Len(<<>>) = 0
    BY EmptySeq
  <2> QED BY <2>1
<1>17. Joins(c, tl, tq[i], s, e)
  <2>1. \A k, m \in 1 .. Len(e) : k < m => e[k].pos < e[m].pos
    BY <1>16a
  <2>2. tl[s].inputs = a /\ Len(a) \in Nat /\ Len(a) <= NumCtx
    BY <1>6, <1>8, <1>13, <1>15, <1>16 DEF Based
  <2>3. ASSUME s \notin c.torn PROVE Holds(c, s, a, 0 .. Len(a) - 1, 0 .. NumCtx - 1)
    <3>1. PICK P, N : P = 0 .. Len(a) - 1 /\ N = 0 .. NumCtx - 1
      OBVIOUS
    <3>2. Holds(c, s, a, P, P)
      BY <1>16, <2>3, <3>1 DEF Based
    <3>3. P \subseteq N
      BY <2>2, <3>1, ContextSize
    <3>4. Holds(c, s, a, P, N)
      BY <3>2, <3>3, HoldsLess
    <3> QED BY <3>1, <3>4
  <2> QED BY <1>13, <1>16a, <2>1, <2>2, <2>3, Zenon DEF Joins
<1>18. b \o <<>> = b
  <2>1. b \in Seq(BatchInput)
    BY <1>3 DEF Undecoded, BatchOK
  <2> QED BY <2>1, ConcatEmptySeq
<1>19. Keeps(c, c, s) /\ Quiet(tq[i])
  BY <1>13, <1>16 DEF Based, Quiet
<1>20. h = [cache |-> h.cache, slots |-> h.slots, seqs |-> h.seqs, batch |-> g.batch \o e]
  BY <1>1, <1>10, <1>11, <1>16a, <1>18
<1>21. /\ Alters(g.slots, g.seqs, s, i, h.slots, h.seqs) /\ Keeps(g.cache, h.cache, s)
       /\ Joins(h.cache, h.slots, h.seqs[i], s, e) /\ Quiet(h.seqs[i]) /\ s = g.seqs[i].slot
  BY <1>1, <1>3, <1>5, <1>11, <1>14, <1>17, <1>19
<1>22. TakesTurn(g, i, h, s, e)
  BY <1>20, <1>21 DEF TakesTurn
<1> QED BY <1>1, <1>3, <1>22, TurnKeepsOrder

(* ... or adds inputs to the batch, after the shift of a full context.     *)
Adding(g, q, d, a, text, n, e, p) ==
  /\ Based(g.cache, d, q.slot, a, q, text) /\ n = BatchLen(q.inputs, a)
  /\ e = [k \in 1 .. n |-> [tok |-> q.inputs[k], pos |-> Len(a) + k - 1, seq |-> q.slot]]
  /\ p = [q EXCEPT !.inputs = SubSeq(q.inputs, n + 1, Len(q.inputs)),
                   !.pendingInputs = SubSeq(q.inputs, 1, n), !.text = text]
Added(g, i, q, d, a, e, p, h) ==
  h = [cache |-> d, slots |-> [g.slots EXCEPT ![q.slot] = [g.slots[q.slot] EXCEPT !.inputs = a]],
       seqs |-> [g.seqs EXCEPT ![i] = p], batch |-> g.batch \o e]

Edited(g, i, q, d, a, e, p, h) ==
  h = [g EXCEPT !.cache = d, !.slots[q.slot].inputs = a, !.batch = @ \o e, !.seqs[i] = p]

LEMMA AddForm ==
  ASSUME NEW n, NEW g, GatherOK(g, n), NEW i, NEW q, NEW d, NEW a, NEW e, NEW p,
         NEW h, Edited(g, i, q, d, a, e, p, h)
  PROVE  Added(g, i, q, d, a, e, p, h)
<1>1. PICK tl, tq, b :
        /\ tl = [g.slots EXCEPT ![q.slot] = [g.slots[q.slot] EXCEPT !.inputs = a]]
        /\ tq = [g.seqs EXCEPT ![i] = p] /\ b = g.batch \o e
  OBVIOUS
<1>2. g = [cache |-> g.cache, slots |-> g.slots, seqs |-> g.seqs, batch |-> g.batch]
  BY DEF GatherOK
<1>3. h = [g EXCEPT !.cache = d, !.slots = tl, !.batch = b, !.seqs = tq]
  BY <1>1, <1>2 DEF Edited
<1>4. h = [cache |-> d, slots |-> tl, seqs |-> tq, batch |-> b]
  BY <1>2, <1>3
<1> QED BY <1>1, <1>4 DEF Added

LEMMA AddTurn ==
  ASSUME NEW i \in Seats, NEW g, GatherOK(g, i), NEW q, q = g.seqs[i], q # NoSeq,
         NEW d, NEW a, NEW text, NEW n, NEW e, NEW p, Adding(g, q, d, a, text, n, e, p),
         NEW h, Added(g, i, q, d, a, e, p, h)
  PROVE  GatherOK(h, i + 1)
<1>1. PICK c, sl, sq, b : c = g.cache /\ sl = g.slots /\ sq = g.seqs /\ b = g.batch
  OBVIOUS
<1>2. i \in Nat
  BY DEF Seats, SeqIds
<1>3. Undecoded(c, sl, sq, b) /\ sq[i] = q /\ sq[i] # NoSeq
  BY <1>1, <1>2 DEF GatherOK
<1>4. SeatsOK(sl, sq)
  BY <1>3 DEF Undecoded, Shares
<1>5. PICK s \in SeqIds, v \in SeqOK, x \in Seq(Tokens) : s = q.slot /\ v = q /\ x = q.inputs
  BY <1>3, <1>4, SeatTypes
<1>6. Based(c, d, s, a, v, text)
  BY <1>1, <1>5 DEF Adding
<1>7. a \in Seq(Tokens) /\ Len(a) \in Nat /\ Len(a) <= NumCtx /\ text \in Seq(Tokens)
  BY <1>6 DEF Based
<1>8. n \in Nat /\ n <= Len(x) /\ Len(a) + n <= NumCtx
  <2>1. n = BatchLen(x, a)
    BY <1>5 DEF Adding
  <2> QED BY <1>7, <2>1, BatchFits
<1>9. Adds(e, x, a, s, n)
  <2>1. e = [k \in 1 .. n |-> [tok |-> x[k], pos |-> Len(a) + k - 1, seq |-> s]]
    BY <1>5 DEF Adding
  <2> QED BY <1>7, <1>8, <2>1, AddsInputs
<1>10. PICK y, z : y = SubSeq(x, 1, n) /\ z = SubSeq(x, n + 1, Len(x))
  OBVIOUS
<1>11. y \in Seq(Tokens) /\ Len(y) = n /\ z \in Seq(Tokens)
  <2>1. PartsOf(x, n, y, z)
    BY <1>8, <1>10, Parts
  <2> QED BY <2>1 DEF PartsOf
<1>12. p \in SeqOK /\ p.slot = s /\ p.pendingInputs = y /\ p.inputs = z /\ p.text = text
  <2>1. p = [v EXCEPT !.inputs = z, !.pendingInputs = y, !.text = text]
    BY <1>5, <1>10 DEF Adding
  <2>2. /\ p \in SeqOK /\ p.slot = v.slot /\ p.pendingInputs = y /\ p.inputs = z
        /\ p.text = text
    BY <1>7, <1>11, <2>1 DEF SeqOK
  <2> QED BY <1>5, <2>2
<1>13. PICK u \in SlotOK : u = sl[s]
  BY <1>4 DEF SeatsOK
<1>14. PICK w : w = [u EXCEPT !.inputs = a]
  OBVIOUS
<1>15. w \in SlotOK /\ w.inputs = a /\ w.inUse = u.inUse
  BY <1>7, <1>14 DEF SlotOK
<1>16. PICK tl, tq : tl = [sl EXCEPT ![s] = w] /\ tq = [sq EXCEPT ![i] = p]
  OBVIOUS
<1>17. sl \in [SeqIds -> SlotOK] /\ sq \in [Seats -> SeqOK \cup {NoSeq}] /\ sl[s].inUse
  <2>1. sl[s].inUse
    BY <1>3, <1>4, <1>5, SeatTypes
  <2> QED BY <1>4, <2>1 DEF SeatsOK
<1>18. /\ tl[s] = w /\ tq[i] = p /\ (\A t \in SeqIds : t # s => tl[t] = sl[t])
       /\ (\A k \in Seats : k # i => tq[k] = sq[k])
       /\ tl \in [SeqIds -> SlotOK] /\ tq \in [Seats -> SeqOK \cup {NoSeq}]
  BY <1>12, <1>15, <1>16, <1>17
<1>19. p # NoSeq
  BY <1>12, NoSeqDiffers
<1>20. Alters(sl, sq, s, i, tl, tq)
  BY <1>12, <1>13, <1>15, <1>17, <1>18, <1>19 DEF Alters
<1>21. Joins(d, tl, p, s, e)
  <2>1. tl[s].inputs = a
    BY <1>15, <1>18
  <2>2. /\ p.pendingInputs = SubSeq(v.inputs, 1, n) /\ n <= Len(v.inputs)
        /\ p.inputs = SubSeq(v.inputs, n + 1, Len(v.inputs)) /\ Adds(e, v.inputs, a, s, n)
    BY <1>5, <1>8, <1>9, <1>10, <1>12
  <2>3. Joining(d, a, v, text, n, e, p, s)
    BY <1>6, <1>8, <1>12, <2>2 DEF Joining
  <2> QED BY <1>12, <2>1, <2>3, AddJoins
<1>22. e = <<>> => Quiet(p)
  <2>1. e = <<>> => Len(e) = 0
    BY EmptySeq
  <2>2. Len(e) = n
    BY <1>9 DEF Adds
  <2>3. e = <<>> => y = <<>>
    BY <1>11, <2>1, <2>2, EmptySeq
  <2> QED BY <1>12, <2>3 DEF Quiet
<1>23. PICK f : f = b \o e
  OBVIOUS
<1>24. h.cache = d /\ h.slots = tl /\ h.seqs = tq /\ h.batch = f
  <2>1. h = [cache |-> d, slots |-> tl, seqs |-> tq, batch |-> f]
    BY <1>1, <1>5, <1>13, <1>14, <1>16, <1>23 DEF Added
  <2> QED BY <2>1, GatherFields
<1>25. h = [cache |-> h.cache, slots |-> h.slots, seqs |-> h.seqs, batch |-> g.batch \o e]
  BY <1>1, <1>5, <1>13, <1>14, <1>16, <1>23, <1>24 DEF Added
<1>26. /\ Alters(g.slots, g.seqs, s, i, h.slots, h.seqs) /\ Keeps(g.cache, h.cache, s)
       /\ Joins(h.cache, h.slots, h.seqs[i], s, e) /\ (e = <<>> => Quiet(h.seqs[i]))
       /\ s = g.seqs[i].slot
  <2>1. Keeps(c, d, s)
    BY <1>6 DEF Based
  <2> QED BY <1>1, <1>3, <1>5, <1>18, <1>20, <1>21, <1>22, <1>24, <2>1
<1>27. TakesTurn(g, i, h, s, e)
  BY <1>25, <1>26 DEF TakesTurn
<1> QED BY <1>1, <1>3, <1>27, TurnKeepsOrder

(* The turn of any seat.                                                   *)
LEMMA GatherTurn ==
  ASSUME NEW i \in Seats, NEW g, GatherOK(g, i), NEW h, h = GatherSeq(g, i)
  PROVE  GatherOK(h, i + 1)
<1>1. PICK q, s, stored, k : /\ q = g.seqs[i] /\ s = q.slot /\ stored = g.slots[s].inputs
                             /\ k = q.numKeep
  OBVIOUS
<1>2. PICK m : m = ShiftDiscard(Len(stored), k)
  OBVIOUS
<1> DEFINE full == Len(stored) + 1 > NumCtx
<1>4. PICK a, d, text :
        /\ a = IF full THEN Without(stored, k, m) ELSE stored
        /\ d = IF full THEN ShiftCacheSlot(g.cache, s, Len(stored), k, m) ELSE g.cache
        /\ text = IF full THEN Without(q.text, k, m) ELSE q.text
  OBVIOUS
<1>5. PICK n : n = BatchLen(q.inputs, a)
  OBVIOUS
<1>6. PICK e, p :
        /\ e = [j \in 1 .. n |-> [tok |-> q.inputs[j], pos |-> Len(a) + j - 1, seq |-> s]]
        /\ p = [q EXCEPT !.inputs = SubSeq(q.inputs, n + 1, Len(q.inputs)),
                         !.pendingInputs = SubSeq(q.inputs, 1, n), !.text = text]
  OBVIOUS
<1>7. \/ q = NoSeq /\ h = g
      \/ q # NoSeq /\ h = [g EXCEPT !.seqs[i] = NoSeq, !.slots[s].inUse = FALSE]
      \/ q # NoSeq /\ Edited(g, i, q, d, a, e, p, h)
  BY <1>1, <1>2, <1>4, <1>5, <1>6 DEF GatherSeq, Edited
<1>8. i \in Nat
  BY DEF Seats, SeqIds
<1>9. CASE q = NoSeq /\ h = g
  <2>1. \A j \in Seats : j >= i + 1 => j >= i
    BY <1>8 DEF Seats, SeqIds
  <2> QED BY <1>9, <2>1 DEF GatherOK
<1>10. ASSUME q # NoSeq, h = [g EXCEPT !.seqs[i] = NoSeq, !.slots[s].inUse = FALSE]
       PROVE  GatherOK(h, i + 1)
  <2>1. PICK tl, tq : /\ tl = [g.slots EXCEPT ![s] = [g.slots[s] EXCEPT !.inUse = FALSE]]
                      /\ tq = [g.seqs EXCEPT ![i] = NoSeq]
    OBVIOUS
  <2>2. h = [cache |-> g.cache, slots |-> tl, seqs |-> tq, batch |-> g.batch]
    BY <1>10, <2>1, LimitForm
  <2> QED BY <1>1, <1>10, <2>1, <2>2, LimitTurn
<1>11. ASSUME q # NoSeq, Edited(g, i, q, d, a, e, p, h) PROVE GatherOK(h, i + 1)
  <2>1. Added(g, i, q, d, a, e, p, h)
    BY <1>11, AddForm
  <2>2. Based(g.cache, d, s, a, q, text)
    <3>1. PICK c, sl, sq, b : c = g.cache /\ sl = g.slots /\ sq = g.seqs /\ b = g.batch
      OBVIOUS
    <3>2. /\ Undecoded(c, sl, sq, b) /\ sq[i] # NoSeq /\ Quiet(sq[i]) /\ s = sq[i].slot
          /\ stored = sl[s].inputs /\ k = sq[i].numKeep /\ sq[i] = q
      BY <1>1, <1>8, <1>11, <3>1 DEF GatherOK
    <3>3. CASE full
      <4>1. Based(c, d, s, a, sq[i], Without(sq[i].text, k, m))
        BY <1>2, <1>4, <3>1, <3>2, <3>3, ShiftBased
      <4> QED BY <1>4, <3>1, <3>2, <3>3, <4>1
    <3>4. CASE ~ full
      <4>1. Based(c, c, s, stored, sq[i], sq[i].text)
        BY <3>2, SlotBased
      <4> QED BY <1>4, <3>1, <3>2, <3>4, <4>1
    <3> QED BY <3>3, <3>4
  <2>3. Adding(g, q, d, a, text, n, e, p)
    BY <1>1, <1>5, <1>6, <2>2 DEF Adding
  <2> QED BY <1>1, <1>11, <2>1, <2>3, AddTurn
<1> QED BY <1>7, <1>9, <1>10, <1>11

(* The turns of the first loop.  The recursive function that Gathered is   *)
(* made of exists: if there were a least number of turns without one, a    *)
(* turn could be added to the ones before.                                 *)
GatherStart == [cache |-> cache, slots |-> slots, seqs |-> seqs, batch |-> <<>>]
Turns(m, f) ==
  f = [n \in 0 .. m |-> IF n = 0 THEN GatherStart ELSE GatherSeq(f[n - 1], n - 1)]

LEMMA TurnsExist == \A m \in Nat : \E f : Turns(m, f)
<1> SUFFICES ASSUME NEW n \in Nat, ~ \E f : Turns(n, f) PROVE FALSE
  OBVIOUS
<1> DEFINE T == {k \in Nat : ~ \E f : Turns(k, f)}
<1>1. PICK m \in T : \A k \in T : m <= k
  <2>1. T \subseteq Nat /\ T # {}
    OBVIOUS
  <2> HIDE DEF T
  <2> QED BY <2>1, LeastElement
<1>2. CASE m = 0
  <2>1. Turns(0, [k \in 0 .. 0 |-> GatherStart])
    BY DEF Turns
  <2> QED BY <1>2, <2>1
<1>3. CASE m # 0
  <2>1. PICK f : Turns(m - 1, f)
    BY <1>1, <1>3
  <2> DEFINE g == [k \in 0 .. m |-> IF k = m THEN GatherSeq(f[m - 1], m - 1) ELSE f[k]]
  <2>2. Turns(m, g)
    BY <1>3, <2>1 DEF Turns
  <2> QED BY <2>2
<1> QED BY <1>2, <1>3

(* What Gathered returns, by induction over the turns.                     *)
LEMMA GatheredOK ==
  ASSUME LlamaInv, phase = "idle"
  PROVE  GatherOK(Gathered, Parallel)
<1> DEFINE turn == CHOOSE t : t = [n \in 0 .. Parallel |->
                     IF n = 0 THEN GatherStart ELSE GatherSeq(t[n - 1], n - 1)]
<1>1. Turns(Parallel, turn)
  BY TurnsExist, ContextSize DEF Turns
<1>2. Gathered = turn[Parallel]
  BY DEF Gathered, GatherStart
<1>3. PICK t : t = turn
  OBVIOUS
<1> HIDE DEF turn
<1>4. t = [n \in 0 .. Parallel |-> IF n = 0 THEN GatherStart ELSE GatherSeq(t[n - 1], n - 1)]
  BY <1>1, <1>3 DEF Turns
<1>5. GatherOK(t[0], 0)
  <2>1. t[0] = GatherStart
    BY <1>4, ContextSize
  <2>2. PICK g : g = GatherStart
    OBVIOUS
  <2>3. g.cache = cache /\ g.slots = slots /\ g.seqs = seqs /\ g.batch = <<>>
    BY <2>2 DEF GatherStart
  <2>4. g = [cache |-> g.cache, slots |-> g.slots, seqs |-> g.seqs, batch |-> g.batch]
    BY <2>2, <2>3 DEF GatherStart
  <2>5. Undecoded(cache, slots, seqs, <<>>) /\ \A i \in Seats : Quiet(seqs[i])
    BY IdleMeans
  <2>6. GatherOK(g, 0)
    BY <2>3, <2>4, <2>5 DEF GatherOK
  <2> QED BY <2>1, <2>2, <2>6
<1>6. ASSUME NEW n \in 0 .. Parallel - 1, GatherOK(t[n], n)
      PROVE  GatherOK(t[n + 1], n + 1)
  <2>1. PICK g, h : g = t[n] /\ h = t[n + 1]
    OBVIOUS
  <2>2. n + 1 \in 0 .. Parallel /\ n + 1 # 0 /\ (n + 1) - 1 = n
    BY ContextSize
  <2>3. h = GatherSeq(g, n)
    BY <1>4, <2>1, <2>2
  <2>4. GatherOK(g, n) /\ n \in Seats
    BY <1>6, <2>1 DEF Seats, SeqIds
  <2> QED BY <2>1, <2>3, <2>4, GatherTurn
<1>7. \A n \in 0 .. Parallel : GatherOK(t[n], n)
  <2> SUFFICES ASSUME NEW b \in 0 .. Parallel, ~ GatherOK(t[b], b) PROVE FALSE
    OBVIOUS
  <2> DEFINE T == {k \in 0 .. Parallel : ~ GatherOK(t[k], k)}
  <2>1. PICK m \in T : \A k \in T : m <= k
    <3>1. T \subseteq Nat /\ T # {}
      BY ContextSize
    <3> HIDE DEF T
    <3> QED BY <3>1, LeastElement
  <2>2. m # 0
    BY <1>5
  <2>3. m - 1 \in 0 .. Parallel - 1 /\ m - 1 \in 0 .. Parallel /\ ~(m <= m - 1) /\ (m - 1) + 1 = m
    BY <2>2, ContextSize
  <2>4. GatherOK(t[m - 1], m - 1)
    BY <2>1, <2>3
  <2>5. GatherOK(t[m], m)
    BY <1>6, <2>3, <2>4
  <2> QED BY <2>5
<1>8. Parallel \in 0 .. Parallel
  BY ContextSize
<1> QED BY <1>2, <1>3, <1>7, <1>8

(* The whole of Gather.                                                    *)
LEMMA GatherStep ==
  ASSUME LlamaInv, Gather
  PROVE  LlamaInv'
<1>1. PICK g : g = Gathered
  OBVIOUS
<1>2. /\ phase = "idle" /\ cache' = g.cache /\ slots' = g.slots /\ seqs' = g.seqs
      /\ sbatch' = g.batch /\ ubatch' = ubatch /\ cur' = cur /\ code' = code
      /\ phase' = (IF g.batch = <<>> THEN "idle" ELSE "prepare")
      /\ restorer' = IF g.batch = <<>> THEN NoRestorer
                     ELSE [head |-> g.cache.head, boundaries |-> <<>>,
                           seqs |-> [c \in Cells |-> g.cache.cells[c].seqs]]
  BY <1>1 DEF Gather
<1>3. GatherOK(g, Parallel)
  BY <1>1, <1>2, GatheredOK
<1>4. ubatch' = <<>> /\ code' = 0 /\ cur' = 0 /\ cur' \in Seats
  BY <1>2, IdleMeans
<1>5. Undecoded(cache', slots', seqs', sbatch')
  BY <1>2, <1>3 DEF GatherOK
<1>6. RestorerOK'
  <2>1. <<>> \in Seq(Nat \X Nat) /\ 0 \in 0 .. KvSize
    BY RingSize, EmptySeq
  <2>2. cache'.head \in 0 .. KvSize
    BY <1>5 DEF Undecoded, CacheOK, CacheT
  <2>3. restorer'.boundaries = <<>> /\ restorer'.head \in {0, cache'.head}
    BY <1>2 DEF NoRestorer
  <2> QED BY <2>1, <2>2, <2>3 DEF RestorerOK
<1>7. CASE g.batch = <<>>
  <2>1. \A i \in Seats : Quiet(seqs'[i])
    BY <1>2, <1>3, <1>7 DEF GatherOK
  <2>2. Undecoded(cache, slots, seqs, <<>>)' /\ (\A i \in Seats : Quiet(seqs[i]))'
    BY <1>2, <1>5, <1>7, <2>1
  <2>3. phase' = "idle" /\ sbatch' = <<>>
    BY <1>2, <1>7
  <2> QED BY <1>4, <1>6, <2>2, <2>3, IdleAgain
<1>8. CASE g.batch # <<>>
  <2>1. phase' = "prepare" /\ sbatch' # <<>>
    BY <1>2, <1>8
  <2>2. LoopOK'
    BY <1>4, <2>1 DEF LoopOK
  <2>3. Now' = <<>>
    BY <2>1 DEF Now
  <2>4. NeverFull'
    BY <1>4 DEF NeverFull
  <2>5. AttentionExactUnlessTorn'
    <3>1. Len(ubatch') = 0
      BY <1>4, EmptySeq
    <3>2. 1 .. Len(ubatch') = {}
      BY <3>1
    <3> QED BY <3>2 DEF AttentionExactUnlessTorn
  <2> QED BY <1>5, <1>6, <2>1, <2>2, <2>3, <2>4, <2>5 DEF LlamaInv, Undecoded
<1> QED BY <1>7, <1>8

-----------------------------------------------------------------------------
(* The invariant.                                                          *)

LEMMA InitLlama == Init => LlamaInv
<1> SUFFICES ASSUME Init PROVE LlamaInv
  OBVIOUS
<1>1. /\ cache = InitCache /\ seqs = [i \in Seats |-> NoSeq]
      /\ slots = [s \in SeqIds |-> [inputs |-> <<>>, inUse |-> FALSE, lastUsed |-> 0]]
      /\ phase = "idle" /\ sbatch = <<>> /\ ubatch = <<>> /\ cur = 0 /\ code = 0
      /\ restorer = NoRestorer
  BY DEF Init
<1>2. <<>> \in Seq(Tokens) /\ <<>> \in Seq(BatchInput) /\ <<>> \in Seq(Nat \X Nat) /\ Len(<<>>) = 0
  BY EmptySeq
<1>3. PICK x, y : x = [i \in Cells |-> EmptyCell] /\ y = [i \in Cells |-> NoRow]
  OBVIOUS
<1>4. cache = [cells |-> x, rows |-> y, head |-> 0, used |-> 0, has_shift |-> FALSE, torn |-> {}]
  BY <1>1, <1>3 DEF InitCache
<1>5. /\ cache.cells = x /\ cache.rows = y /\ cache.head = 0 /\ cache.used = 0
      /\ cache.has_shift = FALSE /\ cache.torn = {}
  BY <1>4
<1>6. EmptyCell \in CellT /\ EmptyCell.pos = -1 /\ EmptyCell.delta = 0 /\ EmptyCell.seqs = {}
  BY DEF EmptyCell, CellT
<1>7. Owned(x) = {} /\ \A i \in Cells : x[i] = EmptyCell
  BY <1>3, <1>6 DEF Owned
<1>8. CacheOK(cache)
  <2>1. cache = [cells |-> cache.cells, rows |-> cache.rows, head |-> cache.head,
                 used |-> cache.used, has_shift |-> cache.has_shift, torn |-> cache.torn]
    BY <1>4, <1>5
  <2>2. x \in [Cells -> CellT] /\ y \in [Cells -> Row \cup {NoRow}] /\ 0 \in 0 .. KvSize
    BY <1>3, <1>6, RingSize
  <2>3. CacheT(cache)
    BY <1>5, <2>1, <2>2 DEF CacheT
  <2>4. Counted(cache)
    <3>1. Cardinality({}) = 0
      BY FS_EmptySet
    <3> QED BY <1>5, <1>6, <1>7, <3>1 DEF Counted
  <2>5. Rotated(cache)
    BY <1>5, <1>6, <1>7 DEF Rotated
  <2> QED BY <2>3, <2>4, <2>5 DEF CacheOK
<1>9. \A s \in SeqIds : slots[s].inputs = <<>> /\ slots[s].inUse = FALSE
  BY <1>1
<1>10. \A i \in Seats : seqs[i] = NoSeq
  BY <1>1
<1>11. Shares(slots, seqs)
  <2>1. slots \in [SeqIds -> SlotOK]
    BY <1>1, <1>2 DEF SlotOK
  <2>2. seqs \in [Seats -> SeqOK \cup {NoSeq}]
    BY <1>1
  <2>3. SeatsOK(slots, seqs)
    BY <1>9, <1>10, <2>1, <2>2 DEF SeatsOK
  <2>4. InShare(slots, seqs)
    <3>1. 0 <= NumCtx
      BY ContextSize
    <3> QED BY <1>2, <1>9, <1>10, <3>1 DEF InShare
  <2>5. TextsOK(slots, seqs)
    BY <1>10 DEF TextsOK
  <2> QED BY <2>3, <2>4, <2>5 DEF Shares
<1>12. BatchOK(<<>>, slots, seqs)
  BY <1>2 DEF BatchOK
<1>13. Cached(cache, slots, seqs, <<>>, <<>>)
  <2>1. \A s \in SeqIds : Has(cache, s) = {}
    BY <1>5, <1>6, <1>7 DEF Has
  <2>2. 0 .. Len(<<>>) - 1 = {}
    BY <1>2
  <2>3. \A s \in SeqIds : Holds(cache, s, <<>>, {}, 0 .. NumCtx - 1)
    BY <2>1 DEF Holds
  <2> QED BY <1>9, <1>10, <2>2, <2>3 DEF Cached
<1>14. Now = <<>> /\ 0 \in Seats
  BY <1>1, ContextSize DEF Now, Seats, SeqIds
<1>15. LoopOK
  BY <1>1, <1>10, <1>14 DEF LoopOK, Quiet
<1>16. RestorerOK
  BY <1>1, <1>2, RingSize DEF RestorerOK, NoRestorer
<1>17. NeverFull /\ AttentionExactUnlessTorn
  BY <1>1 DEF NeverFull, AttentionExactUnlessTorn
<1> QED BY <1>1, <1>8, <1>11, <1>12, <1>13, <1>14, <1>15, <1>16, <1>17 DEF LlamaInv

LEMMA StutterLlama ==
  ASSUME LlamaInv, UNCHANGED vars
  PROVE  LlamaInv'
<1>1. /\ cache' = cache /\ slots' = slots /\ seqs' = seqs /\ phase' = phase /\ sbatch' = sbatch
      /\ ubatch' = ubatch /\ cur' = cur /\ code' = code /\ restorer' = restorer
  BY DEF vars, decodeVars
<1>2. CacheOK(cache)' /\ RestorerOK' /\ NeverFull'
  BY <1>1 DEF LlamaInv, RestorerOK, NeverFull
<1>3. ASSUME phase # "dead"
      PROVE  /\ LoopOK' /\ Shares(slots, seqs)' /\ BatchOK(sbatch, slots, seqs)'
             /\ Cached(cache, slots, seqs, sbatch, Now)' /\ AttentionExactUnlessTorn'
  <2>1. LoopOK'
    BY <1>1, <1>3 DEF LlamaInv, LoopOK
  <2>2. Shares(slots, seqs)' /\ BatchOK(sbatch, slots, seqs)'
    BY <1>1, <1>3 DEF LlamaInv
  <2>3. Now' = Now
    BY <1>1 DEF Now
  <2>4. Cached(cache, slots, seqs, sbatch, Now)'
    BY <1>1, <1>3, <2>3 DEF LlamaInv
  <2>5. AttentionExactUnlessTorn'
    <3>1. AttentionExactUnlessTorn
      BY <1>3 DEF LlamaInv
    <3>2. Nil' = Nil
      BY <1>1 DEF Nil
    <3>3. \A u, t : SawText(u, t)' <=> SawText(u, t)
      BY <1>1 DEF SawText
    <3> QED BY <1>1, <3>1, <3>2, <3>3 DEF AttentionExactUnlessTorn
  <2> QED BY <2>1, <2>2, <2>4, <2>5
<1> QED BY <1>1, <1>2, <1>3 DEF LlamaInv

LEMMA NextLlama ==
  ASSUME LlamaInv, Next
  PROVE  LlamaInv'
<1>1. ASSUME NEW p \in Prompts, NEW k \in NumKeeps, NEW b \in BOOLEAN, LoadCacheSlot(p, k, b)
      PROVE  LlamaInv'
  BY <1>1, LoadStep
<1>2. CASE Gather
  BY <1>2, GatherStep
<1>3. CASE PrepareUbatch
  BY <1>3, PrepareStep
<1>4. CASE ComputeUbatch
  BY <1>4, ComputeStep
<1>5. CASE ComputeFails
  BY <1>5, ComputeFailsStep
<1>6. ASSUME NEW i \in Seats, SampleNil(i) PROVE LlamaInv'
  BY <1>6, NilStep
<1>7. ASSUME NEW i \in Seats, ProcessPrompt(i) PROVE LlamaInv'
  BY <1>7, PromptStep
<1>8. ASSUME NEW i \in Seats, SampleEnd(i) PROVE LlamaInv'
  BY <1>8, EndStep
<1>9. ASSUME NEW i \in Seats, seqs[i] # NoSeq, HitStop(i) PROVE LlamaInv'
  BY <1>9, StopStep
<1>10. ASSUME NEW i \in Seats, seqs[i] # NoSeq, NEW tok \in Tokens, SampleToken(i, tok)
       PROVE  LlamaInv'
  BY <1>10, TokenStep
<1> QED BY <1>1, <1>2, <1>3, <1>4, <1>5, <1>6, <1>7, <1>8, <1>9, <1>10 DEF Next, Run

(* The cache, the slots and the batch agree in every reachable state of    *)
(* the runner, for any number of sequences, requests and cells: LlamaInv   *)
(* is inductive.                                                           *)
THEOREM LlamaInvariant == Spec => []LlamaInv
<1>1. LlamaInv /\ [Next]_vars => LlamaInv'
  BY NextLlama, StutterLlama
<1> QED BY <1>1, InitLlama, PTL DEF Spec

(* llama_kv_cache.used is always the number of owned cells, and these are  *)
(* the ones with a position, through removals, forks, shifts, slots,       *)
(* defragmentation and restores; the assertion of                          *)
(* llama_kv_cache_defrag_impl therefore holds.                             *)
THEOREM UsedIsExact == Spec => []UsedExact
<1>1. LlamaInv => UsedExact
  <2> SUFFICES ASSUME LlamaInv PROVE UsedExact
    OBVIOUS
  <2>1. Counted(cache)
    BY DEF LlamaInv, CacheOK
  <2> QED BY <2>1 DEF UsedExact, Counted, Owned
<1> QED BY <1>1, LlamaInvariant, PTL

(* llama_decode finds a slot for every ubatch, unless a shift moved the    *)
(* cells of another sequence: the sequences together have no more cells    *)
(* than the cache, and what fragments it is defragmented.                  *)
THEOREM LlamaHasRoom == Spec => []NeverFull
<1>1. LlamaInv => NeverFull
  BY DEF LlamaInv
<1> QED BY <1>1, LlamaInvariant, PTL

(* What the batch has left comes behind the inputs of the slot.            *)
LEMMA LeftBehind ==
  ASSUME NEW sl, NEW sq, SeatsOK(sl, sq), NEW b, BatchOK(b, sl, sq), NEW i \in Seats, sq[i] # NoSeq,
         NEW p \in Left(b, sq[i].slot)
  PROVE  p \notin 0 .. Len(sl[sq[i].slot].inputs) - 1
<1>1. PICK k \in 1 .. Len(b) : b[k].seq = sq[i].slot /\ p = b[k].pos
  BY DEF Left
<1>2. InText(b[k], sl, sq[i])
  BY <1>1, InputOfSeat
<1>3. PICK l \in Nat, m \in Nat : l = Len(sl[sq[i].slot].inputs) /\ m = Len(sq[i].pendingInputs)
  BY SeatTypes
<1>4. p - l \in 0 .. m - 1 /\ p \in 0 .. l + m - 1
  BY <1>1, <1>2, <1>3 DEF InText, FromSeat, All
<1>5. ~(p < l)
  BY <1>4
<1> QED BY <1>3, <1>5

(* A sequence that holds the inputs of its slot has each of them once.     *)
LEMMA StoredOnce ==
  ASSUME NEW s \in SeqIds, NEW x, NEW P, NEW B, Holds(cache, s, x, P, B),
         NEW a, a = slots[s].inputs, 0 .. Len(a) - 1 \subseteq P,
         \A p \in 0 .. Len(a) - 1 : x[p + 1] = a[p + 1]
  PROVE  StoredExactly(s)
<1> SUFFICES ASSUME NEW p \in 0 .. Len(a) - 1
             PROVE  \E i \in Cells :
                      /\ At(s, p) = {i} /\ cache.rows[i] # NoRow
                      /\ cache.rows[i].tok = a[p + 1]
                      /\ cache.rows[i].at + cache.cells[i].delta = p
  BY DEF StoredExactly
<1>1. PICK i \in Has(cache, s) : cache.cells[i].pos = p
  BY DEF Holds
<1>2. At(s, p) = {i}
  <2>1. \A j \in Cells : j \in At(s, p) <=> j \in Has(cache, s) /\ cache.cells[j].pos = p
    BY DEF At, Has
  <2>2. \A j \in Has(cache, s) : cache.cells[j].pos = p => j = i
    BY <1>1 DEF Holds
  <2>3. At(s, p) \subseteq Cells
    BY DEF At
  <2>4. i \in At(s, p)
    BY <1>1, <2>1 DEF Has
  <2> QED BY <2>1, <2>2, <2>3, <2>4
<1>3. cache.rows[i] # NoRow /\ cache.rows[i].tok = x[p + 1] /\ cache.rows[i].at + cache.cells[i].delta = p
  BY <1>1 DEF Holds
<1>4. i \in Cells /\ x[p + 1] = a[p + 1]
  BY <1>1 DEF Has
<1> QED BY <1>2, <1>3, <1>4

LEMMA StoredByInv ==
  ASSUME LlamaInv, phase # "dead", NEW s \in SeqIds \ cache.torn
  PROVE  StoredExactly(s)
<1>1. /\ SeatsOK(slots, seqs) /\ BatchOK(sbatch, slots, seqs)
      /\ Cached(cache, slots, seqs, sbatch, Now)
  BY DEF LlamaInv, Shares
<1>2. BatchOK(Now, slots, seqs)
  <2>1. CASE phase = "compute"
    BY <2>1 DEF LlamaInv, LoopOK, Now
  <2>2. CASE phase # "compute"
    <3>1. <<>> \in Seq(BatchInput) /\ Len(<<>>) = 0
      BY EmptySeq
    <3>2. BatchOK(<<>>, slots, seqs)
      BY <3>1 DEF BatchOK
    <3> QED BY <2>2, <3>2 DEF Now
  <2> QED BY <2>1, <2>2
<1>3. PICK a \in Seq(Tokens) : a = slots[s].inputs
  BY <1>1 DEF SeatsOK, SlotOK
<1>4. CASE ~ slots[s].inUse
  <2>1. PICK P, N : P = 0 .. Len(a) - 1 /\ N = 0 .. NumCtx - 1
    OBVIOUS
  <2>2. Holds(cache, s, a, P, N)
    BY <1>1, <1>3, <1>4, <2>1 DEF Cached
  <2> QED BY <1>3, <2>1, <2>2, StoredOnce
<1>5. CASE slots[s].inUse
  <2>1. PICK i \in Seats : seqs[i] # NoSeq /\ seqs[i].slot = s
    BY <1>1, <1>5 DEF SeatsOK
  <2>2. PICK e \in Seq(Tokens) : e = seqs[i].pendingInputs
    BY <1>1, <2>1, SeatTypes
  <2>3. PICK A, P, B : /\ A = All(slots, seqs[i]) /\ B = A \ Left(sbatch, s) /\ P = B \ Left(Now, s)
    OBVIOUS
  <2>4. Holds(cache, s, a \o e, P, B)
    BY <1>1, <1>3, <2>1, <2>2, <2>3 DEF Cached
  <2>5. PICK l \in Nat, m \in Nat : l = Len(a) /\ m = Len(e)
    BY LenProperties
  <2>6. A = 0 .. l + m - 1
    BY <1>3, <2>1, <2>2, <2>3, <2>5 DEF All
  <2>7. \A p \in 0 .. l - 1 : p \notin Left(sbatch, s) /\ p \notin Left(Now, s)
    BY <1>1, <1>2, <1>3, <2>1, <2>5, LeftBehind
  <2>8. 0 .. l - 1 \subseteq P
    <3>1. 0 .. l - 1 \subseteq A
      BY <2>6
    <3> QED BY <2>3, <2>7, <3>1
  <2>9. \A p \in 0 .. l - 1 : (a \o e)[p + 1] = a[p + 1]
    <3>1. \A k \in 1 .. l + m : (a \o e)[k] = IF k <= l THEN a[k] ELSE e[k - l]
      BY <2>5, ConcatProperties
    <3>2. \A p \in 0 .. l - 1 : p + 1 \in 1 .. l + m /\ p + 1 <= l
      OBVIOUS
    <3> QED BY <3>1, <3>2
  <2>10. PICK x : x = a \o e
    OBVIOUS
  <2>11. /\ Holds(cache, s, x, P, B) /\ 0 .. Len(a) - 1 \subseteq P
         /\ \A p \in 0 .. Len(a) - 1 : x[p + 1] = a[p + 1]
    BY <2>4, <2>5, <2>8, <2>9, <2>10
  <2> QED BY <1>3, <2>11, StoredOnce
<1> QED BY <1>4, <1>5

(* Every input of a slot is in exactly one cell of its sequence, computed  *)
(* from that token and rotated to that position ("Inputs that are stored   *)
(* in the KV cache"), in every reachable state before a panic, unless the  *)
(* shift of another sequence moved its cells.                              *)
THEOREM SlotsAreStored == Spec => []SlotsStoredUnlessTorn
<1>1. LlamaInv => SlotsStoredUnlessTorn
  BY StoredByInv DEF SlotsStoredUnlessTorn
<1> QED BY <1>1, LlamaInvariant, PTL

(* Each input that llama_decode computed saw the text of its sequence up   *)
(* to it, each token once and at its position, unless the shift of another *)
(* sequence moved its cells.                                               *)
THEOREM LlamaAttentionIsExact == Spec => []AttentionExactUnlessTorn
<1>1. LlamaInv => AttentionExactUnlessTorn
  BY DEF LlamaInv, AttentionExactUnlessTorn
<1> QED BY <1>1, LlamaInvariant, PTL

=============================================================================
