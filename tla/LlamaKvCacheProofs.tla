------------------------- MODULE LlamaKvCacheProofs -------------------------
(***************************************************************************)
(* What the operations of the llama.cpp KV cache do, for any size of the   *)
(* cache and any number of sequences and inputs: they count the cells      *)
(* right, FindSlot finds room whenever there is some, a defragmentation    *)
(* puts the owned cells first, and what a sequence holds is changed by     *)
(* none but the operations on it.                                          *)
(***************************************************************************)
EXTENDS LlamaRunnerProperties, TLAPS, SequenceTheorems, FiniteSetTheorems,
        WellFoundedInduction

(* The cache by itself: used counts the owned cells, which are those with  *)
(* a position, and without a pending shift no key has to be rotated.       *)
CellT == [pos : Int, delta : Int, seqs : SUBSET SeqIds]
CacheT(c) ==
  /\ c = [cells |-> c.cells, rows |-> c.rows, head |-> c.head, used |-> c.used,
          has_shift |-> c.has_shift, torn |-> c.torn]
  /\ c.cells \in [Cells -> CellT] /\ c.rows \in [Cells -> Row \cup {NoRow}]
  /\ c.head \in 0 .. KvSize /\ c.has_shift \in BOOLEAN /\ c.torn \in SUBSET SeqIds
Counted(c) ==
  /\ c.used = Cardinality(Owned(c.cells))
  /\ \A i \in Cells : c.cells[i].seqs # {} <=> c.cells[i].pos >= 0
Rotated(c) == c.has_shift \/ \A i \in Cells : c.cells[i].delta = 0
CacheOK(c) == CacheT(c) /\ Counted(c) /\ Rotated(c)

(* Sequence s has cells at the positions B only, each position once; it    *)
(* has one at every position of P, with the input a has there.             *)
Has(c, s) == {i \in Cells : s \in c.cells[i].seqs}
Holds(c, s, a, P, B) ==
  /\ \A i \in Has(c, s) : c.cells[i].pos \in B
  /\ \A i, j \in Has(c, s) : c.cells[i].pos = c.cells[j].pos => i = j
  /\ \A p \in P : \E i \in Has(c, s) : c.cells[i].pos = p
  /\ \A i \in Has(c, s) : c.cells[i].pos \in P =>
       /\ c.rows[i] # NoRow /\ c.rows[i].tok = a[c.cells[i].pos + 1]
       /\ c.rows[i].at + c.cells[i].delta = c.cells[i].pos

(* The positions that a batch has of sequence s.                           *)
Left(b, s) == {b[k].pos : k \in {m \in 1 .. Len(b) : b[m].seq = s}}

(* The cells of the slot that was found are those of the ubatch.           *)
Slotted(c, ub) ==
  /\ ub \in Seq(BatchInput) /\ c.head + Len(ub) <= KvSize
  /\ \A k \in 1 .. Len(ub) : c.cells[c.head + k - 1] =
       [pos |-> ub[k].pos, delta |-> 0, seqs |-> {ub[k].seq}]

-----------------------------------------------------------------------------
(* Numbers, sets and sequences.                                            *)

(* A non-empty set of numbers has a least element ...                      *)
LEMMA LeastElement ==
  ASSUME NEW T, T \subseteq Nat, T # {}
  PROVE  \E n \in T : \A m \in T : n <= m
<1> DEFINE Less == {ss \in Nat \X Nat : ss[1] < ss[2]}
<1>1. IsWellFoundedOn(Less, Nat)
  BY NatLessThanWellFounded DEF OpToRel
<1>2. \E n \in T : \A m \in T : ~ (<<m, n>> \in Less)
  <2> HIDE DEF Less
  <2> QED BY <1>1, WFMin
<1>3. PICK n \in T : \A m \in T : ~ (<<m, n>> \in Less)
  BY <1>2
<1>4. \A m \in T : m \in Nat /\ n \in Nat /\ ~(m < n)
  BY <1>3
<1> QED BY <1>4

(* ... which Min finds ...                                                 *)
LEMMA MinFound ==
  ASSUME NEW T, T \subseteq Nat, T # {}
  PROVE  Min(T) \in T /\ \A m \in T : Min(T) <= m
<1>1. \E n \in T : \A m \in T : n =< m
  BY LeastElement
<1> QED BY <1>1 DEF Min

(* ... and if it is bounded, a greatest one, which Max finds.              *)
LEMMA MaxFound ==
  ASSUME NEW b \in Nat, NEW T, T \subseteq 0 .. b, T # {}
  PROVE  Max(T) \in T /\ \A m \in T : m <= Max(T)
<1> DEFINE U == {b - t : t \in T}
<1>1. U \subseteq Nat /\ U # {}
  <2>1. \A t \in T : b - t \in Nat
    OBVIOUS
  <2> QED BY <2>1
<1>2. \E u \in U : \A v \in U : u <= v
  <2> HIDE DEF U
  <2> QED BY <1>1, LeastElement
<1>3. PICK u \in U : \A v \in U : u <= v
  BY <1>2
<1>4. PICK t \in T : u = b - t
  OBVIOUS
<1>5. \A m \in T : t >= m
  <2> SUFFICES ASSUME NEW m \in T PROVE t >= m
    OBVIOUS
  <2>1. b - t <= b - m
    BY <1>3, <1>4
  <2> QED BY <2>1
<1>6. \E n \in T : \A m \in T : n >= m
  BY <1>5
<1>7. Max(T) \in T /\ \A m \in T : Max(T) >= m
  BY <1>6 DEF Max
<1> QED BY <1>7

(* The context of a slot has room for an input.                            *)
LEMMA ContextSize == NumCtx \in Nat \ {0} /\ Parallel \in Nat \ {0}
BY CacheAssumption DEF NumCtx

(* The common prefix of two sequences.                                     *)
LEMMA CommonPrefix ==
  ASSUME NEW a \in Seq(Tokens), NEW b \in Seq(Tokens)
  PROVE  /\ CountCommonPrefix(a, b) \in Nat
         /\ CountCommonPrefix(a, b) <= Len(a) /\ CountCommonPrefix(a, b) <= Len(b)
         /\ SubSeq(a, 1, CountCommonPrefix(a, b)) = SubSeq(b, 1, CountCommonPrefix(a, b))
<1> DEFINE m == Least(Len(a), Len(b))
           T == {n \in 0 .. m : SubSeq(a, 1, n) = SubSeq(b, 1, n)}
<1>1. m \in Nat /\ m <= Len(a) /\ m <= Len(b)
  BY DEF Least
<1>2. SubSeq(a, 1, 0) = SubSeq(b, 1, 0)
  BY SubSeqEmpty
<1>3. T \subseteq 0 .. m /\ 0 \in T
  BY <1>1, <1>2
<1>4. Max(T) \in T
  <2> HIDE DEF T, m
  <2> QED BY <1>1, <1>3, MaxFound
<1>5. CountCommonPrefix(a, b) = Max(T)
  BY DEF CountCommonPrefix
<1>6. \A n \in T : n \in 0 .. m /\ SubSeq(a, 1, n) = SubSeq(b, 1, n)
  OBVIOUS
<1> HIDE DEF m, T
<1> QED BY <1>1, <1>4, <1>5, <1>6

(* Concatenation is associative.                                           *)
LEMMA Rebracket ==
  ASSUME NEW a \in Seq(Tokens), NEW b \in Seq(Tokens), NEW c \in Seq(Tokens)
  PROVE  (a \o b) \o c = a \o (b \o c)
BY ConcatAssociative

(* A sequence without a part of it is shorter.                             *)
LEMMA WithoutShorter ==
  ASSUME NEW s \in Seq(Tokens), NEW keep \in Nat, NEW discard \in Nat,
         keep + discard <= Len(s)
  PROVE  /\ Without(s, keep, discard) \in Seq(Tokens)
         /\ Len(Without(s, keep, discard)) = Len(s) - discard
<1> DEFINE a == SubSeq(s, 1, keep)
           b == SubSeq(s, keep + discard + 1, Len(s))
<1>1. a \in Seq(Tokens) /\ Len(a) = keep
  BY SubSeqProperties
<1>2. b \in Seq(Tokens) /\ Len(b) = Len(s) - (keep + discard)
  BY SubSeqProperties
<1>3. Without(s, keep, discard) = a \o b
  BY DEF Without
<1> HIDE DEF a, b
<1>4. Len(a) + Len(b) = Len(s) - discard
  BY <1>1, <1>2
<1>5. a \o b \in Seq(Tokens) /\ Len(a \o b) = Len(a) + Len(b)
  BY <1>1, <1>2, ConcatProperties
<1> QED BY <1>3, <1>4, <1>5

(* A function that gives no value twice has as many values as arguments.   *)
LEMMA SameSize ==
  ASSUME NEW S, IsFiniteSet(S), NEW T, NEW f \in [S -> T],
         \A a, b \in S : f[a] = f[b] => a = b,
         \A t \in T : \E a \in S : f[a] = t
  PROVE  IsFiniteSet(T) /\ Cardinality(T) = Cardinality(S)
<1>1. f \in Bijection(S, T)
  BY DEF Bijection, Injection, IsInjective, Surjection
<1>2. ExistsBijection(S, T)
  BY <1>1 DEF ExistsBijection
<1> QED BY <1>2, FS_Bijection

(* There are finitely many seats.                                          *)
LEMMA SeatsFinite ==
  ASSUME NEW S \in SUBSET Seats
  PROVE  IsFiniteSet(S) /\ Cardinality(S) \in Nat
<1>1. IsFiniteSet(Seats)
  BY ContextSize, FS_Interval DEF Seats, SeqIds
<1>2. IsFiniteSet(S)
  BY <1>1, FS_Subset
<1> QED BY <1>2, FS_CardinalityType

(* Sequences that agree in a prefix agree in a shorter one.                *)
LEMMA ShorterPrefix ==
  ASSUME NEW a \in Seq(Tokens), NEW b \in Seq(Tokens), NEW n \in Nat, NEW m \in 0 .. n,
         n <= Len(a), n <= Len(b), SubSeq(a, 1, n) = SubSeq(b, 1, n)
  PROVE  SubSeq(a, 1, m) = SubSeq(b, 1, m)
<1>1. \A i \in 1 .. n : a[i] \in Tokens /\ b[i] \in Tokens
  OBVIOUS
<1>2. \A i \in 1 .. n : SubSeq(a, 1, n)[i] = a[i] /\ SubSeq(b, 1, n)[i] = b[i]
  BY <1>1, SubSeqProperties
<1>3. \A i \in 1 .. m : a[i] = b[i]
  BY <1>2
<1> QED BY <1>3

(* The larger of two numbers.                                              *)
LEMMA MaxOfTwo ==
  ASSUME NEW a \in Nat, NEW b \in Nat
  PROVE  Max({a, b}) = IF a < b THEN b ELSE a
<1>1. {a, b} \subseteq 0 .. a + b /\ {a, b} # {} /\ a + b \in Nat
  OBVIOUS
<1>2. Max({a, b}) \in {a, b} /\ \A m \in {a, b} : m <= Max({a, b})
  BY <1>1, MaxFound
<1> QED BY <1>2

(* A number that is not negative.                                          *)
LEMMA MaxOfZero ==
  ASSUME NEW m \in Int
  PROVE  Max({0, m}) = IF m > 0 THEN m ELSE 0
<1>1. PICK n : n = IF m > 0 THEN m ELSE 0
  OBVIOUS
<1>2. n \in {0, m} /\ n \in Int /\ \A k \in {0, m} : n >= k
  BY <1>1
<1>3. Max({0, m}) \in {0, m} /\ \A k \in {0, m} : Max({0, m}) >= k
  BY <1>2 DEF Max
<1> QED BY <1>1, <1>2, <1>3

(* A full context gives up at least one input, and none of those to keep.  *)
LEMMA DiscardFits ==
  ASSUME NEW keep \in 0 .. NumCtx - 1
  PROVE  /\ ShiftDiscard(NumCtx, keep) \in Nat \ {0}
         /\ keep + ShiftDiscard(NumCtx, keep) <= NumCtx
<1> DEFINE half == (NumCtx - keep) \div 2
<1>1. half \in Nat /\ keep + half <= NumCtx /\ keep + 1 <= NumCtx /\ keep \in Nat
  BY ContextSize
<1> HIDE DEF half
<1>2. PICK m \in Nat : m = (IF half < 1 THEN 1 ELSE half)
  BY <1>1
<1>3. Max({half, 1}) = m
  BY <1>1, <1>2, MaxOfTwo
<1>4. m - (NumCtx - NumCtx) = m
  BY <1>2, ContextSize
<1>5. ShiftDiscard(NumCtx, keep) = Max({0, m})
  BY <1>3, <1>4 DEF ShiftDiscard, half
<1>6. Max({0, m}) = m /\ m # 0
  BY <1>1, <1>2, MaxOfTwo
<1> QED BY <1>1, <1>2, <1>5, <1>6

(* The sizes of intervals.                                                 *)
LEMMA IntervalSize ==
  ASSUME NEW n \in Nat
  PROVE  /\ IsFiniteSet(0 .. n - 1) /\ Cardinality(0 .. n - 1) = n
         /\ IsFiniteSet(1 .. n) /\ Cardinality(1 .. n) = n
<1>1. PICK m \in Int : m = n - 1
  OBVIOUS
<1>2. IsFiniteSet(0 .. m) /\ Cardinality(0 .. m) = IF 0 > m THEN 0 ELSE m - 0 + 1
  BY FS_Interval
<1>3. IsFiniteSet(1 .. n) /\ Cardinality(1 .. n) = IF 1 > n THEN 0 ELSE n - 1 + 1
  BY FS_Interval
<1> QED BY <1>1, <1>2, <1>3

(* Two functions into a set that give no value twice, and share none.      *)
LEMMA TwoImages ==
  ASSUME NEW S, NEW T, NEW G, IsFiniteSet(S), IsFiniteSet(T), IsFiniteSet(G),
         NEW f \in [S -> G], NEW g \in [T -> G],
         \A a, b \in S : f[a] = f[b] => a = b, \A a, b \in T : g[a] = g[b] => a = b,
         \A a \in S, b \in T : f[a] # g[b]
  PROVE  Cardinality(S) + Cardinality(T) <= Cardinality(G)
<1> DEFINE A == {f[x] : x \in S}
           B == {g[x] : x \in T}
<1>1. f \in [S -> A] /\ g \in [T -> B] /\ A \subseteq G /\ B \subseteq G /\ A \cap B = {}
  OBVIOUS
<1>2. (\A t \in A : \E a \in S : f[a] = t) /\ (\A t \in B : \E a \in T : g[a] = t)
  OBVIOUS
<1> HIDE DEF A, B
<1>3. IsFiniteSet(A) /\ Cardinality(A) = Cardinality(S)
  BY <1>1, <1>2, SameSize
<1>4. IsFiniteSet(B) /\ Cardinality(B) = Cardinality(T)
  BY <1>1, <1>2, SameSize
<1>5. Cardinality(A \cup B) = Cardinality(A) + Cardinality(B) - Cardinality(A \cap B)
  BY <1>3, <1>4, FS_Union
<1>6. Cardinality(A \cap B) = 0
  BY <1>1, FS_EmptySet
<1>7. Cardinality(A \cup B) <= Cardinality(G)
  <2>1. A \cup B \in SUBSET G
    BY <1>1
  <2> QED BY <2>1, FS_Subset
<1>8. Cardinality(A) \in Nat /\ Cardinality(B) \in Nat /\ Cardinality(G) \in Nat
  BY <1>3, <1>4, FS_CardinalityType
<1> QED BY <1>3, <1>4, <1>5, <1>6, <1>7, <1>8

(* What is left of a sequence without a part of it.                        *)
LEMMA WithoutElements ==
  ASSUME NEW a \in Seq(Tokens), NEW keep \in Nat, NEW discard \in Nat, keep + discard <= Len(a),
         NEW p \in 0 .. Len(a) - discard - 1
  PROVE  Without(a, keep, discard)[p + 1] = a[IF p < keep THEN p + 1 ELSE p + discard + 1]
<1> DEFINE x == SubSeq(a, 1, keep)
           y == SubSeq(a, keep + discard + 1, Len(a))
<1>1. x \in Seq(Tokens) /\ Len(x) = keep /\ \A i \in 1 .. keep : x[i] = a[i]
  BY SubSeqProperties
<1>2. /\ y \in Seq(Tokens) /\ Len(y) = Len(a) - (keep + discard)
      /\ \A i \in 1 .. Len(a) - (keep + discard) : y[i] = a[keep + discard + i]
  BY SubSeqProperties
<1>3. Without(a, keep, discard) = x \o y
  BY DEF Without
<1> HIDE DEF x, y
<1>4. \A i \in 1 .. Len(x) + Len(y) : (x \o y)[i] = IF i <= Len(x) THEN x[i] ELSE y[i - Len(x)]
  BY <1>1, <1>2, ConcatProperties
<1>5. p + 1 \in 1 .. Len(x) + Len(y)
  BY <1>1, <1>2
<1>6. CASE p < keep
  BY <1>1, <1>3, <1>4, <1>5, <1>6
<1>7. CASE ~(p < keep)
  <2>1. p + 1 - keep \in 1 .. Len(a) - (keep + discard) /\ keep + discard + (p + 1 - keep) = p + discard + 1
    BY <1>7
  <2>2. (x \o y)[p + 1] = y[p + 1 - keep]
    BY <1>1, <1>4, <1>5, <1>7
  <2>3. y[p + 1 - keep] = a[keep + discard + (p + 1 - keep)]
    BY <1>2, <2>1
  <2>4. y[p + 1 - keep] = a[p + discard + 1]
    BY <2>1, <2>3
  <2> QED BY <1>3, <1>7, <2>2, <2>4
<1> QED BY <1>6, <1>7

-----------------------------------------------------------------------------
(* The search for free cells.                                              *)

(* One turn of the search, with f for the rest of it.                      *)
TakenAt(c, n, h) == {i \in 0 .. n - 1 : c.cells[h + i].pos >= 0}
Places == (0 .. KvSize) \X Nat
Probe(c, n, f, at) ==
  IF at[1] + n > KvSize THEN f[<<0, at[2] + KvSize - at[1]>>]
  ELSE IF TakenAt(c, n, at[1]) = {} THEN [found |-> TRUE, head |-> at[1]]
  ELSE IF at[2] + (Min(TakenAt(c, n, at[1])) + 1) >= KvSize
       THEN [found |-> FALSE, head |-> at[1] + (Min(TakenAt(c, n, at[1])) + 1)]
  ELSE f[<<at[1] + (Min(TakenAt(c, n, at[1])) + 1), at[2] + (Min(TakenAt(c, n, at[1])) + 1)>>]
Searches(c, n, f) == f = [at \in Places |-> Probe(c, n, f, at)]

(* The cells are at least one.                                             *)
LEMMA RingSize == KvSize \in Nat \ {0}
BY CacheAssumption

(* The search goes on behind the first cell that is taken.                 *)
LEMMA NextPlace ==
  ASSUME NEW c, NEW n \in Nat, NEW h \in 0 .. KvSize, TakenAt(c, n, h) # {}, h + n <= KvSize
  PROVE  /\ Min(TakenAt(c, n, h)) \in 0 .. n - 1
         /\ c.cells[h + Min(TakenAt(c, n, h))].pos >= 0
         /\ Min(TakenAt(c, n, h)) + 1 \in 1 .. n
         /\ h + (Min(TakenAt(c, n, h)) + 1) \in 0 .. KvSize
<1>1. TakenAt(c, n, h) \subseteq Nat
  BY DEF TakenAt
<1>2. Min(TakenAt(c, n, h)) \in TakenAt(c, n, h)
  BY <1>1, MinFound
<1>3. PICK m : m = Min(TakenAt(c, n, h))
  OBVIOUS
<1>4. m \in 0 .. n - 1 /\ c.cells[h + m].pos >= 0
  BY <1>2, <1>3 DEF TakenAt
<1>5. m + 1 \in 1 .. n /\ h + (m + 1) \in 0 .. KvSize
  BY <1>4, RingSize
<1> QED BY <1>3, <1>4, <1>5

(* Where the search is: a cell, and how many were tested.                  *)
LEMMA PlaceAt ==
  ASSUME NEW h \in 0 .. KvSize, NEW m \in Nat
  PROVE  \E to \in Places : to = <<h, m>> /\ to[1] = h /\ to[2] = m
<1>1. <<h, m>> \in Places
  BY DEF Places
<1> QED BY <1>1

(* A function that is the search where at least b cells were tested.       *)
Solves(c, n, f, b) ==
  /\ f = [at \in Places |-> f[at]]
  /\ \A at \in Places : at[2] >= b => f[at] = Probe(c, n, f, at)

(* When all cells were tested, the search ends at the next that is taken.  *)
LEMMA SearchEnds ==
  ASSUME NEW c, NEW n \in 0 .. KvSize
  PROVE  \E f : Solves(c, n, f, KvSize)
<1> DEFINE Final(h) ==
      IF TakenAt(c, n, h) = {} THEN [found |-> TRUE, head |-> h]
      ELSE [found |-> FALSE, head |-> h + (Min(TakenAt(c, n, h)) + 1)]
    f == [at \in Places |-> Final(IF at[1] + n > KvSize THEN 0 ELSE at[1])]
<1>1. \A at \in Places : f[at] = Final(IF at[1] + n > KvSize THEN 0 ELSE at[1])
  OBVIOUS
<1>2. f = [at \in Places |-> f[at]]
  OBVIOUS
<1>3. \A h : /\ TakenAt(c, n, h) = {} => Final(h) = [found |-> TRUE, head |-> h]
             /\ TakenAt(c, n, h) # {} =>
                  Final(h) = [found |-> FALSE, head |-> h + (Min(TakenAt(c, n, h)) + 1)]
  OBVIOUS
<1> HIDE DEF f, Final
<1>4. ASSUME NEW at \in Places, at[2] >= KvSize PROVE f[at] = Probe(c, n, f, at)
  <2>1. at[1] \in 0 .. KvSize /\ at[2] \in Nat
    BY DEF Places
  <2>2. CASE at[1] + n > KvSize
    <3>1. at[2] + KvSize - at[1] \in Nat
      BY <2>1, RingSize
    <3>2. PICK to \in Places : to = <<0, at[2] + KvSize - at[1]>> /\ to[1] = 0
      <4>1. 0 \in 0 .. KvSize
        BY RingSize
      <4> QED BY <3>1, <4>1, PlaceAt
    <3>3. f[to] = Final(0)
      BY <1>1, <3>2, RingSize
    <3>4. f[at] = Final(0)
      BY <1>1, <2>2
    <3> QED BY <2>2, <3>2, <3>3, <3>4 DEF Probe
  <2>3. CASE ~(at[1] + n > KvSize)
    <3>1. f[at] = Final(at[1])
      BY <1>1, <2>3
    <3>2. CASE TakenAt(c, n, at[1]) = {}
      BY <1>3, <2>3, <3>1, <3>2 DEF Probe
    <3>3. CASE TakenAt(c, n, at[1]) # {}
      <4>1. PICK m \in 1 .. n : m = Min(TakenAt(c, n, at[1])) + 1
        <5>1. n \in Nat /\ at[1] + n <= KvSize
          BY <2>1, <2>3, RingSize
        <5> QED BY <2>1, <3>3, <5>1, NextPlace
      <4>2. at[2] + m >= KvSize
        BY <1>4, <2>1, <4>1, RingSize
      <4> QED BY <1>3, <2>3, <3>1, <3>3, <4>1, <4>2 DEF Probe
    <3> QED BY <3>2, <3>3
  <2> QED BY <2>2, <2>3
<1> QED BY <1>2, <1>4 DEF Solves

(* The search on from b is made of the search on from b + 1.               *)
LEMMA SearchBefore ==
  ASSUME NEW c, NEW n \in 0 .. KvSize, NEW b \in Nat, NEW f, Solves(c, n, f, b + 1)
  PROVE  \E g : Solves(c, n, g, b)
<1> DEFINE e == [at \in Places |-> IF at[2] = b /\ ~(at[1] + n > KvSize) THEN Probe(c, n, f, at)
                                   ELSE f[at]]
           g == [at \in Places |-> IF at[2] = b /\ at[1] + n > KvSize THEN Probe(c, n, e, at)
                                   ELSE e[at]]
<1>1. g = [at \in Places |-> g[at]]
  OBVIOUS
<1>2. \A at \in Places :
        /\ at[2] # b => g[at] = f[at]
        /\ at[2] = b /\ ~(at[1] + n > KvSize) => g[at] = Probe(c, n, f, at)
        /\ at[2] = b /\ at[1] + n > KvSize => g[at] = Probe(c, n, e, at)
        /\ ~(at[1] + n > KvSize) => g[at] = e[at]
        /\ at[2] # b => e[at] = g[at]
  OBVIOUS
<1> HIDE DEF e, g
<1>3. ASSUME NEW at \in Places, at[2] >= b PROVE g[at] = Probe(c, n, g, at)
  <2>1. at[1] \in 0 .. KvSize /\ at[2] \in Nat
    BY DEF Places
  <2>2. CASE at[1] + n > KvSize
    <3>1. at[2] + KvSize - at[1] \in Nat /\ at[2] + KvSize - at[1] >= at[2]
      BY <2>1, RingSize
    <3>2. PICK to \in Places :
             to = <<0, at[2] + KvSize - at[1]>> /\ to[1] = 0 /\ to[2] = at[2] + KvSize - at[1]
      <4>1. 0 \in 0 .. KvSize
        BY RingSize
      <4> QED BY <3>1, <4>1, PlaceAt
    <3>3. g[to] = e[to]
      BY <1>2, <3>2, RingSize
    <3>4. CASE at[2] = b
      BY <1>2, <2>2, <3>2, <3>3, <3>4 DEF Probe
    <3>5. CASE at[2] # b
      <4>1. to[2] # b /\ at[2] >= b + 1
        BY <1>3, <2>1, <3>1, <3>2, <3>5
      <4>2. g[at] = f[at] /\ g[to] = f[to] /\ f[at] = Probe(c, n, f, at)
        BY <1>2, <3>5, <4>1 DEF Solves
      <4> QED BY <2>2, <3>2, <4>2 DEF Probe
    <3> QED BY <3>4, <3>5
  <2>3. CASE ~(at[1] + n > KvSize)
    <3>1. g[at] = Probe(c, n, f, at)
      <4>1. CASE at[2] = b
        BY <1>2, <2>3, <4>1
      <4>2. CASE at[2] # b
        <5>1. at[2] >= b + 1
          BY <1>3, <2>1, <4>2
        <5> QED BY <1>2, <4>2, <5>1 DEF Solves
      <4> QED BY <4>1, <4>2
    <3>2. CASE TakenAt(c, n, at[1]) = {}
      BY <2>3, <3>1, <3>2 DEF Probe
    <3>3. CASE TakenAt(c, n, at[1]) # {}
      <4>1. PICK m \in 1 .. n : /\ m = Min(TakenAt(c, n, at[1])) + 1
                                /\ at[1] + m \in 0 .. KvSize
        <5>1. n \in Nat /\ at[1] + n <= KvSize
          BY <2>1, <2>3, RingSize
        <5> QED BY <2>1, <3>3, <5>1, NextPlace
      <4>2. PICK to \in Places : to = <<at[1] + m, at[2] + m>> /\ to[2] # b
        <5>1. at[2] + m \in Nat /\ at[2] + m # b
          BY <1>3, <2>1, <4>1
        <5> QED BY <4>1, <5>1, PlaceAt
      <4>3. g[to] = f[to]
        BY <1>2, <4>2
      <4> QED BY <2>3, <3>1, <3>3, <4>1, <4>2, <4>3 DEF Probe
    <3> QED BY <3>2, <3>3
  <2> QED BY <2>2, <2>3
<1> QED BY <1>1, <1>3 DEF Solves

(* Hence the recursive function that FindSlot is made of exists.           *)
LEMMA SearchExists ==
  ASSUME NEW c, NEW n \in 0 .. KvSize
  PROVE  \E f : Searches(c, n, f)
<1> DEFINE T == {b \in Nat : \E f : Solves(c, n, f, b)}
<1>1. PICK b \in T : \A m \in T : b <= m
  <2>1. T \subseteq Nat /\ KvSize \in T
    BY SearchEnds, RingSize
  <2> HIDE DEF T
  <2> QED BY <2>1, LeastElement
<1>2. b = 0
  <2> SUFFICES ASSUME b # 0 PROVE FALSE
    OBVIOUS
  <2>1. PICK a \in Nat : b = a + 1
    BY b - 1 \in Nat
  <2>2. \E f : Solves(c, n, f, a)
    BY <2>1, SearchBefore
  <2>3. b <= a
    BY <1>1, <2>2
  <2> QED BY <2>1, <2>3
<1>3. PICK f : Solves(c, n, f, 0)
  BY <1>2
<1>4. \A at \in Places : f[at] = Probe(c, n, f, at)
  BY <1>3 DEF Solves, Places
<1>5. Searches(c, n, f)
  BY <1>3, <1>4 DEF Solves, Searches
<1> QED BY <1>5

(* What the search returns: free cells, or no free cells from its place on *)
(* round to the cells that were tested.                                    *)
Start(h, j) == IF h + j < KvSize THEN h + j ELSE h + j - KvSize
FreeAt(c, n, k) == k + n <= KvSize /\ TakenAt(c, n, k) = {}
Sound(c, n, at, r) ==
  /\ r.found \in BOOLEAN /\ r.head \in 0 .. KvSize
  /\ r.found => FreeAt(c, n, r.head)
  /\ ~ r.found => \A j \in 0 .. KvSize - 1 - at[2] : ~ FreeAt(c, n, Start(at[1], j))

(* It is right at a place where the cells fit if it is right later on ...  *)
LEMMA SoundFits ==
  ASSUME NEW c, NEW n \in 0 .. KvSize, NEW f, Searches(c, n, f),
         NEW at \in Places, at[1] + n <= KvSize,
         \A to \in Places : to[2] > at[2] /\ at[2] < KvSize => Sound(c, n, to, f[to])
  PROVE  Sound(c, n, at, f[at])
<1>1. f[at] = Probe(c, n, f, at)
  BY DEF Searches
<1>2. at[1] \in 0 .. KvSize /\ at[2] \in Nat /\ ~(at[1] + n > KvSize)
  BY RingSize DEF Places
<1>3. CASE TakenAt(c, n, at[1]) = {}
  <2>1. f[at] = [found |-> TRUE, head |-> at[1]]
    BY <1>1, <1>2, <1>3 DEF Probe
  <2> QED BY <1>2, <1>3, <2>1 DEF Sound, FreeAt
<1>4. CASE TakenAt(c, n, at[1]) # {}
  <2>1. PICK m \in 0 .. n - 1 : /\ m = Min(TakenAt(c, n, at[1]))
                                /\ c.cells[at[1] + m].pos >= 0
                                /\ at[1] + (m + 1) \in 0 .. KvSize
    <3>1. n \in Nat
      BY RingSize
    <3> QED BY <1>2, <1>4, <3>1, NextPlace
  <2>2. ASSUME NEW j \in 0 .. m, j < KvSize PROVE ~ FreeAt(c, n, Start(at[1], j))
    <3>1. PICK k \in Nat : k = at[1] + j /\ Start(at[1], j) = k
      <4>1. at[1] + j < KvSize /\ at[1] + j \in Nat
        BY <1>2, <2>1, <2>2, RingSize
      <4> QED BY <4>1 DEF Start
    <3>2. m - j \in 0 .. n - 1 /\ k + (m - j) = at[1] + m
      BY <1>2, <2>1, <2>2, <3>1
    <3>3. m - j \in TakenAt(c, n, k)
      BY <2>1, <3>2 DEF TakenAt
    <3> QED BY <3>1, <3>3 DEF FreeAt
  <2>3. CASE at[2] + (m + 1) >= KvSize
    <3>1. f[at] = [found |-> FALSE, head |-> at[1] + (m + 1)]
      BY <1>1, <1>2, <1>4, <2>1, <2>3 DEF Probe
    <3>2. \A j \in 0 .. KvSize - 1 - at[2] : j \in 0 .. m /\ j < KvSize
      BY <1>2, <2>1, <2>3, RingSize
    <3> QED BY <2>1, <2>2, <3>1, <3>2 DEF Sound
  <2>4. CASE ~(at[2] + (m + 1) >= KvSize)
    <3>1. at[2] + (m + 1) \in Nat /\ at[2] + (m + 1) > at[2] /\ at[2] < KvSize
      BY <1>2, <2>1, <2>4, RingSize
    <3>2. PICK to \in Places : /\ to = <<at[1] + (m + 1), at[2] + (m + 1)>>
                               /\ to[1] = at[1] + (m + 1) /\ to[2] = at[2] + (m + 1)
      BY <2>1, <3>1, PlaceAt
    <3>3. f[at] = f[to]
      BY <1>1, <1>2, <1>4, <2>1, <2>4, <3>2 DEF Probe
    <3>4. Sound(c, n, to, f[to])
      BY <3>1, <3>2
    <3>5. ASSUME NEW j \in 0 .. KvSize - 1 - at[2], ~ f[to].found
          PROVE  ~ FreeAt(c, n, Start(at[1], j))
      <4>1. CASE j <= m
        <5>1. j \in 0 .. m /\ j < KvSize
          BY <1>2, <2>1, <4>1, RingSize
        <5> QED BY <2>2, <5>1
      <4>2. CASE j > m
        <5>1. j - (m + 1) \in 0 .. KvSize - 1 - to[2]
          BY <1>2, <2>1, <3>2, <4>2, RingSize
        <5>2. Start(to[1], j - (m + 1)) = Start(at[1], j)
          <6>1. PICK x \in Int, y \in Int : x = to[1] /\ y = j - (m + 1)
            BY <2>1, <3>2
          <6>2. x + y = at[1] + j
            BY <1>2, <2>1, <3>2, <6>1
          <6>3. Start(x, y) = Start(at[1], j)
            BY <1>2, <3>5, <6>2, RingSize DEF Start
          <6> QED BY <6>1, <6>3
        <5> QED BY <3>4, <3>5, <5>1, <5>2 DEF Sound
      <4>3. j \in Int /\ m \in Int
        BY <2>1, <3>5
      <4> QED BY <4>1, <4>2, <4>3
    <3> QED BY <3>3, <3>4, <3>5 DEF Sound
  <2> QED BY <2>3, <2>4
<1> QED BY <1>3, <1>4

(* ... and at any place.                                                   *)
LEMMA SoundAt ==
  ASSUME NEW c, NEW n \in 0 .. KvSize, NEW f, Searches(c, n, f), NEW at \in Places,
         \A to \in Places : to[2] > at[2] /\ at[2] < KvSize => Sound(c, n, to, f[to])
  PROVE  Sound(c, n, at, f[at])
<1>1. at[1] \in 0 .. KvSize /\ at[2] \in Nat /\ KvSize \in Nat /\ n \in Nat
  BY RingSize DEF Places
<1>2. CASE at[1] + n <= KvSize
  BY <1>2, SoundFits
<1>3. CASE at[1] + n > KvSize
  <2>1. at[2] + KvSize - at[1] \in Nat /\ 0 \in 0 .. KvSize
    BY <1>1
  <2>2. PICK to \in Places : /\ to = <<0, at[2] + KvSize - at[1]>>
                             /\ to[1] = 0 /\ to[2] = at[2] + KvSize - at[1]
    BY <2>1, PlaceAt
  <2>3. to[1] + n <= KvSize /\ to[2] >= at[2]
    BY <1>1, <2>2
  <2>4. f[at] = f[to]
    <3>1. f[at] = Probe(c, n, f, at)
      BY DEF Searches
    <3> QED BY <1>3, <2>2, <3>1 DEF Probe
  <2>5. Sound(c, n, to, f[to])
    <3>1. ASSUME NEW x \in Places, x[2] > to[2], to[2] < KvSize PROVE Sound(c, n, x, f[x])
      <4>1. x[2] > at[2] /\ at[2] < KvSize
        BY <1>1, <2>2, <2>3, <3>1 DEF Places
      <4> QED BY <4>1
    <3> QED BY <2>3, <3>1, SoundFits
  <2>6. ASSUME NEW j \in 0 .. KvSize - 1 - at[2], ~ f[to].found
        PROVE  ~ FreeAt(c, n, Start(at[1], j))
    <3>1. CASE at[1] + j < KvSize
      <4>1. Start(at[1], j) = at[1] + j /\ ~(at[1] + j + n <= KvSize)
        BY <1>1, <1>3, <3>1 DEF Start
      <4> QED BY <4>1 DEF FreeAt
    <3>2. CASE ~(at[1] + j < KvSize)
      <4>1. PICK k \in 0 .. KvSize - 1 - to[2] : k = at[1] + j - KvSize
        BY <1>1, <2>2, <3>2
      <4>2. Start(at[1], j) = k
        BY <3>2, <4>1 DEF Start
      <4>3. Start(to[1], k) = k
        <5>1. 0 + k < KvSize /\ 0 + k = k
          BY <1>1, <2>2, <4>1
        <5> QED BY <2>2, <5>1 DEF Start
      <4> QED BY <2>5, <2>6, <4>2, <4>3 DEF Sound
    <3> QED BY <3>1, <3>2
  <2> QED BY <2>4, <2>5, <2>6 DEF Sound
<1> QED BY <1>1, <1>2, <1>3

(* FindSlot finds free cells in a row if there are any.                    *)
LEMMA FindSlotWorks ==
  ASSUME NEW c, c.head \in 0 .. KvSize, NEW n \in Nat, NEW r, r = FindSlot(c, n)
  PROVE  /\ r.found \in BOOLEAN /\ r.head \in 0 .. KvSize
         /\ r.found => FreeAt(c, n, r.head)
         /\ ~ r.found => \A k \in Cells : ~ FreeAt(c, n, k)
<1>1. CASE n > KvSize
  <2>1. r = [found |-> FALSE, head |-> c.head]
    BY <1>1 DEF FindSlot
  <2>2. \A k \in Cells : ~(k + n <= KvSize)
    BY <1>1, RingSize DEF Cells
  <2> QED BY <2>1, <2>2 DEF FreeAt
<1>2. CASE ~(n > KvSize)
  <2>1. n \in 0 .. KvSize
    BY <1>2, RingSize
  <2> DEFINE search == CHOOSE f : Searches(c, n, f)
  <2>2. Searches(c, n, search)
    BY <2>1, SearchExists
  <2>3. r = search[<<c.head, 0>>]
    BY <1>2 DEF FindSlot, Searches, Probe, TakenAt, Places
  <2>4. PICK f : f = search
    OBVIOUS
  <2> HIDE DEF search
  <2>5. \A at \in Places : Sound(c, n, at, f[at])
    <3> DEFINE Right(b) == \A at \in Places : at[2] >= b => Sound(c, n, at, f[at])
               T == {b \in Nat : Right(b)}
    <3>1. Right(KvSize)
      <4> SUFFICES ASSUME NEW at \in Places, at[2] >= KvSize PROVE Sound(c, n, at, f[at])
        OBVIOUS
      <4>1. ~(at[2] < KvSize)
        BY RingSize DEF Places
      <4> QED BY <2>1, <2>2, <2>4, <4>1, SoundAt
    <3>2. PICK b \in T : \A m \in T : b <= m
      <4>1. T \subseteq Nat /\ KvSize \in T
        BY <3>1, RingSize
      <4> HIDE DEF T
      <4> QED BY <4>1, LeastElement
    <3>3. b = 0
      <4> SUFFICES ASSUME b # 0 PROVE FALSE
        OBVIOUS
      <4>1. PICK a \in Nat : b = a + 1
        BY b - 1 \in Nat
      <4>2. Right(a)
        <5> SUFFICES ASSUME NEW at \in Places, at[2] >= a PROVE Sound(c, n, at, f[at])
          OBVIOUS
        <5>1. ASSUME NEW to \in Places, to[2] > at[2] PROVE Sound(c, n, to, f[to])
          <6>1. to[2] >= b
            BY <4>1, <5>1 DEF Places
          <6> QED BY <6>1
        <5> QED BY <2>1, <2>2, <2>4, <5>1, SoundAt
      <4>3. a \in T
        BY <4>2
      <4> QED BY <3>2, <4>1, <4>3
    <3>4. \A at \in Places : at[2] >= 0
      BY DEF Places
    <3> QED BY <3>3, <3>4
  <2>6. PICK at \in Places : at = <<c.head, 0>> /\ at[1] = c.head /\ at[2] = 0
    BY PlaceAt
  <2>7. Sound(c, n, at, r)
    BY <2>3, <2>4, <2>5, <2>6
  <2>8. ASSUME NEW k \in Cells, ~ r.found PROVE ~ FreeAt(c, n, k)
    <3>1. PICK j \in 0 .. KvSize - 1 : Start(c.head, j) = k
      <4>1. CASE k >= c.head
        <5>1. k - c.head \in 0 .. KvSize - 1 /\ c.head + (k - c.head) = k /\ k < KvSize
          BY <4>1, RingSize DEF Cells
        <5> QED BY <5>1 DEF Start
      <4>2. CASE ~(k >= c.head)
        <5>1. PICK j \in 0 .. KvSize - 1 : j = k - c.head + KvSize
          BY <4>2, RingSize DEF Cells
        <5>2. ~(c.head + j < KvSize) /\ c.head + j - KvSize = k
          BY <5>1, RingSize DEF Cells
        <5> QED BY <5>2 DEF Start
      <4>3. k \in Int /\ c.head \in Int
        BY DEF Cells
      <4> QED BY <4>1, <4>2, <4>3
    <3>2. j \in 0 .. KvSize - 1 - at[2]
      BY <2>6, <3>1, RingSize
    <3> QED BY <2>6, <2>7, <2>8, <3>1, <3>2 DEF Sound
  <2> QED BY <2>7, <2>8 DEF Sound
<1> QED BY <1>1, <1>2

-----------------------------------------------------------------------------
(* The operations on the cache.                                            *)

(* There are finitely many cells.                                          *)
LEMMA CellsFinite ==
  ASSUME NEW S \in SUBSET Cells
  PROVE  IsFiniteSet(S) /\ Cardinality(S) \in Nat /\ Cardinality(S) <= KvSize
<1>1. IsFiniteSet(Cells) /\ Cardinality(Cells) = KvSize
  BY RingSize, IntervalSize DEF Cells
<1>2. IsFiniteSet(S) /\ Cardinality(S) <= Cardinality(Cells)
  BY <1>1, FS_Subset
<1> QED BY <1>1, <1>2, FS_CardinalityType

(* Counting cells that are freed and cells that are taken.                 *)
LEMMA CountLess ==
  ASSUME NEW S \in SUBSET Cells, NEW T \in SUBSET S
  PROVE  Cardinality(S \ T) = Cardinality(S) - Cardinality(T)
<1>1. IsFiniteSet(S) /\ IsFiniteSet(T)
  BY CellsFinite
<1>2. Cardinality(S \ T) = Cardinality(S) - Cardinality(S \cap T)
  BY <1>1, FS_Difference
<1>3. S \cap T = T
  OBVIOUS
<1> QED BY <1>2, <1>3

LEMMA CountMore ==
  ASSUME NEW S \in SUBSET Cells, NEW T \in SUBSET Cells, S \cap T = {}
  PROVE  Cardinality(S \cup T) = Cardinality(S) + Cardinality(T)
<1>1. IsFiniteSet(S) /\ IsFiniteSet(T) /\ Cardinality(S) \in Nat /\ Cardinality(T) \in Nat
  BY CellsFinite
<1>2. Cardinality(S \cup T) = Cardinality(S) + Cardinality(T) - Cardinality(S \cap T)
  BY <1>1, FS_Union
<1>3. Cardinality(S \cap T) = 0
  BY FS_EmptySet
<1> QED BY <1>1, <1>2, <1>3

(* The head after cells became free.                                       *)
LEMMA HeadFits ==
  ASSUME NEW c, c.head \in 0 .. KvSize, NEW S \in SUBSET Cells
  PROVE  HeadAt(c, S) \in 0 .. KvSize /\ (S # {} => Min(S) \in 0 .. KvSize)
<1>1. CASE S = {}
  BY <1>1 DEF HeadAt
<1>2. CASE S # {}
  <2>1. S \subseteq Nat
    BY DEF Cells
  <2>2. Min(S) \in S
    BY <1>2, <2>1, MinFound
  <2>3. Min(S) \in 0 .. KvSize
    <3>1. PICK m \in Cells : m = Min(S)
      BY <2>2
    <3>2. m \in 0 .. KvSize
      BY RingSize DEF Cells
    <3> QED BY <3>1, <3>2
  <2> QED BY <2>3 DEF HeadAt
<1> QED BY <1>1, <1>2

(* What llama_kv_cache_seq_rm does: sequence seq loses its cells from p0   *)
(* to p1, and the others none.                                             *)
Same(c, d, i) ==
  d.cells[i].pos = c.cells[i].pos /\ d.cells[i].delta = c.cells[i].delta /\ d.rows[i] = c.rows[i]
Trimmed(c, seq, p0, p1, d) ==
  /\ d.torn = IF p0 = 0 /\ p1 < 0 THEN c.torn \ {seq} ELSE c.torn
  /\ \A s \in SeqIds : s # seq => Has(d, s) = Has(c, s)
  /\ Has(d, seq) = {i \in Has(c, seq) : ~ Within(c.cells[i], p0, p1)}
  /\ \A i \in Owned(d.cells) : Same(c, d, i)

LEMMA SeqRmWorks ==
  ASSUME NEW c, CacheOK(c), NEW seq \in SeqIds \cup {-1}, NEW p0 \in Nat, NEW p1 \in Int,
         NEW d, d = SeqRm(c, seq, p0, p1)
  PROVE  CacheOK(d) /\ (seq \in SeqIds => Trimmed(c, seq, p0, p1, d))
<1> DEFINE hit == {i \in Cells : Within(c.cells[i], p0, p1) /\ (seq < 0 \/ seq \in c.cells[i].seqs)}
           freed == {i \in hit : seq < 0 \/ c.cells[i].seqs = {seq}}
           x == [i \in Cells |->
                  IF i \in freed THEN [c.cells[i] EXCEPT !.pos = -1, !.seqs = {}]
                  ELSE IF i \in hit THEN [c.cells[i] EXCEPT !.seqs = @ \ {seq}] ELSE c.cells[i]]
           y == [i \in Cells |-> IF x[i].seqs = {} THEN NoRow ELSE c.rows[i]]
           t == IF p0 = 0 /\ p1 < 0 THEN c.torn \ {seq} ELSE c.torn
<1>1. /\ c.cells \in [Cells -> CellT] /\ c.rows \in [Cells -> Row \cup {NoRow}]
      /\ c.head \in 0 .. KvSize /\ c.has_shift \in BOOLEAN /\ c.torn \in SUBSET SeqIds
      /\ c.used = Cardinality(Owned(c.cells))
      /\ \A i \in Cells : c.cells[i].seqs # {} <=> c.cells[i].pos >= 0
  BY DEF CacheOK, CacheT, Counted
<1>2. d = [cells |-> x, rows |-> y, head |-> HeadAt(c, freed),
           used |-> c.used - Cardinality(freed), has_shift |-> c.has_shift, torn |-> t]
  <2>1. c = [cells |-> c.cells, rows |-> c.rows, head |-> c.head, used |-> c.used,
             has_shift |-> c.has_shift, torn |-> c.torn]
    BY DEF CacheOK, CacheT
  <2> QED BY <2>1 DEF SeqRm, Forget
<1>3. seq \in Int /\ (seq \in SeqIds => ~(seq < 0))
  BY DEF SeqIds
<1>4. /\ hit \subseteq Cells /\ freed \subseteq hit
      /\ \A i \in hit : Within(c.cells[i], p0, p1) /\ (seq < 0 \/ seq \in c.cells[i].seqs)
      /\ \A i \in Cells : Within(c.cells[i], p0, p1) /\ (seq < 0 \/ seq \in c.cells[i].seqs) => i \in hit
      /\ \A i \in hit : i \in freed <=> seq < 0 \/ c.cells[i].seqs = {seq}
  OBVIOUS
<1>5. \A i \in Cells : x[i] = IF i \in freed THEN [c.cells[i] EXCEPT !.pos = -1, !.seqs = {}]
                              ELSE IF i \in hit THEN [c.cells[i] EXCEPT !.seqs = @ \ {seq}]
                              ELSE c.cells[i]
  OBVIOUS
<1>6. \A i \in Cells : y[i] = IF x[i].seqs = {} THEN NoRow ELSE c.rows[i]
  OBVIOUS
<1>7. x = [i \in Cells |-> x[i]] /\ y = [i \in Cells |-> y[i]]
  OBVIOUS
<1> HIDE DEF hit, freed, x, y
<1>8. \A i \in hit : c.cells[i].pos >= 0 /\ c.cells[i].seqs # {}
  BY <1>1, <1>4 DEF Within, CellT
<1>9. ASSUME NEW i \in Cells
      PROVE  /\ x[i] \in CellT
             /\ x[i].delta = c.cells[i].delta
             /\ i \in freed => x[i].pos = -1 /\ x[i].seqs = {}
             /\ i \notin freed => x[i].pos = c.cells[i].pos /\ (x[i].seqs = {} <=> c.cells[i].seqs = {})
             /\ i \in hit /\ i \notin freed => x[i].seqs = c.cells[i].seqs \ {seq}
             /\ i \notin hit => x[i].seqs = c.cells[i].seqs
  <2>1. c.cells[i] \in CellT
    BY <1>1
  <2>2. CASE i \in freed
    <3>1. x[i] = [c.cells[i] EXCEPT !.pos = -1, !.seqs = {}] /\ i \in hit
      BY <1>4, <1>5, <2>2
    <3>2. /\ x[i].pos = -1 /\ x[i].seqs = {} /\ x[i].delta = c.cells[i].delta
          /\ x[i] \in CellT
      <4>1. PICK u \in CellT : u = c.cells[i]
        BY <2>1
      <4>2. PICK v : v = [u EXCEPT !.pos = -1, !.seqs = {}]
        OBVIOUS
      <4>3. v = [pos |-> -1, delta |-> u.delta, seqs |-> {}]
        BY <4>2 DEF CellT
      <4>4. v \in CellT
        BY <4>3 DEF CellT
      <4> QED BY <3>1, <4>1, <4>2, <4>3, <4>4
    <3> QED BY <2>2, <3>1, <3>2
  <2>3. CASE i \in hit /\ i \notin freed
    <3>1. x[i] = [c.cells[i] EXCEPT !.seqs = @ \ {seq}]
      BY <1>5, <2>3
    <3>2. c.cells[i].seqs \ {seq} # {}
      BY <1>4, <1>8, <2>3
    <3> QED BY <1>8, <2>1, <2>3, <3>1, <3>2 DEF CellT
  <2>4. CASE i \notin hit
    <3>1. x[i] = c.cells[i] /\ i \notin freed
      BY <1>4, <1>5, <2>4
    <3> QED BY <2>1, <2>4, <3>1
  <2> QED BY <2>2, <2>3, <2>4
<1>10. Owned(x) = Owned(c.cells) \ freed
  BY <1>9 DEF Owned
<1>11. freed \in SUBSET Owned(c.cells) /\ Owned(c.cells) \in SUBSET Cells
  BY <1>4, <1>8 DEF Owned
<1>12. CacheT(d)
  <2>1. x \in [Cells -> CellT]
    BY <1>7, <1>9
  <2>2. y \in [Cells -> Row \cup {NoRow}]
    BY <1>1, <1>6, <1>7
  <2>3. HeadAt(c, freed) \in 0 .. KvSize
    <3>1. freed \in SUBSET Cells
      BY <1>4
    <3> QED BY <1>1, <3>1, HeadFits
  <2>4. t \in SUBSET SeqIds
    BY <1>1
  <2> HIDE DEF t
  <2> QED BY <1>1, <1>2, <2>1, <2>2, <2>3, <2>4 DEF CacheT
<1>13. Counted(d)
  <2>1. Cardinality(Owned(x)) = Cardinality(Owned(c.cells)) - Cardinality(freed)
    BY <1>10, <1>11, CountLess
  <2>2. \A i \in Cells : x[i].seqs # {} <=> x[i].pos >= 0
    BY <1>1, <1>9
  <2> QED BY <1>1, <1>2, <2>1, <2>2 DEF Counted
<1>14. Rotated(d)
  BY <1>2, <1>9 DEF Rotated, CacheOK
<1>15. ASSUME seq \in SeqIds PROVE Trimmed(c, seq, p0, p1, d)
  <2>1. d.cells = x /\ d.rows = y /\ d.torn = t
    BY <1>2
  <2>2. ASSUME NEW s \in SeqIds, s # seq PROVE Has(d, s) = Has(c, s)
    <3>1. ASSUME NEW i \in Cells PROVE s \in x[i].seqs <=> s \in c.cells[i].seqs
      BY <1>3, <1>4, <1>9, <1>15, <2>2
    <3> QED BY <2>1, <3>1 DEF Has
  <2>3. Has(d, seq) = {i \in Has(c, seq) : ~ Within(c.cells[i], p0, p1)}
    <3>1. ASSUME NEW i \in Cells
          PROVE  seq \in x[i].seqs <=> seq \in c.cells[i].seqs /\ ~ Within(c.cells[i], p0, p1)
      BY <1>3, <1>4, <1>9, <1>15
    <3> QED BY <2>1, <3>1 DEF Has
  <2>4. ASSUME NEW i \in Owned(d.cells) PROVE Same(c, d, i)
    <3>1. i \in Cells /\ x[i].seqs # {}
      BY <2>1 DEF Owned
    <3> QED BY <1>6, <1>9, <2>1, <3>1 DEF Same
  <2> QED BY <2>1, <2>2, <2>3, <2>4 DEF Trimmed
<1> QED BY <1>12, <1>13, <1>14, <1>15 DEF CacheOK

(* What llama_kv_cache_seq_cp does: dst joins the cells of src.            *)
Copied(c, src, dst, p0, p1, d) ==
  /\ d.torn = IF src \in c.torn THEN c.torn \cup {dst} ELSE c.torn \ {dst}
  /\ \A s \in SeqIds : s # dst => Has(d, s) = Has(c, s)
  /\ Has(d, dst) = Has(c, dst) \cup {i \in Has(c, src) : Within(c.cells[i], p0, p1)}
  /\ \A i \in Cells : Same(c, d, i)

LEMMA SeqCpWorks ==
  ASSUME NEW c, CacheOK(c), NEW src \in SeqIds, NEW dst \in SeqIds, NEW p0, NEW p1,
         NEW d, d = SeqCp(c, src, dst, p0, p1)
  PROVE  CacheOK(d) /\ Copied(c, src, dst, p0, p1, d)
<1> DEFINE x == [i \in Cells |-> IF src \in c.cells[i].seqs /\ Within(c.cells[i], p0, p1)
                                 THEN [c.cells[i] EXCEPT !.seqs = @ \cup {dst}] ELSE c.cells[i]]
           t == IF src \in c.torn THEN c.torn \cup {dst} ELSE c.torn \ {dst}
<1>1. /\ c.cells \in [Cells -> CellT] /\ c.rows \in [Cells -> Row \cup {NoRow}]
      /\ c.has_shift \in BOOLEAN /\ c.torn \in SUBSET SeqIds
      /\ c.used = Cardinality(Owned(c.cells))
      /\ \A i \in Cells : c.cells[i].seqs # {} <=> c.cells[i].pos >= 0
  BY DEF CacheOK, CacheT, Counted
<1>2. d = [cells |-> x, rows |-> c.rows, head |-> 0, used |-> c.used,
           has_shift |-> c.has_shift, torn |-> t]
  <2>1. c = [cells |-> c.cells, rows |-> c.rows, head |-> c.head, used |-> c.used,
             has_shift |-> c.has_shift, torn |-> c.torn]
    BY DEF CacheOK, CacheT
  <2> QED BY <2>1 DEF SeqCp
<1>3. \A i \in Cells : x[i] = IF src \in c.cells[i].seqs /\ Within(c.cells[i], p0, p1)
                              THEN [c.cells[i] EXCEPT !.seqs = @ \cup {dst}] ELSE c.cells[i]
  OBVIOUS
<1>4. x = [i \in Cells |-> x[i]]
  OBVIOUS
<1> HIDE DEF x
<1>5. ASSUME NEW i \in Cells
      PROVE  /\ x[i] \in CellT /\ x[i].pos = c.cells[i].pos /\ x[i].delta = c.cells[i].delta
             /\ x[i].seqs = IF src \in c.cells[i].seqs /\ Within(c.cells[i], p0, p1)
                            THEN c.cells[i].seqs \cup {dst} ELSE c.cells[i].seqs
  <2>1. PICK u \in CellT : u = c.cells[i]
    BY <1>1
  <2>2. [u EXCEPT !.seqs = @ \cup {dst}] = [pos |-> u.pos, delta |-> u.delta, seqs |-> u.seqs \cup {dst}]
    BY DEF CellT
  <2>3. [pos |-> u.pos, delta |-> u.delta, seqs |-> u.seqs \cup {dst}] \in CellT
    BY DEF CellT
  <2> QED BY <1>3, <2>1, <2>2, <2>3
<1>6. Owned(x) = Owned(c.cells)
  BY <1>5 DEF Owned
<1>7. CacheT(d)
  <2>1. x \in [Cells -> CellT]
    BY <1>4, <1>5
  <2>2. t \in SUBSET SeqIds
    BY <1>1
  <2>3. 0 \in 0 .. KvSize
    BY RingSize
  <2> HIDE DEF t
  <2> QED BY <1>1, <1>2, <2>1, <2>2, <2>3 DEF CacheT
<1>8. Counted(d)
  <2>1. \A i \in Cells : x[i].seqs # {} <=> x[i].pos >= 0
    BY <1>1, <1>5
  <2> QED BY <1>1, <1>2, <1>6, <2>1 DEF Counted
<1>9. Rotated(d)
  <2>1. d.cells = x /\ d.has_shift = c.has_shift
    BY <1>2
  <2>2. \A i \in Cells : x[i].delta = c.cells[i].delta
    BY <1>5
  <2> QED BY <2>1, <2>2 DEF Rotated, CacheOK
<1>10. Copied(c, src, dst, p0, p1, d)
  <2>1. d.cells = x /\ d.rows = c.rows /\ d.torn = t
    BY <1>2
  <2>2. ASSUME NEW s \in SeqIds, s # dst PROVE Has(d, s) = Has(c, s)
    BY <1>5, <2>1, <2>2 DEF Has
  <2>3. Has(d, dst) = Has(c, dst) \cup {i \in Has(c, src) : Within(c.cells[i], p0, p1)}
    BY <1>5, <2>1 DEF Has
  <2>4. \A i \in Cells : Same(c, d, i)
    BY <1>5, <2>1 DEF Same
  <2> QED BY <2>1, <2>2, <2>3, <2>4 DEF Copied
<1> QED BY <1>7, <1>8, <1>9, <1>10 DEF CacheOK

(* What llama_kv_cache_seq_add does: the cells of seq from p0 to p1 move   *)
(* by delta; a sequence that shares one of them is torn.                   *)
Moved(c, seq, p0, p1, delta, d) ==
  /\ c.torn \subseteq d.torn /\ (seq \in d.torn => seq \in c.torn)
  /\ \A s \in SeqIds \ d.torn : s # seq =>
       Has(d, s) = Has(c, s) /\ \A i \in Has(c, s) : Same(c, d, i)
  /\ Has(d, seq) = {i \in Has(c, seq) : Within(c.cells[i], p0, p1) => c.cells[i].pos + delta >= 0}
  /\ \A i \in Has(d, seq) :
       /\ d.rows[i] = c.rows[i]
       /\ IF Within(c.cells[i], p0, p1)
          THEN d.cells[i].pos = c.cells[i].pos + delta /\ d.cells[i].delta = c.cells[i].delta + delta
          ELSE d.cells[i].pos = c.cells[i].pos /\ d.cells[i].delta = c.cells[i].delta

LEMMA SeqAddWorks ==
  ASSUME NEW c, CacheOK(c), NEW seq \in SeqIds, NEW p0 \in Nat, NEW p1 \in Nat, NEW delta \in Int,
         NEW d, d = SeqAdd(c, seq, p0, p1, delta)
  PROVE  CacheOK(d) /\ Moved(c, seq, p0, p1, delta, d)
<1> DEFINE hit == {i \in Cells : seq \in c.cells[i].seqs /\ Within(c.cells[i], p0, p1)}
           gone == {i \in hit : c.cells[i].pos + delta < 0}
           x == [i \in Cells |->
                  IF i \in gone THEN [c.cells[i] EXCEPT !.pos = -1, !.delta = @ + delta, !.seqs = {}]
                  ELSE IF i \in hit THEN [c.cells[i] EXCEPT !.pos = @ + delta, !.delta = @ + delta]
                  ELSE c.cells[i]]
           y == [i \in Cells |-> IF x[i].seqs = {} THEN NoRow ELSE c.rows[i]]
           t == c.torn \cup ((UNION {c.cells[i].seqs : i \in hit}) \ {seq})
           h == IF gone # {} THEN Min(gone) ELSE 0
<1>1. /\ c.cells \in [Cells -> CellT] /\ c.rows \in [Cells -> Row \cup {NoRow}]
      /\ c.head \in 0 .. KvSize /\ c.has_shift \in BOOLEAN /\ c.torn \in SUBSET SeqIds
      /\ c.used = Cardinality(Owned(c.cells))
      /\ \A i \in Cells : c.cells[i].seqs # {} <=> c.cells[i].pos >= 0
      /\ \A i \in Cells : c.cells[i].pos \in Int
  BY DEF CacheOK, CacheT, Counted, CellT
<1>2. CASE p0 = p1
  <2>1. d = c
    BY <1>2 DEF SeqAdd
  <2>2. \A i \in Cells : ~ Within(c.cells[i], p0, p1)
    BY <1>1, <1>2 DEF Within
  <2> QED BY <2>1, <2>2 DEF Moved, Same, Has
<1>3. CASE p0 # p1
  <2>1. d = [cells |-> x, rows |-> y, head |-> h, used |-> c.used - Cardinality(gone),
             has_shift |-> c.has_shift \/ hit # {}, torn |-> t]
    <3>1. c = [cells |-> c.cells, rows |-> c.rows, head |-> c.head, used |-> c.used,
               has_shift |-> c.has_shift, torn |-> c.torn]
      BY DEF CacheOK, CacheT
    <3> QED BY <1>3, <3>1 DEF SeqAdd, Forget
  <2>2. /\ hit \subseteq Cells /\ gone \subseteq hit
        /\ \A i \in Cells : i \in hit <=> seq \in c.cells[i].seqs /\ Within(c.cells[i], p0, p1)
        /\ \A i \in hit : i \in gone <=> c.cells[i].pos + delta < 0
    OBVIOUS
  <2>3. \A i \in Cells : x[i] =
          IF i \in gone THEN [c.cells[i] EXCEPT !.pos = -1, !.delta = @ + delta, !.seqs = {}]
          ELSE IF i \in hit THEN [c.cells[i] EXCEPT !.pos = @ + delta, !.delta = @ + delta]
          ELSE c.cells[i]
    OBVIOUS
  <2>4. \A i \in Cells : y[i] = IF x[i].seqs = {} THEN NoRow ELSE c.rows[i]
    OBVIOUS
  <2>5. x = [i \in Cells |-> x[i]] /\ y = [i \in Cells |-> y[i]]
    OBVIOUS
  <2>6. \A s : s \in t <=> s \in c.torn \/ (s # seq /\ \E i \in hit : s \in c.cells[i].seqs)
    <3> HIDE DEF hit
    <3>1. PICK U : U = UNION {c.cells[i].seqs : i \in hit}
      OBVIOUS
    <3>2. \A s : s \in U <=> \E i \in hit : s \in c.cells[i].seqs
      BY <3>1
    <3>3. t = c.torn \cup (U \ {seq})
      BY <3>1, Zenon
    <3> HIDE DEF t
    <3> QED BY <3>2, <3>3
  <2>7. h \in 0 .. KvSize
    <3>1. gone \in SUBSET Cells /\ 0 \in 0 .. KvSize
      BY RingSize
    <3> HIDE DEF gone
    <3> QED BY <1>1, <3>1, HeadFits
  <2> HIDE DEF hit, gone, x, y, t, h
  <2>8. ASSUME NEW i \in Cells
        PROVE  /\ x[i] \in CellT
               /\ i \in gone => x[i].pos = -1 /\ x[i].seqs = {}
               /\ i \notin gone => x[i].seqs = c.cells[i].seqs
               /\ i \in hit /\ i \notin gone => /\ x[i].pos = c.cells[i].pos + delta
                                                /\ x[i].delta = c.cells[i].delta + delta
               /\ i \notin hit => x[i] = c.cells[i]
    <3>1. PICK u \in CellT : u = c.cells[i]
      BY <1>1
    <3>2. u.pos + delta \in Int /\ u.delta + delta \in Int
      BY DEF CellT
    <3>3. CASE i \in gone
      <4>1. x[i] = [u EXCEPT !.pos = -1, !.delta = @ + delta, !.seqs = {}] /\ i \in hit
        BY <2>2, <2>3, <3>1, <3>3
      <4>2. x[i] = [pos |-> -1, delta |-> u.delta + delta, seqs |-> {}]
        BY <4>1 DEF CellT
      <4>3. x[i] \in CellT
        BY <3>2, <4>2 DEF CellT
      <4> QED BY <3>3, <4>1, <4>2, <4>3
    <3>4. CASE i \in hit /\ i \notin gone
      <4>1. x[i] = [u EXCEPT !.pos = @ + delta, !.delta = @ + delta]
        BY <2>3, <3>1, <3>4
      <4>2. x[i] = [pos |-> u.pos + delta, delta |-> u.delta + delta, seqs |-> u.seqs]
        BY <4>1 DEF CellT
      <4>3. x[i] \in CellT
        BY <3>2, <4>2 DEF CellT
      <4> QED BY <3>1, <3>4, <4>2, <4>3
    <3>5. CASE i \notin hit
      <4>1. x[i] = c.cells[i] /\ i \notin gone
        BY <2>2, <2>3, <3>5
      <4> QED BY <3>1, <3>5, <4>1
    <3> QED BY <3>3, <3>4, <3>5
  <2>9. \A i \in hit : c.cells[i].seqs # {}
    BY <2>2
  <2>10. Owned(x) = Owned(c.cells) \ gone
    BY <2>8 DEF Owned
  <2>11. gone \in SUBSET Owned(c.cells) /\ Owned(c.cells) \in SUBSET Cells
    BY <2>2, <2>9 DEF Owned
  <2>12. CacheT(d)
    <3>1. x \in [Cells -> CellT]
      BY <2>5, <2>8
    <3>2. y \in [Cells -> Row \cup {NoRow}]
      BY <1>1, <2>4, <2>5
    <3>3. t \in SUBSET SeqIds
      BY <1>1, <2>2, <2>6 DEF CellT
    <3> QED BY <1>1, <2>1, <2>7, <3>1, <3>2, <3>3 DEF CacheT
  <2>13. Counted(d)
    <3>1. Cardinality(Owned(x)) = Cardinality(Owned(c.cells)) - Cardinality(gone)
      BY <2>10, <2>11, CountLess
    <3>2. ASSUME NEW i \in Cells PROVE x[i].seqs # {} <=> x[i].pos >= 0
      <4>1. CASE i \in gone
        BY <2>8, <4>1
      <4>2. CASE i \in hit /\ i \notin gone
        BY <1>1, <2>2, <2>8, <2>9, <4>2
      <4>3. CASE i \notin hit
        BY <1>1, <2>8, <4>3
      <4> QED BY <4>1, <4>2, <4>3
    <3> QED BY <1>1, <2>1, <3>1, <3>2 DEF Counted
  <2>14. Rotated(d)
    <3>1. d.cells = x /\ d.has_shift = (c.has_shift \/ hit # {})
      BY <2>1
    <3>2. hit = {} => \A i \in Cells : x[i] = c.cells[i]
      BY <2>8
    <3>3. d.has_shift \/ (~ c.has_shift /\ hit = {})
      BY <3>1
    <3> QED BY <3>1, <3>2, <3>3 DEF Rotated, CacheOK
  <2>15. Moved(c, seq, p0, p1, delta, d)
    <3>1. d.cells = x /\ d.rows = y /\ d.torn = t
      BY <2>1
    <3>2. c.torn \subseteq t /\ (seq \in t => seq \in c.torn)
      BY <2>6
    <3>3. ASSUME NEW s \in SeqIds \ t, s # seq
          PROVE  Has(d, s) = Has(c, s) /\ \A i \in Has(c, s) : Same(c, d, i)
      <4>1. \A i \in hit : s \notin c.cells[i].seqs
        BY <2>6, <3>3
      <4>2. \A i \in Cells : i \in hit => s \notin x[i].seqs
        BY <2>8, <4>1
      <4>3. Has(d, s) = Has(c, s)
        BY <2>8, <3>1, <4>1, <4>2 DEF Has
      <4>4. ASSUME NEW i \in Has(c, s) PROVE Same(c, d, i)
        <5>1. i \in Cells /\ i \notin hit /\ c.cells[i].seqs # {}
          BY <4>1 DEF Has
        <5>2. x[i] = c.cells[i] /\ y[i] = c.rows[i]
          BY <2>4, <2>8, <5>1
        <5> QED BY <3>1, <5>2 DEF Same
      <4> QED BY <4>3, <4>4
    <3>4. Has(d, seq) = {i \in Has(c, seq) :
                           Within(c.cells[i], p0, p1) => c.cells[i].pos + delta >= 0}
      <4>1. ASSUME NEW i \in Cells
            PROVE  seq \in x[i].seqs <=>
                     /\ seq \in c.cells[i].seqs
                     /\ Within(c.cells[i], p0, p1) => c.cells[i].pos + delta >= 0
        BY <1>1, <2>2, <2>8
      <4> QED BY <3>1, <4>1 DEF Has
    <3>5. ASSUME NEW i \in Has(d, seq)
          PROVE  /\ d.rows[i] = c.rows[i]
                 /\ IF Within(c.cells[i], p0, p1)
                    THEN /\ d.cells[i].pos = c.cells[i].pos + delta
                         /\ d.cells[i].delta = c.cells[i].delta + delta
                    ELSE d.cells[i].pos = c.cells[i].pos /\ d.cells[i].delta = c.cells[i].delta
      <4>1. i \in Cells /\ seq \in x[i].seqs /\ i \notin gone /\ seq \in c.cells[i].seqs
        BY <2>8, <3>1 DEF Has
      <4>2. y[i] = c.rows[i]
        BY <2>4, <4>1
      <4> QED BY <2>2, <2>8, <3>1, <4>1, <4>2
    <3> QED BY <3>1, <3>2, <3>3, <3>4, <3>5 DEF Moved
  <2> QED BY <2>12, <2>13, <2>14, <2>15 DEF CacheOK
<1> QED BY <1>2, <1>3

(* The K-shift rotates the keys to their positions.                        *)
Turned(c, d) ==
  /\ d.torn = c.torn /\ d.used = c.used /\ d.head = c.head
  /\ \A i \in Cells :
       /\ d.cells[i] = [pos |-> c.cells[i].pos, delta |-> 0, seqs |-> c.cells[i].seqs]
       /\ IF c.rows[i] = NoRow THEN d.rows[i] = NoRow
          ELSE d.rows[i] = [tok |-> c.rows[i].tok, at |-> c.rows[i].at + c.cells[i].delta]

LEMMA KShiftWorks ==
  ASSUME NEW c, CacheOK(c), NEW d, d = KShift(c)
  PROVE  CacheOK(d) /\ Turned(c, d)
<1>1. /\ c.cells \in [Cells -> CellT] /\ c.rows \in [Cells -> Row \cup {NoRow}]
      /\ c.head \in 0 .. KvSize /\ c.has_shift \in BOOLEAN /\ c.torn \in SUBSET SeqIds
      /\ c.used = Cardinality(Owned(c.cells))
      /\ \A i \in Cells : c.cells[i].seqs # {} <=> c.cells[i].pos >= 0
      /\ c = [cells |-> c.cells, rows |-> c.rows, head |-> c.head, used |-> c.used,
              has_shift |-> c.has_shift, torn |-> c.torn]
  BY DEF CacheOK, CacheT, Counted
<1>2. \A i \in Cells :
        c.cells[i].pos \in Int /\ c.cells[i].delta \in Int /\ c.cells[i].seqs \in SUBSET SeqIds
  BY <1>1 DEF CellT
<1>6. \A i \in Cells :
        c.cells[i] = [pos |-> c.cells[i].pos, delta |-> c.cells[i].delta, seqs |-> c.cells[i].seqs]
  BY <1>1 DEF CellT
<1>3. \A i \in Cells : c.rows[i] # NoRow =>
        /\ c.rows[i] = [tok |-> c.rows[i].tok, at |-> c.rows[i].at]
        /\ c.rows[i].tok \in Tokens /\ c.rows[i].at \in Int
  <2>1. \A i \in Cells : c.rows[i] # NoRow => c.rows[i] \in Row
    BY <1>1
  <2>2. \A u \in Row : u = [tok |-> u.tok, at |-> u.at] /\ u.tok \in Tokens /\ u.at \in Int
    BY DEF Row
  <2> QED BY <2>1, <2>2
<1>4. CASE ~ c.has_shift
  <2>1. d = c
    BY <1>4 DEF KShift
  <2>2. \A i \in Cells : c.cells[i].delta = 0
    BY <1>4 DEF CacheOK, Rotated
  <2>3. ASSUME NEW i \in Cells, c.rows[i] # NoRow
        PROVE  c.rows[i] = [tok |-> c.rows[i].tok, at |-> c.rows[i].at + c.cells[i].delta]
    <3>1. c.rows[i].at + c.cells[i].delta = c.rows[i].at
      <4>1. c.rows[i].at \in Int /\ c.cells[i].delta = 0
        BY <1>3, <2>2, <2>3
      <4> QED BY <4>1
    <3> QED BY <1>3, <2>3, <3>1
  <2>4. \A i \in Cells : c.cells[i] = [pos |-> c.cells[i].pos, delta |-> 0, seqs |-> c.cells[i].seqs]
    BY <1>6, <2>2
  <2> QED BY <2>1, <2>3, <2>4 DEF Turned
<1>5. CASE c.has_shift
  <2> DEFINE x == [i \in Cells |-> [c.cells[i] EXCEPT !.delta = 0]]
             y == [i \in Cells |-> IF c.rows[i] = NoRow THEN NoRow
                                   ELSE [c.rows[i] EXCEPT !.at = @ + c.cells[i].delta]]
  <2>1. d = [cells |-> x, rows |-> y, head |-> c.head, used |-> c.used, has_shift |-> FALSE,
             torn |-> c.torn]
    BY <1>1, <1>5 DEF KShift
  <2>2. \A i \in Cells : x[i] = [c.cells[i] EXCEPT !.delta = 0]
    OBVIOUS
  <2>3. \A i \in Cells : y[i] = IF c.rows[i] = NoRow THEN NoRow
                                ELSE [c.rows[i] EXCEPT !.at = @ + c.cells[i].delta]
    OBVIOUS
  <2>4. x = [i \in Cells |-> x[i]] /\ y = [i \in Cells |-> y[i]]
    OBVIOUS
  <2> HIDE DEF x, y
  <2>5. ASSUME NEW i \in Cells
        PROVE  /\ x[i] = [pos |-> c.cells[i].pos, delta |-> 0, seqs |-> c.cells[i].seqs]
               /\ x[i] \in CellT
               /\ x[i].seqs = c.cells[i].seqs /\ x[i].pos = c.cells[i].pos /\ x[i].delta = 0
    <3>1. x[i] = [pos |-> c.cells[i].pos, delta |-> 0, seqs |-> c.cells[i].seqs]
      BY <1>6, <2>2
    <3>2. c.cells[i].pos \in Int /\ 0 \in Int /\ c.cells[i].seqs \in SUBSET SeqIds
      BY <1>2
    <3> QED BY <3>1, <3>2 DEF CellT
  <2>6. ASSUME NEW i \in Cells, c.rows[i] # NoRow
        PROVE  /\ y[i] = [tok |-> c.rows[i].tok, at |-> c.rows[i].at + c.cells[i].delta]
               /\ y[i] \in Row
    <3>1. y[i] = [tok |-> c.rows[i].tok, at |-> c.rows[i].at + c.cells[i].delta]
      BY <1>3, <2>3, <2>6
    <3>2. c.rows[i].at \in Int /\ c.cells[i].delta \in Int /\ c.rows[i].tok \in Tokens
      BY <1>2, <1>3, <2>6
    <3>3. c.rows[i].at + c.cells[i].delta \in Int
      BY <3>2
    <3> QED BY <3>1, <3>2, <3>3 DEF Row
  <2>7. Turned(c, d)
    <3>1. d.cells = x /\ d.rows = y /\ d.torn = c.torn /\ d.used = c.used /\ d.head = c.head
      BY <2>1
    <3> QED BY <2>3, <2>5, <2>6, <3>1 DEF Turned
  <2>8. x \in [Cells -> CellT] /\ y \in [Cells -> Row \cup {NoRow}]
    BY <2>3, <2>4, <2>5, <2>6
  <2>9. Owned(x) = Owned(c.cells)
    <3>1. \A i \in Cells : x[i].seqs = c.cells[i].seqs
      BY <2>5
    <3> QED BY <3>1 DEF Owned
  <2>10. CacheT(d)
    BY <1>1, <2>1, <2>8 DEF CacheT
  <2>11. Counted(d) /\ Rotated(d)
    <3>1. \A i \in Cells : /\ x[i].seqs = c.cells[i].seqs /\ x[i].pos = c.cells[i].pos
                           /\ x[i].delta = 0
      BY <2>5
    <3> QED BY <1>1, <2>1, <2>9, <3>1 DEF Counted, Rotated
  <2> QED BY <2>7, <2>10, <2>11 DEF CacheOK
<1> QED BY <1>1, <1>4, <1>5

(* Of more than r cells one has exactly r others above it.                 *)
LEMMA RankExists ==
  ASSUME NEW S \in SUBSET Cells, NEW r \in Nat, r < Cardinality(S)
  PROVE  \E s \in S : Cardinality({k \in S : k > s}) = r
<1> DEFINE T(n) == {k \in S : k >= n}
           U == {n \in 0 .. KvSize : Cardinality(T(n)) <= r}
<1>1. \A k \in S : k \in Nat /\ k < KvSize
  BY RingSize DEF Cells
<1>2. T(0) = S /\ T(KvSize) = {}
  BY <1>1, RingSize
<1>3. \A n : T(n) \in SUBSET Cells /\ Cardinality(T(n)) \in Nat /\ IsFiniteSet(T(n))
  <2> SUFFICES ASSUME NEW n
               PROVE  T(n) \in SUBSET Cells /\ Cardinality(T(n)) \in Nat /\ IsFiniteSet(T(n))
    OBVIOUS
  <2>1. T(n) \in SUBSET Cells
    OBVIOUS
  <2> HIDE DEF T
  <2> QED BY <2>1, CellsFinite
<1>4. ASSUME NEW n \in Nat
      PROVE  /\ n \in S => T(n) = T(n + 1) \cup {n} /\ n \notin T(n + 1)
             /\ n \notin S => T(n) = T(n + 1)
             /\ T(n + 1) = {k \in S : k > n}
  BY <1>1
<1>5. U \subseteq Nat /\ KvSize \in U
  <2>1. Cardinality(T(KvSize)) = 0
    BY <1>2, FS_EmptySet
  <2> HIDE DEF T
  <2> QED BY <2>1, RingSize
<1>6. PICK m \in U : \A n \in U : m <= n
  <2> HIDE DEF U
  <2> QED BY <1>5, LeastElement
<1>7. m \in 0 .. KvSize /\ Cardinality(T(m)) <= r
  <2> HIDE DEF T
  <2> QED BY <1>6
<1>8. m # 0
  <2>1. m = 0 => T(m) = S
    BY <1>2
  <2>2. Cardinality(S) \in Nat
    BY CellsFinite
  <2> HIDE DEF T
  <2> QED BY <1>7, <2>1, <2>2
<1>9. PICK n \in Nat : m = n + 1 /\ n \in 0 .. KvSize
  <2>1. m - 1 \in Nat /\ m = (m - 1) + 1 /\ m - 1 \in 0 .. KvSize
    BY <1>7, <1>8, RingSize
  <2> QED BY <2>1
<1>10. ~(Cardinality(T(n)) <= r)
  <2>1. n \notin U
    <3>1. ~(m <= n)
      BY <1>9
    <3> QED BY <1>6, <3>1
  <2> HIDE DEF T
  <2> QED BY <1>9, <2>1
<1>11. n \in S
  <2>1. n \notin S => T(n) = T(m)
    BY <1>4, <1>9
  <2> HIDE DEF T
  <2> QED BY <1>7, <1>10, <2>1
<1>12. Cardinality(T(n)) = Cardinality(T(m)) + 1
  <2>1. T(n) = T(m) \cup {n} /\ n \notin T(m)
    BY <1>4, <1>9, <1>11
  <2> HIDE DEF T
  <2> QED BY <1>3, <2>1, FS_AddElement
<1>13. T(m) = {k \in S : k > n}
  BY <1>4, <1>9
<1>14. Cardinality(T(m)) = r
  <2> HIDE DEF T
  <2>1. Cardinality(T(m)) \in Nat /\ Cardinality(T(n)) \in Nat
    BY <1>3
  <2> QED BY <1>7, <1>10, <1>12, <2>1
<1> HIDE DEF T
<1> QED BY <1>11, <1>13, <1>14

(* The run of holes around a hole.                                         *)
LEMMA RunBounds ==
  ASSUME NEW c, Holes(c) \subseteq Cells, NEW h \in Holes(c)
  PROVE  /\ RunStart(c, h) \in Holes(c) /\ RunStart(c, h) <= h
         /\ RunStart(c, h) .. h \subseteq Holes(c)
         /\ \A a \in Holes(c) : a <= h /\ a .. h \subseteq Holes(c) => RunStart(c, h) <= a
         /\ RunEnd(c, h) \in Holes(c) /\ RunEnd(c, h) >= h
         /\ h .. RunEnd(c, h) \subseteq Holes(c)
         /\ \A b \in Holes(c) : b >= h /\ h .. b \subseteq Holes(c) => b <= RunEnd(c, h)
<1> DEFINE A == {a \in Holes(c) : a <= h /\ a .. h \subseteq Holes(c)}
           B == {b \in Holes(c) : b >= h /\ h .. b \subseteq Holes(c)}
<1>1. /\ \A x : x \in A <=> x \in Holes(c) /\ x <= h /\ x .. h \subseteq Holes(c)
      /\ \A x : x \in B <=> x \in Holes(c) /\ x >= h /\ h .. x \subseteq Holes(c)
  BY Zenon
<1>2. RunStart(c, h) = Min(A) /\ RunEnd(c, h) = Max(B)
  BY DEF RunStart, RunEnd
<1> HIDE DEF A, B
<1>3. h \in Nat /\ h <= h /\ h >= h /\ \A x \in Holes(c) : x \in 0 .. KvSize /\ x \in Nat
  BY RingSize DEF Cells
<1>4. h .. h \subseteq Holes(c)
  <2>1. \A x \in h .. h : x = h
    BY <1>3
  <2> QED BY <2>1
<1>5. A \subseteq Nat /\ h \in A
  BY <1>1, <1>3, <1>4
<1>6. B \subseteq 0 .. KvSize /\ h \in B /\ KvSize \in Nat
  BY <1>1, <1>3, <1>4, RingSize
<1>7. Min(A) \in A /\ \A m \in A : Min(A) <= m
  BY <1>5, MinFound
<1>8. Max(B) \in B /\ \A m \in B : m <= Max(B)
  BY <1>6, MaxFound
<1> QED BY <1>1, <1>2, <1>7, <1>8

(* How many holes are below n.                                             *)
HolesBelow(c, n) == Cardinality({k \in Holes(c) : k < n})

LEMMA HolesBelowGrows ==
  ASSUME NEW c, Holes(c) \subseteq Cells, NEW m \in Nat, NEW n \in Nat, m <= n
  PROVE  /\ HolesBelow(c, m) \in Nat /\ HolesBelow(c, m) <= HolesBelow(c, n)
         /\ HolesBelow(c, n) <= Cardinality(Holes(c))
         /\ m .. n - 1 \subseteq Holes(c) => HolesBelow(c, n) = HolesBelow(c, m) + (n - m)
<1> DEFINE A == {k \in Holes(c) : k < m}
           B == {k \in Holes(c) : k < n}
<1>1. \A k \in Holes(c) : k \in Nat
  BY DEF Cells
<1>2. A \in SUBSET B /\ B \in SUBSET Holes(c) /\ Holes(c) \in SUBSET Cells
  BY <1>1
<1>3. IsFiniteSet(Holes(c)) /\ IsFiniteSet(B) /\ IsFiniteSet(A)
  <2>1. A \in SUBSET Cells /\ B \in SUBSET Cells
    BY <1>2
  <2> HIDE DEF A, B
  <2> QED BY <1>2, <2>1, CellsFinite
<1>4. HolesBelow(c, m) = Cardinality(A) /\ HolesBelow(c, n) = Cardinality(B)
  BY DEF HolesBelow
<1>5. ASSUME m .. n - 1 \subseteq Holes(c)
      PROVE  B = A \cup m .. n - 1 /\ A \cap (m .. n - 1) = {}
  BY <1>1, <1>5
<1> HIDE DEF A, B
<1>6. Cardinality(A) \in Nat /\ Cardinality(A) <= Cardinality(B) /\ Cardinality(B) <= Cardinality(Holes(c))
  BY <1>2, <1>3, FS_CardinalityType, FS_Subset
<1>7. ASSUME m .. n - 1 \subseteq Holes(c)
      PROVE  Cardinality(B) = Cardinality(A) + (n - m)
  <2>1. PICK j \in Int : j = n - 1
    OBVIOUS
  <2>2. PICK I : I = m .. j
    OBVIOUS
  <2>3. IsFiniteSet(I) /\ Cardinality(I) = n - m
    <3>1. IsFiniteSet(m .. j) /\ Cardinality(m .. j) = IF m > j THEN 0 ELSE j - m + 1
      BY FS_Interval
    <3> QED BY <2>1, <2>2, <3>1
  <2>4. B = A \cup I /\ A \cap I = {}
    BY <1>5, <1>7, <2>1, <2>2
  <2>5. Cardinality(A \cup I) = Cardinality(A) + Cardinality(I) - Cardinality(A \cap I)
    BY <1>3, <2>3, FS_Union
  <2>6. Cardinality(A \cap I) = 0
    BY <2>4, FS_EmptySet
  <2> QED BY <1>6, <2>3, <2>4, <2>5, <2>6
<1> QED BY <1>4, <1>6, <1>7

(* Every hole is given another stray.                                      *)
LEMMA AboveFits ==
  ASSUME NEW c, Holes(c) \subseteq Cells, NEW h \in Holes(c)
  PROVE  /\ Above(c, h) \in Nat
         /\ HolesBelow(c, RunStart(c, h)) <= Above(c, h)
         /\ Above(c, h) < HolesBelow(c, RunEnd(c, h) + 1)
         /\ Above(c, h) < Cardinality(Holes(c))
<1>1. PICK a, b : a = RunStart(c, h) /\ b = RunEnd(c, h)
  OBVIOUS
<1>2. /\ a \in Holes(c) /\ a <= h /\ a .. h \subseteq Holes(c)
      /\ b \in Holes(c) /\ b >= h /\ h .. b \subseteq Holes(c)
  BY <1>1, RunBounds
<1>3. a \in Nat /\ b \in Nat /\ h \in Nat
  BY <1>2 DEF Cells
<1>4. a .. (b + 1) - 1 \subseteq Holes(c)
  <2> SUFFICES ASSUME NEW x \in a .. (b + 1) - 1 PROVE x \in Holes(c)
    OBVIOUS
  <2>1. x \in a .. h \/ x \in h .. b
    BY <1>3
  <2> QED BY <1>2, <2>1
<1>5. PICK n \in Nat : n = b + 1
  BY <1>3
<1>6. /\ HolesBelow(c, a) \in Nat /\ HolesBelow(c, n) = HolesBelow(c, a) + (n - a)
      /\ HolesBelow(c, n) <= Cardinality(Holes(c))
  <2>1. a <= n /\ a .. n - 1 \subseteq Holes(c)
    BY <1>2, <1>3, <1>4, <1>5
  <2> QED BY <1>3, <2>1, HolesBelowGrows
<1>7. Above(c, h) = HolesBelow(c, a) + (b - h)
  BY <1>1 DEF Above, HolesBelow
<1>8. Cardinality(Holes(c)) \in Nat
  <2>1. Holes(c) \in SUBSET Cells
    OBVIOUS
  <2> QED BY <2>1, CellsFinite
<1> QED BY <1>1, <1>2, <1>3, <1>5, <1>6, <1>7, <1>8

LEMMA AboveDiffers ==
  ASSUME NEW c, Holes(c) \subseteq Cells, NEW h \in Holes(c), NEW k \in Holes(c), h < k
  PROVE  Above(c, h) # Above(c, k)
<1>1. PICK a, b, e, f : /\ a = RunStart(c, h) /\ b = RunEnd(c, h)
                        /\ e = RunStart(c, k) /\ f = RunEnd(c, k)
  OBVIOUS
<1>2. /\ a \in Holes(c) /\ a <= h /\ a .. h \subseteq Holes(c)
      /\ b \in Holes(c) /\ b >= h /\ h .. b \subseteq Holes(c)
      /\ \A x \in Holes(c) : x <= h /\ x .. h \subseteq Holes(c) => a <= x
      /\ \A x \in Holes(c) : x >= h /\ h .. x \subseteq Holes(c) => x <= b
  BY <1>1, RunBounds
<1>3. /\ e \in Holes(c) /\ e <= k /\ e .. k \subseteq Holes(c)
      /\ f \in Holes(c) /\ f >= k /\ k .. f \subseteq Holes(c)
      /\ \A x \in Holes(c) : x <= k /\ x .. k \subseteq Holes(c) => e <= x
      /\ \A x \in Holes(c) : x >= k /\ k .. x \subseteq Holes(c) => x <= f
  BY <1>1, RunBounds
<1>4. a \in Nat /\ b \in Nat /\ e \in Nat /\ f \in Nat /\ h \in Nat /\ k \in Nat
  BY <1>2, <1>3 DEF Cells
<1>5. CASE h .. k \subseteq Holes(c)
  <2>1. a .. k \subseteq Holes(c)
    <3>1. \A x \in a .. k : x \in a .. h \/ x \in h .. k
      BY <1>4
    <3> QED BY <1>2, <1>5, <3>1
  <2>2. h .. f \subseteq Holes(c)
    <3>1. \A x \in h .. f : x \in h .. k \/ x \in k .. f
      BY <1>4
    <3> QED BY <1>3, <1>5, <3>1
  <2>3. e <= a /\ f <= b
    BY <1>2, <1>3, <1>4, <2>1, <2>2
  <2>4. e <= h
    BY <1>2, <1>4, <2>3
  <2>5. e .. h \subseteq Holes(c)
    <3>1. \A x \in e .. h : x \in e .. k
      BY <1>4
    <3> QED BY <1>3, <3>1
  <2>6. b >= k
    BY <1>3, <1>4, <2>3
  <2>7. k .. b \subseteq Holes(c)
    <3>1. \A x \in k .. b : x \in h .. b
      BY <1>4
    <3> QED BY <1>2, <3>1
  <2>8. a = e /\ b = f
    BY <1>2, <1>3, <1>4, <2>3, <2>4, <2>5, <2>6, <2>7
  <2>9. HolesBelow(c, a) \in Nat
    <3>1. a <= a
      BY <1>4
    <3> QED BY <1>4, <3>1, HolesBelowGrows
  <2>10. Above(c, h) = HolesBelow(c, a) + (b - h) /\ Above(c, k) = HolesBelow(c, e) + (f - k)
    BY <1>1 DEF Above, HolesBelow
  <2> QED BY <1>4, <2>8, <2>9, <2>10
<1>6. CASE ~(h .. k \subseteq Holes(c))
  <2>1. b < e
    <3> SUFFICES ASSUME e <= b PROVE h .. k \subseteq Holes(c)
      BY <1>4, <1>6
    <3>1. \A x \in h .. k : x \in h .. b \/ x \in e .. k
      BY <1>4
    <3> QED BY <1>2, <1>3, <3>1
  <2>2. PICK n \in Nat : n = b + 1
    BY <1>4
  <2>3. HolesBelow(c, n) <= HolesBelow(c, e) /\ HolesBelow(c, n) \in Nat /\ HolesBelow(c, e) \in Nat
    <3>1. n <= e /\ e <= e
      BY <1>4, <2>1, <2>2
    <3> QED BY <1>4, <3>1, HolesBelowGrows
  <2>4. Above(c, h) \in Nat /\ Above(c, h) < HolesBelow(c, n)
    BY <1>1, <2>2, AboveFits
  <2>5. Above(c, k) \in Nat /\ HolesBelow(c, e) <= Above(c, k)
    BY <1>1, AboveFits
  <2> QED BY <2>3, <2>4, <2>5
<1> QED BY <1>5, <1>6

(* There is a stray for every hole, since used counts the owned cells ...  *)
LEMMA StraysMatch ==
  ASSUME NEW c, CacheOK(c)
  PROVE  /\ c.used \in 0 .. KvSize /\ Holes(c) \in SUBSET Cells /\ Strays(c) \in SUBSET Cells
         /\ Cardinality(Strays(c)) = Cardinality(Holes(c))
         /\ Cardinality(Strays(c)) \in Nat
<1> DEFINE front == 0 .. c.used - 1
           low == {i \in Owned(c.cells) : i < c.used}
<1>1. Owned(c.cells) \in SUBSET Cells /\ c.used = Cardinality(Owned(c.cells))
  BY DEF CacheOK, Counted, Owned
<1>2. c.used \in Nat /\ c.used <= KvSize
  BY <1>1, CellsFinite
<1>3. front \in SUBSET Cells /\ Cardinality(front) = c.used
  BY <1>2, RingSize, IntervalSize DEF Cells
<1>4. \A i \in Cells : i \in Nat
  BY DEF Cells
<1>5. low \in SUBSET front /\ low \in SUBSET Owned(c.cells)
  BY <1>1, <1>2, <1>4
<1>6. Holes(c) = front \ low
  <2>1. \A i \in front : i \in Cells /\ i < c.used
    BY <1>2, <1>3
  <2> QED BY <2>1 DEF Holes, Owned
<1>7. Strays(c) = Owned(c.cells) \ low
  BY <1>1, <1>2, <1>4 DEF Strays
<1> HIDE DEF front, low
<1>8. /\ Cardinality(Holes(c)) = Cardinality(front) - Cardinality(low)
      /\ Cardinality(Strays(c)) = Cardinality(Owned(c.cells)) - Cardinality(low)
  BY <1>1, <1>3, <1>5, <1>6, <1>7, CountLess
<1>9. Holes(c) \in SUBSET Cells /\ Strays(c) \in SUBSET Cells
  BY <1>1, <1>3, <1>6, <1>7
<1>10. Cardinality(Strays(c)) \in Nat
  BY <1>9, CellsFinite
<1> QED BY <1>1, <1>2, <1>3, <1>8, <1>9, <1>10

(* ... and each fills one.                                                 *)
LEMMA FillersMatch ==
  ASSUME NEW c, CacheOK(c)
  PROVE  /\ \A h \in Holes(c) : Filler(c, h) \in Strays(c)
         /\ \A h, k \in Holes(c) : Filler(c, h) = Filler(c, k) => h = k
         /\ \A s \in Strays(c) : \E h \in Holes(c) : Filler(c, h) = s
<1>1. /\ Holes(c) \in SUBSET Cells /\ Strays(c) \in SUBSET Cells
      /\ Cardinality(Strays(c)) = Cardinality(Holes(c))
  BY StraysMatch
<1>2. ASSUME NEW h \in Holes(c)
      PROVE  /\ Filler(c, h) \in Strays(c)
             /\ Cardinality({k \in Strays(c) : k > Filler(c, h)}) = Above(c, h)
  <2>1. Above(c, h) \in Nat /\ Above(c, h) < Cardinality(Strays(c))
    BY <1>1, AboveFits
  <2>2. \E s \in Strays(c) : Cardinality({k \in Strays(c) : k > s}) = Above(c, h)
    BY <1>1, <2>1, RankExists
  <2> QED BY <2>2 DEF Filler
<1>3. ASSUME NEW h \in Holes(c), NEW k \in Holes(c), Filler(c, h) = Filler(c, k)
      PROVE  h = k
  <2>1. Above(c, h) = Above(c, k)
    BY <1>2, <1>3
  <2>2. h \in Nat /\ k \in Nat
    BY <1>1 DEF Cells
  <2>3. ~(h < k) /\ ~(k < h)
    BY <1>1, <2>1, AboveDiffers
  <2> QED BY <2>2, <2>3
<1> DEFINE f == [h \in Holes(c) |-> Filler(c, h)]
<1>4. f \in Injection(Holes(c), Strays(c))
  <2>1. f \in [Holes(c) -> Strays(c)] /\ \A h \in Holes(c) : f[h] = Filler(c, h)
    BY <1>2
  <2> HIDE DEF f
  <2> QED BY <1>3, <2>1 DEF Injection, IsInjective
<1>5. f \in Surjection(Holes(c), Strays(c))
  <2>1. IsFiniteSet(Strays(c))
    BY <1>1, CellsFinite
  <2> HIDE DEF f
  <2> QED BY <1>1, <1>4, <2>1, FS_Injection
<1>6. \A s \in Strays(c) : \E h \in Holes(c) : f[h] = s
  <2> HIDE DEF f
  <2> QED BY <1>5 DEF Surjection
<1> QED BY <1>2, <1>3, <1>6

(* What llama_kv_cache_defrag_impl does: every owned cell comes from one   *)
(* that was owned before, and they are now the first ones.                 *)
Relocated(c, f, d) ==
  /\ d.torn = c.torn /\ d.used = c.used
  /\ f \in [Owned(d.cells) -> Owned(c.cells)]
  /\ \A i, k \in Owned(d.cells) : f[i] = f[k] => i = k
  /\ \A k \in Owned(c.cells) : \E i \in Owned(d.cells) : f[i] = k
  /\ \A i \in Owned(d.cells) : d.cells[i] = c.cells[f[i]] /\ d.rows[i] = c.rows[f[i]]
  /\ (\A i \in Cells : c.cells[i].delta = 0) => \A i \in Cells : d.cells[i].delta = 0

LEMMA DefragWorks ==
  ASSUME NEW c, CacheOK(c), NEW d, d = Defrag(c)
  PROVE  /\ CacheOK(d) /\ Owned(d.cells) = 0 .. c.used - 1
         /\ \E f : Relocated(c, f, d)
<1> DEFINE fillers == {Filler(c, h) : h \in Holes(c)}
           x == [i \in Cells |-> IF i \in Holes(c) THEN c.cells[Filler(c, i)]
                                 ELSE IF i \in fillers THEN EmptyCell ELSE c.cells[i]]
           w == [i \in Cells |-> IF i \in Holes(c) THEN c.rows[Filler(c, i)] ELSE c.rows[i]]
           y == [i \in Cells |-> IF x[i].seqs = {} THEN NoRow ELSE w[i]]
           f == [i \in 0 .. c.used - 1 |-> IF i \in Holes(c) THEN Filler(c, i) ELSE i]
<1>1. /\ c.cells \in [Cells -> CellT] /\ c.rows \in [Cells -> Row \cup {NoRow}]
      /\ c.head \in 0 .. KvSize /\ c.has_shift \in BOOLEAN /\ c.torn \in SUBSET SeqIds
      /\ c.used = Cardinality(Owned(c.cells))
      /\ \A i \in Cells : c.cells[i].seqs # {} <=> c.cells[i].pos >= 0
      /\ c = [cells |-> c.cells, rows |-> c.rows, head |-> c.head, used |-> c.used,
              has_shift |-> c.has_shift, torn |-> c.torn]
  BY DEF CacheOK, CacheT, Counted
<1>2. /\ c.used \in 0 .. KvSize /\ Holes(c) \in SUBSET Cells /\ Strays(c) \in SUBSET Cells
      /\ Cardinality(Strays(c)) = Cardinality(Holes(c))
  BY StraysMatch
<1>3. /\ \A h \in Holes(c) : Filler(c, h) \in Strays(c)
      /\ \A h, k \in Holes(c) : Filler(c, h) = Filler(c, k) => h = k
      /\ \A s \in Strays(c) : \E h \in Holes(c) : Filler(c, h) = s
  BY FillersMatch
<1>4. fillers = Strays(c)
  BY <1>3
<1>5. /\ \A i \in Cells : i \in Holes(c) <=> i < c.used /\ c.cells[i].seqs = {}
      /\ \A i \in Cells : i \in Strays(c) <=> ~(i < c.used) /\ c.cells[i].seqs # {}
      /\ \A i \in 0 .. c.used - 1 : i \in Cells
      /\ \A i \in Cells : i \in 0 .. c.used - 1 <=> i < c.used
  BY <1>2, RingSize DEF Holes, Strays, Owned, Cells
<1>6. EmptyCell \in CellT /\ EmptyCell.seqs = {} /\ EmptyCell.pos = -1 /\ EmptyCell.delta = 0
  BY DEF EmptyCell, CellT
<1>7. /\ \A i \in Cells : x[i] = IF i \in Holes(c) THEN c.cells[Filler(c, i)]
                                 ELSE IF i \in Strays(c) THEN EmptyCell ELSE c.cells[i]
      /\ \A i \in Cells : w[i] = IF i \in Holes(c) THEN c.rows[Filler(c, i)] ELSE c.rows[i]
      /\ \A i \in Cells : y[i] = IF x[i].seqs = {} THEN NoRow ELSE w[i]
      /\ x = [i \in Cells |-> x[i]] /\ y = [i \in Cells |-> y[i]]
  <2> HIDE DEF fillers
  <2> QED BY <1>4
<1>8. /\ \A i \in 0 .. c.used - 1 : f[i] = IF i \in Holes(c) THEN Filler(c, i) ELSE i
      /\ f = [i \in 0 .. c.used - 1 |-> f[i]]
  OBVIOUS
<1>9. Holes(c) # {} =>
        d = [cells |-> x, rows |-> y, head |-> c.used, used |-> c.used,
             has_shift |-> c.has_shift, torn |-> c.torn]
  BY <1>1 DEF Defrag, Forget
<1> HIDE DEF fillers, x, w, y, f
<1>10. ASSUME NEW i \in 0 .. c.used - 1
       PROVE  /\ i \in Cells /\ f[i] \in Owned(c.cells) /\ f[i] \in Cells
              /\ i \in Holes(c) => f[i] \in Strays(c)
              /\ i \notin Holes(c) => f[i] = i
              /\ x[i] = c.cells[f[i]] /\ w[i] = c.rows[f[i]]
  <2>1. CASE i \in Holes(c)
    <3>1. f[i] = Filler(c, i) /\ f[i] \in Strays(c) /\ i \in Cells
      BY <1>3, <1>5, <1>8, <2>1
    <3>2. f[i] \in Owned(c.cells) /\ f[i] \in Cells
      BY <3>1 DEF Strays, Owned
    <3> QED BY <1>7, <2>1, <3>1, <3>2
  <2>2. CASE i \notin Holes(c)
    BY <1>5, <1>7, <1>8, <2>2 DEF Owned
  <2> QED BY <2>1, <2>2
<1>11. ASSUME NEW i \in Cells, ~(i < c.used)
       PROVE  x[i] = (IF i \in Strays(c) THEN EmptyCell ELSE c.cells[i]) /\ x[i].seqs = {}
  BY <1>5, <1>6, <1>7, <1>11
<1>12. Owned(x) = 0 .. c.used - 1
  <2>1. \A i \in 0 .. c.used - 1 : x[i].seqs # {}
    BY <1>10 DEF Owned
  <2> QED BY <1>5, <1>11, <2>1 DEF Owned
<1>13. ASSUME NEW i \in 0 .. c.used - 1, NEW k \in 0 .. c.used - 1, f[i] = f[k]
       PROVE  i = k
  <2>1. i \notin Strays(c) /\ k \notin Strays(c)
    BY <1>5
  <2>2. /\ i \in Holes(c) => f[i] = Filler(c, i) /\ f[i] \in Strays(c)
        /\ k \in Holes(c) => f[k] = Filler(c, k) /\ f[k] \in Strays(c)
        /\ i \notin Holes(c) => f[i] = i
        /\ k \notin Holes(c) => f[k] = k
    BY <1>8, <1>10
  <2> QED BY <1>3, <1>13, <2>1, <2>2, Zenon
<1>14. ASSUME NEW k \in Owned(c.cells)
       PROVE  \E i \in 0 .. c.used - 1 : f[i] = k
  <2>1. k \in Cells /\ c.cells[k].seqs # {}
    BY DEF Owned
  <2>2. CASE k < c.used
    BY <1>5, <1>8, <2>1, <2>2
  <2>3. CASE ~(k < c.used)
    <3>1. PICK h \in Holes(c) : Filler(c, h) = k
      BY <1>3, <1>5, <2>1, <2>3
    <3>2. h \in 0 .. c.used - 1
      BY <1>2, <1>5
    <3> QED BY <1>8, <3>1, <3>2
  <2> QED BY <2>2, <2>3
<1>15. CASE Holes(c) = {}
  <2>1. d = c
    BY <1>15 DEF Defrag
  <2>2. \A i \in 0 .. c.used - 1 : f[i] = i
    BY <1>10, <1>15
  <2>3. Owned(c.cells) = 0 .. c.used - 1
    <3>1. \A i \in Owned(c.cells) : i \in 0 .. c.used - 1
      <4>1. Strays(c) = {}
        BY <1>3, <1>15
      <4> QED BY <1>5, <4>1 DEF Owned
    <3>2. \A i \in 0 .. c.used - 1 : i \in Owned(c.cells)
      BY <1>10, <2>2
    <3> QED BY <3>1, <3>2
  <2>4. Relocated(c, f, d)
    BY <1>8, <2>1, <2>2, <2>3 DEF Relocated
  <2> QED BY <2>1, <2>3, <2>4
<1>16. CASE Holes(c) # {}
  <2>1. d = [cells |-> x, rows |-> y, head |-> c.used, used |-> c.used,
             has_shift |-> c.has_shift, torn |-> c.torn]
    BY <1>9, <1>16
  <2>2. ASSUME NEW i \in Cells
        PROVE  /\ x[i] \in CellT /\ w[i] \in Row \cup {NoRow}
               /\ x[i].seqs # {} <=> x[i].pos >= 0
               /\ (\A k \in Cells : c.cells[k].delta = 0) => x[i].delta = 0
    <3>1. CASE i < c.used
      <4>1. PICK k \in Cells : x[i] = c.cells[k] /\ w[i] = c.rows[k]
        BY <1>5, <1>10, <3>1
      <4> QED BY <1>1, <4>1
    <3>2. CASE ~(i < c.used)
      <4>1. w[i] = c.rows[i]
        BY <1>5, <1>7, <3>2
      <4>2. x[i] = EmptyCell \/ x[i] = c.cells[i]
        BY <1>11, <3>2
      <4> QED BY <1>1, <1>6, <4>1, <4>2
    <3> QED BY <3>1, <3>2
  <2>3. x \in [Cells -> CellT]
    BY <1>7, <2>2
  <2>4. y \in [Cells -> Row \cup {NoRow}]
    <3>1. \A i \in Cells : y[i] \in Row \cup {NoRow}
      BY <1>7, <2>2
    <3> QED BY <1>7, <3>1
  <2>5. CacheT(d)
    BY <1>1, <1>2, <2>1, <2>3, <2>4 DEF CacheT
  <2>6. Counted(d)
    <3>1. Cardinality(0 .. c.used - 1) = c.used
      BY <1>2, IntervalSize
    <3> QED BY <1>12, <2>1, <2>2, <3>1 DEF Counted
  <2>7. Rotated(d)
    <3>1. d.cells = x /\ d.has_shift = c.has_shift
      BY <2>1
    <3>2. c.has_shift \/ \A i \in Cells : c.cells[i].delta = 0
      BY DEF CacheOK, Rotated
    <3> QED BY <2>2, <3>1, <3>2 DEF Rotated
  <2>8. Relocated(c, f, d)
    <3>1. d.cells = x /\ d.rows = y /\ d.torn = c.torn /\ d.used = c.used
      BY <2>1
    <3>2. \A i \in 0 .. c.used - 1 : y[i] = c.rows[f[i]] /\ x[i] = c.cells[f[i]]
      <4> SUFFICES ASSUME NEW i \in 0 .. c.used - 1
                   PROVE  y[i] = c.rows[f[i]] /\ x[i] = c.cells[f[i]]
        OBVIOUS
      <4>1. i \in Cells /\ x[i].seqs # {}
        BY <1>10 DEF Owned
      <4> QED BY <1>7, <1>10, <4>1
    <3>3. f \in [0 .. c.used - 1 -> Owned(c.cells)]
      BY <1>8, <1>10
    <3> QED BY <1>12, <1>13, <1>14, <2>2, <3>1, <3>2, <3>3 DEF Relocated
  <2>9. Owned(d.cells) = 0 .. c.used - 1
    BY <1>12, <2>1
  <2> QED BY <2>5, <2>6, <2>7, <2>8, <2>9 DEF CacheOK
<1> QED BY <1>15, <1>16

-----------------------------------------------------------------------------
(* The steps of llama_decode_impl.                                         *)

(* The head may go to any place.                                           *)
LEMMA HeadMoves ==
  ASSUME NEW c, CacheOK(c), NEW h \in 0 .. KvSize, NEW d, d = [c EXCEPT !.head = h]
  PROVE  /\ CacheOK(d) /\ d.head = h
         /\ d.cells = c.cells /\ d.rows = c.rows /\ d.used = c.used /\ d.torn = c.torn
<1>1. c = [cells |-> c.cells, rows |-> c.rows, head |-> c.head, used |-> c.used,
           has_shift |-> c.has_shift, torn |-> c.torn]
  BY DEF CacheOK, CacheT
<1>2. d = [cells |-> c.cells, rows |-> c.rows, head |-> h, used |-> c.used,
           has_shift |-> c.has_shift, torn |-> c.torn]
  BY <1>1
<1>3. CacheT(d)
  BY <1>2 DEF CacheOK, CacheT
<1>4. Counted(d) /\ Rotated(d)
  BY <1>2 DEF CacheOK, Counted, Rotated
<1> QED BY <1>2, <1>3, <1>4 DEF CacheOK

LEMMA RewoundWorks ==
  ASSUME NEW c, CacheOK(c), NEW n \in Nat, NEW d, d = Rewound(c, n)
  PROVE  /\ CacheOK(d) /\ d.cells = c.cells /\ d.rows = c.rows /\ d.used = c.used
         /\ d.torn = c.torn
<1>1. 0 \in 0 .. KvSize
  BY RingSize
<1>2. d = c \/ d = [c EXCEPT !.head = 0]
  BY DEF Rewound
<1> QED BY <1>1, <1>2, HeadMoves

(* The search for a slot, with a defragmentation if need be, fails only if *)
(* too few cells are free.                                                 *)
LEMMA SlotForWorks ==
  ASSUME NEW c, CacheOK(c), NEW n \in Nat \ {0}, NEW r, r = SlotFor(c, n)
  PROVE  /\ CacheOK(r.cache) /\ \E f : Relocated(c, f, r.cache)
         /\ r.slot.found \in BOOLEAN /\ r.slot.head \in 0 .. KvSize
         /\ r.slot.found => FreeAt(r.cache, n, r.slot.head)
         /\ ~ r.slot.found => c.used + n > KvSize
<1>1. PICK first : first = FindSlot(c, n)
  OBVIOUS
<1>2. c.head \in 0 .. KvSize
  BY DEF CacheOK, CacheT
<1>3. /\ first.found \in BOOLEAN /\ first.head \in 0 .. KvSize
      /\ first.found => FreeAt(c, n, first.head)
  BY <1>1, <1>2, FindSlotWorks
<1>4. CASE first.found
  <2>1. r = [cache |-> c, slot |-> first]
    BY <1>1, <1>4 DEF SlotFor
  <2>2. \E f : Relocated(c, f, c)
    <3>1. PICK f : f = [i \in Owned(c.cells) |-> i]
      OBVIOUS
    <3>2. Relocated(c, f, c)
      BY <3>1 DEF Relocated
    <3> QED BY <3>2
  <2>3. r.cache = c /\ r.slot = first
    BY <2>1
  <2> QED BY <1>3, <1>4, <2>2, <2>3
<1>5. CASE ~ first.found
  <2>1. PICK e : e = [c EXCEPT !.head = first.head]
    OBVIOUS
  <2>2. CacheOK(e) /\ e.cells = c.cells /\ e.rows = c.rows /\ e.used = c.used /\ e.torn = c.torn
    BY <1>3, <2>1, HeadMoves
  <2>3. PICK d : d = Defrag(e)
    OBVIOUS
  <2>4. /\ CacheOK(d) /\ Owned(d.cells) = 0 .. e.used - 1
        /\ \E f : Relocated(e, f, d)
    BY <2>2, <2>3, DefragWorks
  <2>5. PICK f : Relocated(e, f, d)
    BY <2>4
  <2>6. Relocated(c, f, d)
    BY <2>2, <2>5 DEF Relocated
  <2>7. PICK slot : slot = FindSlot(d, n)
    OBVIOUS
  <2>8. r = [cache |-> d, slot |-> slot]
    BY <1>1, <1>5, <2>1, <2>3, <2>7 DEF SlotFor
  <2>9. /\ slot.found \in BOOLEAN /\ slot.head \in 0 .. KvSize
        /\ slot.found => FreeAt(d, n, slot.head)
        /\ ~ slot.found => \A k \in Cells : ~ FreeAt(d, n, k)
    <3>1. d.head \in 0 .. KvSize
      BY <2>4 DEF CacheOK, CacheT
    <3> QED BY <2>7, <3>1, FindSlotWorks
  <2>10. ASSUME c.used + n <= KvSize PROVE slot.found
    <3>1. c.used \in Nat
      BY StraysMatch
    <3>2. c.used \in Cells
      BY <2>10, <3>1, RingSize DEF Cells
    <3>3. ASSUME NEW i \in 0 .. n - 1 PROVE ~(d.cells[c.used + i].pos >= 0)
      <4>1. c.used + i \in Cells /\ c.used + i \notin 0 .. c.used - 1
        BY <2>10, <3>1, RingSize DEF Cells
      <4>2. c.used + i \notin Owned(d.cells)
        BY <2>2, <2>4, <4>1
      <4>3. d.cells[c.used + i].seqs = {}
        BY <4>1, <4>2 DEF Owned
      <4> QED BY <2>4, <4>1, <4>3 DEF CacheOK, Counted
    <3>4. FreeAt(d, n, c.used)
      BY <2>10, <3>3 DEF FreeAt, TakenAt
    <3> QED BY <2>9, <3>2, <3>4
  <2>11. c.used \in Nat
    BY StraysMatch
  <2>12. ~ slot.found => c.used + n > KvSize
    BY <2>10, <2>11, RingSize
  <2> QED BY <2>4, <2>6, <2>8, <2>9, <2>12
<1> QED BY <1>3, <1>4, <1>5

(* The cells that were found take the inputs of the ubatch.                *)
Seated(c, h, ub, d) ==
  /\ d.head = h /\ d.torn = c.torn /\ d.rows = c.rows
  /\ \A k \in 1 .. Len(ub) :
       /\ h + k - 1 \in Cells /\ c.cells[h + k - 1].seqs = {}
       /\ d.cells[h + k - 1] = [pos |-> ub[k].pos, delta |-> c.cells[h + k - 1].delta,
                                seqs |-> {ub[k].seq}]
  /\ \A i \in Cells : i \notin h .. h + Len(ub) - 1 => d.cells[i] = c.cells[i]

LEMMA OccupyWorks ==
  ASSUME NEW c, CacheOK(c), NEW ub \in Seq(BatchInput), NEW h \in 0 .. KvSize,
         FreeAt(c, Len(ub), h), NEW d, d = Occupy(c, h, ub)
  PROVE  CacheOK(d) /\ Seated(c, h, ub, d)
<1> DEFINE here == h .. h + Len(ub) - 1
           x == [i \in Cells |->
                  IF i \in h .. h + Len(ub) - 1
                  THEN [c.cells[i] EXCEPT !.pos = ub[i - h + 1].pos,
                                          !.seqs = @ \cup {ub[i - h + 1].seq}]
                  ELSE c.cells[i]]
<1>1. /\ c.cells \in [Cells -> CellT] /\ c.rows \in [Cells -> Row \cup {NoRow}]
      /\ c.has_shift \in BOOLEAN /\ c.torn \in SUBSET SeqIds
      /\ c.used = Cardinality(Owned(c.cells))
      /\ \A i \in Cells : c.cells[i].seqs # {} <=> c.cells[i].pos >= 0
      /\ c = [cells |-> c.cells, rows |-> c.rows, head |-> c.head, used |-> c.used,
              has_shift |-> c.has_shift, torn |-> c.torn]
  BY DEF CacheOK, CacheT, Counted
<1>2. d = [cells |-> x, rows |-> c.rows, head |-> h, used |-> c.used + Len(ub),
           has_shift |-> c.has_shift, torn |-> c.torn]
  <2>1. d = [c EXCEPT !.head = h, !.cells = x, !.used = @ + Len(ub)]
    BY Zenon DEF Occupy
  <2>2. PICK y, n : y = x /\ n = c.used + Len(ub)
    OBVIOUS
  <2>3. d = [c EXCEPT !.head = h, !.cells = y, !.used = n]
    BY <2>1, <2>2
  <2> HIDE DEF x
  <2> QED BY <1>1, <2>2, <2>3
<1>3. /\ \A i \in Cells : x[i] = IF i \in here
                                 THEN [c.cells[i] EXCEPT !.pos = ub[i - h + 1].pos,
                                                         !.seqs = @ \cup {ub[i - h + 1].seq}]
                                 ELSE c.cells[i]
      /\ x = [i \in Cells |-> x[i]]
  OBVIOUS
<1>4. Len(ub) \in Nat /\ h \in Nat /\ h + Len(ub) <= KvSize
  BY DEF FreeAt
<1>5. here \in SUBSET Cells
  BY <1>4, RingSize DEF Cells
<1>6. \A i \in here : i - h + 1 \in 1 .. Len(ub) /\ i = h + (i - h + 1) - 1
  BY <1>4
<1>7. \A i \in here : c.cells[i].seqs = {}
  <2> SUFFICES ASSUME NEW i \in here PROVE c.cells[i].seqs = {}
    OBVIOUS
  <2>1. PICK j \in 0 .. Len(ub) - 1 : i = h + j
    <3>1. i - h \in 0 .. Len(ub) - 1 /\ i = h + (i - h)
      BY <1>4
    <3> QED BY <3>1
  <2>2. ~(c.cells[i].pos >= 0)
    BY <2>1 DEF FreeAt, TakenAt
  <2> QED BY <1>1, <1>5, <2>2
<1>8. \A k \in 1 .. Len(ub) : h + k - 1 \in here /\ h + k - 1 - h + 1 = k
  BY <1>4
<1>9. \A k \in 1 .. Len(ub) : ub[k].pos \in Nat /\ ub[k].seq \in SeqIds
  <2>1. \A k \in 1 .. Len(ub) : ub[k] \in BatchInput
    OBVIOUS
  <2>2. \A b \in BatchInput : b.pos \in Nat /\ b.seq \in SeqIds
    BY ContextSize DEF BatchInput
  <2> QED BY <2>1, <2>2
<1>15. IsFiniteSet(here) /\ Cardinality(here) = Len(ub)
  <2>1. PICK j \in Int : j = h + Len(ub) - 1
    BY <1>4
  <2>2. IsFiniteSet(h .. j) /\ Cardinality(h .. j) = IF h > j THEN 0 ELSE j - h + 1
    <3>1. h \in Int
      BY <1>4
    <3> HIDE DEF here, x
    <3> QED BY <3>1, FS_Interval
  <2> QED BY <1>4, <2>1, <2>2
<1> HIDE DEF here, x
<1>10. ASSUME NEW i \in here
       PROVE  /\ x[i] = [pos |-> ub[i - h + 1].pos, delta |-> c.cells[i].delta,
                         seqs |-> {ub[i - h + 1].seq}]
              /\ x[i] \in CellT /\ x[i].pos >= 0 /\ x[i].seqs # {}
              /\ x[i].delta = c.cells[i].delta
  <2>1. PICK u \in CellT : u = c.cells[i]
    BY <1>1, <1>5
  <2>2. PICK p, t : p = ub[i - h + 1].pos /\ t = ub[i - h + 1].seq
    OBVIOUS
  <2>3. p \in Nat /\ t \in SeqIds
    BY <1>6, <1>9, <2>2
  <2>4. u.seqs \cup {t} = {t}
    BY <1>7, <2>1
  <2>5. x[i] = [u EXCEPT !.pos = p, !.seqs = @ \cup {t}]
    BY <1>3, <1>5, <2>1, <2>2
  <2>6. x[i] = [pos |-> p, delta |-> u.delta, seqs |-> {t}]
    BY <2>4, <2>5 DEF CellT
  <2>7. x[i] \in CellT
    BY <2>3, <2>6 DEF CellT
  <2> QED BY <2>1, <2>2, <2>3, <2>6, <2>7
<1>11. \A i \in Cells : i \notin here => x[i] = c.cells[i]
  BY <1>3
<1>12. CacheT(d)
  <2>1. x \in [Cells -> CellT]
    BY <1>1, <1>3, <1>10, <1>11
  <2> QED BY <1>1, <1>2, <2>1 DEF CacheT
<1>13. Counted(d) /\ Rotated(d)
  <2>1. Owned(x) = Owned(c.cells) \cup here
    BY <1>5, <1>10, <1>11 DEF Owned
  <2>2. Owned(c.cells) \cap here = {} /\ Owned(c.cells) \in SUBSET Cells
    BY <1>7 DEF Owned
  <2>3. Cardinality(Owned(x)) = c.used + Len(ub)
    <3>1. Cardinality(Owned(c.cells) \cup here) = Cardinality(Owned(c.cells)) + Cardinality(here)
      BY <1>5, <2>2, CountMore
    <3> QED BY <1>1, <1>15, <2>1, <3>1
  <2>4. \A i \in Cells : (x[i].seqs # {} <=> x[i].pos >= 0) /\ x[i].delta = c.cells[i].delta
    BY <1>1, <1>10, <1>11
  <2> QED BY <1>2, <2>3, <2>4 DEF Counted, Rotated, CacheOK
<1>14. Seated(c, h, ub, d)
  <2>1. d.cells = x /\ d.rows = c.rows /\ d.head = h /\ d.torn = c.torn
    BY <1>2
  <2>2. ASSUME NEW k \in 1 .. Len(ub)
        PROVE  /\ h + k - 1 \in Cells /\ c.cells[h + k - 1].seqs = {}
               /\ x[h + k - 1] = [pos |-> ub[k].pos, delta |-> c.cells[h + k - 1].delta,
                                  seqs |-> {ub[k].seq}]
    <3>1. PICK i \in here : i = h + k - 1
      BY <1>8
    <3>2. i - h + 1 = k
      BY <1>8, <3>1
    <3> QED BY <1>5, <1>7, <1>10, <3>1, <3>2
  <2> QED BY <1>11, <2>1, <2>2 DEF Seated, here
<1> QED BY <1>12, <1>13, <1>14 DEF CacheOK

(* The rows of the ubatch are computed and the head moves on.              *)
Written(c, ub, d) ==
  /\ d.cells = c.cells /\ d.torn = c.torn
  /\ \A k \in 1 .. Len(ub) : d.rows[c.head + k - 1] = [tok |-> ub[k].tok, at |-> ub[k].pos]
  /\ \A i \in Cells : i \notin c.head .. c.head + Len(ub) - 1 => d.rows[i] = c.rows[i]

LEMMA ComputeWorks ==
  ASSUME NEW c, CacheOK(c), NEW ub \in Seq(BatchInput), c.head + Len(ub) <= KvSize,
         NEW d, d = Advance(WriteRows(c, ub), Len(ub))
  PROVE  CacheOK(d) /\ Written(c, ub, d)
<1> DEFINE here == c.head .. c.head + Len(ub) - 1
           y == [i \in Cells |->
                  IF i \in c.head .. c.head + Len(ub) - 1
                  THEN [tok |-> ub[i - c.head + 1].tok, at |-> ub[i - c.head + 1].pos]
                  ELSE c.rows[i]]
<1>1. /\ c.cells \in [Cells -> CellT] /\ c.rows \in [Cells -> Row \cup {NoRow}]
      /\ c.head \in 0 .. KvSize /\ c.has_shift \in BOOLEAN /\ c.torn \in SUBSET SeqIds
      /\ c = [cells |-> c.cells, rows |-> c.rows, head |-> c.head, used |-> c.used,
              has_shift |-> c.has_shift, torn |-> c.torn]
  BY DEF CacheOK, CacheT
<1>2. PICK e, n : e = WriteRows(c, ub) /\ n = Len(ub)
  OBVIOUS
<1>3. e = [cells |-> c.cells, rows |-> y, head |-> c.head, used |-> c.used,
           has_shift |-> c.has_shift, torn |-> c.torn]
  <2>1. e = [c EXCEPT !.rows = y]
    BY <1>2, Zenon DEF WriteRows
  <2>2. PICK z : z = y
    OBVIOUS
  <2>3. e = [c EXCEPT !.rows = z]
    BY <2>1, <2>2
  <2> HIDE DEF y
  <2> QED BY <1>1, <2>2, <2>3
<1>4. /\ \A i \in Cells : y[i] = IF i \in here
                                 THEN [tok |-> ub[i - c.head + 1].tok, at |-> ub[i - c.head + 1].pos]
                                 ELSE c.rows[i]
      /\ y = [i \in Cells |-> y[i]]
  OBVIOUS
<1>5. n \in Nat /\ c.head \in Nat /\ c.head + n <= KvSize
  BY <1>1, <1>2
<1>6. here \in SUBSET Cells
  BY <1>2, <1>5, RingSize DEF Cells
<1>7. \A i \in here : i - c.head + 1 \in 1 .. Len(ub)
  BY <1>2, <1>5
<1>8. \A k \in 1 .. Len(ub) : c.head + k - 1 \in here /\ c.head + k - 1 - c.head + 1 = k
  BY <1>2, <1>5
<1>9. \A k \in 1 .. Len(ub) : ub[k].pos \in Int /\ ub[k].tok \in Tokens
  <2>1. \A k \in 1 .. Len(ub) : ub[k] \in BatchInput
    OBVIOUS
  <2>2. \A b \in BatchInput : b.pos \in Int /\ b.tok \in Tokens
    BY DEF BatchInput
  <2> QED BY <2>1, <2>2
<1> HIDE DEF here, y
<1>10. y \in [Cells -> Row \cup {NoRow}]
  <2>1. ASSUME NEW i \in Cells PROVE y[i] \in Row \cup {NoRow}
    <3>1. CASE i \in here
      <4>1. PICK p, t : p = ub[i - c.head + 1].pos /\ t = ub[i - c.head + 1].tok
        OBVIOUS
      <4>2. p \in Int /\ t \in Tokens /\ y[i] = [tok |-> t, at |-> p]
        BY <1>4, <1>7, <1>9, <3>1, <4>1
      <4> QED BY <4>2 DEF Row
    <3>2. CASE i \notin here
      BY <1>1, <1>4, <3>2
    <3> QED BY <3>1, <3>2
  <2> QED BY <1>4, <2>1
<1>11. CacheOK(e)
  <2>1. CacheT(e)
    BY <1>1, <1>3, <1>10 DEF CacheT
  <2>2. Counted(e) /\ Rotated(e)
    BY <1>3 DEF CacheOK, Counted, Rotated
  <2> QED BY <2>1, <2>2 DEF CacheOK
<1>12. PICK h \in 0 .. KvSize : d = [e EXCEPT !.head = h]
  <2>1. PICK h : h = IF e.head + n >= KvSize THEN 0 ELSE e.head + n
    OBVIOUS
  <2>2. e.head = c.head
    BY <1>3
  <2>3. h \in 0 .. KvSize
    BY <1>5, <2>1, <2>2, RingSize
  <2>4. d = [e EXCEPT !.head = h]
    BY <1>2, <2>1 DEF Advance
  <2> QED BY <2>3, <2>4
<1>13. CacheOK(d) /\ d.cells = e.cells /\ d.rows = e.rows /\ d.torn = e.torn
  BY <1>11, <1>12, HeadMoves
<1>14. d.cells = c.cells /\ d.rows = y /\ d.torn = c.torn
  BY <1>3, <1>13
<1>15. ASSUME NEW k \in 1 .. Len(ub)
       PROVE  y[c.head + k - 1] = [tok |-> ub[k].tok, at |-> ub[k].pos]
  <2>1. PICK i : i = c.head + k - 1
    OBVIOUS
  <2>2. i \in here
    <3>1. c.head + k - 1 \in here
      BY <1>8
    <3> QED BY <2>1, <3>1
  <2>3. i - c.head + 1 = k
    BY <1>5, <2>1
  <2> QED BY <1>4, <1>6, <2>1, <2>2, <2>3
<1> QED BY <1>4, <1>13, <1>14, <1>15 DEF Written, here

(* Giving the slots of a batch back keeps the count.                       *)
Undoes(c, h, bounds, m, f) ==
  f = [n \in 0 .. m |-> IF n = 0 THEN [c EXCEPT !.head = h]
                        ELSE SeqRm(f[n - 1], -1, bounds[n][1], bounds[n][2])]

LEMMA UndoesExist ==
  ASSUME NEW c, NEW h, NEW bounds
  PROVE  \A m \in Nat : \E f : Undoes(c, h, bounds, m, f)
<1> SUFFICES ASSUME NEW n \in Nat, ~ \E f : Undoes(c, h, bounds, n, f) PROVE FALSE
  OBVIOUS
<1> DEFINE T == {k \in Nat : ~ \E f : Undoes(c, h, bounds, k, f)}
<1>1. PICK m \in T : \A k \in T : m <= k
  <2>1. T \subseteq Nat /\ T # {}
    OBVIOUS
  <2> HIDE DEF T
  <2> QED BY <2>1, LeastElement
<1>2. CASE m = 0
  <2>1. PICK z : z = [c EXCEPT !.head = h]
    OBVIOUS
  <2>2. PICK f : f = [k \in 0 .. 0 |-> z]
    OBVIOUS
  <2>3. Undoes(c, h, bounds, 0, f)
    BY <2>1, <2>2 DEF Undoes
  <2> QED BY <1>2, <2>3
<1>3. CASE m # 0
  <2>1. PICK f : Undoes(c, h, bounds, m - 1, f)
    BY <1>1, <1>3
  <2>2. PICK z : z = [c EXCEPT !.head = h]
    OBVIOUS
  <2>3. f = [n1 \in 0 .. m - 1 |-> IF n1 = 0 THEN z
                                  ELSE SeqRm(f[n1 - 1], -1, bounds[n1][1], bounds[n1][2])]
    BY <2>1, <2>2 DEF Undoes
  <2> DEFINE g == [k \in 0 .. m |-> IF k = m THEN SeqRm(f[m - 1], -1, bounds[m][1], bounds[m][2])
                                    ELSE f[k]]
  <2>4. g = [k \in 0 .. m |-> IF k = 0 THEN z
                              ELSE SeqRm(g[k - 1], -1, bounds[k][1], bounds[k][2])]
    BY <1>3, <2>3
  <2>5. Undoes(c, h, bounds, m, g)
    <3> HIDE DEF g
    <3> QED BY <2>2, <2>4 DEF Undoes
  <2> QED BY <2>5
<1> QED BY <1>2, <1>3

LEMMA RestoreWorks ==
  ASSUME NEW c, CacheOK(c), NEW h \in 0 .. KvSize, NEW bounds \in Seq(Nat \X Nat),
         NEW d, d = Restore(c, h, bounds)
  PROVE  CacheOK(d)
<1> DEFINE undo == CHOOSE f : Undoes(c, h, bounds, Len(bounds), f)
<1>1. Undoes(c, h, bounds, Len(bounds), undo)
  <2>1. Len(bounds) \in Nat
    OBVIOUS
  <2>2. \E f : Undoes(c, h, bounds, Len(bounds), f)
    BY <2>1, UndoesExist
  <2> QED BY <2>2
<1>2. d = undo[Len(bounds)]
  BY DEF Restore, Undoes
<1>3. PICK f : f = undo
  OBVIOUS
<1> HIDE DEF undo
<1>4. PICK z : z = [c EXCEPT !.head = h]
  OBVIOUS
<1>5. f = [n \in 0 .. Len(bounds) |-> IF n = 0 THEN z
                                      ELSE SeqRm(f[n - 1], -1, bounds[n][1], bounds[n][2])]
  BY <1>1, <1>3, <1>4 DEF Undoes
<1>6. CacheOK(f[0])
  BY <1>4, <1>5, HeadMoves
<1>7. ASSUME NEW n \in 1 .. Len(bounds), CacheOK(f[n - 1]) PROVE CacheOK(f[n])
  <2>1. bounds[n] \in Nat \X Nat
    OBVIOUS
  <2>2. PICK e, p, q : e = f[n - 1] /\ p = bounds[n][1] /\ q = bounds[n][2]
    OBVIOUS
  <2>3. p \in Nat /\ q \in Nat /\ q \in Int
    <3>1. PICK v \in Nat \X Nat : v = bounds[n]
      BY <2>1
    <3>2. v[1] \in Nat /\ v[2] \in Nat
      OBVIOUS
    <3> QED BY <2>2, <3>1, <3>2
  <2>4. f[n] = SeqRm(e, -1, p, q)
    <3>1. n \in 0 .. Len(bounds) /\ n # 0
      OBVIOUS
    <3>2. f[n] = SeqRm(f[n - 1], -1, bounds[n][1], bounds[n][2])
      BY <1>5, <3>1
    <3> QED BY <2>2, <3>2
  <2>5. CacheOK(e) /\ -1 \in SeqIds \cup {-1}
    BY <1>7, <2>2
  <2> QED BY <2>3, <2>4, <2>5, SeqRmWorks
<1>8. \A n \in 0 .. Len(bounds) : CacheOK(f[n])
  <2> SUFFICES ASSUME NEW b \in 0 .. Len(bounds), ~ CacheOK(f[b]) PROVE FALSE
    OBVIOUS
  <2> DEFINE T == {k \in 0 .. Len(bounds) : ~ CacheOK(f[k])}
  <2>1. PICK m \in T : \A k \in T : m <= k
    <3>1. T \subseteq Nat /\ T # {}
      OBVIOUS
    <3> HIDE DEF T
    <3> QED BY <3>1, LeastElement
  <2>2. m # 0
    BY <1>6
  <2>3. m \in 1 .. Len(bounds) /\ m - 1 \in 0 .. Len(bounds) /\ ~(m <= m - 1)
    BY <2>2
  <2>4. CacheOK(f[m - 1])
    BY <2>1, <2>3
  <2> QED BY <1>7, <2>3, <2>4
<1> QED BY <1>2, <1>3, <1>8

-----------------------------------------------------------------------------
(* What the operations do to what a sequence holds.                        *)

(* A sequence whose cells stay as they are keeps what it holds.            *)
LEMMA Unmoved ==
  ASSUME NEW c, NEW d, NEW s, NEW a, NEW P, NEW B, Holds(c, s, a, P, B),
         Has(d, s) = Has(c, s), \A i \in Has(c, s) : Same(c, d, i)
  PROVE  Holds(d, s, a, P, B)
BY DEF Holds, Same

(* It holds less, too.                                                     *)
LEMMA HoldsLess ==
  ASSUME NEW c, NEW s, NEW a, NEW P, NEW B, Holds(c, s, a, P, B),
         NEW e, NEW Q, NEW D, Q \subseteq P, B \subseteq D, \A p \in Q : e[p + 1] = a[p + 1]
  PROVE  Holds(c, s, e, Q, D)
BY DEF Holds

(* The cells of a sequence have positions and are owned.                   *)
LEMMA HasCells ==
  ASSUME NEW c, CacheOK(c), NEW s \in SeqIds, NEW i \in Has(c, s)
  PROVE  /\ i \in Cells /\ i \in Owned(c.cells) /\ s \in c.cells[i].seqs
         /\ c.cells[i].pos \in Nat /\ c.cells[i].delta \in Int
<1>1. i \in Cells /\ s \in c.cells[i].seqs
  BY DEF Has
<1>2. c.cells[i] \in CellT
  BY <1>1 DEF CacheOK, CacheT
<1>3. c.cells[i].pos \in Int /\ c.cells[i].delta \in Int
  BY <1>2 DEF CellT
<1>4. c.cells[i].pos >= 0
  BY <1>1 DEF CacheOK, Counted
<1> QED BY <1>1, <1>3, <1>4 DEF Owned

(* Moving cells keeps what a sequence holds.                               *)
LEMMA RelocatedHolds ==
  ASSUME NEW c, NEW f, NEW d, Relocated(c, f, d), NEW s \in SeqIds,
         NEW a, NEW P, NEW B, Holds(c, s, a, P, B)
  PROVE  Holds(d, s, a, P, B)
<1>1. \A i \in Has(d, s) : /\ i \in Owned(d.cells) /\ f[i] \in Has(c, s)
                           /\ d.cells[i] = c.cells[f[i]] /\ d.rows[i] = c.rows[f[i]]
  <2> SUFFICES ASSUME NEW i \in Has(d, s)
               PROVE  /\ i \in Owned(d.cells) /\ f[i] \in Has(c, s)
                      /\ d.cells[i] = c.cells[f[i]] /\ d.rows[i] = c.rows[f[i]]
    OBVIOUS
  <2>1. i \in Owned(d.cells) /\ s \in d.cells[i].seqs
    BY DEF Has, Owned
  <2>2. f[i] \in Owned(c.cells) /\ d.cells[i] = c.cells[f[i]] /\ d.rows[i] = c.rows[f[i]]
    BY <2>1 DEF Relocated
  <2>3. f[i] \in Cells /\ s \in c.cells[f[i]].seqs
    BY <2>1, <2>2 DEF Owned
  <2> QED BY <2>1, <2>2, <2>3 DEF Has
<1>2. \A k \in Has(c, s) : \E i \in Has(d, s) : f[i] = k
  <2> SUFFICES ASSUME NEW k \in Has(c, s) PROVE \E i \in Has(d, s) : f[i] = k
    OBVIOUS
  <2>1. k \in Owned(c.cells) /\ s \in c.cells[k].seqs
    BY DEF Has, Owned
  <2>2. PICK i \in Owned(d.cells) : f[i] = k
    BY <2>1 DEF Relocated
  <2>3. d.cells[i] = c.cells[k] /\ i \in Cells
    BY <2>2 DEF Relocated, Owned
  <2> QED BY <2>1, <2>2, <2>3 DEF Has
<1>3. \A i, j \in Has(d, s) : f[i] = f[j] => i = j
  BY <1>1 DEF Relocated
<1>4. \A i \in Has(d, s) : d.cells[i].pos \in B
  BY <1>1 DEF Holds
<1>5. ASSUME NEW i \in Has(d, s), NEW j \in Has(d, s), d.cells[i].pos = d.cells[j].pos
      PROVE  i = j
  <2>1. f[i] = f[j]
    BY <1>1, <1>5 DEF Holds
  <2> QED BY <1>3, <2>1
<1>6. ASSUME NEW p \in P PROVE \E i \in Has(d, s) : d.cells[i].pos = p
  <2>1. PICK k \in Has(c, s) : c.cells[k].pos = p
    BY DEF Holds
  <2>2. PICK i \in Has(d, s) : f[i] = k
    BY <1>2
  <2> QED BY <1>1, <2>1, <2>2
<1>7. ASSUME NEW i \in Has(d, s), d.cells[i].pos \in P
      PROVE  /\ d.rows[i] # NoRow /\ d.rows[i].tok = a[d.cells[i].pos + 1]
             /\ d.rows[i].at + d.cells[i].delta = d.cells[i].pos
  BY <1>1, <1>7 DEF Holds
<1> QED BY <1>4, <1>5, <1>6, <1>7 DEF Holds

(* The K-shift keeps it.                                                   *)
LEMMA TurnedHolds ==
  ASSUME NEW c, CacheOK(c), NEW d, Turned(c, d), NEW s \in SeqIds,
         NEW a, NEW P, NEW B, Holds(c, s, a, P, B)
  PROVE  Holds(d, s, a, P, B)
<1>1. \A i \in Cells : d.cells[i].pos = c.cells[i].pos /\ d.cells[i].seqs = c.cells[i].seqs
                       /\ d.cells[i].delta = 0
  <2>1. \A i \in Cells :
          d.cells[i] = [pos |-> c.cells[i].pos, delta |-> 0, seqs |-> c.cells[i].seqs]
    BY DEF Turned
  <2> SUFFICES ASSUME NEW i \in Cells
               PROVE  /\ d.cells[i].pos = c.cells[i].pos /\ d.cells[i].seqs = c.cells[i].seqs
                      /\ d.cells[i].delta = 0
    OBVIOUS
  <2>2. PICK p, t : p = c.cells[i].pos /\ t = c.cells[i].seqs
    OBVIOUS
  <2>3. d.cells[i] = [pos |-> p, delta |-> 0, seqs |-> t]
    BY <2>1, <2>2
  <2> QED BY <2>2, <2>3
<1>2. Has(d, s) = Has(c, s)
  BY <1>1 DEF Has
<1>3. ASSUME NEW i \in Has(c, s), c.cells[i].pos \in P
      PROVE  /\ d.rows[i] # NoRow /\ d.rows[i].tok = a[d.cells[i].pos + 1]
             /\ d.rows[i].at + d.cells[i].delta = d.cells[i].pos
  <2>1. i \in Cells /\ c.cells[i].pos \in Nat
    BY HasCells
  <2>2. /\ c.rows[i] # NoRow /\ c.rows[i].tok = a[c.cells[i].pos + 1]
        /\ c.rows[i].at + c.cells[i].delta = c.cells[i].pos
    BY <1>3 DEF Holds
  <2>3. d.rows[i] = [tok |-> c.rows[i].tok, at |-> c.rows[i].at + c.cells[i].delta]
    BY <2>1, <2>2 DEF Turned
  <2>4. PICK t, p : t = c.rows[i].tok /\ p = c.rows[i].at + c.cells[i].delta
    OBVIOUS
  <2>5. d.rows[i] = [tok |-> t, at |-> p]
    BY <2>3, <2>4
  <2>6. d.rows[i] # NoRow /\ d.rows[i].tok = t /\ d.rows[i].at = p
    BY <2>5 DEF NoRow
  <2>7. p + 0 = p
    BY <2>1, <2>2, <2>4
  <2> QED BY <1>1, <2>1, <2>2, <2>4, <2>6, <2>7
<1>4. \A i \in Has(c, s) : i \in Cells
  BY DEF Has
<1> QED BY <1>1, <1>2, <1>3, <1>4 DEF Holds

(* The cells that an ubatch takes.                                         *)
LEMMA SeatedHolds ==
  ASSUME NEW c, CacheOK(c), NEW h \in 0 .. KvSize, NEW ub \in Seq(BatchInput), NEW d,
         Seated(c, h, ub, d), NEW s \in SeqIds, NEW a, NEW P, NEW B, Holds(c, s, a, P, B),
         \A k, m \in 1 .. Len(ub) : k < m /\ ub[k].seq = ub[m].seq => ub[k].pos < ub[m].pos,
         Left(ub, s) \cap B = {}, P \subseteq B
  PROVE  Holds(d, s, a, P, B \cup Left(ub, s))
<1> DEFINE here == h .. h + Len(ub) - 1
<1>1. ASSUME NEW i \in Cells, i \notin here
      PROVE  d.cells[i] = c.cells[i] /\ d.rows[i] = c.rows[i]
  BY <1>1 DEF Seated
<1>2. ASSUME NEW i \in here
      PROVE  \E k \in 1 .. Len(ub) : i = h + k - 1
  <2>1. i - h + 1 \in 1 .. Len(ub) /\ i = h + (i - h + 1) - 1
    OBVIOUS
  <2> QED BY <2>1
<1>3. ASSUME NEW k \in 1 .. Len(ub)
      PROVE  /\ h + k - 1 \in Cells /\ c.cells[h + k - 1].seqs = {}
             /\ d.cells[h + k - 1].pos = ub[k].pos /\ d.cells[h + k - 1].seqs = {ub[k].seq}
             /\ ub[k].pos \in Int
  <2>1. PICK i, p, t, e : i = h + k - 1 /\ p = ub[k].pos /\ t = ub[k].seq /\ e = c.cells[i].delta
    OBVIOUS
  <2>2. i \in Cells /\ c.cells[i].seqs = {} /\ d.cells[i] = [pos |-> p, delta |-> e, seqs |-> {t}]
    BY <2>1 DEF Seated
  <2>3. d.cells[i].pos = p /\ d.cells[i].seqs = {t}
    BY <2>2
  <2>4. ub[k] \in BatchInput
    OBVIOUS
  <2>5. ub[k].pos \in Int
    BY <2>4 DEF BatchInput
  <2> QED BY <2>1, <2>2, <2>3, <2>5
<1> HIDE DEF here
<1>4. ASSUME NEW i \in Has(d, s)
      PROVE  \/ i \in Has(c, s) /\ d.cells[i] = c.cells[i] /\ d.rows[i] = c.rows[i]
             \/ \E k \in 1 .. Len(ub) : i = h + k - 1 /\ ub[k].seq = s /\ d.cells[i].pos = ub[k].pos
  <2>1. i \in Cells /\ s \in d.cells[i].seqs
    BY DEF Has
  <2>2. CASE i \in here
    BY <1>2, <1>3, <2>1, <2>2
  <2>3. CASE i \notin here
    BY <1>1, <2>1, <2>3 DEF Has
  <2> QED BY <2>2, <2>3
<1>5. ASSUME NEW i \in Has(c, s) PROVE i \in Has(d, s) /\ d.cells[i] = c.cells[i]
  <2>1. i \in Cells /\ s \in c.cells[i].seqs
    BY DEF Has
  <2>2. i \notin here
    BY <1>2, <1>3, <2>1
  <2> QED BY <1>1, <2>1, <2>2 DEF Has
<1>6. \A k \in 1 .. Len(ub) : ub[k].seq = s => ub[k].pos \in Left(ub, s)
  BY DEF Left
<1>7. \A i \in Has(d, s) : d.cells[i].pos \in B \cup Left(ub, s)
  BY <1>4, <1>6 DEF Holds
<1>8. ASSUME NEW i \in Has(d, s), NEW j \in Has(d, s), d.cells[i].pos = d.cells[j].pos
      PROVE  i = j
  <2>1. CASE i \in Has(c, s) /\ j \in Has(c, s)
    BY <1>5, <1>8, <2>1 DEF Holds
  <2>2. CASE i \in Has(c, s) /\ j \notin Has(c, s)
    BY <1>4, <1>5, <1>6, <1>8, <2>2 DEF Holds
  <2>3. CASE i \notin Has(c, s) /\ j \in Has(c, s)
    BY <1>4, <1>5, <1>6, <1>8, <2>3 DEF Holds
  <2>4. CASE i \notin Has(c, s) /\ j \notin Has(c, s)
    <3>1. PICK k \in 1 .. Len(ub) : i = h + k - 1 /\ ub[k].seq = s /\ d.cells[i].pos = ub[k].pos
      BY <1>4, <2>4
    <3>2. PICK m \in 1 .. Len(ub) : j = h + m - 1 /\ ub[m].seq = s /\ d.cells[j].pos = ub[m].pos
      BY <1>4, <2>4
    <3>3. ~(k < m) /\ ~(m < k)
      <4>1. PICK p : p = ub[k].pos /\ p = ub[m].pos
        BY <1>8, <3>1, <3>2
      <4>2. p \in Int /\ ub[k].seq = ub[m].seq
        BY <1>3, <3>1, <3>2, <4>1
      <4>3. (k < m => p < p) /\ (m < k => p < p)
        BY <4>1, <4>2
      <4> QED BY <4>2, <4>3
    <3>4. k = m
      <4>1. k \in Int /\ m \in Int
        OBVIOUS
      <4> QED BY <3>3, <4>1
    <3> QED BY <3>1, <3>2, <3>4
  <2> QED BY <2>1, <2>2, <2>3, <2>4
<1>9. \A p \in P : \E i \in Has(d, s) : d.cells[i].pos = p
  BY <1>5 DEF Holds
<1>10. ASSUME NEW i \in Has(d, s), d.cells[i].pos \in P
       PROVE  i \in Has(c, s) /\ d.cells[i] = c.cells[i] /\ d.rows[i] = c.rows[i]
  BY <1>4, <1>6, <1>10
<1> QED BY <1>7, <1>8, <1>9, <1>10 DEF Holds

(* The rows of the ubatch are those of its inputs.                         *)
LEMMA WrittenHolds ==
  ASSUME NEW c, CacheOK(c), NEW ub, Slotted(c, ub), NEW d, Written(c, ub, d),
         NEW s \in SeqIds, NEW a, NEW P, NEW B, Holds(c, s, a, P, B),
         \A k \in 1 .. Len(ub) : ub[k].seq = s => ub[k].tok = a[ub[k].pos + 1]
  PROVE  Holds(d, s, a, P \cup Left(ub, s), B)
<1> DEFINE here == c.head .. c.head + Len(ub) - 1
<1>1. ub \in Seq(BatchInput) /\ c.head \in Nat /\ c.head + Len(ub) <= KvSize
  BY DEF Slotted, CacheOK, CacheT
<1>2. ASSUME NEW i \in here
      PROVE  \E k \in 1 .. Len(ub) : i = c.head + k - 1
  <2>1. i - c.head + 1 \in 1 .. Len(ub) /\ i = c.head + (i - c.head + 1) - 1
    BY <1>1
  <2> QED BY <2>1
<1>3. ASSUME NEW k \in 1 .. Len(ub)
      PROVE  /\ c.head + k - 1 \in Cells /\ c.cells[c.head + k - 1].pos = ub[k].pos
             /\ c.head + k - 1 \in here
             /\ c.cells[c.head + k - 1].seqs = {ub[k].seq} /\ c.cells[c.head + k - 1].delta = 0
             /\ d.rows[c.head + k - 1] # NoRow
             /\ d.rows[c.head + k - 1].tok = ub[k].tok /\ d.rows[c.head + k - 1].at = ub[k].pos
             /\ ub[k].pos \in Int
  <2>1. PICK i, p, t, w : i = c.head + k - 1 /\ p = ub[k].pos /\ t = ub[k].seq /\ w = ub[k].tok
    OBVIOUS
  <2>2. i \in Cells /\ i \in here
    BY <1>1, <2>1, RingSize DEF Cells
  <2>3. c.cells[i] = [pos |-> p, delta |-> 0, seqs |-> {t}] /\ d.rows[i] = [tok |-> w, at |-> p]
    BY <2>1 DEF Slotted, Written
  <2>4. /\ c.cells[i].pos = p /\ c.cells[i].delta = 0 /\ c.cells[i].seqs = {t}
        /\ d.rows[i].tok = w /\ d.rows[i].at = p /\ d.rows[i] # NoRow
    <3>1. PICK u, v : u = c.cells[i] /\ v = d.rows[i]
      OBVIOUS
    <3>2. u = [pos |-> p, delta |-> 0, seqs |-> {t}] /\ v = [tok |-> w, at |-> p]
      BY <2>3, <3>1
    <3>3. v # NoRow
      BY <3>2 DEF NoRow
    <3>4. u.pos = p /\ u.delta = 0 /\ u.seqs = {t} /\ v.tok = w /\ v.at = p
      BY <3>2
    <3> QED BY <3>1, <3>3, <3>4
  <2>5. ub[k] \in BatchInput
    BY <1>1
  <2>6. ub[k].pos \in Int
    BY <2>5 DEF BatchInput
  <2> QED BY <2>1, <2>2, <2>4, <2>6
<1>4. \A i \in Cells : i \notin here => d.rows[i] = c.rows[i]
  BY DEF Written
<1> HIDE DEF here
<1>5. Has(d, s) = Has(c, s) /\ d.cells = c.cells
  BY DEF Has, Written
<1>6. \A p \in Left(ub, s) : \E k \in 1 .. Len(ub) : p = ub[k].pos /\ ub[k].seq = s
  BY DEF Left
<1>7. ASSUME NEW p \in P \cup Left(ub, s) PROVE \E i \in Has(c, s) : c.cells[i].pos = p
  <2>1. CASE p \in P
    BY <2>1 DEF Holds
  <2>2. CASE p \in Left(ub, s)
    <3>1. PICK k \in 1 .. Len(ub) : p = ub[k].pos /\ ub[k].seq = s
      BY <1>6, <2>2
    <3>2. c.head + k - 1 \in Has(c, s)
      BY <1>3, <3>1 DEF Has
    <3> QED BY <1>3, <3>1, <3>2
  <2> QED BY <2>1, <2>2
<1>8. ASSUME NEW i \in Has(c, s), c.cells[i].pos \in P \cup Left(ub, s)
      PROVE  /\ d.rows[i] # NoRow /\ d.rows[i].tok = a[c.cells[i].pos + 1]
             /\ d.rows[i].at + c.cells[i].delta = c.cells[i].pos
  <2>1. i \in Cells /\ s \in c.cells[i].seqs
    BY DEF Has
  <2>2. CASE i \in here
    <3>1. PICK k \in 1 .. Len(ub) : i = c.head + k - 1
      BY <1>2, <2>2
    <3>2. /\ c.cells[i].pos = ub[k].pos /\ c.cells[i].seqs = {ub[k].seq} /\ c.cells[i].delta = 0
          /\ d.rows[i] # NoRow /\ d.rows[i].tok = ub[k].tok /\ d.rows[i].at = ub[k].pos
          /\ ub[k].pos \in Int
      BY <1>3, <3>1
    <3>3. ub[k].seq = s
      BY <2>1, <3>2
    <3> QED BY <3>2, <3>3
  <2>3. CASE i \notin here
    <3>1. c.cells[i].pos \in P
      <4> SUFFICES ASSUME c.cells[i].pos \in Left(ub, s) PROVE FALSE
        BY <1>8
      <4>1. PICK k \in 1 .. Len(ub) : c.cells[i].pos = ub[k].pos /\ ub[k].seq = s
        BY <1>6
      <4>2. PICK j : j = c.head + k - 1
        OBVIOUS
      <4>3. j \in Has(c, s) /\ c.cells[j].pos = c.cells[i].pos /\ j \in here
        BY <1>3, <4>1, <4>2 DEF Has
      <4>4. i = j
        BY <4>3 DEF Holds
      <4> QED BY <2>3, <4>3, <4>4
    <3> QED BY <1>4, <2>1, <2>3, <3>1 DEF Holds
  <2> QED BY <2>2, <2>3
<1> QED BY <1>5, <1>7, <1>8 DEF Holds
=============================================================================
