-------------------------- MODULE GraphAllocProofs ---------------------------
(***************************************************************************)
(* The graph allocator neither loses memory nor hands it out twice, and    *)
(* what it places is intact when it is read, for any graphs, sizes,        *)
(* numbers of tokens and calls.                                            *)
(***************************************************************************)
EXTENDS GraphAllocProperties, TLAPS, SequenceTheorems, FiniteSetTheorems,
        WellFoundedInduction

(* The reads of tensor t from source k of node n on.                       *)
Pending(t, n, k) == {r \in Reads(graph, t) : r[1] > n \/ (r[1] = n /\ r[2] >= k)}

(* Its views, and those of them that are still to be read, or never are.   *)
ViewsOf(g, t) == {v \in DOMAIN g \ Leafs(g) : g[v].view_src = t}
Viewing(t, n, k) ==
  {v \in ViewsOf(graph, t) : Reads(graph, v) = {} \/ Pending(v, n, k) # {}}

(* A tensor that was needed and is not any more.  The others that come     *)
(* before node n live when it is their turn.                               *)
Dead(t, n, k) ==
  /\ ~graph[t].out /\ Pending(t, n, k) = {} /\ Viewing(t, n, k) = {}
  /\ Reads(graph, t) # {} \/ ViewsOf(graph, t) # {}
Lives(t, n) == t \in DOMAIN graph /\ t < n /\ Assigned(t) /\ ~Dead(t, n, 1)

(* The measuring allocator: what is owned and what is free fill its range, *)
(* and the free blocks do not touch.                                       *)
Pad(t) == Padded(Size(t))
Apart(o, n, p, m) == o + n <= p \/ p + m <= o
Blocks == [offset : Nat, size : Nat \ {0}]
PlanT(p) ==
  /\ p = [hn |-> p.hn, free |-> p.free, max_size |-> p.max_size]
  /\ p.hn \in [DOMAIN graph -> HashNode] /\ p.max_size \in Nat
Gaps(f) ==
  /\ f \subseteq Blocks
  /\ \A b \in f : b.offset + b.size <= Half
  /\ \A b, c \in f : b # c => b.offset + b.size < c.offset \/ c.offset + c.size < b.offset
InBlock(f, x) == \E b \in f : x \in Interval(b.offset, b.size)
Owns(p, t) == t \in DOMAIN graph /\ p.hn[t].allocated
Holdings(p) ==
  /\ \A t : Owns(p, t) => Assigned(t) /\ p.hn[t].offset + Pad(t) <= Half
  /\ \A t, u : Owns(p, t) /\ Owns(p, u) /\ t # u =>
       Apart(p.hn[t].offset, Pad(t), p.hn[u].offset, Pad(u))
  /\ \A t : Owns(p, t) =>
       \A x \in Interval(p.hn[t].offset, Pad(t)) : ~InBlock(p.free, x)
Covered(p) ==
  \A x \in 0 .. Half - 1 :
    InBlock(p.free, x) \/ \E t : Owns(p, t) /\ x \in Interval(p.hn[t].offset, Pad(t))
BlocksOK(p) == PlanT(p) /\ Gaps(p.free) /\ Holdings(p) /\ Covered(p)

(* After n tensors the rest of the range is free.                          *)
Room(f, n) == \A x \in n * (Half \div Len(graph)) .. Half - 1 : InBlock(f, x)

(* The counts are those of the reads and views to come; what lives is      *)
(* owned, and nothing is before its turn.                                  *)
Counts(p, n, k) ==
  \A t \in DOMAIN graph :
    /\ p.hn[t].n_children = Cardinality(Pending(t, n, k))
    /\ p.hn[t].n_views = Cardinality(Viewing(t, n, k))
Kept(p, n) ==
  /\ \A t : Owns(p, t) => t < n
  /\ \A t : Lives(t, n) => Owns(p, t)

(* Tensors at offsets o with sizes z that live together are apart, and a   *)
(* node is placed over what lives at its turn only to work in place.       *)
Layout(o, z, m) ==
  \A n \in 1 .. m : \A t : Lives(t, n) =>
    /\ \A u : Lives(u, n) /\ u # t => Apart(o[t], z[t], o[u], z[u])
    /\ n < m /\ Assigned(n) =>
         \/ Apart(o[t], z[t], o[n], z[n])
         \/ graph[n].op = "inplace" /\ o[t] = o[n] /\ graph[t].size = graph[n].size
Offsets(p) == [t \in DOMAIN graph |-> p.hn[t].offset]
Sizes == [t \in DOMAIN graph |-> SizeMax(t)]
Below(p, m) ==
  \A t \in DOMAIN graph : t < m /\ Assigned(t) => p.hn[t].offset + Pad(t) <= p.max_size

Planned(p, m) ==
  /\ BlocksOK(p) /\ Room(p.free, m - 1) /\ Kept(p, m)
  /\ Layout(Offsets(p), Sizes, m) /\ Below(p, m)

(* The plan kept is one of the graph, and fits the buffer if there is one. *)
Stored ==
  /\ DOMAIN node_allocs = DOMAIN graph
  /\ \A t \in DOMAIN graph :
       /\ DOMAIN node_allocs[t].src = DOMAIN graph[t].src
       /\ \A k \in DOMAIN graph[t].src :
            node_allocs[t].src[k] = node_allocs[graph[t].src[k]].size_max
  /\ Layout([t \in DOMAIN graph |-> node_allocs[t].offset],
            [t \in DOMAIN graph |-> node_allocs[t].size_max], Len(graph) + 1)
  /\ buffer # NoBuffer => \A t \in DOMAIN graph : Assigned(t) =>
       node_allocs[t].offset + node_allocs[t].size_max <= buffer

(* What lives in an execution is what was written last.                    *)
Intact == \A t : Lives(t, i) => \A a \in Region(t) : mem[a] = LastWriter(t, i)

GraphOK ==
  IF graph = <<>> THEN phase = "idle" /\ node_allocs = <<>>
  ELSE graph \in Graphs \cup Others /\ tokens \in Tokens

(* While a graph is planned ...                                            *)
PlanInv ==
  /\ TypeOK /\ GraphOK /\ node_allocs \in Seq(TensorAlloc)
  /\ phase = "idle" => i = 1
  /\ phase = "nodes" => Planned(plan, i) /\ Counts(plan, i, 1)
  /\ phase = "parents" =>
       /\ i \in DOMAIN graph \ Leafs(graph)
       /\ Planned(plan, i + 1) /\ Counts(plan, i, j)

(* ... and while it is executed.                                           *)
ExecInv ==
  /\ phase = "idle" => (node_allocs # <<>> => Stored)
  /\ phase = "exec" =>
       /\ Stored /\ buffer # NoBuffer /\ Intact
       /\ \A t \in DOMAIN graph : Assigned(t) => Size(t) <= node_allocs[t].size_max

-----------------------------------------------------------------------------
(* Numbers and blocks.                                                     *)

(* A non-empty set of numbers has a least element ...                      *)
LEMMA LeastElement ==
  ASSUME NEW T, T \subseteq Nat, T # {}
  PROVE  \E n \in T : \A m \in T : n <= m
<1> DEFINE Less == {ss \in Nat \X Nat : ss[1] < ss[2]}
<1>1. IsWellFoundedOn(Less, Nat)
  BY NatLessThanWellFounded DEF OpToRel
<1>2. \E n \in T : \A m \in T : ~ (<<m, n>> \in Less)
  <2> HIDE DEF Less
  <2> QED BY <1>1, WFMin
<1>3. PICK n \in T : \A m \in T : ~ (<<m, n>> \in Less)
  BY <1>2
<1>4. \A m \in T : m \in Nat /\ n \in Nat /\ ~(m < n)
  BY <1>3
<1> QED BY <1>4

(* ... which Min finds ...                                                 *)
LEMMA MinFound ==
  ASSUME NEW T, T \subseteq Nat, T # {}
  PROVE  Min(T) \in T /\ \A m \in T : Min(T) <= m
<1>1. \E n \in T : \A m \in T : n =< m
  BY LeastElement
<1> QED BY <1>1 DEF Min

(* ... and if it is bounded, a greatest one, which Max finds.              *)
LEMMA MaxFound ==
  ASSUME NEW b \in Nat, NEW T, T \subseteq 0 .. b, T # {}
  PROVE  Max(T) \in T /\ \A m \in T : m <= Max(T)
<1> DEFINE U == {b - t : t \in T}
<1>1. U \subseteq Nat /\ U # {}
  <2>1. \A t \in T : b - t \in Nat
    OBVIOUS
  <2> QED BY <2>1
<1>2. \E u \in U : \A v \in U : u <= v
  <2> HIDE DEF U
  <2> QED BY <1>1, LeastElement
<1>3. PICK u \in U : \A v \in U : u <= v
  BY <1>2
<1>4. PICK t \in T : u = b - t
  OBVIOUS
<1>5. \A m \in T : t >= m
  <2> SUFFICES ASSUME NEW m \in T PROVE t >= m
    OBVIOUS
  <2>1. b - t <= b - m
    BY <1>3, <1>4
  <2> QED BY <2>1
<1>6. \E n \in T : \A m \in T : n >= m
  BY <1>5
<1>7. Max(T) \in T /\ \A m \in T : Max(T) >= m
  BY <1>6 DEF Max
<1> QED BY <1>7


(* Padding never makes a size smaller.                                     *)
LEMMA PaddedLarger ==
  ASSUME NEW n \in Nat PROVE Padded(n) \in Nat /\ Padded(n) >= n
<1>1. PICK a \in Nat : a = Alignment /\ a > 0
  BY AlignmentAssumption
<1>2. PICK m \in Nat : m = n + a - 1
  BY <1>1
<1>3. PICK q \in Int, e \in Int : q = m \div a /\ e = m % a /\ m = a * q + e /\ 0 <= e /\ e < a
  BY <1>1
<1>4. q >= 0
  BY <1>1, <1>3
<1>5. Padded(n) = q * a
  BY <1>1, <1>2, <1>3 DEF Padded
<1>6. q * a \in Int /\ q * a = a * q /\ q * a >= 0
  BY <1>1, <1>3, <1>4
<1>7. q * a >= n
  BY <1>1, <1>2, <1>3, <1>6
<1> QED BY <1>5, <1>6, <1>7

(* The last of some blocks.                                                *)
LEMMA LastFound ==
  ASSUME NEW f, Gaps(f), f # {}
  PROVE  LastBlock(f) \in f /\ \A c \in f : c.offset <= LastBlock(f).offset
<1> DEFINE T == {b.offset : b \in f}
<1>1. Half \in Nat
  BY AlignmentAssumption
<1>2. \A b \in f : b.offset \in 0 .. Half
  <2> SUFFICES ASSUME NEW b \in f PROVE b.offset \in 0 .. Half
    OBVIOUS
  <2>1. b.offset \in Nat /\ b.size \in Nat /\ b.offset + b.size <= Half
    BY DEF Gaps, Blocks
  <2> QED BY <1>1, <2>1
<1>3. T \subseteq 0 .. Half /\ T # {}
  BY <1>2
<1>4. Max(T) \in T /\ \A m \in T : m <= Max(T)
  <2> HIDE DEF T
  <2> QED BY <1>1, <1>3, MaxFound
<1>5. PICK b \in f : b.offset = Max(T)
  BY <1>4
<1>6. \A c \in f : c.offset <= b.offset
  BY <1>4, <1>5
<1> HIDE DEF T
<1> QED BY <1>5, <1>6 DEF LastBlock

(* Some of the blocks do not touch either.                                 *)
LEMMA FewerGaps ==
  ASSUME NEW f, Gaps(f), NEW e, e \subseteq f PROVE Gaps(e)
BY DEF Gaps

(* A block in numbers.                                                     *)
LEMMA BlockFacts ==
  ASSUME NEW f, Gaps(f), NEW b \in f
  PROVE  /\ b.offset \in Nat /\ b.size \in Nat \ {0} /\ b.offset + b.size <= Half
         /\ b = Block(b.offset, b.size)
BY DEF Gaps, Blocks, Block

(* If all is free from w on, the block that is found is large enough, and  *)
(* what is taken of it ends before w + m.                                  *)
LEMMA FitFound ==
  ASSUME NEW f, Gaps(f), NEW w \in Nat, NEW m \in Nat, NEW n \in Nat \ {0}, n <= m,
         w + m <= Half, \A x \in w .. Half - 1 : InBlock(f, x)
  PROVE  /\ BestFit(f, n) \in f /\ BestFit(f, n).size >= n
         /\ BestFit(f, n).offset + n <= w + m
<1>1. Half \in Nat
  BY AlignmentAssumption
<1>2. PICK b \in f : w \in Interval(b.offset, b.size)
  <2>1. w \in w .. Half - 1
    BY <1>1
  <2> QED BY <2>1 DEF InBlock
<1>3. PICK o \in Nat, z \in Nat : o = b.offset /\ z = b.size /\ o <= w /\ w < o + z /\ o + z <= Half
  BY <1>2, BlockFacts DEF Interval
<1>4. o + z = Half
  <2> SUFFICES ASSUME o + z < Half PROVE FALSE
    BY <1>1, <1>3
  <2>1. o + z \in w .. Half - 1
    BY <1>1, <1>3
  <2>2. PICK c \in f : o + z \in Interval(c.offset, c.size)
    BY <2>1 DEF InBlock
  <2>3. PICK u \in Nat, v \in Nat : u = c.offset /\ v = c.size /\ u <= o + z /\ o + z < u + v
    BY <2>2, BlockFacts DEF Interval
  <2>4. c # b
    BY <1>3, <2>3
  <2>5. o + z < u \/ u + v < o
    BY <1>3, <2>3, <2>4 DEF Gaps
  <2> QED BY <1>3, <2>3, <2>5
<1>5. LastBlock(f) \in f /\ \A c \in f : c.offset <= LastBlock(f).offset
  BY <1>2, LastFound
<1>6. LastBlock(f) = b
  <2> SUFFICES ASSUME LastBlock(f) # b PROVE FALSE
    OBVIOUS
  <2>1. PICK u \in Nat, v \in Nat \ {0} :
          u = LastBlock(f).offset /\ v = LastBlock(f).size /\ u + v <= Half /\ o <= u
    BY <1>3, <1>5, BlockFacts
  <2>2. o + z < u \/ u + v < o
    BY <1>3, <1>5, <2>1 DEF Gaps
  <2> QED BY <1>3, <1>4, <2>1, <2>2
<1>7. b.size >= n /\ b.offset + n <= w + m
  BY <1>1, <1>3, <1>4
<1> DEFINE fits == {c \in f \ {LastBlock(f)} : c.size >= n}
           best == {c \in fits : \A d \in fits : c.size <= d.size}
           sizes == {c.size : c \in fits}
<1>8. CASE fits = {}
  <2>1. BestFit(f, n) = b
    BY <1>6, <1>8 DEF BestFit
  <2> QED BY <1>7, <2>1
<1>9. CASE fits # {}
  <2>1. sizes \subseteq Nat /\ sizes # {}
    BY <1>9, BlockFacts
  <2>2. PICK k \in sizes : \A h \in sizes : k <= h
    <3> HIDE DEF sizes
    <3> QED BY <2>1, LeastElement
  <2>3. best # {}
    <3>1. PICK c \in fits : c.size = k
      OBVIOUS
    <3>2. \A d \in fits : d.size \in sizes
      OBVIOUS
    <3>3. c \in best
      BY <2>2, <3>1, <3>2
    <3> QED BY <3>3
  <2>4. best \subseteq f
    OBVIOUS
  <2>5. LastBlock(best) \in best
    <3> HIDE DEF best
    <3> QED BY <2>3, <2>4, FewerGaps, LastFound
  <2>6. BestFit(f, n) = LastBlock(best)
    BY <1>9 DEF BestFit
  <2>7. PICK c : c = BestFit(f, n) /\ c \in f /\ c # b /\ c.size >= n
    BY <1>6, <2>5, <2>6
  <2>8. PICK u \in Nat, v \in Nat \ {0} : u = c.offset /\ v = c.size /\ u + v <= Half /\ u <= o
    BY <1>3, <1>5, <1>6, <2>7, BlockFacts
  <2>9. u + v < o \/ o + z < u
    BY <1>3, <2>7, <2>8 DEF Gaps
  <2>10. u + n <= w + m
    BY <1>3, <2>7, <2>8, <2>9
  <2> QED BY <2>7, <2>8, <2>10
<1> HIDE DEF fits
<1> QED BY <1>8, <1>9

(* What is taken from a block is not free any more.                        *)
LEMMA TakenFree ==
  ASSUME NEW f, Gaps(f), NEW b \in f, NEW n \in Nat \ {0}, n <= b.size
  PROVE  /\ Gaps(Taken(f, b, n))
         /\ \A x \in Int : InBlock(Taken(f, b, n), x) <=>
              InBlock(f, x) /\ x \notin Interval(b.offset, n)
<1>1. PICK o \in Nat, z \in Nat \ {0} :
        o = b.offset /\ z = b.size /\ o + z <= Half /\ Half \in Nat
  BY BlockFacts, AlignmentAssumption
<1>2. PICK d : d = Block(o + n, z - n)
  OBVIOUS
<1>3. d.offset = o + n /\ d.size = z - n /\ (z # n => d \in Blocks)
  BY <1>1, <1>2 DEF Block, Blocks
<1>4. PICK e : e = Taken(f, b, n)
  OBVIOUS
<1>5. e = (f \ {b}) \cup (IF z = n THEN {} ELSE {d})
  BY <1>1, <1>2, <1>4 DEF Taken
<1>6. \A c \in f \ {b} :
        /\ c.offset \in Nat /\ c.size \in Nat \ {0}
        /\ o + z < c.offset \/ c.offset + c.size < o
  BY <1>1, BlockFacts DEF Gaps
<1>7. Gaps(e)
  <2>1. e \subseteq Blocks
    BY <1>3, <1>5 DEF Gaps
  <2>2. \A c \in e : c.offset + c.size <= Half
    <3> SUFFICES ASSUME NEW c \in e PROVE c.offset + c.size <= Half
      OBVIOUS
    <3>1. CASE c \in f
      BY <3>1 DEF Gaps
    <3>2. CASE c = d
      BY <1>1, <1>3, <3>2
    <3> QED BY <1>5, <3>1, <3>2
  <2>3. \A c \in f \ {b} : z # n => c.offset + c.size < d.offset \/ d.offset + d.size < c.offset
    BY <1>1, <1>3, <1>6
  <2>4. \A c, k \in e : c # k => c.offset + c.size < k.offset \/ k.offset + k.size < c.offset
    <3> SUFFICES ASSUME NEW c \in e, NEW k \in e, c # k
                 PROVE  c.offset + c.size < k.offset \/ k.offset + k.size < c.offset
      OBVIOUS
    <3>1. CASE c \in f \ {b} /\ k \in f \ {b}
      BY <3>1 DEF Gaps
    <3>2. CASE z # n /\ c = d /\ k \in f \ {b}
      BY <2>3, <3>2
    <3>3. CASE z # n /\ k = d /\ c \in f \ {b}
      BY <2>3, <3>3
    <3> QED BY <1>5, <3>1, <3>2, <3>3
  <2> QED BY <2>1, <2>2, <2>4 DEF Gaps
<1>8. ASSUME NEW x \in Int
      PROVE  InBlock(e, x) <=> InBlock(f, x) /\ x \notin Interval(o, n)
  <2>1. x \in Interval(o, z) <=> x \in Interval(o, n) \/ (z # n /\ x \in Interval(d.offset, d.size))
    BY <1>1, <1>3 DEF Interval
  <2>2. z # n => ~(x \in Interval(o, n) /\ x \in Interval(d.offset, d.size))
    BY <1>1, <1>3 DEF Interval
  <2>3. \A c \in f \ {b} : x \in Interval(c.offset, c.size) => x \notin Interval(o, n)
    <3> SUFFICES ASSUME NEW c \in f \ {b}, x \in Interval(c.offset, c.size), x \in Interval(o, n)
                 PROVE  FALSE
      OBVIOUS
    <3>1. PICK u \in Nat, v \in Nat \ {0} : u = c.offset /\ v = c.size
      BY <1>6
    <3> QED BY <1>1, <1>6, <3>1 DEF Interval
  <2> QED BY <1>1, <1>5, <2>1, <2>2, <2>3 DEF InBlock
<1> QED BY <1>1, <1>4, <1>7, <1>8

(* What is freed becomes free, in one block with what it touches.          *)
LEMMA FreedFree ==
  ASSUME NEW f, Gaps(f), NEW o \in Nat, NEW n \in Nat \ {0}, o + n <= Half,
         \A x \in Interval(o, n) : ~InBlock(f, x)
  PROVE  /\ Gaps(FreeTensor(f, o, n))
         /\ \A x \in Int : InBlock(FreeTensor(f, o, n), x) <=>
              InBlock(f, x) \/ x \in Interval(o, n)
<1> DEFINE left  == {b \in f : b.offset + b.size = o}
           right == {b \in f : o + n = b.offset}
<1>1. Half \in Nat
  BY AlignmentAssumption
<1>2. \A b \in f : /\ b.offset \in Nat /\ b.size \in Nat \ {0} /\ b.offset + b.size <= Half
                   /\ b.offset + b.size <= o \/ o + n <= b.offset
  <2> SUFFICES ASSUME NEW b \in f PROVE b.offset + b.size <= o \/ o + n <= b.offset
    BY BlockFacts
  <2>1. PICK u \in Nat, v \in Nat \ {0} : u = b.offset /\ v = b.size
    BY BlockFacts
  <2>2. \A x \in u .. u + v - 1 : ~(x \in o .. o + n - 1)
    BY <2>1 DEF InBlock, Interval
  <2>3. u <= o \/ o <= u
    OBVIOUS
  <2>4. CASE u <= o
    <3>1. ~(o \in u .. u + v - 1)
      BY <2>2
    <3> QED BY <2>1, <2>4, <3>1
  <2>5. CASE o <= u
    <3>1. u \in u .. u + v - 1
      OBVIOUS
    <3>2. ~(u \in o .. o + n - 1)
      BY <2>2, <3>1
    <3> QED BY <2>1, <2>5, <3>2
  <2> QED BY <2>3, <2>4, <2>5
<1>3. PICK from \in Nat : /\ from <= o
                          /\ from = IF left = {} THEN o ELSE (CHOOSE b \in left : TRUE).offset
                          /\ left = {} \/ \E b \in left : b.offset = from /\ left = {b}
  <2>1. CASE left = {}
    BY <2>1
  <2>2. CASE left # {}
    <3>1. PICK b : b = (CHOOSE c \in left : TRUE) /\ b \in left
      BY <2>2
    <3>2. \A c \in left : c = b
      <4> SUFFICES ASSUME NEW c \in left, c # b PROVE FALSE
        OBVIOUS
      <4>1. /\ c.offset \in Nat /\ c.size \in Nat \ {0} /\ c.offset + c.size = o
            /\ b.offset \in Nat /\ b.size \in Nat \ {0} /\ b.offset + b.size = o
        BY <1>2, <3>1
      <4>2. b.offset + b.size < c.offset \/ c.offset + c.size < b.offset
        BY <3>1 DEF Gaps
      <4> QED BY <4>1, <4>2
    <3>3. b.offset \in Nat /\ b.offset <= o
      BY <1>2, <3>1
    <3>4. left = {b}
      BY <3>1, <3>2
    <3> HIDE DEF left
    <3> QED BY <2>2, <3>1, <3>3, <3>4
  <2> QED BY <2>1, <2>2
<1>4. PICK to \in Nat : /\ o + n <= to /\ to <= Half
                        /\ to = IF right = {} THEN o + n
                                ELSE LET b == CHOOSE b \in right : TRUE IN b.offset + b.size
                        /\ IF right = {} THEN to = o + n
                           ELSE \E b \in right : b.offset + b.size = to /\ right = {b}
  <2>1. CASE right = {}
    BY <2>1
  <2>2. CASE right # {}
    <3>1. PICK b : b = (CHOOSE c \in right : TRUE) /\ b \in right
      BY <2>2
    <3>2. \A c \in right : c = b
      <4> SUFFICES ASSUME NEW c \in right, c # b PROVE FALSE
        OBVIOUS
      <4>1. /\ c.offset \in Nat /\ c.size \in Nat \ {0} /\ c.offset = o + n
            /\ b.offset \in Nat /\ b.size \in Nat \ {0} /\ b.offset = o + n
        BY <1>2, <3>1
      <4>2. b.offset + b.size < c.offset \/ c.offset + c.size < b.offset
        BY <3>1 DEF Gaps
      <4> QED BY <4>1, <4>2
    <3>3. PICK k \in Nat : k = b.offset + b.size /\ o + n <= k /\ k <= Half
      <4>1. PICK v \in Nat : v = b.size /\ b.offset = o + n /\ b.offset + v <= Half
        BY <1>2, <3>1
      <4> QED BY <4>1
    <3>4. right = {b}
      BY <3>1, <3>2
    <3> HIDE DEF right
    <3> QED BY <2>2, <3>1, <3>3, <3>4
  <2> QED BY <2>1, <2>2
<1>5. PICK d : d = Block(from, to - from)
  OBVIOUS
<1>6. d.offset = from /\ d.size = to - from /\ d \in Blocks
  BY <1>3, <1>4, <1>5 DEF Block, Blocks
<1>7. PICK e : e = FreeTensor(f, o, n)
  OBVIOUS
<1>8. e = (f \ (left \cup right)) \cup {d}
  BY <1>3, <1>4, <1>5, <1>7 DEF FreeTensor
<1>9. \A c \in f \ (left \cup right) : c.offset + c.size < from \/ to < c.offset
  <2> SUFFICES ASSUME NEW c \in f \ (left \cup right)
               PROVE  c.offset + c.size < from \/ to < c.offset
    OBVIOUS
  <2>1. PICK u \in Nat, v \in Nat \ {0} : u = c.offset /\ v = c.size /\ u + v # o /\ o + n # u
    BY <1>2
  <2>2. u + v < o \/ o + n < u
    BY <1>2, <2>1
  <2>3. CASE u + v < o
    <3>1. CASE left = {}
      BY <1>3, <2>1, <2>3, <3>1
    <3>2. CASE left # {}
      <4>1. PICK b \in left : b.offset = from
        BY <1>3, <3>2
      <4>2. b # c /\ b \in f /\ b.size \in Nat \ {0} /\ from + b.size = o
        BY <4>1, <1>2
      <4>3. u + v < from \/ from + b.size < u
        BY <2>1, <4>1, <4>2 DEF Gaps
      <4> QED BY <2>1, <2>3, <4>2, <4>3
    <3> QED BY <3>1, <3>2
  <2>4. CASE o + n < u
    <3>1. CASE right = {}
      BY <1>4, <2>1, <2>4, <3>1
    <3>2. CASE right # {}
      <4>1. PICK b \in right : b.offset + b.size = to
        BY <1>4, <3>2
      <4>2. b # c /\ b \in f /\ b.offset = o + n
        BY <4>1
      <4>3. u + v < o + n \/ to < u
        BY <2>1, <4>1, <4>2 DEF Gaps
      <4> QED BY <2>1, <2>4, <4>3
    <3> QED BY <3>1, <3>2
  <2> QED BY <2>2, <2>3, <2>4
<1>10. Gaps(e)
  <2>1. e \subseteq Blocks
    BY <1>6, <1>8 DEF Gaps
  <2>2. \A c \in e : c.offset + c.size <= Half
    <3>1. d.offset + d.size <= Half
      BY <1>1, <1>3, <1>4, <1>6
    <3> QED BY <1>8, <3>1 DEF Gaps
  <2>3. from + (to - from) = to
    OBVIOUS
  <2>4. \A c \in f \ (left \cup right) : c.offset + c.size < d.offset \/ d.offset + d.size < c.offset
    BY <1>6, <1>9, <2>3
  <2>5. \A c, k \in e : c # k => c.offset + c.size < k.offset \/ k.offset + k.size < c.offset
    <3> SUFFICES ASSUME NEW c \in e, NEW k \in e, c # k
                 PROVE  c.offset + c.size < k.offset \/ k.offset + k.size < c.offset
      OBVIOUS
    <3> HIDE DEF left, right
    <3>1. CASE c # d /\ k # d
      BY <1>8, <3>1 DEF Gaps
    <3>2. CASE c = d \/ k = d
      BY <1>8, <2>4, <3>2
    <3> QED BY <3>1, <3>2
  <2> QED BY <2>1, <2>2, <2>5 DEF Gaps
<1>11. ASSUME NEW x \in Int
       PROVE  InBlock(e, x) <=> InBlock(f, x) \/ x \in Interval(o, n)
  <2>1. x \in Interval(d.offset, d.size) <=> from <= x /\ x < to
    BY <1>6 DEF Interval
  <2>2. x \in Interval(o, n) <=> o <= x /\ x < o + n
    BY DEF Interval
  <2>3. (from <= x /\ x < o) <=> \E b \in left : x \in Interval(b.offset, b.size)
    <3>1. CASE left = {}
      BY <1>3, <3>1
    <3>2. CASE left # {}
      <4>1. PICK b \in left : b.offset = from /\ left = {b}
        BY <1>3, <3>2
      <4>2. b.size \in Nat /\ from + b.size = o
        BY <1>2, <4>1
      <4>3. x \in Interval(b.offset, b.size) <=> from <= x /\ x < o
        BY <4>1, <4>2 DEF Interval
      <4> HIDE DEF left
      <4> QED BY <4>1, <4>3
    <3> QED BY <3>1, <3>2
  <2>4. (o + n <= x /\ x < to) <=> \E b \in right : x \in Interval(b.offset, b.size)
    <3>1. CASE right = {}
      BY <1>4, <3>1
    <3>2. CASE right # {}
      <4>1. PICK b \in right : b.offset + b.size = to /\ right = {b}
        BY <1>4, <3>2
      <4>2. b.size \in Nat /\ b.offset = o + n
        BY <1>2, <4>1
      <4>3. x \in Interval(b.offset, b.size) <=> o + n <= x /\ x < to
        BY <4>1, <4>2 DEF Interval
      <4> HIDE DEF right
      <4> QED BY <4>1, <4>3
    <3> QED BY <3>1, <3>2
  <2>5. from <= x /\ x < to <=> (from <= x /\ x < o) \/ (o <= x /\ x < o + n) \/ (o + n <= x /\ x < to)
    BY <1>3, <1>4
  <2>6. left \subseteq f /\ right \subseteq f
    OBVIOUS
  <2>7. InBlock(e, x) <=> x \in Interval(d.offset, d.size)
                          \/ \E b \in f \ (left \cup right) : x \in Interval(b.offset, b.size)
    BY <1>8 DEF InBlock
  <2> HIDE DEF left, right
  <2> QED BY <2>1, <2>2, <2>3, <2>4, <2>5, <2>6, <2>7 DEF InBlock
<1> QED BY <1>7, <1>10, <1>11

-----------------------------------------------------------------------------
(* Graphs, and the reads and views that are still to come.                 *)

GoodCall == graph \in Graphs \cup Others /\ tokens \in Tokens

LEMMA GraphFacts ==
  ASSUME GoodCall
  PROVE  /\ graph \in Seq(Tensor) /\ WellFormed(graph) /\ tokens \in Nat \ {0}
         /\ Len(graph) \in Nat \ {0} /\ DOMAIN graph = 1 .. Len(graph)
<1>1. WellFormed(graph)
  BY GraphsAssumption DEF GoodCall
<1>2. graph \in Seq(Tensor) /\ graph # <<>>
  BY <1>1 DEF WellFormed
<1>3. Len(graph) # 0
  BY <1>2, EmptySeq
<1> QED BY <1>1, <1>2, <1>3, LenProperties, TokensAssumption DEF GoodCall

LEMMA TensorFacts ==
  ASSUME GoodCall, NEW t \in DOMAIN graph
  PROVE  /\ t \in Nat \ {0} /\ graph[t] \in Tensor
         /\ graph[t].src \in Seq(Nat \ {0}) /\ graph[t].size \in Nat \ {0}
         /\ graph[t].view_src \in Nat /\ graph[t].out \in BOOLEAN /\ graph[t].data \in BOOLEAN
         /\ graph[t].op \in {"none", "view", "set", "inplace", "other"}
<1>1. t \in 1 .. Len(graph) /\ graph \in Seq(Tensor) /\ Len(graph) \in Nat
  BY GraphFacts
<1>2. graph[t] \in Tensor
  BY <1>1, ElementOfSeq
<1> QED BY <1>1, <1>2 DEF Tensor

LEMMA SizeFacts ==
  ASSUME GoodCall, NEW t \in DOMAIN graph
  PROVE  /\ Size(t) \in Nat \ {0} /\ Pad(t) \in Nat \ {0} /\ Size(t) <= Pad(t)
         /\ Pad(t) <= Half \div Len(graph)
<1>1. PICK z \in Nat, n \in Nat : z = graph[t].size /\ n = tokens /\ z > 0 /\ n > 0
  BY TensorFacts, GraphFacts
<1>2. PICK m \in Nat : m = z * n /\ m > 0
  <2>1. z * n \in Nat /\ z * n > 0
    BY <1>1
  <2> QED BY <2>1
<1>3. Size(t) = m
  BY <1>1, <1>2 DEF Size
<1>4. Padded(m) \in Nat /\ Padded(m) >= m
  BY PaddedLarger
<1>5. Padded(m) <= Half \div Len(graph)
  BY <1>1, <1>2, HalfAssumption DEF GoodCall
<1> QED BY <1>2, <1>3, <1>4, <1>5 DEF Pad

(* The shares of the tensors in the range of the measuring allocator.      *)
LEMMA ShareFacts ==
  ASSUME GoodCall
  PROVE  /\ Half \div Len(graph) \in Nat
         /\ \A k \in Nat : k < Len(graph) =>
              /\ k * (Half \div Len(graph)) \in Nat
              /\ (k + 1) * (Half \div Len(graph)) = k * (Half \div Len(graph)) + Half \div Len(graph)
              /\ k * (Half \div Len(graph)) + Half \div Len(graph) <= Half
<1>1. PICK l \in Nat, h \in Nat : l = Len(graph) /\ h = Half /\ l > 0
  <2>1. Len(graph) \in Nat \ {0} /\ Half \in Nat
    BY GraphFacts, AlignmentAssumption
  <2> QED BY <2>1
<1>2. PICK q \in Int, e \in Int : q = h \div l /\ h = l * q + e /\ 0 <= e /\ e < l
  <2>1. l > 0
    BY <1>1
  <2>2. h \div l \in Int /\ h % l \in Int /\ h = l * (h \div l) + (h % l) /\ 0 <= h % l /\ h % l < l
    BY <2>1
  <2> QED BY <2>2
<1>3. q >= 0
  BY <1>1, <1>2
<1>4. ASSUME NEW k \in Nat, k < l
      PROVE  k * q \in Nat /\ (k + 1) * q = k * q + q /\ k * q + q <= h
  <2>1. k * q \in Int /\ k * q >= 0
    BY <1>2, <1>3
  <2>2. (k + 1) * q = k * q + q
    BY <1>2
  <2>3. (l - (k + 1)) * q >= 0
    BY <1>1, <1>2, <1>3, <1>4
  <2>4. l * q = (k + 1) * q + (l - (k + 1)) * q
    BY <1>1, <1>2
  <2> QED BY <1>1, <1>2, <2>1, <2>2, <2>3, <2>4
<1> QED BY <1>1, <1>2, <1>3, <1>4

(* The sources of a tensor come before it.                                 *)
LEMMA SourceFacts ==
  ASSUME GoodCall, NEW t \in DOMAIN graph
  PROVE  /\ DOMAIN graph[t].src = 1 .. Len(graph[t].src) /\ Len(graph[t].src) \in Nat
         /\ \A k \in DOMAIN graph[t].src :
              graph[t].src[k] \in DOMAIN graph /\ graph[t].src[k] < t
<1>1. PICK s \in Seq(Nat \ {0}) : s = graph[t].src
  BY TensorFacts
<1>2. DOMAIN s = 1 .. Len(s) /\ Len(s) \in Nat
  BY LenProperties
<1>3. ASSUME NEW k \in DOMAIN s PROVE s[k] \in DOMAIN graph /\ s[k] < t
  <2>1. s[k] \in Nat \ {0}
    BY <1>2, ElementOfSeq
  <2>2. s[k] < t
    BY <1>1, GraphFacts DEF WellFormed
  <2>3. t \in 1 .. Len(graph) /\ Len(graph) \in Nat /\ DOMAIN graph = 1 .. Len(graph)
    BY GraphFacts
  <2> QED BY <2>1, <2>2, <2>3
<1> QED BY <1>1, <1>2, <1>3

(* The tensor whose memory a view shares comes before it.                  *)
LEMMA ViewFacts ==
  ASSUME GoodCall, NEW t \in DOMAIN graph, IsView(t)
  PROVE  /\ graph[t].view_src \in DOMAIN graph /\ graph[t].view_src < t
         /\ graph[graph[t].view_src].view_src = 0 /\ t \in DOMAIN graph \ Leafs(graph)
<1>1. graph[t].view_src \in Nat /\ graph[t].view_src # 0
  BY TensorFacts DEF IsView
<1>2. graph[t].view_src < t /\ graph[graph[t].view_src].view_src = 0 /\ t \notin Leafs(graph)
  BY <1>1, GraphFacts DEF WellFormed
<1>3. t \in 1 .. Len(graph) /\ Len(graph) \in Nat /\ DOMAIN graph = 1 .. Len(graph)
  BY GraphFacts
<1> QED BY <1>1, <1>2, <1>3

(* The reads of a tensor.                                                  *)
LEMMA ReadsOf ==
  ASSUME NEW g, WellFormed(g), NEW t
  PROVE  /\ \A r \in Reads(g, t) :
              /\ r = <<r[1], r[2]>> /\ r[1] \in DOMAIN g /\ r[2] \in DOMAIN g[r[1]].src
              /\ g[r[1]].src[r[2]] = t /\ r[1] \in Nat \ {0} /\ r[2] \in Nat \ {0}
         /\ \A n \in DOMAIN g : \A k \in DOMAIN g[n].src :
              g[n].src[k] = t => <<n, k>> \in Reads(g, t)
         /\ IsFiniteSet(Reads(g, t))
<1> DEFINE Here(n) == {k \in DOMAIN g[n].src : g[n].src[k] = t}
           f == [n \in DOMAIN g |-> {n} \X Here(n)]
           R == {{n} \X Here(n) : n \in DOMAIN g}
<1>0. /\ DOMAIN g = 1 .. Len(g) /\ Len(g) \in Nat
      /\ \A n \in DOMAIN g : /\ n \in Nat \ {0} /\ DOMAIN g[n].src = 1 .. Len(g[n].src)
                             /\ Len(g[n].src) \in Nat
  <2>1. g \in Seq(Tensor)
    BY DEF WellFormed
  <2>2. DOMAIN g = 1 .. Len(g) /\ Len(g) \in Nat
    BY <2>1, LenProperties
  <2>3. ASSUME NEW n \in DOMAIN g
        PROVE  n \in Nat \ {0} /\ DOMAIN g[n].src = 1 .. Len(g[n].src) /\ Len(g[n].src) \in Nat
    <3>1. g[n] \in Tensor
      BY <2>1, <2>2, ElementOfSeq
    <3>2. PICK u \in Seq(Nat \ {0}) : u = g[n].src
      BY <3>1 DEF Tensor
    <3>3. DOMAIN u = 1 .. Len(u) /\ Len(u) \in Nat
      BY LenProperties
    <3> QED BY <2>2, <3>2, <3>3
  <2> QED BY <2>2, <2>3
<1>1. Reads(g, t) = UNION R
  BY DEF Reads
<1>2. \A r \in Reads(g, t) : \E n \in DOMAIN g : r \in {n} \X Here(n)
  BY <1>1
<1>3. ASSUME NEW r \in Reads(g, t)
      PROVE  /\ r = <<r[1], r[2]>> /\ r[1] \in DOMAIN g /\ r[2] \in DOMAIN g[r[1]].src
             /\ g[r[1]].src[r[2]] = t /\ r[1] \in Nat \ {0} /\ r[2] \in Nat \ {0}
  <2>1. PICK n \in DOMAIN g : r \in {n} \X Here(n)
    BY <1>2
  <2>2. r = <<r[1], r[2]>> /\ r[1] = n /\ r[2] \in DOMAIN g[n].src /\ g[n].src[r[2]] = t
    BY <2>1
  <2>3. n \in Nat \ {0} /\ DOMAIN g[n].src = 1 .. Len(g[n].src) /\ Len(g[n].src) \in Nat
    BY <1>0
  <2> QED BY <2>2, <2>3
<1>4. ASSUME NEW n \in DOMAIN g, NEW k \in DOMAIN g[n].src, g[n].src[k] = t
      PROVE  <<n, k>> \in Reads(g, t)
  <2>1. <<n, k>> \in {n} \X Here(n)
    BY <1>4
  <2> QED BY <1>1, <2>1
<1>5. IsFiniteSet(DOMAIN g)
  <2>1. PICK l \in Nat : DOMAIN g = 1 .. l
    BY <1>0
  <2>2. 1 \in Int /\ l \in Int
    OBVIOUS
  <2> QED BY <2>1, <2>2, FS_Interval
<1>6. IsFiniteSet(R)
  <2>1. f \in Surjection(DOMAIN g, R)
    BY DEF Surjection
  <2> HIDE DEF f, R
  <2> QED BY <1>5, <2>1, FS_Surjection
<1>7. ASSUME NEW T \in R PROVE IsFiniteSet(T)
  <2>1. PICK n \in DOMAIN g : T = {n} \X Here(n)
    OBVIOUS
  <2>2. IsFiniteSet(DOMAIN g[n].src)
    <3>1. PICK l \in Nat : DOMAIN g[n].src = 1 .. l
      BY <1>0
    <3>2. 1 \in Int /\ l \in Int
      OBVIOUS
    <3> QED BY <3>1, <3>2, FS_Interval
  <2>3. IsFiniteSet(Here(n))
    <3>1. Here(n) \in SUBSET DOMAIN g[n].src
      OBVIOUS
    <3> QED BY <2>2, <3>1, FS_Subset
  <2>4. IsFiniteSet({n})
    BY FS_Singleton
  <2> HIDE DEF Here
  <2> QED BY <2>1, <2>3, <2>4, FS_Product
<1>8. IsFiniteSet(UNION R)
  <2> HIDE DEF R
  <2> QED BY <1>6, <1>7, FS_UNION
<1> QED BY <1>1, <1>3, <1>4, <1>8

LEMMA ReadFacts ==
  ASSUME GoodCall, NEW t
  PROVE  /\ \A r \in Reads(graph, t) :
              /\ r = <<r[1], r[2]>> /\ r[1] \in DOMAIN graph /\ r[2] \in DOMAIN graph[r[1]].src
              /\ graph[r[1]].src[r[2]] = t /\ r[1] \in Nat \ {0} /\ r[2] \in Nat \ {0}
         /\ \A n \in DOMAIN graph : \A k \in DOMAIN graph[n].src :
              graph[n].src[k] = t => <<n, k>> \in Reads(graph, t)
         /\ IsFiniteSet(Reads(graph, t))
BY GraphFacts, ReadsOf

(* Reads do not come back.                                                 *)
Later(m, l, n, k) == m > n \/ (m = n /\ l >= k)

LEMMA PendingLater ==
  ASSUME GoodCall, NEW t, NEW n \in Nat, NEW k \in Nat, NEW m \in Nat, NEW l \in Nat, Later(m, l, n, k)
  PROVE  Pending(t, m, l) \subseteq Pending(t, n, k)
<1> SUFFICES ASSUME NEW r \in Pending(t, m, l) PROVE r \in Pending(t, n, k)
  OBVIOUS
<1>1. r \in Reads(graph, t) /\ r[1] \in Nat /\ r[2] \in Nat
  BY ReadFacts DEF Pending
<1>2. r[1] > m \/ (r[1] = m /\ r[2] >= l)
  BY DEF Pending
<1>3. r[1] > n \/ (r[1] = n /\ r[2] >= k)
  BY <1>1, <1>2 DEF Later
<1> QED BY <1>1, <1>3 DEF Pending

LEMMA ViewingLater ==
  ASSUME GoodCall, NEW t, NEW n \in Nat, NEW k \in Nat, NEW m \in Nat, NEW l \in Nat, Later(m, l, n, k)
  PROVE  Viewing(t, m, l) \subseteq Viewing(t, n, k)
<1>1. \A v : Pending(v, m, l) \subseteq Pending(v, n, k)
  BY PendingLater
<1> QED BY <1>1 DEF Viewing

LEMMA DeadLater ==
  ASSUME GoodCall, NEW t, NEW n \in Nat, NEW k \in Nat, NEW m \in Nat, NEW l \in Nat,
         Later(m, l, n, k), Dead(t, n, k)
  PROVE  Dead(t, m, l)
BY PendingLater, ViewingLater DEF Dead

LEMMA LivesBefore ==
  ASSUME GoodCall, NEW n \in Nat, NEW t, Lives(t, n + 1), t # n PROVE Lives(t, n)
<1>1. t \in DOMAIN graph /\ t \in Nat /\ t < n + 1
  BY TensorFacts DEF Lives
<1>2. t < n
  BY <1>1
<1>3. Later(n + 1, 1, n, 1)
  BY DEF Later
<1>4. ~Dead(t, n, 1)
  BY <1>3, DeadLater DEF Lives
<1> QED BY <1>1, <1>2, <1>4 DEF Lives

(* The sets are finite.                                                    *)
LEMMA CountsFinite ==
  ASSUME GoodCall, NEW t, NEW n, NEW k
  PROVE  IsFiniteSet(Pending(t, n, k)) /\ IsFiniteSet(Viewing(t, n, k))
<1>1. Pending(t, n, k) \in SUBSET Reads(graph, t)
  BY DEF Pending
<1>2. Viewing(t, n, k) \in SUBSET DOMAIN graph
  BY DEF Viewing, ViewsOf
<1>3. IsFiniteSet(DOMAIN graph)
  BY GraphFacts, FS_Interval
<1>4. IsFiniteSet(Reads(graph, t))
  BY ReadFacts
<1> QED BY <1>1, <1>2, <1>3, <1>4, FS_Subset

(* A read is done ...                                                      *)
LEMMA PendingStep ==
  ASSUME GoodCall, NEW n \in DOMAIN graph, NEW k \in DOMAIN graph[n].src, NEW t
  PROVE  /\ Pending(t, n, k + 1) = Pending(t, n, k) \ {<<n, k>>}
         /\ <<n, k>> \in Pending(t, n, k) <=> graph[n].src[k] = t
<1>1. n \in Nat /\ k \in Nat
  BY TensorFacts, SourceFacts
<1>2. ASSUME NEW r \in Reads(graph, t)
      PROVE  Later(r[1], r[2], n, k + 1) <=> Later(r[1], r[2], n, k) /\ r # <<n, k>>
  <2>1. PICK x \in Nat, y \in Nat : x = r[1] /\ y = r[2] /\ r = <<x, y>>
    BY ReadFacts
  <2> QED BY <1>1, <2>1 DEF Later
<1>3. \A m, l : Pending(t, m, l) = {r \in Reads(graph, t) : Later(r[1], r[2], m, l)}
  BY DEF Pending, Later
<1>4. Pending(t, n, k + 1) = Pending(t, n, k) \ {<<n, k>>}
  BY <1>2, <1>3
<1>5. Later(n, k, n, k)
  BY <1>1 DEF Later
<1>6. <<n, k>> \in Reads(graph, t) <=> graph[n].src[k] = t
  BY ReadFacts
<1> QED BY <1>3, <1>4, <1>5, <1>6

(* ... until those of a node are.                                          *)
LEMMA PendingNext ==
  ASSUME GoodCall, NEW n \in DOMAIN graph, NEW k \in Nat \ {0}, k \notin DOMAIN graph[n].src
  PROVE  /\ \A t : Pending(t, n, k) = Pending(t, n + 1, 1)
         /\ \A t : Viewing(t, n, k) = Viewing(t, n + 1, 1)
<1>1. n \in Nat
  BY TensorFacts
<1>2. PICK l \in Nat : DOMAIN graph[n].src = 1 .. l /\ k > l
  BY SourceFacts
<1>3. ASSUME NEW t PROVE Pending(t, n, k) = Pending(t, n + 1, 1)
  <2>1. ASSUME NEW r \in Reads(graph, t)
        PROVE  Later(r[1], r[2], n, k) <=> Later(r[1], r[2], n + 1, 1)
    <3>1. PICK x \in Nat, y \in Nat \ {0} :
            x = r[1] /\ y = r[2] /\ (x = n => y \in 1 .. l)
      BY <1>2, ReadFacts
    <3> QED BY <1>1, <1>2, <3>1 DEF Later
  <2> QED BY <2>1 DEF Pending, Later
<1> QED BY <1>3 DEF Viewing

(* With its last read a view is done.                                      *)
LEMMA ViewingStep ==
  ASSUME GoodCall, NEW n \in DOMAIN graph, NEW k \in DOMAIN graph[n].src, NEW t,
         NEW s, s = graph[n].src[k]
  PROVE  /\ Pending(s, n, k + 1) = {} /\ s \in ViewsOf(graph, t) =>
              s \in Viewing(t, n, k) /\ Viewing(t, n, k + 1) = Viewing(t, n, k) \ {s}
         /\ ~(Pending(s, n, k + 1) = {} /\ s \in ViewsOf(graph, t)) =>
              Viewing(t, n, k + 1) = Viewing(t, n, k)
<1>1. ASSUME NEW v, v # s PROVE Pending(v, n, k + 1) = Pending(v, n, k)
  <2>1. /\ Pending(v, n, k + 1) = Pending(v, n, k) \ {<<n, k>>}
        /\ <<n, k>> \notin Pending(v, n, k)
    BY <1>1, PendingStep
  <2> QED BY <2>1
<1>2. Pending(s, n, k) # {}
  BY PendingStep
<1>3. Reads(graph, s) # {}
  BY <1>2 DEF Pending
<1> QED BY <1>1, <1>2, <1>3 DEF Viewing

(* A tensor is not read before it is there.                                *)
LEMMA UnreadYet ==
  ASSUME GoodCall, NEW t \in DOMAIN graph, NEW n \in Nat, n <= t + 1
  PROVE  Pending(t, n, 1) = Reads(graph, t)
<1>1. t \in Nat
  BY TensorFacts
<1>2. ASSUME NEW r \in Reads(graph, t) PROVE Later(r[1], r[2], n, 1)
  <2>1. PICK x \in Nat, y \in Nat \ {0} : x = r[1] /\ y = r[2] /\ t < x
    BY ReadFacts, SourceFacts
  <2> QED BY <1>1, <2>1 DEF Later
<1> QED BY <1>2 DEF Pending, Later

LEMMA ViewYet ==
  ASSUME GoodCall, NEW t, NEW v \in ViewsOf(graph, t), NEW n \in Nat, n <= v + 1
  PROVE  v \in Viewing(t, n, 1)
<1>1. v \in DOMAIN graph
  BY DEF ViewsOf
<1>2. Pending(v, n, 1) = Reads(graph, v)
  BY <1>1, UnreadYet
<1> QED BY <1>2 DEF Viewing

(* What is new lives, ...                                                  *)
LEMMA NewLives ==
  ASSUME GoodCall, NEW t \in DOMAIN graph, Assigned(t) PROVE Lives(t, t + 1)
<1>1. t \in Nat
  BY TensorFacts
<1>2. Pending(t, t + 1, 1) = Reads(graph, t)
  BY <1>1, UnreadYet
<1>3. ASSUME NEW v \in ViewsOf(graph, t) PROVE v \in Viewing(t, t + 1, 1)
  <2>1. v \in DOMAIN graph /\ graph[v].view_src = t /\ t # 0
    BY TensorFacts DEF ViewsOf
  <2>2. t < v /\ v \in Nat
    BY <2>1, ViewFacts, TensorFacts DEF IsView
  <2> QED BY <1>1, <2>2, ViewYet
<1>4. ~Dead(t, t + 1, 1)
  BY <1>2, <1>3 DEF Dead
<1> QED BY <1>1, <1>4 DEF Lives

(* ... and so does what a node reads ...                                   *)
LEMMA SourceLives ==
  ASSUME GoodCall, NEW n \in DOMAIN graph, NEW k \in DOMAIN graph[n].src,
         NEW s, s = graph[n].src[k], Assigned(Root(s))
  PROVE  Lives(Root(s), n)
<1>1. s \in DOMAIN graph /\ s < n /\ s \in Nat /\ n \in Nat /\ k \in Nat /\ k >= 1
  BY SourceFacts, TensorFacts
<1>2. <<n, k>> \in Pending(s, n, k)
  BY PendingStep
<1>3. Later(n, k, n, 1)
  BY <1>1 DEF Later
<1>4. Pending(s, n, 1) # {}
  BY <1>1, <1>2, <1>3, PendingLater
<1>5. CASE IsView(s)
  <2>1. Root(s) \in DOMAIN graph /\ Root(s) < s /\ s \in ViewsOf(graph, Root(s)) /\ Root(s) \in Nat
    BY <1>1, <1>5, ViewFacts, TensorFacts DEF Root, ViewsOf
  <2>2. s \in Viewing(Root(s), n, 1)
    BY <1>4, <2>1 DEF Viewing
  <2> QED BY <1>1, <2>1, <2>2 DEF Lives, Dead
<1>6. CASE ~IsView(s)
  BY <1>1, <1>4, <1>6 DEF Lives, Dead, Root
<1> QED BY <1>5, <1>6

(* ... and what it views ...                                               *)
LEMMA ViewedLives ==
  ASSUME GoodCall, NEW n \in DOMAIN graph, IsView(n), Assigned(Root(n))
  PROVE  Lives(Root(n), n + 1)
<1>1. n \in Nat
  BY TensorFacts
<1>2. Root(n) \in DOMAIN graph /\ Root(n) < n /\ n \in ViewsOf(graph, Root(n)) /\ Root(n) \in Nat
  BY ViewFacts, TensorFacts DEF Root, ViewsOf
<1>3. n \in Viewing(Root(n), n + 1, 1)
  BY <1>1, <1>2, ViewYet
<1> QED BY <1>1, <1>2, <1>3 DEF Lives, Dead

(* ... and, to the end, an output.                                         *)
LEMMA OutputLives ==
  ASSUME GoodCall, NEW t \in DOMAIN graph, graph[t].out, Assigned(Root(t))
  PROVE  Lives(Root(t), Len(graph) + 1)
<1>1. Len(graph) \in Nat /\ DOMAIN graph = 1 .. Len(graph) /\ t \in Nat
  BY GraphFacts, TensorFacts
<1>2. CASE IsView(t)
  <2>1. Root(t) \in DOMAIN graph /\ t \in ViewsOf(graph, Root(t)) /\ Root(t) \in Nat
    BY <1>2, ViewFacts, TensorFacts DEF Root, ViewsOf
  <2>2. Reads(graph, t) = {}
    BY <1>2, OutputsAssumption DEF GoodCall, IsView
  <2>3. t \in Viewing(Root(t), Len(graph) + 1, 1)
    BY <2>1, <2>2 DEF Viewing
  <2> QED BY <1>1, <2>1, <2>3 DEF Lives, Dead
<1>3. CASE ~IsView(t)
  BY <1>1, <1>3 DEF Lives, Dead, Root
<1> QED BY <1>2, <1>3

-----------------------------------------------------------------------------
(* The allocation of a tensor.                                             *)

(* Memory that has no byte in common.                                      *)
LEMMA BytesApart ==
  ASSUME NEW o \in Nat, NEW n \in Nat \ {0}, NEW p \in Nat, NEW m \in Nat \ {0},
         \A x \in Interval(o, n) : x \notin Interval(p, m)
  PROVE  Apart(o, n, p, m)
<1>1. CASE o <= p
  <2>1. p \in Interval(p, m)
    BY DEF Interval
  <2>2. ~(p \in Interval(o, n))
    BY <2>1
  <2> QED BY <1>1, <2>2 DEF Interval, Apart
<1>2. CASE p <= o
  <2>1. o \in Interval(o, n)
    BY DEF Interval
  <2>2. ~(o \in Interval(p, m))
    BY <2>1
  <2> QED BY <1>2, <2>2 DEF Interval, Apart
<1> QED BY <1>1, <1>2

(* The source whose memory is taken over.                                  *)
Given(p, u, t) ==
  /\ \E k \in DOMAIN graph[t].src : graph[t].src[k] = u
  /\ p.hn[u].n_children = 1 /\ p.hn[u].n_views = 0 /\ ~graph[u].out

(* What the allocation of t does to plan p.                                *)
SameCounts(p, q) ==
  \A u \in DOMAIN graph :
    q.hn[u].n_children = p.hn[u].n_children /\ q.hn[u].n_views = p.hn[u].n_views
Over(p, q, u, t) ==
  \/ Apart(p.hn[u].offset, Pad(u), q.hn[t].offset, Pad(t))
  \/ /\ graph[t].op = "inplace" /\ p.hn[u].offset = q.hn[t].offset
     /\ graph[u].size = graph[t].size
Grows(p, q, t) ==
  /\ BlocksOK(q) /\ Room(q.free, t) /\ Owns(q, t) /\ SameCounts(p, q)
  /\ \A u \in DOMAIN graph : u # t => q.hn[u].offset = p.hn[u].offset
  /\ \A u : Owns(q, u) => Owns(p, u) \/ u = t
  /\ \A u : Owns(p, u) => Owns(q, u) \/ Given(p, u, t)
  /\ \A u : Owns(p, u) => Over(p, q, u, t)
  /\ p.max_size <= q.max_size /\ q.hn[t].offset + Pad(t) <= q.max_size
Topped(p) == \A u : Owns(p, u) => p.hn[u].offset + Pad(u) <= p.max_size

(* The entries of a plan.                                                  *)
LEMMA EntryFacts ==
  ASSUME NEW p, PlanT(p), NEW t \in DOMAIN graph
  PROVE  /\ p.hn[t] \in HashNode /\ p.hn[t].offset \in Nat /\ p.hn[t].allocated \in BOOLEAN
         /\ p.hn[t].n_children \in Nat /\ p.hn[t].n_views \in Nat
BY DEF PlanT, HashNode

(* An entry with memory, and one without.                                  *)
At(h, o) == [h EXCEPT !.allocated = TRUE, !.offset = o]
Without(h) == [h EXCEPT !.allocated = FALSE]

LEMMA EntryChanges ==
  ASSUME NEW h \in HashNode, NEW o \in Nat
  PROVE  /\ At(h, o) \in HashNode /\ At(h, o).allocated /\ At(h, o).offset = o
         /\ At(h, o).n_children = h.n_children /\ At(h, o).n_views = h.n_views
         /\ Without(h) \in HashNode /\ ~Without(h).allocated
         /\ Without(h).offset = h.offset
         /\ Without(h).n_children = h.n_children /\ Without(h).n_views = h.n_views
BY DEF HashNode, At, Without

(* A plan in which tensor t has the memory at o, and s has none.           *)
Entered(p, q, t, o, s) ==
  /\ PlanT(q) /\ SameCounts(p, q)
  /\ q.hn[t].offset = o
  /\ \A u \in DOMAIN graph : u # t => q.hn[u].offset = p.hn[u].offset
  /\ \A u : Owns(q, u) <=> u = t \/ (Owns(p, u) /\ u # s)

LEMMA FreshForm ==
  ASSUME GoodCall, NEW p, PlanT(p), NEW t \in DOMAIN graph, Assigned(t), ~Owns(p, t),
         ~(graph[t].op = "inplace" /\ Reusable(p, t) # {}),
         NEW b, b = BestFit(p.free, Pad(t)), b.offset \in Nat
  PROVE  /\ Entered(p, AllocateNode(p, t), t, b.offset, t)
         /\ AllocateNode(p, t).free = Taken(p.free, b, Pad(t))
         /\ p.max_size <= AllocateNode(p, t).max_size
         /\ b.offset + Pad(t) <= AllocateNode(p, t).max_size
<1> DEFINE m == Max({p.max_size, b.offset + Pad(t)})
<1>1. Pad(t) \in Nat /\ p.max_size \in Nat
  BY SizeFacts DEF PlanT
<1>2. m \in Nat /\ p.max_size <= m /\ b.offset + Pad(t) <= m
  <2>1. PICK x \in Nat, y \in Nat : x = p.max_size /\ y = b.offset + Pad(t)
    BY <1>1
  <2>2. PICK c \in Nat : x <= c /\ y <= c
    <3>1. x + y \in Nat /\ x <= x + y /\ y <= x + y
      OBVIOUS
    <3> QED BY <3>1
  <2>3. {x, y} \subseteq 0 .. c /\ {x, y} # {}
    BY <2>2
  <2>4. Max({x, y}) \in {x, y} /\ \A z \in {x, y} : z <= Max({x, y})
    BY <2>3, MaxFound
  <2> QED BY <2>1, <2>4
<1>3. PICK q : q = AllocateNode(p, t)
  OBVIOUS
<1>4. q = [p EXCEPT !.hn[t].allocated = TRUE, !.hn[t].offset = b.offset,
                    !.free = Taken(p.free, b, Pad(t)), !.max_size = m]
  BY <1>3 DEF AllocateNode, Pad, Assigned, Owns
<1> HIDE DEF m
<1>5. /\ q.hn = [p.hn EXCEPT ![t] = [p.hn[t] EXCEPT !.allocated = TRUE, !.offset = b.offset]]
      /\ q.free = Taken(p.free, b, Pad(t)) /\ q.max_size = m
      /\ q = [hn |-> q.hn, free |-> q.free, max_size |-> q.max_size]
  BY <1>4 DEF PlanT
<1>6. q.hn[t] = At(p.hn[t], b.offset) /\ \A u \in DOMAIN graph : u # t => q.hn[u] = p.hn[u]
  BY <1>5 DEF PlanT, At
<1>7. /\ q.hn[t].allocated /\ q.hn[t].offset = b.offset /\ q.hn[t] \in HashNode
      /\ q.hn[t].n_children = p.hn[t].n_children /\ q.hn[t].n_views = p.hn[t].n_views
  <2>1. PICK h \in HashNode, o \in Nat : h = p.hn[t] /\ o = b.offset
    BY EntryFacts
  <2> QED BY <1>6, <2>1, EntryChanges
<1>8. PlanT(q)
  BY <1>2, <1>5, <1>7 DEF PlanT
<1>9. \A u : Owns(q, u) <=> u = t \/ (Owns(p, u) /\ u # t)
  BY <1>6, <1>7 DEF Owns
<1>10. SameCounts(p, q)
  BY <1>6, <1>7 DEF SameCounts
<1> QED BY <1>2, <1>3, <1>5, <1>6, <1>7, <1>8, <1>9, <1>10 DEF Entered

LEMMA TakeoverForm ==
  ASSUME GoodCall, NEW p, PlanT(p), NEW t \in DOMAIN graph, Assigned(t), ~Owns(p, t),
         graph[t].op = "inplace", Reusable(p, t) # {}
  PROVE  \E s \in DOMAIN graph :
           /\ Owns(p, s) /\ s # t /\ Given(p, s, t) /\ graph[s].size = graph[t].size
           /\ Entered(p, AllocateNode(p, t), t, p.hn[s].offset, s)
           /\ AllocateNode(p, t).free = p.free /\ AllocateNode(p, t).max_size = p.max_size
<1>1. Reusable(p, t) \subseteq Nat
  BY SourceFacts DEF Reusable
<1>2. Min(Reusable(p, t)) \in Reusable(p, t)
  BY <1>1, MinFound
<1>3. PICK k \in DOMAIN graph[t].src : k = Min(Reusable(p, t)) /\ k \in Reusable(p, t)
  BY <1>2 DEF Reusable
<1>4. PICK s \in DOMAIN graph : s = graph[t].src[k] /\ s < t
  BY SourceFacts
<1>5. /\ p.hn[s].allocated /\ ~graph[s].out /\ graph[s].size = graph[t].size
      /\ p.hn[s].n_children = 1 /\ p.hn[s].n_views = 0
  BY <1>3, <1>4 DEF Reusable
<1>6. Owns(p, s) /\ s # t /\ Given(p, s, t)
  BY <1>4, <1>5, TensorFacts DEF Owns, Given
<1>7. PICK q : q = AllocateNode(p, t)
  OBVIOUS
<1>8. q = [p EXCEPT !.hn[t].allocated = TRUE, !.hn[t].offset = p.hn[s].offset,
                    !.hn[s].allocated = FALSE]
  BY <1>3, <1>4, <1>7 DEF AllocateNode, Assigned, Owns
<1>9. /\ q.hn = [[p.hn EXCEPT ![t] = [p.hn[t] EXCEPT !.allocated = TRUE, !.offset = p.hn[s].offset]]
                       EXCEPT ![s] = [p.hn[s] EXCEPT !.allocated = FALSE]]
      /\ q.free = p.free /\ q.max_size = p.max_size
      /\ q = [hn |-> q.hn, free |-> q.free, max_size |-> q.max_size]
  BY <1>6, <1>8 DEF PlanT
<1>10. /\ q.hn[t] = At(p.hn[t], p.hn[s].offset) /\ q.hn[s] = Without(p.hn[s])
       /\ \A u \in DOMAIN graph : u # t /\ u # s => q.hn[u] = p.hn[u]
  BY <1>6, <1>9 DEF PlanT, At, Without
<1>11. /\ q.hn[t].allocated /\ q.hn[t].offset = p.hn[s].offset /\ q.hn[t] \in HashNode
       /\ q.hn[t].n_children = p.hn[t].n_children /\ q.hn[t].n_views = p.hn[t].n_views
  <2>1. PICK h \in HashNode, o \in Nat : h = p.hn[t] /\ o = p.hn[s].offset
    BY EntryFacts
  <2> QED BY <1>10, <2>1, EntryChanges
<1>12. /\ ~q.hn[s].allocated /\ q.hn[s].offset = p.hn[s].offset /\ q.hn[s] \in HashNode
       /\ q.hn[s].n_children = p.hn[s].n_children /\ q.hn[s].n_views = p.hn[s].n_views
  <2>1. PICK h \in HashNode : h = p.hn[s]
    BY EntryFacts
  <2>2. 0 \in Nat
    OBVIOUS
  <2> QED BY <1>10, <2>1, <2>2, EntryChanges
<1>13. PlanT(q)
  BY <1>9, <1>11, <1>12 DEF PlanT
<1>14. \A u : Owns(q, u) <=> u = t \/ (Owns(p, u) /\ u # s)
  BY <1>6, <1>10, <1>11, <1>12 DEF Owns
<1>15. SameCounts(p, q)
  BY <1>10, <1>11, <1>12 DEF SameCounts
<1>16. \A u \in DOMAIN graph : u # t => q.hn[u].offset = p.hn[u].offset
  BY <1>10, <1>12
<1>17. Entered(p, q, t, p.hn[s].offset, s)
  BY <1>11, <1>13, <1>14, <1>15, <1>16 DEF Entered
<1> QED BY <1>5, <1>6, <1>7, <1>9, <1>17

(* The range that is still free shrinks turn by turn.                      *)
LEMMA RoomNext ==
  ASSUME GoodCall, NEW t \in DOMAIN graph, NEW f, Room(f, t - 1) PROVE Room(f, t)
<1> DEFINE share == Half \div Len(graph)
<1>1. PICK k \in Nat : k = t - 1 /\ k < Len(graph) /\ k + 1 = t
  BY GraphFacts, TensorFacts
<1>2. k * share \in Nat /\ t * share = k * share + share /\ share \in Nat
  BY <1>1, ShareFacts
<1>3. \A x \in t * share .. Half - 1 : x \in k * share .. Half - 1
  BY <1>2, AlignmentAssumption
<1> QED BY <1>1, <1>3 DEF Room

(* A tensor with fresh memory.                                             *)
LEMMA FreshGrows ==
  ASSUME GoodCall, NEW p, BlocksOK(p), NEW t \in DOMAIN graph, Assigned(t), ~Owns(p, t),
         Room(p.free, t - 1), ~(graph[t].op = "inplace" /\ Reusable(p, t) # {})
  PROVE  Grows(p, AllocateNode(p, t), t)
<1> DEFINE share == Half \div Len(graph)
<1>1. /\ t \in Nat \ {0} /\ t - 1 \in Nat /\ (t - 1) * share \in Nat /\ share \in Nat
      /\ t * share = (t - 1) * share + share /\ (t - 1) * share + share <= Half /\ Half \in Nat
  <2>1. t \in Nat \ {0} /\ t <= Len(graph) /\ Len(graph) \in Nat
    BY GraphFacts, TensorFacts
  <2>2. PICK k \in Nat : k = t - 1 /\ k < Len(graph) /\ k + 1 = t
    BY <2>1
  <2>3. k * share \in Nat /\ (k + 1) * share = k * share + share /\ k * share + share <= Half
    BY <2>2, ShareFacts
  <2> QED BY <2>1, <2>2, <2>3, ShareFacts, AlignmentAssumption
<1>2. PICK w \in Nat, m \in Nat : w = (t - 1) * share /\ m = share /\ w + m = t * share /\ w + m <= Half
  BY <1>1
<1>3. PICK n \in Nat \ {0} : n = Pad(t) /\ n <= m
  BY <1>2, SizeFacts
<1>4. \A x \in w .. Half - 1 : InBlock(p.free, x)
  BY <1>2 DEF Room
<1> HIDE DEF share
<1>5. PlanT(p) /\ Gaps(p.free) /\ Holdings(p) /\ Covered(p)
  BY DEF BlocksOK
<1>6. PICK b : b = BestFit(p.free, n) /\ b \in p.free /\ b.size >= n /\ b.offset + n <= w + m
  BY <1>2, <1>3, <1>4, <1>5, FitFound
<1>7. PICK o \in Nat, z \in Nat : o = b.offset /\ z = b.size /\ n <= z /\ o + z <= Half
  BY <1>5, <1>6, BlockFacts
<1>8. PICK q : q = AllocateNode(p, t)
  OBVIOUS
<1>9. /\ Entered(p, q, t, o, t) /\ q.free = Taken(p.free, b, n)
      /\ p.max_size <= q.max_size /\ o + n <= q.max_size
  BY <1>3, <1>5, <1>6, <1>7, <1>8, FreshForm
<1>10. /\ Gaps(q.free)
       /\ \A x \in Int : InBlock(q.free, x) <=> InBlock(p.free, x) /\ x \notin Interval(o, n)
  BY <1>5, <1>6, <1>7, <1>9, TakenFree
<1>11. \A x \in Interval(o, n) : x \in Int /\ InBlock(p.free, x)
  BY <1>6, <1>7 DEF Interval, InBlock
<1>12. /\ PlanT(q) /\ q.hn[t].offset = o /\ SameCounts(p, q)
       /\ \A u \in DOMAIN graph : u # t => q.hn[u].offset = p.hn[u].offset
       /\ \A u : Owns(q, u) <=> u = t \/ (Owns(p, u) /\ u # t)
  BY <1>9 DEF Entered
<1>13. ASSUME NEW u, Owns(p, u)
       PROVE  /\ u # t /\ u \in DOMAIN graph /\ q.hn[u].offset = p.hn[u].offset
              /\ p.hn[u].offset \in Nat /\ Pad(u) \in Nat \ {0}
              /\ Apart(p.hn[u].offset, Pad(u), o, n)
  <2>1. u # t /\ u \in DOMAIN graph /\ p.hn[u].offset \in Nat /\ Pad(u) \in Nat \ {0}
    BY <1>5, <1>13, EntryFacts, SizeFacts DEF Owns
  <2>2. \A x \in Interval(p.hn[u].offset, Pad(u)) : x \notin Interval(o, n)
    BY <1>5, <1>11, <1>13 DEF Holdings
  <2>3. Apart(p.hn[u].offset, Pad(u), o, n)
    BY <2>1, <2>2, BytesApart
  <2> QED BY <1>12, <2>1, <2>3
<1>14. Holdings(q)
  <2>1. \A u : Owns(q, u) => Assigned(u) /\ q.hn[u].offset + Pad(u) <= Half
    <3>1. o + n <= Half
      BY <1>1, <1>7
    <3> QED BY <1>3, <1>5, <1>12, <1>13, <3>1 DEF Holdings
  <2>2. \A u, v : Owns(q, u) /\ Owns(q, v) /\ u # v =>
          Apart(q.hn[u].offset, Pad(u), q.hn[v].offset, Pad(v))
    <3> SUFFICES ASSUME NEW u, NEW v, Owns(q, u), Owns(q, v), u # v
                 PROVE  Apart(q.hn[u].offset, Pad(u), q.hn[v].offset, Pad(v))
      OBVIOUS
    <3>1. CASE u # t /\ v # t
      BY <1>5, <1>12, <1>13, <3>1 DEF Holdings
    <3>2. CASE u = t
      BY <1>3, <1>12, <1>13, <3>2 DEF Apart
    <3>3. CASE v = t
      BY <1>3, <1>12, <1>13, <3>3
    <3> QED BY <3>1, <3>2, <3>3
  <2>3. ASSUME NEW u, Owns(q, u), NEW x \in Interval(q.hn[u].offset, Pad(u))
        PROVE  ~InBlock(q.free, x)
    <3>1. CASE u = t
      BY <1>3, <1>10, <1>11, <1>12, <2>3, <3>1
    <3>2. CASE u # t
      <4>1. Owns(p, u) /\ x \in Interval(p.hn[u].offset, Pad(u)) /\ x \in Int
        BY <1>12, <1>13, <2>3, <3>2 DEF Interval
      <4> QED BY <1>5, <1>10, <4>1 DEF Holdings
    <3> QED BY <3>1, <3>2
  <2> QED BY <2>1, <2>2, <2>3 DEF Holdings
<1>15. Covered(q)
  <2> SUFFICES ASSUME NEW x \in 0 .. Half - 1, ~InBlock(q.free, x)
               PROVE  \E u : Owns(q, u) /\ x \in Interval(q.hn[u].offset, Pad(u))
    BY DEF Covered
  <2>1. x \in Int /\ (~InBlock(p.free, x) \/ x \in Interval(o, n))
    BY <1>1, <1>10
  <2>2. CASE x \in Interval(o, n)
    BY <1>3, <1>12, <2>2
  <2>3. CASE ~InBlock(p.free, x)
    <3>1. PICK u : Owns(p, u) /\ x \in Interval(p.hn[u].offset, Pad(u))
      BY <1>5, <2>3 DEF Covered
    <3> QED BY <1>12, <1>13, <3>1
  <2> QED BY <2>1, <2>2, <2>3
<1>16. Room(q.free, t)
  <2> SUFFICES ASSUME NEW x \in w + m .. Half - 1 PROVE InBlock(q.free, x)
    BY <1>2 DEF Room, share
  <2>1. x \in Int /\ x \in w .. Half - 1 /\ x \notin Interval(o, n)
    BY <1>1, <1>6, <1>7 DEF Interval
  <2> QED BY <1>4, <1>10, <2>1
<1>17. BlocksOK(q)
  BY <1>10, <1>12, <1>14, <1>15 DEF BlocksOK
<1>18. \A u : Owns(p, u) => Over(p, q, u, t)
  BY <1>3, <1>12, <1>13 DEF Over
<1>19. Owns(q, t) /\ q.hn[t].offset + Pad(t) <= q.max_size
  BY <1>3, <1>9, <1>12
<1>20. \A u : Owns(p, u) => Owns(q, u) \/ Given(p, u, t)
  BY <1>12, <1>13
<1> QED BY <1>8, <1>9, <1>12, <1>16, <1>17, <1>18, <1>19, <1>20 DEF Grows

(* A tensor with the memory of a source.                                   *)
LEMMA TakeoverGrows ==
  ASSUME GoodCall, NEW p, BlocksOK(p), NEW t \in DOMAIN graph, Assigned(t), ~Owns(p, t),
         Room(p.free, t - 1), Topped(p), graph[t].op = "inplace", Reusable(p, t) # {}
  PROVE  Grows(p, AllocateNode(p, t), t)
<1>1. PlanT(p) /\ Gaps(p.free) /\ Holdings(p) /\ Covered(p)
  BY DEF BlocksOK
<1>2. PICK q : q = AllocateNode(p, t)
  OBVIOUS
<1>3. PICK s \in DOMAIN graph :
        /\ Owns(p, s) /\ s # t /\ Given(p, s, t) /\ graph[s].size = graph[t].size
        /\ Entered(p, q, t, p.hn[s].offset, s)
        /\ q.free = p.free /\ q.max_size = p.max_size
  BY <1>1, <1>2, TakeoverForm
<1>4. /\ PlanT(q) /\ q.hn[t].offset = p.hn[s].offset /\ SameCounts(p, q)
      /\ \A u \in DOMAIN graph : u # t => q.hn[u].offset = p.hn[u].offset
      /\ \A u : Owns(q, u) <=> u = t \/ (Owns(p, u) /\ u # s)
  BY <1>3 DEF Entered
<1>5. Pad(s) = Pad(t)
  BY <1>3 DEF Pad, Size
<1>6. ASSUME NEW u, Owns(p, u)
      PROVE  /\ u # t /\ u \in DOMAIN graph /\ q.hn[u].offset = p.hn[u].offset
             /\ u # s => Apart(p.hn[u].offset, Pad(u), q.hn[t].offset, Pad(t))
  BY <1>1, <1>3, <1>4, <1>5, <1>6 DEF Holdings, Owns
<1>7. Holdings(q)
  <2>1. \A u : Owns(q, u) => Assigned(u) /\ q.hn[u].offset + Pad(u) <= Half
    BY <1>1, <1>3, <1>4, <1>5, <1>6 DEF Holdings
  <2>2. \A u, v : Owns(q, u) /\ Owns(q, v) /\ u # v =>
          Apart(q.hn[u].offset, Pad(u), q.hn[v].offset, Pad(v))
    <3> SUFFICES ASSUME NEW u, NEW v, Owns(q, u), Owns(q, v), u # v
                 PROVE  Apart(q.hn[u].offset, Pad(u), q.hn[v].offset, Pad(v))
      OBVIOUS
    <3>1. CASE u # t /\ v # t
      BY <1>1, <1>4, <1>6, <3>1 DEF Holdings
    <3>2. CASE u = t
      BY <1>4, <1>6, <3>2 DEF Apart
    <3>3. CASE v = t
      BY <1>4, <1>6, <3>3
    <3> QED BY <3>1, <3>2, <3>3
  <2>3. ASSUME NEW u, Owns(q, u), NEW x \in Interval(q.hn[u].offset, Pad(u))
        PROVE  ~InBlock(q.free, x)
    <3>1. CASE u = t
      BY <1>1, <1>3, <1>4, <1>5, <2>3, <3>1 DEF Holdings
    <3>2. CASE u # t
      BY <1>1, <1>3, <1>4, <1>6, <2>3, <3>2 DEF Holdings
    <3> QED BY <3>1, <3>2
  <2> QED BY <2>1, <2>2, <2>3 DEF Holdings
<1>8. Covered(q)
  <2> SUFFICES ASSUME NEW x \in 0 .. Half - 1, ~InBlock(q.free, x)
               PROVE  \E u : Owns(q, u) /\ x \in Interval(q.hn[u].offset, Pad(u))
    BY DEF Covered
  <2>1. PICK u : Owns(p, u) /\ x \in Interval(p.hn[u].offset, Pad(u))
    BY <1>1, <1>3 DEF Covered
  <2>2. CASE u = s
    BY <1>4, <1>5, <2>1, <2>2
  <2>3. CASE u # s
    BY <1>4, <1>6, <2>1, <2>3
  <2> QED BY <2>2, <2>3
<1>9. Room(q.free, t)
  BY <1>3, RoomNext
<1>10. BlocksOK(q)
  BY <1>1, <1>3, <1>4, <1>7, <1>8 DEF BlocksOK
<1>11. \A u : Owns(p, u) => Over(p, q, u, t)
  BY <1>3, <1>4, <1>6 DEF Over
<1>12. Owns(q, t) /\ q.hn[t].offset + Pad(t) <= q.max_size /\ p.max_size <= q.max_size
  BY <1>1, <1>3, <1>4, <1>5 DEF Topped, PlanT
<1>13. \A u : Owns(p, u) => Owns(q, u) \/ Given(p, u, t)
  BY <1>3, <1>4
<1>14. \A u : Owns(q, u) => Owns(p, u) \/ u = t
  BY <1>4
<1> QED BY <1>2, <1>4, <1>9, <1>10, <1>11, <1>12, <1>13, <1>14 DEF Grows

(* A source whose memory is taken over is not needed any more.             *)
LEMMA GivenDead ==
  ASSUME GoodCall, NEW p, PlanT(p), NEW t \in DOMAIN graph, Counts(p, t, 1),
         NEW u \in DOMAIN graph, Given(p, u, t)
  PROVE  Dead(u, t + 1, 1)
<1>1. PICK k \in DOMAIN graph[t].src : graph[t].src[k] = u
  BY DEF Given
<1>2. t \in Nat /\ k \in Nat /\ k >= 1
  BY TensorFacts, SourceFacts
<1>3. <<t, k>> \in Pending(u, t, k)
  BY <1>1, PendingStep
<1>4. Later(t, k, t, 1) /\ Later(t + 1, 1, t, 1)
  BY <1>2 DEF Later
<1>5. <<t, k>> \in Pending(u, t, 1)
  BY <1>2, <1>3, <1>4, PendingLater
<1>6. Cardinality(Pending(u, t, 1)) = 1 /\ Cardinality(Viewing(u, t, 1)) = 0
  BY DEF Given, Counts
<1>7. IsFiniteSet(Pending(u, t, 1)) /\ IsFiniteSet(Viewing(u, t, 1))
  BY CountsFinite
<1>8. Viewing(u, t, 1) = {}
  BY <1>6, <1>7, FS_EmptySet
<1>9. \E r : Pending(u, t, 1) = {r}
  BY <1>6, <1>7, FS_Singleton
<1>10. Pending(u, t, 1) = {<<t, k>>}
  BY <1>5, <1>9
<1>11. Pending(u, t + 1, 1) \subseteq Pending(u, t, 1) /\ Viewing(u, t + 1, 1) \subseteq Viewing(u, t, 1)
  BY <1>2, <1>4, PendingLater, ViewingLater
<1>12. <<t, k>> \notin Pending(u, t + 1, 1)
  BY <1>2 DEF Pending
<1>13. Reads(graph, u) # {}
  BY <1>5 DEF Pending
<1> QED BY <1>8, <1>10, <1>11, <1>12, <1>13 DEF Dead, Given

(* Memory that is apart is so with the sizes that are needed of it.        *)
LEMMA SmallerApart ==
  ASSUME NEW o \in Nat, NEW n \in Nat, NEW p \in Nat, NEW m \in Nat, Apart(o, n, p, m),
         NEW k \in Nat, NEW l \in Nat, k <= n, l <= m
  PROVE  Apart(o, k, p, l)
BY DEF Apart

LEMMA SizesApart ==
  ASSUME GoodCall, NEW t \in DOMAIN graph, NEW u \in DOMAIN graph, NEW o \in Nat, NEW p \in Nat,
         Apart(o, Pad(t), p, Pad(u))
  PROVE  Apart(o, Sizes[t], p, Sizes[u])
<1>1. \A v \in DOMAIN graph : Sizes[v] \in Nat /\ Pad(v) \in Nat /\ Sizes[v] <= Pad(v)
  BY SizeFacts DEF Sizes, SizeMax
<1> QED BY <1>1, SmallerApart

(* A tensor that needs no memory changes nothing.                          *)
LEMMA PlannedSkips ==
  ASSUME GoodCall, NEW p, NEW t \in DOMAIN graph, Planned(p, t), ~Assigned(t)
  PROVE  AllocateNode(p, t) = p /\ Planned(p, t + 1)
<1>1. t \in Nat \ {0} /\ (t + 1) - 1 = t
  BY TensorFacts
<1>2. AllocateNode(p, t) = p
  BY DEF AllocateNode, Assigned
<1>3. Room(p.free, (t + 1) - 1)
  BY <1>1, RoomNext DEF Planned
<1>4. ASSUME NEW u, Lives(u, t + 1) PROVE Lives(u, t)
  <2>1. u # t
    BY <1>4 DEF Lives
  <2> QED BY <1>1, <1>4, <2>1, LivesBefore
<1>5. Kept(p, t + 1)
  <2>1. ASSUME NEW u, Owns(p, u) PROVE u < t + 1
    <3>1. u < t /\ u \in Nat
      BY <2>1, TensorFacts DEF Planned, Kept, Owns
    <3> QED BY <1>1, <3>1
  <2> QED BY <1>4, <2>1 DEF Planned, Kept
<1>6. ASSUME NEW o, NEW z, Layout(o, z, t) PROVE Layout(o, z, t + 1)
  <2> SUFFICES ASSUME NEW n \in 1 .. t + 1, NEW v, Lives(v, n)
               PROVE  /\ \A u : Lives(u, n) /\ u # v => Apart(o[v], z[v], o[u], z[u])
                      /\ n < t + 1 /\ Assigned(n) =>
                           \/ Apart(o[v], z[v], o[n], z[n])
                           \/ graph[n].op = "inplace" /\ o[v] = o[n] /\ graph[v].size = graph[n].size
    BY DEF Layout
  <2>1. CASE n \in 1 .. t
    <3>1. n < t + 1 /\ Assigned(n) => n < t
      <4>1. n < t + 1 => n < t \/ n = t
        BY <1>1, <2>1
      <4> QED BY <4>1
    <3> QED BY <1>6, <2>1, <3>1 DEF Layout
  <2>2. CASE n = t + 1
    <3>1. t \in 1 .. t /\ ~(n < t + 1)
      BY <1>1, <2>2
    <3> QED BY <1>4, <1>6, <2>2, <3>1 DEF Layout
  <2> QED BY <1>1, <2>1, <2>2
<1>7. Below(p, t + 1)
  <2> SUFFICES ASSUME NEW u \in DOMAIN graph, u < t + 1, Assigned(u)
               PROVE  p.hn[u].offset + Pad(u) <= p.max_size
    BY DEF Below
  <2>1. u \in Nat /\ u # t
    BY TensorFacts
  <2>2. u < t
    BY <1>1, <2>1
  <2> QED BY <2>2 DEF Planned, Below
<1> QED BY <1>2, <1>3, <1>5, <1>6, <1>7 DEF Planned

(* The allocation of a tensor at its turn.                                 *)
LEMMA PlannedGrows ==
  ASSUME GoodCall, NEW p, NEW t \in DOMAIN graph, Planned(p, t), Counts(p, t, 1), Assigned(t),
         NEW q, q = AllocateNode(p, t)
  PROVE  Planned(q, t + 1) /\ SameCounts(p, q)
<1>1. /\ t \in Nat \ {0} /\ (t + 1) - 1 = t
      /\ BlocksOK(p) /\ Room(p.free, t - 1) /\ Kept(p, t)
      /\ Layout(Offsets(p), Sizes, t) /\ Below(p, t) /\ PlanT(p) /\ Holdings(p)
  BY TensorFacts DEF Planned, BlocksOK
<1>2. ~Owns(p, t)
  BY <1>1 DEF Kept
<1>3. Topped(p)
  BY <1>1 DEF Topped, Below, Kept, Holdings, Owns
<1>4. Grows(p, q, t)
  BY <1>1, <1>2, <1>3, FreshGrows, TakeoverGrows
<1>5. /\ BlocksOK(q) /\ Room(q.free, t) /\ Owns(q, t) /\ SameCounts(p, q)
      /\ \A u \in DOMAIN graph : u # t => q.hn[u].offset = p.hn[u].offset
      /\ \A u : Owns(q, u) => Owns(p, u) \/ u = t
      /\ \A u : Owns(p, u) => Owns(q, u) \/ Given(p, u, t)
      /\ \A u : Owns(p, u) => Over(p, q, u, t)
      /\ p.max_size <= q.max_size /\ q.hn[t].offset + Pad(t) <= q.max_size
  BY <1>4 DEF Grows
<1>6. PlanT(q) /\ Holdings(q)
  BY <1>5 DEF BlocksOK
<1>7. Kept(q, t + 1)
  <2>1. ASSUME NEW u, Owns(q, u) PROVE u < t + 1
    <3>1. u \in Nat /\ (u < t \/ u = t)
      BY <1>1, <1>5, <2>1, TensorFacts DEF Kept, Owns
    <3> QED BY <1>1, <3>1
  <2>2. ASSUME NEW u, Lives(u, t + 1) PROVE Owns(q, u)
    <3>1. CASE u = t
      BY <1>5, <3>1
    <3>2. CASE u # t
      <4>1. Lives(u, t) /\ u \in DOMAIN graph /\ ~Dead(u, t + 1, 1)
        BY <1>1, <2>2, <3>2, LivesBefore DEF Lives
      <4>2. ~Given(p, u, t)
        BY <1>1, <4>1, GivenDead
      <4> QED BY <1>1, <1>5, <4>1, <4>2 DEF Kept
    <3> QED BY <3>1, <3>2
  <2> QED BY <2>1, <2>2 DEF Kept
<1>8. ASSUME NEW u \in DOMAIN graph
      PROVE  /\ Offsets(p)[u] = p.hn[u].offset /\ Offsets(q)[u] = q.hn[u].offset
             /\ Offsets(p)[u] \in Nat /\ Offsets(q)[u] \in Nat
             /\ u # t => Offsets(q)[u] = Offsets(p)[u]
  BY <1>1, <1>5, <1>6, EntryFacts DEF Offsets
<1>9. Layout(Offsets(q), Sizes, t + 1)
  <2> DEFINE o == Offsets(q)
             z == Sizes
  <2> SUFFICES ASSUME NEW n \in 1 .. t + 1, NEW v, Lives(v, n)
               PROVE  /\ \A u : Lives(u, n) /\ u # v => Apart(o[v], z[v], o[u], z[u])
                      /\ n < t + 1 /\ Assigned(n) =>
                           \/ Apart(o[v], z[v], o[n], z[n])
                           \/ graph[n].op = "inplace" /\ o[v] = o[n] /\ graph[v].size = graph[n].size
    BY DEF Layout
  <2>1. \A u : Lives(u, n) => u \in DOMAIN graph /\ u \in Nat /\ u < n
    BY TensorFacts DEF Lives
  <2>2. CASE n \in 1 .. t
    <3>1. \A u : Lives(u, n) => u # t /\ o[u] = Offsets(p)[u]
      BY <1>1, <1>8, <2>1, <2>2
    <3>2. \A u : Lives(u, n) /\ u # v => Apart(o[v], z[v], o[u], z[u])
      BY <1>1, <2>2, <3>1 DEF Layout
    <3>3. CASE n < t
      <4>1. n \in DOMAIN graph /\ n # t
        BY <1>1, <3>3, GraphFacts
      <4>2. o[n] = Offsets(p)[n]
        BY <1>8, <4>1
      <4>3. Assigned(n) =>
              \/ Apart(o[v], z[v], o[n], z[n])
              \/ graph[n].op = "inplace" /\ o[v] = o[n] /\ graph[v].size = graph[n].size
        BY <1>1, <2>2, <3>1, <3>3, <4>2 DEF Layout
      <4> QED BY <3>2, <4>3
    <3>4. CASE n = t
      <4>1. Owns(p, v) /\ v \in DOMAIN graph
        BY <1>1, <2>1, <3>4 DEF Kept
      <4>2. Over(p, q, v, t) /\ p.hn[v].offset = o[v] /\ q.hn[t].offset = o[t]
        BY <1>5, <1>8, <3>1, <4>1
      <4>3. Apart(o[v], Pad(v), o[t], Pad(t)) => Apart(o[v], z[v], o[t], z[t])
        BY <1>8, <4>1, SizesApart
      <4> QED BY <3>2, <3>4, <4>2, <4>3 DEF Over
    <3> QED BY <1>1, <2>2, <3>3, <3>4
  <2>3. CASE n = t + 1
    <3>1. ~(n < t + 1)
      BY <1>1, <2>3
    <3>2. \A u : Lives(u, n) => Owns(q, u)
      BY <1>7, <2>3 DEF Kept
    <3>3. ASSUME NEW u, Lives(u, n), u # v PROVE Apart(o[v], z[v], o[u], z[u])
      <4>1. Owns(q, u) /\ Owns(q, v) /\ u \in DOMAIN graph /\ v \in DOMAIN graph
        BY <2>1, <3>2, <3>3
      <4>2. Apart(o[v], Pad(v), o[u], Pad(u))
        BY <1>6, <1>8, <3>3, <4>1 DEF Holdings
      <4> QED BY <1>8, <4>1, <4>2, SizesApart
    <3> QED BY <3>1, <3>3
  <2> QED BY <1>1, <2>2, <2>3
<1>10. Below(q, t + 1)
  <2> SUFFICES ASSUME NEW u \in DOMAIN graph, u < t + 1, Assigned(u), u # t
               PROVE  q.hn[u].offset + Pad(u) <= q.max_size
    BY <1>5 DEF Below
  <2>1. u \in Nat /\ Pad(u) \in Nat /\ p.hn[u].offset \in Nat /\ p.max_size \in Nat /\ q.max_size \in Nat
    BY <1>1, <1>6, TensorFacts, SizeFacts, EntryFacts DEF PlanT
  <2>2. p.hn[u].offset + Pad(u) <= p.max_size
    BY <1>1, <2>1 DEF Below
  <2> QED BY <1>5, <2>1, <2>2
<1> QED BY <1>1, <1>5, <1>7, <1>9, <1>10 DEF Planned

(* The sources of a node are there when it is its turn.                    *)
LEMMA ParentsThere ==
  ASSUME GoodCall, NEW p, NEW n \in DOMAIN graph, Kept(p, n), NEW k \in DOMAIN graph[n].src
  PROVE  AllocateNode(p, graph[n].src[k]) = p
<1>1. PICK s : s = graph[n].src[k]
  OBVIOUS
<1>2. CASE Assigned(s)
  <2>1. Root(s) = s
    BY <1>2 DEF Root, Assigned
  <2>2. Owns(p, s)
    BY <1>1, <1>2, <2>1, SourceLives DEF Kept
  <2> QED BY <1>1, <2>2 DEF AllocateNode, Owns
<1>3. CASE ~Assigned(s)
  BY <1>1, <1>3 DEF AllocateNode, Assigned
<1> QED BY <1>2, <1>3

-----------------------------------------------------------------------------
(* The release of a source.                                                *)

(* An entry that was read, and one of which a view is done with.           *)
ReadOnce(h) == [h EXCEPT !.n_children = @ - 1]
ViewedOnce(h) == [h EXCEPT !.n_views = @ - 1]

LEMMA CountChanges ==
  ASSUME NEW h \in HashNode
  PROVE  /\ h.n_children > 0 =>
              /\ ReadOnce(h) \in HashNode /\ ReadOnce(h).n_children = h.n_children - 1
              /\ ReadOnce(h).n_views = h.n_views /\ ReadOnce(h).offset = h.offset
              /\ ReadOnce(h).allocated <=> h.allocated
         /\ h.n_views > 0 =>
              /\ ViewedOnce(h) \in HashNode /\ ViewedOnce(h).n_views = h.n_views - 1
              /\ ViewedOnce(h).n_children = h.n_children /\ ViewedOnce(h).offset = h.offset
              /\ ViewedOnce(h).allocated <=> h.allocated
BY DEF HashNode, ReadOnce, ViewedOnce

SameMemory(p, q) ==
  /\ PlanT(q) /\ q.free = p.free /\ q.max_size = p.max_size
  /\ \A u \in DOMAIN graph : /\ q.hn[u].offset = p.hn[u].offset
                             /\ q.hn[u].allocated <=> p.hn[u].allocated

Reading(p, s) == [p EXCEPT !.hn[s].n_children = @ - 1]
Unviewing(p, s) == [p EXCEPT !.hn[s].n_views = @ - 1]

LEMMA UpdateForm ==
  ASSUME NEW p, NEW s, NEW a, a = Reading(p, s), NEW b, b = Unviewing(a, Root(s))
  PROVE  UpdateParent(p, s) =
           IF ~(a.hn[s].n_children = 0 /\ a.hn[s].n_views = 0) THEN a
           ELSE IF IsView(s)
                THEN IF /\ b.hn[Root(s)].n_children = 0 /\ b.hn[Root(s)].n_views = 0
                        /\ b.hn[Root(s)].allocated
                     THEN FreeNode(b, Root(s)) ELSE b
                ELSE IF a.hn[s].allocated THEN FreeNode(a, s) ELSE a
BY DEF UpdateParent, Reading, Unviewing

LEMMA ReadForm ==
  ASSUME GoodCall, NEW p, PlanT(p), NEW s \in DOMAIN graph, p.hn[s].n_children > 0,
         NEW q, q = Reading(p, s)
  PROVE  /\ SameMemory(p, q)
         /\ q.hn[s].n_children = p.hn[s].n_children - 1 /\ q.hn[s].n_views = p.hn[s].n_views
         /\ \A u \in DOMAIN graph : u # s => q.hn[u] = p.hn[u]
<1>1. /\ q.hn = [p.hn EXCEPT ![s] = ReadOnce(p.hn[s])]
      /\ q.free = p.free /\ q.max_size = p.max_size
      /\ q = [hn |-> q.hn, free |-> q.free, max_size |-> q.max_size]
  BY DEF PlanT, Reading, ReadOnce
<1>2. q.hn[s] = ReadOnce(p.hn[s]) /\ \A u \in DOMAIN graph : u # s => q.hn[u] = p.hn[u]
  BY <1>1 DEF PlanT
<1>3. PICK h \in HashNode : h = p.hn[s]
  BY EntryFacts
<1>4. /\ q.hn[s] \in HashNode /\ q.hn[s].n_children = p.hn[s].n_children - 1
      /\ q.hn[s].n_views = p.hn[s].n_views /\ q.hn[s].offset = p.hn[s].offset
      /\ q.hn[s].allocated <=> p.hn[s].allocated
  BY <1>2, <1>3, CountChanges
<1>5. PlanT(q)
  BY <1>1, <1>4 DEF PlanT
<1> QED BY <1>1, <1>2, <1>4, <1>5 DEF SameMemory

LEMMA ViewForm ==
  ASSUME GoodCall, NEW p, PlanT(p), NEW s \in DOMAIN graph, p.hn[s].n_views > 0,
         NEW q, q = Unviewing(p, s)
  PROVE  /\ SameMemory(p, q)
         /\ q.hn[s].n_views = p.hn[s].n_views - 1 /\ q.hn[s].n_children = p.hn[s].n_children
         /\ \A u \in DOMAIN graph : u # s => q.hn[u] = p.hn[u]
<1>1. /\ q.hn = [p.hn EXCEPT ![s] = ViewedOnce(p.hn[s])]
      /\ q.free = p.free /\ q.max_size = p.max_size
      /\ q = [hn |-> q.hn, free |-> q.free, max_size |-> q.max_size]
  BY DEF PlanT, Unviewing, ViewedOnce
<1>2. q.hn[s] = ViewedOnce(p.hn[s]) /\ \A u \in DOMAIN graph : u # s => q.hn[u] = p.hn[u]
  BY <1>1 DEF PlanT
<1>3. PICK h \in HashNode : h = p.hn[s]
  BY EntryFacts
<1>4. /\ q.hn[s] \in HashNode /\ q.hn[s].n_views = p.hn[s].n_views - 1
      /\ q.hn[s].n_children = p.hn[s].n_children /\ q.hn[s].offset = p.hn[s].offset
      /\ q.hn[s].allocated <=> p.hn[s].allocated
  BY <1>2, <1>3, CountChanges
<1>5. PlanT(q)
  BY <1>1, <1>4 DEF PlanT
<1> QED BY <1>1, <1>2, <1>4, <1>5 DEF SameMemory

(* The counts have no part in the memory.                                  *)
LEMMA SamePlanned ==
  ASSUME NEW p, NEW q, NEW m, Planned(p, m), SameMemory(p, q) PROVE Planned(q, m)
<1>1. \A u : Owns(q, u) <=> Owns(p, u)
  BY DEF Owns, SameMemory
<1>2. \A u \in DOMAIN graph : q.hn[u].offset = p.hn[u].offset
  BY DEF SameMemory
<1>3. Offsets(q) = Offsets(p)
  BY <1>2 DEF Offsets
<1>4. q.free = p.free /\ q.max_size = p.max_size /\ PlanT(q)
  BY DEF SameMemory
<1>5. \A u : Owns(p, u) => u \in DOMAIN graph
  BY DEF Owns
<1>6. Holdings(q)
  BY <1>1, <1>2, <1>4, <1>5 DEF Holdings, Planned, BlocksOK
<1>7. Covered(q)
  BY <1>1, <1>2, <1>4, <1>5 DEF Covered, Planned, BlocksOK
<1>8. BlocksOK(q)
  BY <1>4, <1>6, <1>7 DEF BlocksOK, Planned
<1>9. Kept(q, m) /\ Below(q, m)
  BY <1>1, <1>2, <1>4 DEF Kept, Below, Planned
<1> QED BY <1>3, <1>4, <1>8, <1>9 DEF Planned

LEMMA FreeForm ==
  ASSUME GoodCall, NEW p, PlanT(p), NEW u \in DOMAIN graph, ~graph[u].out,
         NEW q, q = FreeNode(p, u)
  PROVE  /\ PlanT(q) /\ SameCounts(p, q) /\ q.max_size = p.max_size
         /\ q.free = FreeTensor(p.free, p.hn[u].offset, Pad(u))
         /\ \A v \in DOMAIN graph : q.hn[v].offset = p.hn[v].offset
         /\ \A v : Owns(q, v) <=> Owns(p, v) /\ v # u
<1>1. q = [p EXCEPT !.hn[u].allocated = FALSE,
                    !.free = FreeTensor(p.free, p.hn[u].offset, Pad(u))]
  BY DEF FreeNode, Pad
<1>2. /\ q.hn = [p.hn EXCEPT ![u] = Without(p.hn[u])]
      /\ q.free = FreeTensor(p.free, p.hn[u].offset, Pad(u)) /\ q.max_size = p.max_size
      /\ q = [hn |-> q.hn, free |-> q.free, max_size |-> q.max_size]
  BY <1>1 DEF PlanT, Without
<1>3. q.hn[u] = Without(p.hn[u]) /\ \A v \in DOMAIN graph : v # u => q.hn[v] = p.hn[v]
  BY <1>2 DEF PlanT
<1>4. PICK h \in HashNode : h = p.hn[u]
  BY EntryFacts
<1>5. 0 \in Nat
  OBVIOUS
<1>6. /\ q.hn[u] \in HashNode /\ ~q.hn[u].allocated /\ q.hn[u].offset = p.hn[u].offset
      /\ q.hn[u].n_children = p.hn[u].n_children /\ q.hn[u].n_views = p.hn[u].n_views
  BY <1>3, <1>4, <1>5, EntryChanges
<1>7. PlanT(q)
  BY <1>2, <1>6 DEF PlanT
<1>8. SameCounts(p, q) /\ \A v \in DOMAIN graph : q.hn[v].offset = p.hn[v].offset
  BY <1>3, <1>6 DEF SameCounts
<1>9. \A v : Owns(q, v) <=> Owns(p, v) /\ v # u
  BY <1>3, <1>6 DEF Owns
<1> QED BY <1>2, <1>7, <1>8, <1>9

(* What is dead may be freed.                                              *)
LEMMA FreePlanned ==
  ASSUME GoodCall, NEW p, NEW m \in Nat \ {0}, Planned(p, m), NEW u, Owns(p, u), Dead(u, m, 1),
         NEW q, q = FreeNode(p, u)
  PROVE  Planned(q, m) /\ SameCounts(p, q)
<1>1. /\ u \in DOMAIN graph /\ ~graph[u].out /\ PlanT(p) /\ Gaps(p.free) /\ Holdings(p) /\ Covered(p)
      /\ Room(p.free, m - 1) /\ Kept(p, m) /\ Layout(Offsets(p), Sizes, m) /\ Below(p, m)
  BY DEF Owns, Dead, Planned, BlocksOK
<1>2. /\ PlanT(q) /\ SameCounts(p, q) /\ q.max_size = p.max_size
      /\ q.free = FreeTensor(p.free, p.hn[u].offset, Pad(u))
      /\ \A v \in DOMAIN graph : q.hn[v].offset = p.hn[v].offset
      /\ \A v : Owns(q, v) <=> Owns(p, v) /\ v # u
  BY <1>1, FreeForm
<1>3. PICK o \in Nat, n \in Nat \ {0} : o = p.hn[u].offset /\ n = Pad(u) /\ o + n <= Half
  BY <1>1, EntryFacts, SizeFacts DEF Holdings
<1>4. \A x \in Interval(o, n) : ~InBlock(p.free, x)
  BY <1>1, <1>3 DEF Holdings
<1>5. /\ Gaps(q.free)
      /\ \A x \in Int : InBlock(q.free, x) <=> InBlock(p.free, x) \/ x \in Interval(o, n)
  BY <1>1, <1>2, <1>3, <1>4, FreedFree
<1>6. Holdings(q)
  <2>1. \A v : Owns(q, v) => v \in DOMAIN graph
    BY DEF Owns
  <2>2. /\ \A v : Owns(q, v) => Assigned(v) /\ q.hn[v].offset + Pad(v) <= Half
        /\ \A v, w : Owns(q, v) /\ Owns(q, w) /\ v # w =>
             Apart(q.hn[v].offset, Pad(v), q.hn[w].offset, Pad(w))
    BY <1>1, <1>2, <2>1 DEF Holdings
  <2>3. ASSUME NEW v, Owns(q, v), NEW x \in Interval(q.hn[v].offset, Pad(v))
        PROVE  ~InBlock(q.free, x)
    <3>1. PICK a \in Nat, c \in Nat \ {0} : a = p.hn[v].offset /\ c = Pad(v)
      BY <1>1, <2>1, <2>3, EntryFacts, SizeFacts
    <3>2. x \in Interval(a, c) /\ Owns(p, v) /\ v # u /\ x \in Int
      BY <1>2, <2>1, <2>3, <3>1 DEF Interval
    <3>3. Apart(a, c, o, n)
      BY <1>1, <1>3, <3>1, <3>2 DEF Holdings
    <3>4. x \notin Interval(o, n)
      BY <3>2, <3>3 DEF Apart, Interval
    <3>5. ~InBlock(p.free, x)
      BY <1>1, <3>1, <3>2 DEF Holdings
    <3> QED BY <1>5, <3>2, <3>4, <3>5
  <2> QED BY <2>2, <2>3 DEF Holdings
<1>7. Covered(q)
  <2> SUFFICES ASSUME NEW x \in 0 .. Half - 1, ~InBlock(q.free, x)
               PROVE  \E v : Owns(q, v) /\ x \in Interval(q.hn[v].offset, Pad(v))
    BY DEF Covered
  <2>1. ~InBlock(p.free, x) /\ x \notin Interval(o, n)
    BY <1>5
  <2>2. PICK v : Owns(p, v) /\ x \in Interval(p.hn[v].offset, Pad(v))
    BY <1>1, <2>1 DEF Covered
  <2>3. v # u /\ v \in DOMAIN graph
    BY <1>3, <2>1, <2>2 DEF Owns
  <2> QED BY <1>2, <2>2, <2>3
<1>8. Room(q.free, m - 1)
  <2>1. \A x \in (m - 1) * (Half \div Len(graph)) .. Half - 1 : x \in Int
    OBVIOUS
  <2> QED BY <1>1, <1>5, <2>1 DEF Room
<1>9. Kept(q, m)
  <2>1. ~Lives(u, m)
    BY DEF Lives
  <2> QED BY <1>1, <1>2, <2>1 DEF Kept
<1>10. Offsets(q) = Offsets(p)
  BY <1>2 DEF Offsets
<1>11. Below(q, m)
  BY <1>1, <1>2 DEF Below
<1>12. BlocksOK(q)
  BY <1>2, <1>5, <1>6, <1>7 DEF BlocksOK
<1> QED BY <1>1, <1>2, <1>8, <1>9, <1>10, <1>11, <1>12 DEF Planned

LEMMA FreeUnread ==
  ASSUME GoodCall, NEW p, NEW n \in DOMAIN graph, NEW k \in Nat \ {0}, Planned(p, n + 1),
         Counts(p, n, k), NEW u, Owns(p, u), p.hn[u].n_children = 0, p.hn[u].n_views = 0,
         Reads(graph, u) # {} \/ ViewsOf(graph, u) # {}, NEW q, q = FreeNode(p, u)
  PROVE  Planned(q, n + 1) /\ Counts(q, n, k)
<1>1. u \in DOMAIN graph /\ n \in Nat
  BY TensorFacts DEF Owns
<1>2. CASE graph[u].out
  BY <1>2 DEF FreeNode
<1>3. CASE ~graph[u].out
  <2>1. Cardinality(Pending(u, n, k)) = 0 /\ Cardinality(Viewing(u, n, k)) = 0
    BY <1>1 DEF Counts
  <2>2. Pending(u, n, k) = {} /\ Viewing(u, n, k) = {}
    BY <2>1, CountsFinite, FS_EmptySet
  <2>3. Dead(u, n, k)
    BY <1>3, <2>2 DEF Dead
  <2>4. Later(n + 1, 1, n, k) /\ n + 1 \in Nat \ {0}
    BY <1>1 DEF Later
  <2>5. Dead(u, n + 1, 1)
    BY <1>1, <2>3, <2>4, DeadLater
  <2>6. Planned(q, n + 1) /\ SameCounts(p, q)
    BY <2>4, <2>5, FreePlanned
  <2> QED BY <2>6 DEF Counts, SameCounts
<1> QED BY <1>2, <1>3

(* The release of source k of node n.                                      *)
LEMMA Released ==
  ASSUME GoodCall, NEW p, NEW n \in DOMAIN graph, NEW k \in DOMAIN graph[n].src,
         Planned(p, n + 1), Counts(p, n, k), NEW q, q = UpdateParent(p, graph[n].src[k])
  PROVE  Planned(q, n + 1) /\ Counts(q, n, k + 1)
<1>1. PICK s \in DOMAIN graph : s = graph[n].src[k]
  BY SourceFacts
<1>2. n \in Nat /\ k \in Nat \ {0} /\ k + 1 \in Nat \ {0} /\ PlanT(p)
  BY TensorFacts, SourceFacts DEF Planned, BlocksOK
<1>3. /\ <<n, k>> \in Pending(s, n, k) /\ Pending(s, n, k + 1) = Pending(s, n, k) \ {<<n, k>>}
      /\ \A t : t # s => Pending(t, n, k + 1) = Pending(t, n, k)
  <2>1. ASSUME NEW t, t # s PROVE Pending(t, n, k + 1) = Pending(t, n, k)
    <3>1. Pending(t, n, k + 1) = Pending(t, n, k) \ {<<n, k>>} /\ <<n, k>> \notin Pending(t, n, k)
      BY <1>1, <2>1, PendingStep
    <3> QED BY <3>1
  <2> QED BY <1>1, <2>1, PendingStep
<1>4. PICK c \in Nat : /\ c = Cardinality(Pending(s, n, k)) /\ c > 0
                       /\ Cardinality(Pending(s, n, k + 1)) = c - 1
  <2>1. IsFiniteSet(Pending(s, n, k)) /\ IsFiniteSet(Pending(s, n, k + 1))
    BY CountsFinite
  <2>2. Cardinality(Pending(s, n, k)) \in Nat /\ Cardinality(Pending(s, n, k + 1)) \in Nat
    BY <2>1, FS_CardinalityType
  <2>3. Cardinality(Pending(s, n, k) \ {<<n, k>>}) = Cardinality(Pending(s, n, k)) - 1
    BY <1>3, <2>1, FS_RemoveElement
  <2> QED BY <1>3, <2>2, <2>3
<1>5. PICK a : a = Reading(p, s)
  OBVIOUS
<1>6. p.hn[s].n_children = c
  BY <1>4 DEF Counts
<1>7. /\ SameMemory(p, a) /\ a.hn[s].n_children = c - 1 /\ a.hn[s].n_views = p.hn[s].n_views
      /\ \A t \in DOMAIN graph : t # s => a.hn[t] = p.hn[t]
  BY <1>2, <1>4, <1>5, <1>6, ReadForm
<1>8. Planned(a, n + 1) /\ PlanT(a)
  BY <1>7, SamePlanned DEF SameMemory
<1>9. \A t \in DOMAIN graph : /\ a.hn[t].n_children = Cardinality(Pending(t, n, k + 1))
                              /\ a.hn[t].n_views = Cardinality(Viewing(t, n, k))
  BY <1>3, <1>4, <1>7 DEF Counts
<1>10. a.hn[s].n_children = 0 <=> Pending(s, n, k + 1) = {}
  BY <1>9, CountsFinite, FS_EmptySet
<1>11. Reads(graph, s) # {}
  BY <1>3 DEF Pending
<1>12. ASSUME NEW t \in DOMAIN graph, s \in ViewsOf(graph, t)
       PROVE  IsView(s) /\ t = Root(s) /\ a.hn[s].n_views = 0
  <2>1. IsView(s) /\ t = Root(s)
    BY <1>12, TensorFacts DEF ViewsOf, IsView, Root
  <2>2. Viewing(s, n, k) = {}
    <3> SUFFICES ASSUME NEW v \in Viewing(s, n, k) PROVE FALSE
      OBVIOUS
    <3>1. v \in DOMAIN graph /\ graph[v].view_src = s /\ s # 0
      BY TensorFacts DEF Viewing, ViewsOf
    <3>2. graph[s].view_src = 0
      BY <3>1, ViewFacts DEF IsView
    <3> QED BY <2>1, <3>2 DEF IsView
  <2>3. Cardinality({}) = 0
    BY FS_EmptySet
  <2> QED BY <1>9, <2>1, <2>2, <2>3
<1>13. ASSUME ~(a.hn[s].n_children = 0 /\ a.hn[s].n_views = 0) \/ ~IsView(s)
       PROVE  Counts(a, n, k + 1)
  <2> SUFFICES ASSUME NEW t \in DOMAIN graph PROVE Viewing(t, n, k + 1) = Viewing(t, n, k)
    BY <1>9 DEF Counts
  <2>1. ~(Pending(s, n, k + 1) = {} /\ s \in ViewsOf(graph, t))
    BY <1>10, <1>12, <1>13
  <2> QED BY <1>1, <2>1, ViewingStep
<1>14. CASE ~(a.hn[s].n_children = 0 /\ a.hn[s].n_views = 0)
  <2>1. q = a
    BY <1>1, <1>5, <1>14, UpdateForm
  <2> QED BY <1>8, <1>13, <1>14, <2>1
<1>15. CASE a.hn[s].n_children = 0 /\ a.hn[s].n_views = 0 /\ ~IsView(s)
  <2>1. q = IF a.hn[s].allocated THEN FreeNode(a, s) ELSE a
    BY <1>1, <1>5, <1>15, UpdateForm
  <2>2. a.hn[s].allocated => Owns(a, s)
    BY DEF Owns
  <2>3. Counts(a, n, k + 1)
    BY <1>13, <1>15
  <2>4. CASE ~a.hn[s].allocated
    BY <1>8, <2>1, <2>3, <2>4
  <2>5. CASE a.hn[s].allocated
    BY <1>2, <1>8, <1>11, <1>15, <2>1, <2>2, <2>3, <2>5, FreeUnread
  <2> QED BY <2>4, <2>5
<1>16. CASE a.hn[s].n_children = 0 /\ a.hn[s].n_views = 0 /\ IsView(s)
  <2>1. PICK u \in DOMAIN graph : u = Root(s)
    BY <1>16, ViewFacts DEF Root
  <2>2. s \in ViewsOf(graph, u)
    BY <1>16, <2>1, ViewFacts DEF Root, ViewsOf
  <2>3. s \in Viewing(u, n, k) /\ Viewing(u, n, k + 1) = Viewing(u, n, k) \ {s}
    BY <1>1, <1>10, <1>16, <2>2, ViewingStep
  <2>4. \A t \in DOMAIN graph : t # u => Viewing(t, n, k + 1) = Viewing(t, n, k)
    <3> SUFFICES ASSUME NEW t \in DOMAIN graph, t # u PROVE Viewing(t, n, k + 1) = Viewing(t, n, k)
      OBVIOUS
    <3>1. s \notin ViewsOf(graph, t)
      BY <1>12, <2>1
    <3> QED BY <1>1, <3>1, ViewingStep
  <2>5. PICK d \in Nat : /\ d = Cardinality(Viewing(u, n, k)) /\ d > 0
                         /\ Cardinality(Viewing(u, n, k + 1)) = d - 1
    <3>1. IsFiniteSet(Viewing(u, n, k)) /\ IsFiniteSet(Viewing(u, n, k + 1))
      BY CountsFinite
    <3>2. Cardinality(Viewing(u, n, k)) \in Nat /\ Cardinality(Viewing(u, n, k + 1)) \in Nat
      BY <3>1, FS_CardinalityType
    <3>3. Cardinality(Viewing(u, n, k) \ {s}) = Cardinality(Viewing(u, n, k)) - 1
      BY <2>3, <3>1, FS_RemoveElement
    <3> QED BY <2>3, <3>2, <3>3
  <2>6. PICK b : b = Unviewing(a, u)
    OBVIOUS
  <2>7. a.hn[u].n_views = d
    BY <1>9, <2>5
  <2>8. /\ SameMemory(a, b) /\ b.hn[u].n_views = d - 1 /\ b.hn[u].n_children = a.hn[u].n_children
        /\ \A t \in DOMAIN graph : t # u => b.hn[t] = a.hn[t]
    BY <1>8, <2>5, <2>6, <2>7, ViewForm
  <2>9. Planned(b, n + 1)
    BY <1>8, <2>8, SamePlanned
  <2>10. Counts(b, n, k + 1)
    BY <1>9, <2>4, <2>5, <2>8 DEF Counts
  <2>11. q = IF b.hn[u].n_children = 0 /\ b.hn[u].n_views = 0 /\ b.hn[u].allocated
             THEN FreeNode(b, u) ELSE b
    BY <1>1, <1>5, <1>16, <2>1, <2>6, UpdateForm
  <2>12. CASE ~(b.hn[u].n_children = 0 /\ b.hn[u].n_views = 0 /\ b.hn[u].allocated)
    BY <2>9, <2>10, <2>11, <2>12
  <2>13. CASE b.hn[u].n_children = 0 /\ b.hn[u].n_views = 0 /\ b.hn[u].allocated
    <3>1. Owns(b, u) /\ ViewsOf(graph, u) # {}
      BY <2>2, <2>13 DEF Owns
    <3> QED BY <1>2, <2>9, <2>10, <2>11, <2>13, <3>1, FreeUnread
  <2> QED BY <2>12, <2>13
<1> QED BY <1>14, <1>15, <1>16

-----------------------------------------------------------------------------
(* Steps that leave the graph alone.                                       *)

LEMMA SameTensor ==
  ASSUME graph' = graph, NEW t
  PROVE  /\ IsView(t)' <=> IsView(t)
         /\ Assigned(t)' <=> Assigned(t)
         /\ Root(t)' = Root(t)
         /\ tokens' = tokens => Size(t)' = Size(t) /\ Pad(t)' = Pad(t) /\ SizeMax(t)' = SizeMax(t)
BY DEF IsView, Assigned, Root, Size, Pad, SizeMax

LEMMA SamePending ==
  ASSUME graph' = graph, NEW t, NEW n, NEW k
  PROVE  /\ Pending(t, n, k)' = Pending(t, n, k) /\ Viewing(t, n, k)' = Viewing(t, n, k)
         /\ Lives(t, n)' <=> Lives(t, n)
<1>1. \A u, m, l : Pending(u, m, l)' = Pending(u, m, l)
  BY DEF Pending
<1>2. \A u, m, l : Viewing(u, m, l)' = Viewing(u, m, l)
  BY <1>1 DEF Viewing
<1>3. \A u, m, l : Dead(u, m, l)' <=> Dead(u, m, l)
  BY <1>1, <1>2 DEF Dead
<1>4. Lives(t, n)' <=> Lives(t, n)
  BY <1>3, SameTensor DEF Lives
<1> QED BY <1>1, <1>2, <1>4

LEMMA SameLayout ==
  ASSUME graph' = graph, NEW o, NEW z, NEW m, Layout(o, z, m)
  PROVE  Layout(o, z, m)'
<1>1. \A t, n : Lives(t, n)' <=> Lives(t, n)
  BY SamePending
<1>2. \A t : Assigned(t)' <=> Assigned(t)
  BY SameTensor
<1> QED BY <1>1, <1>2 DEF Layout

LEMMA SameCountsKept ==
  ASSUME graph' = graph, NEW p, NEW n, NEW k, Counts(p, n, k)
  PROVE  Counts(p, n, k)'
<1>1. \A t : Pending(t, n, k)' = Pending(t, n, k) /\ Viewing(t, n, k)' = Viewing(t, n, k)
  BY SamePending
<1> QED BY <1>1 DEF Counts

LEMMA SamePlannedKept ==
  ASSUME graph' = graph, tokens' = tokens, NEW p, NEW m, Planned(p, m)
  PROVE  Planned(p, m)'
<1>1. \A t : (Assigned(t)' <=> Assigned(t)) /\ Pad(t)' = Pad(t) /\ SizeMax(t)' = SizeMax(t)
  BY SameTensor
<1>2. \A t, n : Lives(t, n)' <=> Lives(t, n)
  BY SamePending
<1>3. \A t : Owns(p, t)' <=> Owns(p, t)
  BY DEF Owns
<1>4. PICK o, z : o = Offsets(p) /\ z = Sizes
  OBVIOUS
<1>5. Offsets(p)' = o /\ Sizes' = z
  BY <1>1, <1>4 DEF Offsets, Sizes
<1>6. Layout(o, z, m)'
  BY <1>4, SameLayout DEF Planned
<1>7. Layout(Offsets(p), Sizes, m)'
  BY <1>5, <1>6
<1>8. PlanT(p)' /\ Gaps(p.free)' /\ Room(p.free, m - 1)'
  BY DEF Planned, BlocksOK, PlanT, Gaps, Room, HashNode, Blocks, InBlock, Interval
<1>9. Holdings(p)'
  BY <1>1, <1>3 DEF Planned, BlocksOK, Holdings, InBlock, Interval, Apart
<1>10. Covered(p)'
  BY <1>1, <1>3 DEF Planned, BlocksOK, Covered, InBlock, Interval
<1>11. Kept(p, m)'
  BY <1>2, <1>3 DEF Planned, Kept
<1>12. Below(p, m)'
  BY <1>1 DEF Planned, Below
<1> QED BY <1>7, <1>8, <1>9, <1>10, <1>11, <1>12 DEF Planned, BlocksOK

-----------------------------------------------------------------------------
(* The planning of a graph.                                                *)

PlanTyped(p) ==
  /\ p.hn \in Seq(HashNode) /\ p.max_size \in Nat
  /\ \A b \in p.free : b.offset \in Nat /\ b.size \in Nat \ {0}

LEMMA PlanType ==
  ASSUME GoodCall, NEW p, BlocksOK(p) PROVE PlanTyped(p)
<1>1. PICK l \in Nat : DOMAIN graph = 1 .. l
  BY GraphFacts
<1>2. p.hn \in [1 .. l -> HashNode]
  BY <1>1 DEF BlocksOK, PlanT
<1>3. p.hn \in Seq(HashNode)
  BY <1>2, SeqDef
<1> QED BY <1>3, BlockFacts DEF BlocksOK, PlanT, PlanTyped

LEMMA GoodPhase ==
  ASSUME PlanInv, phase # "idle" PROVE GoodCall
BY DEF PlanInv, GraphOK, GoodCall

(* A turn of the loops of ggml_gallocr_alloc_graph_impl.                   *)
LEMMA Turn ==
  ASSUME PlanInv, phase \in {"nodes", "parents"},
         UNCHANGED <<graph, tokens, calls, node_allocs, buffer, mem>>,
         NEW q, NEW n \in 1 .. Len(graph) + 1, NEW k \in Nat \ {0},
         plan' = q, i' = n, j' = k, phase' \in {"nodes", "parents"},
         phase' = "nodes" => Planned(q, n) /\ Counts(q, n, 1),
         phase' = "parents" =>
           n \in DOMAIN graph \ Leafs(graph) /\ Planned(q, n + 1) /\ Counts(q, n, k)
  PROVE  PlanInv'
<1>1. GoodCall /\ graph # <<>>
  BY GoodPhase DEF PlanInv, GraphOK
<1>2. BlocksOK(q)
  BY DEF Planned
<1>3. PlanTyped(q)
  BY <1>1, <1>2, PlanType
<1>4. TypeOK'
  BY <1>3 DEF PlanInv, TypeOK, PlanTyped
<1>5. GraphOK' /\ (node_allocs \in Seq(TensorAlloc))'
  BY <1>1 DEF PlanInv, GraphOK
<1>6. phase' = "nodes" => (Planned(plan, i) /\ Counts(plan, i, 1))'
  <2>1. Planned(q, n) => Planned(q, n)'
    BY SamePlannedKept
  <2>2. Counts(q, n, 1) => Counts(q, n, 1)'
    BY SameCountsKept
  <2> QED BY <2>1, <2>2
<1>7. phase' = "parents" => (Planned(plan, i + 1) /\ Counts(plan, i, j))'
  <2>1. PICK m : m = n + 1
    OBVIOUS
  <2>2. Planned(q, m) => Planned(q, m)'
    BY SamePlannedKept
  <2>3. Counts(q, n, k) => Counts(q, n, k)'
    BY SameCountsKept
  <2>4. (i + 1)' = m
    BY <2>1
  <2> QED BY <2>1, <2>2, <2>3, <2>4
<1>8. phase' = "parents" => (i \in DOMAIN graph \ Leafs(graph))'
  BY DEF Leafs
<1> QED BY <1>4, <1>5, <1>6, <1>7, <1>8 DEF PlanInv

(* The turn of tensor t.                                                   *)
LEMMA Allocated ==
  ASSUME GoodCall, NEW p, NEW t \in DOMAIN graph, Planned(p, t), Counts(p, t, 1),
         NEW q, q = AllocateNode(p, t)
  PROVE  Planned(q, t + 1) /\ Counts(q, t, 1)
<1>1. Planned(q, t + 1) /\ SameCounts(p, q)
  BY PlannedGrows, PlannedSkips DEF SameCounts
<1> QED BY <1>1 DEF Counts, SameCounts

LEMMA AllocLeafHolds ==
  ASSUME PlanInv, AllocLeaf PROVE PlanInv'
<1>1. GoodCall /\ phase = "nodes" /\ i \in DOMAIN graph /\ i \in Leafs(graph) /\ phase' = "nodes"
  BY GoodPhase DEF AllocLeaf, Leafs
<1>2. PICK q : q = AllocateNode(plan, i) /\ plan' = q
  BY DEF AllocLeaf
<1>3. Planned(q, i + 1) /\ Counts(q, i, 1)
  BY <1>1, <1>2, Allocated DEF PlanInv
<1>4. 1 \notin DOMAIN graph[i].src
  BY <1>1, GraphFacts DEF WellFormed
<1>5. Counts(q, i + 1, 1)
  BY <1>1, <1>3, <1>4, PendingNext DEF Counts
<1>6. PICK n \in 1 .. Len(graph) + 1 : n = i + 1 /\ i' = n
  BY <1>1, GraphFacts DEF AllocLeaf
<1>7. PICK k \in Nat \ {0} : j' = k
  BY DEF AllocLeaf, PlanInv, TypeOK
<1>8. UNCHANGED <<graph, tokens, calls, node_allocs, buffer, mem>>
  BY DEF AllocLeaf
<1> QED BY <1>1, <1>2, <1>3, <1>5, <1>6, <1>7, <1>8, Turn

LEMMA AllocParentHolds ==
  ASSUME PlanInv, AllocParent PROVE PlanInv'
<1>1. /\ GoodCall /\ phase = "nodes" /\ i \in DOMAIN graph /\ j \in DOMAIN graph[i].src
      /\ phase' = "nodes" /\ Planned(plan, i) /\ Counts(plan, i, 1)
  BY GoodPhase DEF AllocParent, PlanInv
<1>2. AllocateNode(plan, graph[i].src[j]) = plan
  BY <1>1, ParentsThere DEF Planned
<1>3. PICK q : q = plan /\ plan' = q
  BY <1>2 DEF AllocParent
<1>4. PICK n \in 1 .. Len(graph) + 1 : n = i /\ i' = n
  BY DEF AllocParent, PlanInv, TypeOK
<1>5. PICK k \in Nat \ {0} : j' = k
  BY DEF AllocParent, PlanInv, TypeOK
<1>6. UNCHANGED <<graph, tokens, calls, node_allocs, buffer, mem>>
  BY DEF AllocParent
<1> QED BY <1>1, <1>3, <1>4, <1>5, <1>6, Turn

LEMMA AllocNodeHolds ==
  ASSUME PlanInv, AllocNode PROVE PlanInv'
<1>1. GoodCall /\ phase = "nodes" /\ i \in DOMAIN graph \ Leafs(graph) /\ phase' = "parents"
  BY GoodPhase DEF AllocNode
<1>2. PICK q : q = AllocateNode(plan, i) /\ plan' = q
  BY DEF AllocNode
<1>3. Planned(q, i + 1) /\ Counts(q, i, 1)
  BY <1>1, <1>2, Allocated DEF PlanInv
<1>4. PICK n \in 1 .. Len(graph) + 1 : n = i /\ i' = n
  BY DEF AllocNode, PlanInv, TypeOK
<1>5. PICK k \in Nat \ {0} : k = 1 /\ j' = k
  BY DEF AllocNode
<1>6. UNCHANGED <<graph, tokens, calls, node_allocs, buffer, mem>>
  BY DEF AllocNode
<1> QED BY <1>1, <1>2, <1>3, <1>4, <1>5, <1>6, Turn

LEMMA ReleaseParentHolds ==
  ASSUME PlanInv, ReleaseParent PROVE PlanInv'
<1>1. /\ GoodCall /\ phase = "parents" /\ i \in DOMAIN graph \ Leafs(graph) /\ phase' = "parents"
      /\ j \in DOMAIN graph[i].src /\ Planned(plan, i + 1) /\ Counts(plan, i, j)
  BY GoodPhase DEF ReleaseParent, PlanInv
<1>2. PICK q : q = UpdateParent(plan, graph[i].src[j]) /\ plan' = q
  BY DEF ReleaseParent
<1>3. Planned(q, i + 1) /\ Counts(q, i, j + 1)
  BY <1>1, <1>2, Released
<1>4. PICK n \in 1 .. Len(graph) + 1 : n = i /\ i' = n
  BY DEF ReleaseParent, PlanInv, TypeOK
<1>5. PICK k \in Nat \ {0} : k = j + 1 /\ j' = k
  BY DEF ReleaseParent, PlanInv, TypeOK
<1>6. UNCHANGED <<graph, tokens, calls, node_allocs, buffer, mem>>
  BY DEF ReleaseParent
<1> QED BY <1>1, <1>2, <1>3, <1>4, <1>5, <1>6, Turn

LEMMA NextNodeHolds ==
  ASSUME PlanInv, NextNode PROVE PlanInv'
<1>1. /\ GoodCall /\ phase = "parents" /\ i \in DOMAIN graph /\ phase' = "nodes"
      /\ j \notin DOMAIN graph[i].src /\ j \in Nat \ {0}
      /\ Planned(plan, i + 1) /\ Counts(plan, i, j)
  BY GoodPhase DEF NextNode, PlanInv, TypeOK
<1>2. Counts(plan, i + 1, 1)
  BY <1>1, PendingNext DEF Counts
<1>3. PICK q : q = plan /\ plan' = q
  BY DEF NextNode
<1>4. PICK n \in 1 .. Len(graph) + 1 : n = i + 1 /\ i' = n
  BY <1>1, GraphFacts DEF NextNode
<1>5. PICK k \in Nat \ {0} : j' = k
  BY DEF NextNode
<1>6. UNCHANGED <<graph, tokens, calls, node_allocs, buffer, mem>>
  BY DEF NextNode
<1> QED BY <1>1, <1>2, <1>3, <1>4, <1>5, <1>6, Turn

-----------------------------------------------------------------------------
(* The calls of ggml_gallocr_alloc_graph.                                  *)

LEMMA BuiltGood ==
  ASSUME PlanInv, phase = "idle", NEW g \in Built
  PROVE  /\ g \in Graphs \cup Others /\ WellFormed(g) /\ g \in Seq(Tensor) /\ g # <<>>
         /\ Len(g) \in Nat \ {0} /\ DOMAIN g = 1 .. Len(g)
<1>1. g \in Graphs \cup Others
  BY DEF Built, PlanInv, GraphOK
<1>2. WellFormed(g)
  BY <1>1, GraphsAssumption
<1>3. g \in Seq(Tensor) /\ g # <<>>
  BY <1>2 DEF WellFormed
<1> QED BY <1>1, <1>2, <1>3, LenProperties, EmptySeq

(* What a call does to the type of the graph.                              *)
LEMMA CallType ==
  ASSUME PlanInv, phase = "idle", calls < MaxCalls, NEW n \in Tokens, NEW g \in Built, Call(g, n)
  PROVE  /\ (\A t \in DOMAIN graph : graph[t] \in Tensor /\ graph[t].view_src < t)'
         /\ (tokens \in Nat \ {0} /\ calls \in 0 .. MaxCalls)' /\ (1 \in 1 .. Len(graph) + 1)'
         /\ graph' # <<>> /\ (graph \in Graphs \cup Others)' /\ (tokens \in Tokens)'
<1>1. graph' = g /\ tokens' = n /\ calls' = calls + 1
  BY DEF Call
<1>2. /\ g \in Graphs \cup Others /\ WellFormed(g) /\ g \in Seq(Tensor) /\ g # <<>>
      /\ Len(g) \in Nat \ {0} /\ DOMAIN g = 1 .. Len(g)
  BY BuiltGood
<1>3. ASSUME NEW t \in DOMAIN g PROVE g[t] \in Tensor /\ g[t].view_src < t
  <2>1. t \in Nat \ {0} /\ g[t] \in Tensor
    BY <1>2, ElementOfSeq
  <2>2. g[t].view_src = 0 \/ g[t].view_src < t
    BY <1>2 DEF WellFormed
  <2> QED BY <2>1, <2>2
<1>4. calls + 1 \in 0 .. MaxCalls /\ 1 \in 1 .. Len(g) + 1 /\ n \in Nat \ {0}
  BY <1>2, TokensAssumption DEF PlanInv, TypeOK
<1> QED BY <1>1, <1>2, <1>3, <1>4

LEMMA PlanHolds ==
  ASSUME PlanInv, phase = "idle", calls < MaxCalls, NEW n \in Tokens, NEW g \in Built, Plan(g, n)
  PROVE  PlanInv'
<1>1. /\ graph' = g /\ tokens' = n /\ Call(g, n) /\ phase' = "nodes" /\ i' = 1 /\ j' = 1
      /\ UNCHANGED <<node_allocs, buffer, mem>>
  BY DEF Plan, Call
<1>2. WellFormed(g) /\ DOMAIN g = 1 .. Len(g) /\ Len(g) \in Nat
  BY BuiltGood
<1>3. PICK p : plan' = p
  OBVIOUS
<1>4. /\ p = [hn |-> p.hn, free |-> p.free, max_size |-> p.max_size]
      /\ p.hn = [t \in DOMAIN g |-> [n_children |-> NChildren(g, t), n_views |-> NViews(g, t),
                                     offset |-> 0, allocated |-> FALSE]]
      /\ p.free = {Block(0, Half)} /\ p.max_size = 0
  BY <1>3 DEF Plan
<1>5. \A t \in DOMAIN g : NChildren(g, t) \in Nat /\ NViews(g, t) \in Nat
  <2> SUFFICES ASSUME NEW t \in DOMAIN g PROVE NChildren(g, t) \in Nat /\ NViews(g, t) \in Nat
    OBVIOUS
  <2>1. IsFiniteSet(Reads(g, t))
    BY <1>2, ReadsOf
  <2>2. IsFiniteSet(DOMAIN g)
    <3>1. PICK l \in Nat : DOMAIN g = 1 .. l
      BY <1>2
    <3>2. 1 \in Int /\ l \in Int
      OBVIOUS
    <3> QED BY <3>1, <3>2, FS_Interval
  <2>3. ViewsOf(g, t) \in SUBSET DOMAIN g
    BY DEF ViewsOf
  <2>4. IsFiniteSet(ViewsOf(g, t))
    BY <2>2, <2>3, FS_Subset
  <2> QED BY <2>1, <2>4, FS_CardinalityType DEF NChildren, NViews, ViewsOf
<1>6. p.hn \in [DOMAIN g -> HashNode]
  BY <1>4, <1>5 DEF HashNode
<1>7. PlanT(p)'
  BY <1>1, <1>4, <1>6 DEF PlanT
<1>8. \A t : ~Owns(p, t)'
  BY <1>1, <1>4 DEF Owns
<1>9. PICK h \in Nat \ {0} : h = Half
  BY AlignmentAssumption
<1>10. Block(0, h).offset = 0 /\ Block(0, h).size = h /\ Block(0, h) \in Blocks
  BY DEF Block, Blocks
<1>11. Gaps(p.free)
  BY <1>4, <1>9, <1>10 DEF Gaps
<1>12. \A x \in 0 .. Half - 1 : InBlock(p.free, x)
  BY <1>4, <1>9, <1>10 DEF InBlock, Interval
<1>13. BlocksOK(p)'
  <2>1. Gaps(p.free)'
    BY <1>11 DEF Gaps
  <2>2. Holdings(p)'
    BY <1>8 DEF Holdings
  <2>3. Covered(p)'
    BY <1>12 DEF Covered
  <2> QED BY <1>7, <2>1, <2>2, <2>3 DEF BlocksOK
<1>14. Room(p.free, 1 - 1)'
  <2>1. (1 - 1) * (Half \div Len(g)) = 0
    <3>1. Half \div Len(g) \in Int
      <4>1. Len(g) > 0
        BY <1>2, BuiltGood
      <4> QED BY <1>2, <1>9, <4>1
    <3> QED BY <3>1
  <2> QED BY <1>1, <1>12, <2>1 DEF Room
<1>15. \A t : ~(t \in DOMAIN g /\ t < 1)
  BY <1>2
<1>16. \A t : ~Lives(t, 1)'
  BY <1>1, <1>15 DEF Lives
<1>17. Kept(p, 1)' /\ Below(p, 1)'
  BY <1>1, <1>8, <1>15, <1>16 DEF Kept, Below
<1>18. Layout(Offsets(p), Sizes, 1)'
  BY <1>16 DEF Layout
<1>19. Planned(p, 1)'
  BY <1>13, <1>14, <1>17, <1>18 DEF Planned
<1>20. ASSUME NEW t PROVE Pending(t, 1, 1)' = Reads(g, t)
  <2>1. \A r \in Reads(g, t) : r[1] > 1 \/ (r[1] = 1 /\ r[2] >= 1)
    <3> SUFFICES ASSUME NEW r \in Reads(g, t) PROVE r[1] > 1 \/ (r[1] = 1 /\ r[2] >= 1)
      OBVIOUS
    <3>1. r[1] \in Nat \ {0} /\ r[2] \in Nat \ {0}
      BY <1>2, ReadsOf
    <3> QED BY <3>1
  <2> QED BY <1>1, <2>1 DEF Pending
<1>21. \A t : Viewing(t, 1, 1)' = ViewsOf(g, t)
  BY <1>1, <1>20 DEF Viewing
<1>22. Counts(p, 1, 1)'
  BY <1>1, <1>4, <1>20, <1>21 DEF Counts, NChildren, NViews, ViewsOf
<1>23. PlanTyped(p)
  <2>1. PICK l \in Nat : DOMAIN g = 1 .. l
    BY <1>2
  <2>2. p.hn \in Seq(HashNode)
    BY <1>6, <2>1, SeqDef
  <2> QED BY <1>4, <1>11, <2>2, BlockFacts DEF PlanTyped
<1>24. TypeOK'
  <2>1. /\ (\A t \in DOMAIN graph : graph[t] \in Tensor /\ graph[t].view_src < t)'
        /\ (tokens \in Nat \ {0} /\ calls \in 0 .. MaxCalls)' /\ (i \in 1 .. Len(graph) + 1)'
    BY <1>1, CallType
  <2>2. (phase \in {"idle", "nodes", "parents", "exec", "crashed"})' /\ (j \in Nat \ {0})'
    BY <1>1
  <2>3. /\ (\A t \in DOMAIN node_allocs : node_allocs[t] \in TensorAlloc)'
        /\ (buffer \in {NoBuffer} \cup Nat)' /\ (mem \in [1 .. Max({0, buffer}) -> Nat])'
    BY <1>1 DEF PlanInv, TypeOK
  <2>4. PlanTyped(plan')
    BY <1>3, <1>23
  <2> QED BY <2>1, <2>2, <2>3, <2>4 DEF TypeOK, PlanTyped
<1>25. GraphOK' /\ (node_allocs \in Seq(TensorAlloc))'
  BY <1>1, CallType DEF PlanInv, GraphOK
<1>26. (Planned(plan, i) /\ Counts(plan, i, 1))'
  BY <1>1, <1>3, <1>19, <1>22
<1> QED BY <1>1, <1>24, <1>25, <1>26 DEF PlanInv

LEMMA ReuseHolds ==
  ASSUME PlanInv, phase = "idle", calls < MaxCalls, NEW n \in Tokens, NEW g \in Built, Reuse(g, n)
  PROVE  PlanInv'
<1>1. /\ Call(g, n) /\ i' = 1 /\ phase' \in {"crashed", "exec"}
      /\ UNCHANGED <<j, plan, node_allocs, buffer, mem>>
  BY DEF Reuse, PlanInv
<1>2. TypeOK'
  BY <1>1, CallType DEF PlanInv, TypeOK
<1>3. GraphOK' /\ (node_allocs \in Seq(TensorAlloc))'
  BY <1>1, CallType DEF PlanInv, GraphOK
<1> QED BY <1>1, <1>2, <1>3 DEF PlanInv

(* The end of ggml_gallocr_reserve_n.                                      *)
LEMMA MaxZero ==
  ASSUME NEW x \in Nat PROVE Max({0, x}) = x /\ Max({0, NoBuffer}) = 0
<1>1. {0, x} \subseteq 0 .. x /\ {0, x} # {}
  OBVIOUS
<1>2. Max({0, x}) \in {0, x} /\ \A m \in {0, x} : m <= Max({0, x})
  BY <1>1, MaxFound
<1>3. Max({0, -1}) \in {0, -1} /\ \A m \in {0, -1} : Max({0, -1}) >= m
  <2>1. \E k \in {0, -1} : \A m \in {0, -1} : k >= m
    OBVIOUS
  <2> QED BY <2>1 DEF Max
<1>4. Max({0, -1}) = 0
  BY <1>3
<1> QED BY <1>2, <1>4 DEF NoBuffer

LEMMA RecordHolds ==
  ASSUME PlanInv, Record PROVE PlanInv'
<1>1. /\ GoodCall /\ phase = "nodes" /\ UNCHANGED <<graph, tokens, calls, j, plan>> /\ i' = 1
      /\ phase' \in {"exec", "idle"}
  BY GoodPhase DEF Record
<1>2. graph # <<>> /\ Len(graph) \in Nat
  BY <1>1, GraphFacts DEF PlanInv, GraphOK
<1>3. PlanT(plan)
  BY <1>1 DEF PlanInv, Planned, BlocksOK
<1>4. ASSUME NEW t \in DOMAIN graph PROVE SizeMax(t) \in Nat
  BY <1>1, SizeFacts DEF SizeMax
<1>5. ASSUME NEW t \in DOMAIN graph
      PROVE  [offset |-> IF Assigned(t) THEN plan.hn[t].offset ELSE Half,
              size_max |-> SizeMax(t),
              src |-> [k \in DOMAIN graph[t].src |-> SizeMax(graph[t].src[k])],
              leaf |-> t \in Leafs(graph)] \in TensorAlloc
  <2>1. (IF Assigned(t) THEN plan.hn[t].offset ELSE Half) \in Nat
    BY <1>3, EntryFacts, AlignmentAssumption
  <2>2. PICK l \in Nat : DOMAIN graph[t].src = 1 .. l
    BY <1>1, SourceFacts
  <2>3. [k \in DOMAIN graph[t].src |-> SizeMax(graph[t].src[k])] \in [1 .. l -> Nat]
    BY <1>1, <1>4, <2>2, SourceFacts
  <2>4. [k \in DOMAIN graph[t].src |-> SizeMax(graph[t].src[k])] \in Seq(Nat)
    BY <2>3, SeqDef
  <2> HIDE DEF SizeMax
  <2>5. (t \in Leafs(graph)) \in BOOLEAN
    OBVIOUS
  <2> QED BY <1>4, <2>1, <2>4, <2>5 DEF TensorAlloc
<1>6. node_allocs' \in [DOMAIN graph -> TensorAlloc]
  BY <1>5 DEF Record
<1>7. node_allocs' \in Seq(TensorAlloc) /\ \A t \in DOMAIN node_allocs' : node_allocs'[t] \in TensorAlloc
  <2>1. PICK l \in Nat : DOMAIN graph = 1 .. l
    BY <1>1, GraphFacts
  <2> QED BY <1>6, <2>1, SeqDef
<1>8. (buffer \in {NoBuffer} \cup Nat)' /\ (mem \in [1 .. Max({0, buffer}) -> Nat])'
  <2>1. CASE UNCHANGED <<buffer, mem>>
    BY <2>1 DEF PlanInv, TypeOK
  <2>2. CASE buffer' = plan.max_size /\ mem' = [a \in 1 .. plan.max_size |-> 0]
    <3>1. PICK x \in Nat : x = plan.max_size
      BY <1>3 DEF PlanT
    <3>2. Max({0, buffer'}) = x
      BY <2>2, <3>1, MaxZero
    <3> QED BY <2>2, <3>1, <3>2
  <2>3. CASE buffer' = NoBuffer /\ mem' = <<>>
    <3>1. Max({0, buffer'}) = 0
      BY <2>3, MaxZero
    <3>2. mem' \in [1 .. 0 -> Nat]
      BY <2>3
    <3> QED BY <2>3, <3>1, <3>2
  <2> QED BY <2>1, <2>2, <2>3 DEF Record
<1>9. TypeOK'
  <2>1. 1 \in 1 .. Len(graph) + 1
    BY <1>2
  <2> QED BY <1>1, <1>7, <1>8, <2>1 DEF PlanInv, TypeOK
<1>10. GraphOK'
  BY <1>1, <1>2 DEF PlanInv, GraphOK
<1> QED BY <1>1, <1>7, <1>9, <1>10 DEF PlanInv

(* The execution.                                                          *)
LEMMA WriteType ==
  ASSUME PlanInv, NEW t \in Nat PROVE Write(mem, t) \in [1 .. Max({0, buffer}) -> Nat]
BY DEF PlanInv, TypeOK, Write

LEMMA RunHolds ==
  ASSUME PlanInv, SetInput \/ Exec \/ Finish PROVE PlanInv'
<1>1. /\ GoodCall /\ phase = "exec" /\ phase' \in {"exec", "idle"} /\ (phase' = "idle" => i' = 1)
      /\ UNCHANGED <<graph, tokens, calls, j, plan, node_allocs, buffer>>
  BY GoodPhase DEF SetInput, Exec, Finish
<1>2. i' \in 1 .. Len(graph) + 1 /\ mem' \in [1 .. Max({0, buffer}) -> Nat]
  <2>1. Len(graph) \in Nat /\ DOMAIN graph = 1 .. Len(graph)
    BY <1>1, GraphFacts
  <2>2. i \in 1 .. Len(graph) + 1
    BY DEF PlanInv, TypeOK
  <2>3. i \in Nat
    BY <2>1, <2>2
  <2> DEFINE M == [1 .. Max({0, buffer}) -> Nat]
  <2>4. mem \in M
    BY DEF PlanInv, TypeOK
  <2>5. Write(mem, i) \in M
    BY <2>3, WriteType
  <2> HIDE DEF M
  <2>6. i' \in 1 .. Len(graph) + 1 /\ mem' \in M
    <3>1. CASE SetInput
      BY <2>1, <2>5, <3>1 DEF SetInput, Leafs
    <3>2. CASE Exec
      BY <2>1, <2>4, <2>5, <3>2 DEF Exec
    <3>3. CASE Finish
      BY <2>1, <2>4, <3>3 DEF Finish
    <3> QED BY <3>1, <3>2, <3>3
  <2> QED BY <2>6 DEF M
<1>3. TypeOK'
  BY <1>1, <1>2 DEF PlanInv, TypeOK
<1>4. GraphOK' /\ (node_allocs \in Seq(TensorAlloc))'
  BY <1>1 DEF PlanInv, GraphOK
<1> QED BY <1>1, <1>3, <1>4 DEF PlanInv

-----------------------------------------------------------------------------
(* The plan in the buffer.                                                 *)

LEMMA RootFacts ==
  ASSUME GoodCall, NEW t \in DOMAIN graph
  PROVE  /\ Root(t) \in DOMAIN graph /\ Root(Root(t)) = Root(t) /\ ~IsView(Root(t))
         /\ Assigned(Root(t)) <=> ~graph[Root(t)].data
         /\ Region(Root(t)) = Region(t)
<1>1. Root(t) \in DOMAIN graph /\ ~IsView(Root(t))
  BY ViewFacts DEF Root, IsView
<1>2. Root(Root(t)) = Root(t)
  BY <1>1 DEF Root
<1> QED BY <1>1, <1>2 DEF Assigned, Region

LEMMA RegionFacts ==
  ASSUME PlanInv, ExecInv, phase = "exec", NEW t \in DOMAIN graph, Assigned(t)
  PROVE  \E o \in Nat, z \in Nat, m \in Nat :
           /\ o = node_allocs[t].offset /\ z = Size(t) /\ m = node_allocs[t].size_max
           /\ Region(t) = (o + 1) .. (o + z) /\ z <= m /\ o + m <= buffer
           /\ buffer \in Nat /\ DOMAIN mem = 1 .. buffer
<1>1. GoodCall /\ Root(t) = t /\ ~graph[t].data
  BY GoodPhase DEF Root, Assigned
<1>2. Stored /\ buffer # NoBuffer
  BY DEF ExecInv
<1>3. node_allocs[t] \in TensorAlloc
  BY <1>2 DEF PlanInv, TypeOK, Stored
<1>4. PICK o \in Nat, z \in Nat, m \in Nat :
        o = node_allocs[t].offset /\ z = Size(t) /\ m = node_allocs[t].size_max
  BY <1>1, <1>3, SizeFacts DEF TensorAlloc
<1>5. buffer \in Nat /\ mem \in [1 .. Max({0, buffer}) -> Nat]
  BY <1>2 DEF PlanInv, TypeOK
<1>6. DOMAIN mem = 1 .. buffer
  BY <1>5, MaxZero
<1>7. z <= m /\ o + m <= buffer
  BY <1>2, <1>4 DEF ExecInv, Stored
<1>8. Region(t) = (o + 1) .. (o + z)
  BY <1>1, <1>4 DEF Region
<1> QED BY <1>4, <1>5, <1>6, <1>7, <1>8

(* What lives together has no byte in common.                              *)
LEMMA RegionsApart ==
  ASSUME PlanInv, ExecInv, phase = "exec", NEW n \in 1 .. Len(graph) + 1,
         NEW t, NEW u, Lives(t, n), Lives(u, n), t # u
  PROVE  Region(t) \cap Region(u) = {}
<1>1. t \in DOMAIN graph /\ u \in DOMAIN graph /\ Assigned(t) /\ Assigned(u)
  BY DEF Lives
<1>2. PICK o \in Nat, z \in Nat, m \in Nat :
           /\ o = node_allocs[t].offset /\ m = node_allocs[t].size_max
           /\ Region(t) = (o + 1) .. (o + z) /\ z <= m
  BY <1>1, RegionFacts
<1>3. PICK p \in Nat, y \in Nat, l \in Nat :
           /\ p = node_allocs[u].offset /\ l = node_allocs[u].size_max
           /\ Region(u) = (p + 1) .. (p + y) /\ y <= l
  BY <1>1, RegionFacts
<1>4. PICK O, Z : /\ O = [v \in DOMAIN graph |-> node_allocs[v].offset]
                  /\ Z = [v \in DOMAIN graph |-> node_allocs[v].size_max]
  OBVIOUS
<1>5. Layout(O, Z, Len(graph) + 1)
  BY <1>4 DEF ExecInv, Stored
<1>6. Apart(O[t], Z[t], O[u], Z[u])
  BY <1>5 DEF Layout
<1>7. Apart(o, m, p, l)
  BY <1>1, <1>2, <1>3, <1>4, <1>6
<1>8. \A a \in (o + 1) .. (o + z) : a \notin (p + 1) .. (p + y)
  <2>1. Apart(o, z, p, y)
    BY <1>2, <1>3, <1>7, SmallerApart
  <2> QED BY <2>1 DEF Apart
<1> QED BY <1>2, <1>3, <1>8

(* The last writer of the memory of a tensor.                              *)
LEMMA LastWritten ==
  ASSUME GoodCall, NEW n \in DOMAIN graph, NEW t
  PROVE  /\ Root(t) = Root(n) /\ graph[n].op # "view" => LastWriter(t, n + 1) = n
         /\ ~(Root(t) = Root(n) /\ graph[n].op # "view") => LastWriter(t, n + 1) = LastWriter(t, n)
<1>1. n \in Nat \ {0}
  BY TensorFacts
<1> DEFINE W(m) == {u \in 1 .. (m - 1) : Root(u) = Root(t) /\ graph[u].op # "view"}
<1>2. LastWriter(t, n + 1) = Max(W(n + 1)) /\ LastWriter(t, n) = Max(W(n))
  BY DEF LastWriter
<1>3. ASSUME Root(t) = Root(n), graph[n].op # "view" PROVE Max(W(n + 1)) = n
  <2>1. n \in W(n + 1) /\ W(n + 1) \subseteq 0 .. n /\ n \in Nat
    BY <1>1, <1>3
  <2>2. PICK T : T = W(n + 1)
    OBVIOUS
  <2>3. n \in T /\ T \subseteq 0 .. n /\ T # {}
    BY <2>1, <2>2
  <2> HIDE DEF W
  <2>4. Max(T) \in T /\ \A m \in T : m <= Max(T)
    BY <2>1, <2>3, MaxFound
  <2>5. Max(T) = n
    BY <2>1, <2>3, <2>4
  <2> QED BY <2>2, <2>5
<1>4. ASSUME ~(Root(t) = Root(n) /\ graph[n].op # "view") PROVE W(n + 1) = W(n)
  <2>1. \A u : u \in 1 .. (n + 1 - 1) <=> u \in 1 .. (n - 1) \/ u = n
    BY <1>1
  <2> QED BY <1>4, <2>1
<1> HIDE DEF W
<1> QED BY <1>2, <1>3, <1>4

(* A tensor that is written spoils nothing that is still needed.           *)
LEMMA WriteIntact ==
  ASSUME PlanInv, ExecInv, phase = "exec", i \in DOMAIN graph, i' = i + 1,
         mem' = IF graph[i].op = "view" THEN mem ELSE Write(mem, i),
         UNCHANGED <<graph, tokens, node_allocs, buffer>>
  PROVE  Intact'
<1>1. /\ GoodCall /\ i \in Nat \ {0} /\ i + 1 \in 1 .. Len(graph) + 1
      /\ Len(graph) \in Nat /\ DOMAIN graph = 1 .. Len(graph)
  BY GoodPhase, GraphFacts, TensorFacts
<1>2. PICK r \in DOMAIN graph : /\ r = Root(i) /\ Root(r) = r /\ Region(r) = Region(i)
                                /\ (Assigned(r) <=> ~graph[r].data)
  BY <1>1, RootFacts
<1>3. ASSUME NEW t, Lives(t, i + 1), NEW a \in Region(t)
      PROVE  mem'[a] = LastWriter(t, i + 1)
  <2>1. t \in DOMAIN graph /\ Assigned(t) /\ Root(t) = t
    BY <1>3 DEF Lives, Assigned, Root
  <2>2. a \in DOMAIN mem
    <3>1. PICK o \in Nat, z \in Nat, m \in Nat :
           /\ Region(t) = (o + 1) .. (o + z) /\ z <= m /\ o + m <= buffer
           /\ buffer \in Nat /\ DOMAIN mem = 1 .. buffer
      BY <2>1, RegionFacts
    <3> QED BY <1>3, <3>1
  <2>3. CASE t = r /\ graph[i].op # "view"
    <3>1. mem'[a] = i
      BY <1>2, <1>3, <2>2, <2>3 DEF Write
    <3> QED BY <1>1, <1>2, <2>1, <2>3, <3>1, LastWritten
  <2>4. CASE ~(t = r /\ graph[i].op # "view")
    <3>1. t # i
      <4>1. IsView(i) => t # i
        BY <2>1 DEF Assigned
      <4>2. ~IsView(i) => r = i
        BY <1>2 DEF Root
      <4>3. graph[i].op = "view" => IsView(i)
        BY <1>1, GraphFacts DEF WellFormed, IsView
      <4> QED BY <2>4, <4>1, <4>2, <4>3
    <3>2. Lives(t, i)
      BY <1>1, <1>3, <3>1, LivesBefore
    <3>3. mem[a] = LastWriter(t, i)
      BY <1>3, <3>2 DEF ExecInv, Intact
    <3>4. LastWriter(t, i + 1) = LastWriter(t, i)
      BY <1>1, <1>2, <2>1, <2>4, LastWritten
    <3>5. mem'[a] = mem[a]
      <4>1. CASE graph[i].op = "view"
        BY <4>1
      <4>2. CASE graph[i].op # "view" /\ graph[r].data
        <5>1. Region(i) = {}
          BY <1>2, <4>2 DEF Region
        <5> QED BY <2>2, <4>2, <5>1 DEF Write
      <4>3. CASE graph[i].op # "view" /\ Assigned(r)
        <5>1. Lives(r, i + 1)
          <6>1. CASE IsView(i)
            BY <1>1, <1>2, <4>3, <6>1, ViewedLives
          <6>2. CASE ~IsView(i)
            BY <1>1, <1>2, <4>3, <6>2, NewLives DEF Root
          <6> QED BY <6>1, <6>2
        <5>2. Region(t) \cap Region(r) = {}
          BY <1>1, <1>3, <2>4, <4>3, <5>1, RegionsApart
        <5> QED BY <1>2, <1>3, <2>2, <4>3, <5>2 DEF Write
      <4> QED BY <1>2, <4>1, <4>2, <4>3
    <3> QED BY <3>3, <3>4, <3>5
  <2> QED BY <2>3, <2>4
<1>4. ASSUME NEW t, NEW n PROVE Region(t)' = Region(t) /\ LastWriter(t, n)' = LastWriter(t, n)
  <2>1. \A u : Root(u)' = Root(u) /\ Size(u)' = Size(u)
    BY SameTensor
  <2> QED BY <2>1 DEF Region, LastWriter
<1>5. PICK n : n = i + 1 /\ i' = n
  OBVIOUS
<1>6. \A t : Lives(t, n)' <=> Lives(t, n)
  BY SamePending
<1> QED BY <1>3, <1>4, <1>5, <1>6 DEF Intact

(* The plan kept stays one of the graph.                                   *)
LEMMA SameStored ==
  ASSUME Stored, UNCHANGED <<graph, node_allocs, buffer>> PROVE Stored'
<1>1. \A t : Assigned(t)' <=> Assigned(t)
  BY SameTensor
<1>2. PICK o, z, m : /\ o = [t \in DOMAIN graph |-> node_allocs[t].offset]
                     /\ z = [t \in DOMAIN graph |-> node_allocs[t].size_max]
                     /\ m = Len(graph) + 1
  OBVIOUS
<1>3. Layout(o, z, m)'
  BY <1>2, SameLayout DEF Stored
<1>4. Layout([t \in DOMAIN graph |-> node_allocs[t].offset],
             [t \in DOMAIN graph |-> node_allocs[t].size_max], Len(graph) + 1)'
  BY <1>2, <1>3
<1> QED BY <1>1, <1>4 DEF Stored, NoBuffer

(* The plan recorded is one of the graph.                                  *)
LEMMA RecordStores ==
  ASSUME PlanInv, Record PROVE ExecInv'
<1>1. /\ GoodCall /\ phase = "nodes" /\ UNCHANGED <<graph, tokens, calls, j, plan>> /\ i' = 1
      /\ i \in 1 .. Len(graph) + 1 /\ i > Len(graph)
  BY GoodPhase DEF Record, PlanInv, TypeOK
<1>2. Len(graph) \in Nat /\ DOMAIN graph = 1 .. Len(graph) /\ i = Len(graph) + 1
  BY <1>1, GraphFacts
<1>3. PICK N : node_allocs' = N
  OBVIOUS
<1>4. /\ DOMAIN N = DOMAIN graph
      /\ \A t \in DOMAIN graph :
           /\ N[t].offset = IF Assigned(t) THEN plan.hn[t].offset ELSE Half
           /\ N[t].size_max = SizeMax(t)
           /\ N[t].src = [k \in DOMAIN graph[t].src |-> SizeMax(graph[t].src[k])]
  BY <1>3 DEF Record
<1>5. Planned(plan, Len(graph) + 1) /\ PlanT(plan)
  BY <1>1, <1>2 DEF PlanInv, Planned, BlocksOK
<1>6. PICK o, z, m : /\ o = [t \in DOMAIN graph |-> N[t].offset]
                     /\ z = [t \in DOMAIN graph |-> N[t].size_max]
                     /\ m = Len(graph) + 1
  OBVIOUS
<1>7. \A t \in DOMAIN graph : z[t] = Sizes[t] /\ (Assigned(t) => o[t] = Offsets(plan)[t])
  BY <1>4, <1>6 DEF Sizes, Offsets
<1>8. Layout(o, z, m)
  <2> SUFFICES ASSUME NEW n \in 1 .. m, NEW v, Lives(v, n)
               PROVE  /\ \A u : Lives(u, n) /\ u # v => Apart(o[v], z[v], o[u], z[u])
                      /\ n < m /\ Assigned(n) =>
                           \/ Apart(o[v], z[v], o[n], z[n])
                           \/ graph[n].op = "inplace" /\ o[v] = o[n] /\ graph[v].size = graph[n].size
    BY DEF Layout
  <2>1. Layout(Offsets(plan), Sizes, m)
    BY <1>5, <1>6 DEF Planned
  <2>2. \A u : Lives(u, n) => o[u] = Offsets(plan)[u] /\ z[u] = Sizes[u]
    BY <1>7 DEF Lives
  <2>3. n < m => n \in DOMAIN graph
    BY <1>2, <1>6
  <2>4. n < m /\ Assigned(n) => o[n] = Offsets(plan)[n] /\ z[n] = Sizes[n]
    BY <1>7, <2>3
  <2> QED BY <2>1, <2>2, <2>4 DEF Layout
<1>9. Layout(o, z, m)'
  BY <1>1, <1>8, SameLayout
<1>10. Layout([t \in DOMAIN graph |-> node_allocs[t].offset],
              [t \in DOMAIN graph |-> node_allocs[t].size_max], Len(graph) + 1)'
  BY <1>1, <1>3, <1>6, <1>9
<1>11. ASSUME NEW t \in DOMAIN graph, Assigned(t)
       PROVE  N[t].offset + N[t].size_max <= plan.max_size /\ N[t].size_max = Size(t)
  <2>1. t \in Nat /\ t < Len(graph) + 1
    BY <1>2
  <2>2. plan.hn[t].offset + Pad(t) <= plan.max_size
    BY <1>5, <1>11, <2>1 DEF Planned, Below
  <2>3. /\ plan.hn[t].offset \in Nat /\ Pad(t) \in Nat /\ Size(t) \in Nat /\ Size(t) <= Pad(t)
        /\ plan.max_size \in Nat
    BY <1>1, <1>5, EntryFacts, SizeFacts DEF PlanT
  <2>4. N[t].offset = plan.hn[t].offset /\ N[t].size_max = Size(t)
    BY <1>4, <1>11 DEF SizeMax
  <2> QED BY <2>2, <2>3, <2>4
<1>12. buffer' = NoBuffer \/ (plan.max_size <= buffer' /\ buffer' \in Nat)
  <2>1. plan.max_size \in Nat /\ buffer \in {NoBuffer} \cup Nat
    BY <1>5 DEF PlanT, PlanInv, TypeOK
  <2> QED BY <2>1 DEF Record
<1>13. \A t : Assigned(t)' <=> Assigned(t)
  BY <1>1, SameTensor
<1>14. (buffer # NoBuffer => \A t \in DOMAIN graph : Assigned(t) =>
          node_allocs[t].offset + node_allocs[t].size_max <= buffer)'
  <2> SUFFICES ASSUME buffer' # NoBuffer, NEW t \in DOMAIN graph, Assigned(t)
               PROVE  N[t].offset + N[t].size_max <= buffer'
    BY <1>1, <1>3, <1>13 DEF NoBuffer
  <2>1. N[t].offset \in Nat /\ N[t].size_max \in Nat /\ plan.max_size \in Nat
    BY <1>1, <1>4, <1>5, EntryFacts, SizeFacts DEF PlanT, SizeMax
  <2> QED BY <1>11, <1>12, <2>1
<1>15. ASSUME NEW t \in DOMAIN graph
       PROVE  /\ DOMAIN N[t].src = DOMAIN graph[t].src
              /\ \A k \in DOMAIN graph[t].src : N[t].src[k] = N[graph[t].src[k]].size_max
  BY <1>1, <1>4, SourceFacts
<1>16. Stored'
  BY <1>1, <1>3, <1>4, <1>10, <1>14, <1>15 DEF Stored
<1>17. Intact'
  <2>1. PICK n : n = 1 /\ i' = n
    BY <1>1
  <2>2. \A t : ~(t \in DOMAIN graph /\ t < n)
    BY <1>2, <2>1
  <2>3. \A t : ~Lives(t, n)
    BY <2>2 DEF Lives
  <2>4. \A t : ~Lives(t, n)'
    BY <1>1, <2>3, SamePending
  <2> QED BY <2>1, <2>4 DEF Intact
<1>18. phase' = "exec" => buffer' # NoBuffer
  <2>1. plan.max_size \in Nat
    BY <1>5 DEF PlanT
  <2> QED BY <2>1 DEF Record, NoBuffer
<1>19. (\A t \in DOMAIN graph : Assigned(t) => Size(t) <= node_allocs[t].size_max)'
  <2>1. \A t : Size(t)' = Size(t)
    BY <1>1, SameTensor
  <2>2. \A t \in DOMAIN graph : Assigned(t) => Size(t) <= N[t].size_max
    BY <1>1, <1>11, SizeFacts
  <2> QED BY <1>1, <1>3, <1>13, <2>1, <2>2
<1> QED BY <1>16, <1>17, <1>18, <1>19 DEF ExecInv, NoBuffer

(* A plan that is taken over is one of the same graph, and large enough.   *)
LEMMA ReuseFits ==
  ASSUME PlanInv, ExecInv, ~MayChangeGraph, phase = "idle", NEW n \in Tokens, NEW g \in Built,
         ~NeedsRealloc(g, n)
  PROVE  /\ g = graph /\ Stored /\ graph # <<>>
         /\ \A t \in DOMAIN graph : Assigned(t) => graph[t].size * n <= node_allocs[t].size_max
<1> DEFINE size(t) == IF g[t].data \/ g[t].view_src # 0 THEN 0 ELSE g[t].size * n
           had(t, k) == IF k \in DOMAIN node_allocs[t].src THEN node_allocs[t].src[k] ELSE 0
<1>1. /\ Len(node_allocs) = Len(g)
      /\ \A t \in DOMAIN g \ Leafs(g) :
           /\ size(t) <= node_allocs[t].size_max
           /\ \A k \in DOMAIN g[t].src : size(g[t].src[k]) <= had(t, k)
  BY DEF NeedsRealloc
<1>2. Len(g) \in Nat \ {0} /\ WellFormed(g)
  BY BuiltGood
<1>3. node_allocs # <<>> /\ Stored /\ graph # <<>> /\ GoodCall
  BY <1>1, <1>2, EmptySeq DEF ExecInv, PlanInv, GraphOK, GoodCall
<1>4. Len(node_allocs) = Len(graph)
  <2>1. DOMAIN node_allocs = 1 .. Len(node_allocs) /\ Len(node_allocs) \in Nat
    BY LenProperties DEF PlanInv
  <2>2. DOMAIN graph = 1 .. Len(graph) /\ Len(graph) \in Nat
    BY <1>3, GraphFacts
  <2>3. PICK a \in Nat, b \in Nat : a = Len(node_allocs) /\ b = Len(graph) /\ 1 .. a = 1 .. b
    BY <1>3, <2>1, <2>2 DEF Stored
  <2>4. ~(a < b) /\ ~(b < a)
    <3>1. a < b => b \in 1 .. b /\ b \notin 1 .. a
      OBVIOUS
    <3>2. b < a => a \in 1 .. a /\ a \notin 1 .. b
      OBVIOUS
    <3> QED BY <2>3, <3>1, <3>2
  <2> QED BY <2>3, <2>4
<1>5. g = graph
  BY <1>1, <1>3, <1>4 DEF Built
<1>6. ASSUME NEW t \in DOMAIN graph, Assigned(t)
      PROVE  graph[t].size * n <= node_allocs[t].size_max
  <2>1. size(t) = graph[t].size * n
    BY <1>5, <1>6 DEF Assigned, IsView
  <2>2. CASE t \notin Leafs(graph)
    BY <1>1, <1>5, <2>1, <2>2
  <2>3. CASE t \in Leafs(graph)
    <3>1. PICK r \in Reads(graph, t) : TRUE
      BY <1>3, <2>3, GraphFacts DEF WellFormed
    <3>2. PICK m \in DOMAIN graph : \E k \in DOMAIN graph[m].src : graph[m].src[k] = t
      BY <1>3, <3>1, ReadFacts
    <3>3. PICK k \in DOMAIN graph[m].src : graph[m].src[k] = t
      BY <3>2
    <3>4. m \notin Leafs(graph)
      BY <1>3, <3>3, GraphFacts DEF WellFormed
    <3>5. size(t) <= had(m, k)
      BY <1>1, <1>5, <3>3, <3>4
    <3>6. had(m, k) = node_allocs[t].size_max
      BY <1>3, <3>3 DEF Stored
    <3> HIDE DEF size, had
    <3> QED BY <2>1, <3>5, <3>6
  <2> QED BY <2>2, <2>3
<1> QED BY <1>3, <1>5, <1>6

LEMMA ReuseIntact ==
  ASSUME PlanInv, ExecInv, ~MayChangeGraph, phase = "idle", NEW n \in Tokens, NEW g \in Built,
         Reuse(g, n)
  PROVE  ExecInv'
<1>1. ~NeedsRealloc(g, n)
  BY DEF Reuse
<1>2. /\ g = graph /\ Stored /\ graph # <<>>
      /\ \A t \in DOMAIN graph : Assigned(t) => graph[t].size * n <= node_allocs[t].size_max
  BY <1>1, ReuseFits
<1>3. /\ graph' = graph /\ tokens' = n /\ i' = 1
      /\ UNCHANGED <<plan, node_allocs, buffer, mem>>
      /\ phase' \in {"crashed", "exec"} /\ (phase' = "exec" => buffer # NoBuffer)
  BY <1>2 DEF Reuse, Call, PlanInv
<1>4. Stored'
  BY <1>2, <1>3, SameStored
<1>5. Intact'
  <2>1. PICK m : m = 1 /\ i' = m
    BY <1>3
  <2>2. \A t : ~(t \in DOMAIN graph /\ t < m)
    <3>1. GoodCall
      BY <1>2 DEF PlanInv, GraphOK, GoodCall
    <3>2. DOMAIN graph = 1 .. Len(graph) /\ Len(graph) \in Nat
      BY <3>1, GraphFacts
    <3> QED BY <2>1, <3>2
  <2>3. \A t : ~Lives(t, m)
    BY <2>2 DEF Lives
  <2>4. \A t : ~Lives(t, m)'
    BY <1>3, <2>3, SamePending
  <2> QED BY <2>1, <2>4 DEF Intact
<1>6. (\A t \in DOMAIN graph : Assigned(t) => Size(t) <= node_allocs[t].size_max)'
  <2>1. \A t : Assigned(t)' <=> Assigned(t)
    BY <1>3, SameTensor
  <2> QED BY <1>2, <1>3, <2>1 DEF Size
<1>7. phase' = "exec" => (buffer # NoBuffer)'
  BY <1>3 DEF NoBuffer
<1> QED BY <1>3, <1>4, <1>5, <1>6, <1>7 DEF ExecInv

LEMMA RunIntact ==
  ASSUME PlanInv, ExecInv, SetInput \/ Exec \/ Finish PROVE ExecInv'
<1>1. /\ phase = "exec" /\ UNCHANGED <<graph, tokens, node_allocs, buffer>>
      /\ phase' \in {"exec", "idle"}
  BY DEF SetInput, Exec, Finish
<1>2. Stored' /\ (buffer # NoBuffer)'
  BY <1>1, SameStored DEF ExecInv, NoBuffer
<1>3. (\A t \in DOMAIN graph : Assigned(t) => Size(t) <= node_allocs[t].size_max)'
  <2>1. \A t : (Assigned(t)' <=> Assigned(t)) /\ Size(t)' = Size(t)
    BY <1>1, SameTensor
  <2> QED BY <1>1, <2>1 DEF ExecInv
<1>4. CASE SetInput \/ Exec
  <2>1. /\ i \in DOMAIN graph /\ i' = i + 1
        /\ mem' = IF graph[i].op = "view" THEN mem ELSE Write(mem, i)
    BY <1>4 DEF SetInput, Exec, Leafs
  <2>2. Intact'
    BY <1>1, <2>1, WriteIntact
  <2>3. phase' = "exec"
    BY <1>4 DEF SetInput, Exec
  <2> QED BY <1>2, <1>3, <2>2, <2>3 DEF ExecInv
<1>5. CASE Finish
  <2>1. phase' = "idle"
    BY <1>5 DEF Finish
  <2> QED BY <1>2, <2>1 DEF ExecInv
<1> QED BY <1>4, <1>5

-----------------------------------------------------------------------------
(* The allocator keeps its invariants.                                     *)

LEMMA PlanInit ==
  ASSUME Init PROVE PlanInv
<1>1. /\ graph = <<>> /\ tokens = 1 /\ calls = 0 /\ phase = "idle" /\ i = 1 /\ j = 1
      /\ node_allocs = <<>> /\ buffer = NoBuffer /\ mem = <<>>
  BY DEF Init
<1>2. PICK p : p = plan
  OBVIOUS
<1>3. p.hn = <<>> /\ p.free = {Block(0, Half)} /\ p.max_size = 0
  BY <1>2 DEF Init
<1>4. PICK h \in Nat \ {0} : h = Half
  BY AlignmentAssumption
<1>5. Block(0, h).offset = 0 /\ Block(0, h).size = h
  BY DEF Block
<1>6. /\ <<>> \in Seq(HashNode) /\ <<>> \in Seq(TensorAlloc)
      /\ Len(<<>>) = 0 /\ DOMAIN <<>> = {}
  OBVIOUS
<1>7. PlanTyped(plan)
  BY <1>2, <1>3, <1>4, <1>5, <1>6 DEF PlanTyped
<1>8. Max({0, buffer}) = 0 /\ mem \in [1 .. 0 -> Nat]
  <2>1. 0 \in Nat
    OBVIOUS
  <2>2. Max({0, buffer}) = 0
    BY <1>1, <2>1, MaxZero
  <2>3. mem \in [1 .. 0 -> Nat]
    BY <1>1
  <2> QED BY <2>2, <2>3
<1>9. TypeOK
  <2>1. i \in 1 .. Len(graph) + 1 /\ j \in Nat \ {0} /\ tokens \in Nat \ {0} /\ calls \in 0 .. MaxCalls
    BY <1>1, <1>6, TokensAssumption
  <2>2. /\ \A t \in DOMAIN graph : graph[t] \in Tensor /\ graph[t].view_src < t
        /\ \A t \in DOMAIN node_allocs : node_allocs[t] \in TensorAlloc
    BY <1>1, <1>6
  <2> QED BY <1>1, <1>7, <1>8, <2>1, <2>2 DEF TypeOK, PlanTyped
<1> QED BY <1>1, <1>6, <1>9 DEF PlanInv, GraphOK

LEMMA PlanNext ==
  ASSUME PlanInv, [Next]_vars PROVE PlanInv'
<1>1. CASE AllocGraph
  BY <1>1, PlanHolds, ReuseHolds DEF AllocGraph
<1>2. CASE AllocLeaf
  BY <1>2, AllocLeafHolds
<1>3. CASE AllocParent
  BY <1>3, AllocParentHolds
<1>4. CASE AllocNode
  BY <1>4, AllocNodeHolds
<1>5. CASE ReleaseParent
  BY <1>5, ReleaseParentHolds
<1>6. CASE NextNode
  BY <1>6, NextNodeHolds
<1>7. CASE Record
  BY <1>7, RecordHolds
<1>8. CASE SetInput \/ Exec \/ Finish
  BY <1>8, RunHolds
<1>9. CASE UNCHANGED vars
  <2>1. UNCHANGED <<graph, tokens, calls, phase, i, j, plan, node_allocs, buffer, mem>>
    BY <1>9 DEF vars
  <2>2. TypeOK' /\ GraphOK' /\ (node_allocs \in Seq(TensorAlloc))' /\ (phase = "idle" => i = 1)'
    BY <2>1 DEF PlanInv, TypeOK, GraphOK
  <2>3. PICK p, n, m, k : p = plan /\ n = i /\ m = i + 1 /\ k = j
    OBVIOUS
  <2>4. (phase = "nodes" => Planned(plan, i) /\ Counts(plan, i, 1))'
    <3> SUFFICES ASSUME phase' = "nodes" PROVE (Planned(plan, i) /\ Counts(plan, i, 1))'
      OBVIOUS
    <3>1. Planned(p, n) /\ Counts(p, n, 1)
      BY <2>1, <2>3 DEF PlanInv
    <3>2. Planned(p, n)' /\ Counts(p, n, 1)'
      BY <2>1, <3>1, SamePlannedKept, SameCountsKept
    <3> QED BY <2>1, <2>3, <3>2
  <2>5. (phase = "parents" =>
          /\ i \in DOMAIN graph \ Leafs(graph)
          /\ Planned(plan, i + 1) /\ Counts(plan, i, j))'
    <3> SUFFICES ASSUME phase' = "parents"
                 PROVE  (/\ i \in DOMAIN graph \ Leafs(graph)
                         /\ Planned(plan, i + 1) /\ Counts(plan, i, j))'
      OBVIOUS
    <3>1. Planned(p, m) /\ Counts(p, n, k) /\ i \in DOMAIN graph \ Leafs(graph)
      BY <2>1, <2>3 DEF PlanInv
    <3>2. Planned(p, m)' /\ Counts(p, n, k)'
      BY <2>1, <3>1, SamePlannedKept, SameCountsKept
    <3>3. (i \in DOMAIN graph \ Leafs(graph))'
      BY <2>1, <3>1 DEF Leafs
    <3>4. plan' = p /\ i' = n /\ (i + 1)' = m /\ j' = k
      BY <2>1, <2>3
    <3> QED BY <3>2, <3>3, <3>4
  <2> QED BY <2>2, <2>4, <2>5 DEF PlanInv
<1> QED BY <1>1, <1>2, <1>3, <1>4, <1>5, <1>6, <1>7, <1>8, <1>9 DEF Next

LEMMA ExecInit ==
  ASSUME Init PROVE ExecInv
BY DEF Init, ExecInv

LEMMA ExecNext ==
  ASSUME PlanInv, ExecInv, ~MayChangeGraph, [Next]_vars PROVE ExecInv'
<1>1. CASE AllocGraph
  <2>1. PICK n \in Tokens, g \in Built : Plan(g, n) \/ Reuse(g, n)
    BY <1>1 DEF AllocGraph
  <2>2. CASE Plan(g, n)
    BY <2>2 DEF Plan, ExecInv
  <2>3. CASE Reuse(g, n)
    BY <1>1, <2>3, ReuseIntact DEF AllocGraph
  <2> QED BY <2>1, <2>2, <2>3
<1>2. CASE AllocLeaf \/ AllocParent \/ AllocNode \/ ReleaseParent \/ NextNode
  BY <1>2 DEF AllocLeaf, AllocParent, AllocNode, ReleaseParent, NextNode, ExecInv
<1>3. CASE Record
  BY <1>3, RecordStores
<1>4. CASE SetInput \/ Exec \/ Finish
  BY <1>4, RunIntact
<1>5. CASE UNCHANGED vars
  <2>1. UNCHANGED <<graph, tokens, calls, phase, i, j, plan, node_allocs, buffer, mem>>
    BY <1>5 DEF vars
  <2>2. Stored => Stored'
    BY <2>1, SameStored
  <2>3. \A t : (Assigned(t)' <=> Assigned(t)) /\ Root(t)' = Root(t) /\ Size(t)' = Size(t)
    BY <2>1, SameTensor
  <2>4. \A t, n : (Lives(t, n)' <=> Lives(t, n))
    BY <2>1, SamePending
  <2>5. \A t, n : Region(t)' = Region(t) /\ LastWriter(t, n)' = LastWriter(t, n)
    BY <2>1, <2>3 DEF Region, LastWriter
  <2>6. Intact => Intact'
    <3>1. PICK n : n = i
      OBVIOUS
    <3> QED BY <2>1, <2>4, <2>5, <3>1 DEF Intact
  <2> QED BY <2>1, <2>2, <2>3, <2>6 DEF ExecInv, NoBuffer
<1> QED BY <1>1, <1>2, <1>3, <1>4, <1>5 DEF Next

(* Planning keeps every byte of the measuring allocator accounted for,     *)
(* whichever graphs the calls bring (ggml_gallocr_alloc_graph_impl).       *)
THEOREM PlanInvariant == Spec => []PlanInv
<1>1. Init => PlanInv
  BY PlanInit
<1>2. PlanInv /\ [Next]_vars => PlanInv'
  BY PlanNext
<1> QED BY <1>1, <1>2, PTL DEF Spec

(* Every variable keeps its type; the counts of readers and views do not   *)
(* go below zero.                                                          *)
THEOREM GraphAllocType == Spec => []TypeOK
<1>1. PlanInv => TypeOK
  BY DEF PlanInv
<1> QED BY <1>1, PlanInvariant, PTL

(* Every byte is free or belongs to one tensor, and no two free blocks     *)
(* touch: takeovers and frees neither leak memory nor free it twice.       *)
THEOREM BlocksAreExact == Spec => []BlocksExact
<1>1. ASSUME PlanInv, phase \in {"nodes", "parents"} PROVE BlocksExact
  <2>1. BlocksOK(plan) /\ GoodCall
    BY <1>1, GoodPhase DEF PlanInv, Planned
  <2>2. PlanT(plan) /\ Gaps(plan.free) /\ Holdings(plan) /\ Covered(plan) /\ DOMAIN plan.hn = DOMAIN graph
    BY <2>1 DEF BlocksOK, PlanT
  <2>3. \A t : t \in Owned <=> Owns(plan, t)
    BY <2>2 DEF Owned, Owns
  <2>4. ASSUME NEW t \in Owned
        PROVE  \E o \in Nat, n \in Nat \ {0} :
                 /\ o = plan.hn[t].offset /\ n = Pad(t) /\ o + n <= Half
                 /\ OwnedBytes(t) = Interval(o, n)
    BY <2>1, <2>2, <2>3, <2>4, EntryFacts, SizeFacts DEF Owns, Holdings, OwnedBytes, Pad
  <2>5. \A b, c \in plan.free : b # c => b.offset + b.size < c.offset \/ c.offset + c.size < b.offset
    BY <2>2 DEF Gaps
  <2>6. ASSUME NEW t \in Owned, NEW u \in Owned, t # u PROVE OwnedBytes(t) \cap OwnedBytes(u) = {}
    <3>1. PICK o \in Nat, n \in Nat \ {0} :
            o = plan.hn[t].offset /\ n = Pad(t) /\ OwnedBytes(t) = Interval(o, n)
      BY <2>4
    <3>2. PICK p \in Nat, m \in Nat \ {0} :
            p = plan.hn[u].offset /\ m = Pad(u) /\ OwnedBytes(u) = Interval(p, m)
      BY <2>4
    <3>3. Apart(o, n, p, m)
      BY <2>2, <2>3, <2>6, <3>1, <3>2 DEF Holdings
    <3>4. \A x \in Interval(o, n) : x \notin Interval(p, m)
      BY <3>3 DEF Apart, Interval
    <3> QED BY <3>1, <3>2, <3>4
  <2>7. ASSUME NEW t \in Owned, NEW b \in plan.free
        PROVE  OwnedBytes(t) \cap Interval(b.offset, b.size) = {}
    <3>1. \A x \in OwnedBytes(t) : ~InBlock(plan.free, x)
      BY <2>2, <2>3 DEF Holdings, OwnedBytes, Pad
    <3> QED BY <3>1 DEF InBlock
  <2>8. PICK h \in Nat : h = Half
    BY AlignmentAssumption
  <2>9. ASSUME NEW t \in Owned, NEW x \in OwnedBytes(t) PROVE x \in Interval(0, Half)
    <3>1. PICK o \in Nat, n \in Nat \ {0} : o + n <= Half /\ OwnedBytes(t) = Interval(o, n)
      BY <2>4
    <3> QED BY <2>8, <2>9, <3>1 DEF Interval
  <2>10. ASSUME NEW b \in plan.free, NEW x \in Interval(b.offset, b.size) PROVE x \in Interval(0, Half)
    <3>1. PICK o \in Nat, n \in Nat : o = b.offset /\ n = b.size /\ o + n <= Half
      BY <2>2, BlockFacts
    <3> QED BY <2>8, <2>10, <3>1 DEF Interval
  <2>11. ASSUME NEW x \in Interval(0, Half)
         PROVE  (\E t \in Owned : x \in OwnedBytes(t)) \/ InBlock(plan.free, x)
    <3>1. x \in 0 .. Half - 1
      BY <2>8 DEF Interval
    <3> QED BY <2>2, <2>3, <3>1 DEF Covered, OwnedBytes, Pad
  <2>12. (UNION {OwnedBytes(t) : t \in Owned})
            \cup (UNION {Interval(b.offset, b.size) : b \in plan.free}) = Interval(0, Half)
    <3>1. ASSUME NEW x
          PROVE  (\/ \E t \in Owned : x \in OwnedBytes(t)
                  \/ \E b \in plan.free : x \in Interval(b.offset, b.size)) <=> x \in Interval(0, Half)
      BY <2>9, <2>10, <2>11 DEF InBlock
    <3> QED BY <3>1
  <2> QED BY <2>5, <2>6, <2>7, <2>12 DEF BlocksExact
<1>2. PlanInv => BlocksExact
  BY <1>1 DEF BlocksExact
<1> QED BY <1>2, PlanInvariant, PTL

(* A caller that builds a graph of as many tensors only as the same graph  *)
(* always computes in a buffer that has room for the plan that is kept,    *)
(* and in which what lives is intact.                                      *)
THEOREM ExecInvariant == ~MayChangeGraph => (Spec => [](PlanInv /\ ExecInv))
<1> SUFFICES ASSUME ~MayChangeGraph PROVE Spec => [](PlanInv /\ ExecInv)
  OBVIOUS
<1>1. Init => PlanInv /\ ExecInv
  BY PlanInit, ExecInit
<1>2. PlanInv /\ ExecInv /\ [Next]_vars => (PlanInv /\ ExecInv)'
  BY PlanNext, ExecNext
<1> QED BY <1>1, <1>2, PTL DEF Spec

(* A graph that is executed lies within the buffer, also with the plan of  *)
(* another number of tokens (ggml_gallocr_needs_realloc).                  *)
THEOREM ExecutesInBounds == ~MayChangeGraph => (Spec => []InBounds)
<1> SUFFICES ASSUME ~MayChangeGraph PROVE Spec => []InBounds
  OBVIOUS
<1>1. ASSUME PlanInv, ExecInv, phase = "exec", NEW t \in DOMAIN graph PROVE Region(t) \subseteq 1 .. buffer
  <2>1. GoodCall
    BY <1>1, GoodPhase
  <2>2. PICK r \in DOMAIN graph :
          r = Root(t) /\ Region(r) = Region(t) /\ (Assigned(r) <=> ~graph[r].data)
    BY <2>1, RootFacts
  <2>3. CASE graph[r].data
    BY <2>2, <2>3 DEF Region
  <2>4. CASE Assigned(r)
    <3>1. PICK o \in Nat, z \in Nat, m \in Nat :
           Region(r) = (o + 1) .. (o + z) /\ z <= m /\ o + m <= buffer /\ buffer \in Nat
      BY <1>1, <2>4, RegionFacts
    <3>2. \A a \in (o + 1) .. (o + z) : a \in 1 .. buffer
      BY <3>1
    <3> QED BY <2>2, <3>1, <3>2
  <2> QED BY <2>2, <2>3, <2>4
<1>2. PlanInv /\ ExecInv => InBounds
  BY <1>1 DEF InBounds
<1> QED BY <1>2, ExecInvariant, PTL

(* When a node is computed its sources hold what was written last, and the *)
(* result lies over one of them only to work in place.                     *)
THEOREM ReadsAreIntact == ~MayChangeGraph => (Spec => []ReadsIntact)
<1> SUFFICES ASSUME ~MayChangeGraph PROVE Spec => []ReadsIntact
  OBVIOUS
<1>1. ASSUME PlanInv, ExecInv, phase = "exec", i <= Len(graph), NEW k \in DOMAIN graph[i].src,
             NEW s, s = graph[i].src[k]
      PROVE  /\ \A a \in Region(s) : mem[a] = LastWriter(s, i)
             /\ \/ graph[i].op \in {"view", "set"}
                \/ Region(s) \cap Region(i) = {}
                \/ graph[i].op = "inplace" /\ Region(s) = Region(i)
  <2>1. /\ GoodCall /\ i \in DOMAIN graph /\ i \in Nat \ {0} /\ Len(graph) \in Nat
        /\ i \in 1 .. Len(graph) + 1
    <3>1. GoodCall
      BY <1>1, GoodPhase
    <3>2. Len(graph) \in Nat /\ DOMAIN graph = 1 .. Len(graph)
      BY <3>1, GraphFacts
    <3>3. i \in 1 .. Len(graph) + 1
      BY <1>1 DEF PlanInv, TypeOK
    <3> QED BY <1>1, <3>1, <3>2, <3>3
  <2>2. s \in DOMAIN graph
    BY <1>1, <2>1, SourceFacts
  <2>3. PICK r \in DOMAIN graph : /\ r = Root(s) /\ Root(r) = r /\ Region(r) = Region(s)
                                  /\ (Assigned(r) <=> ~graph[r].data)
    BY <2>1, <2>2, RootFacts
  <2>4. LastWriter(s, i) = LastWriter(r, i)
    BY <2>3 DEF LastWriter
  <2>5. CASE graph[r].data
    BY <2>3, <2>5 DEF Region
  <2>6. CASE Assigned(r)
    <3>1. Lives(r, i)
      BY <1>1, <2>1, <2>3, <2>6, SourceLives
    <3>2. \A a \in Region(s) : mem[a] = LastWriter(s, i)
      BY <1>1, <2>3, <2>4, <3>1 DEF ExecInv, Intact
    <3>3. CASE IsView(i)
      <4>1. graph[i].op \in {"view", "set"}
        BY <2>1, <3>3, GraphFacts DEF WellFormed, IsView
      <4> QED BY <3>2, <4>1
    <3>4. CASE ~IsView(i) /\ graph[i].data
      <4>1. Region(i) = {}
        BY <3>4 DEF Region, Root
      <4> QED BY <3>2, <4>1
    <3>5. CASE Assigned(i)
      <4>1. PICK o \in Nat, z \in Nat, m \in Nat :
             /\ o = node_allocs[r].offset /\ z = Size(r) /\ m = node_allocs[r].size_max
             /\ Region(r) = (o + 1) .. (o + z) /\ z <= m
        BY <1>1, <2>6, RegionFacts
      <4>2. PICK p \in Nat, y \in Nat, l \in Nat :
             /\ p = node_allocs[i].offset /\ y = Size(i) /\ l = node_allocs[i].size_max
             /\ Region(i) = (p + 1) .. (p + y) /\ y <= l
        BY <1>1, <2>1, <3>5, RegionFacts
      <4>3. PICK O, Z : /\ O = [v \in DOMAIN graph |-> node_allocs[v].offset]
                        /\ Z = [v \in DOMAIN graph |-> node_allocs[v].size_max]
        OBVIOUS
      <4>4. Layout(O, Z, Len(graph) + 1) /\ i < Len(graph) + 1
        BY <1>1, <2>1, <4>3 DEF ExecInv, Stored
      <4>5. \/ Apart(O[r], Z[r], O[i], Z[i])
            \/ graph[i].op = "inplace" /\ O[r] = O[i] /\ graph[r].size = graph[i].size
        BY <2>1, <3>1, <3>5, <4>4 DEF Layout
      <4>6. CASE Apart(O[r], Z[r], O[i], Z[i])
        <5>1. Apart(o, m, p, l)
          BY <2>1, <4>1, <4>2, <4>3, <4>6
        <5>2. Apart(o, z, p, y)
          BY <4>1, <4>2, <5>1, SmallerApart
        <5>3. \A a \in (o + 1) .. (o + z) : a \notin (p + 1) .. (p + y)
          BY <5>2 DEF Apart
        <5> QED BY <2>3, <3>2, <4>1, <4>2, <5>3
      <4>7. CASE graph[i].op = "inplace" /\ O[r] = O[i] /\ graph[r].size = graph[i].size
        <5>1. o = p /\ z = y
          BY <2>1, <4>1, <4>2, <4>3, <4>7 DEF Size
        <5> QED BY <2>3, <3>2, <4>1, <4>2, <4>7, <5>1
      <4> QED BY <4>5, <4>6, <4>7
    <3> QED BY <2>1, <3>3, <3>4, <3>5 DEF Assigned
  <2> QED BY <2>3, <2>5, <2>6
<1>2. PlanInv /\ ExecInv => ReadsIntact
  BY <1>1 DEF ReadsIntact
<1> QED BY <1>2, ExecInvariant, PTL

(* When the graph is computed each output holds its result                 *)
(* (ggml_gallocr_free_node never frees one).                               *)
THEOREM OutputsAreIntact == ~MayChangeGraph => (Spec => []OutputsIntact)
<1> SUFFICES ASSUME ~MayChangeGraph PROVE Spec => []OutputsIntact
  OBVIOUS
<1>1. ASSUME PlanInv, ExecInv, phase = "exec", i > Len(graph), NEW t \in DOMAIN graph, graph[t].out
      PROVE  \A a \in Region(t) : mem[a] = LastWriter(t, i)
  <2>1. GoodCall /\ i = Len(graph) + 1
    <3>1. GoodCall
      BY <1>1, GoodPhase
    <3>2. Len(graph) \in Nat /\ i \in 1 .. Len(graph) + 1
      BY <1>1, <3>1, GraphFacts DEF PlanInv, TypeOK
    <3> QED BY <1>1, <3>1, <3>2
  <2>2. PICK r \in DOMAIN graph : /\ r = Root(t) /\ Root(r) = r /\ Region(r) = Region(t)
                                  /\ (Assigned(r) <=> ~graph[r].data)
    BY <2>1, RootFacts
  <2>3. LastWriter(t, i) = LastWriter(r, i)
    BY <2>2 DEF LastWriter
  <2>4. CASE graph[r].data
    BY <2>2, <2>4 DEF Region
  <2>5. CASE Assigned(r)
    <3>1. Lives(r, i)
      BY <1>1, <2>1, <2>2, <2>5, OutputLives
    <3> QED BY <1>1, <2>2, <2>3, <3>1 DEF ExecInv, Intact
  <2> QED BY <2>2, <2>4, <2>5
<1>2. PlanInv /\ ExecInv => OutputsIntact
  BY <1>1 DEF OutputsIntact
<1> QED BY <1>2, ExecInvariant, PTL

=============================================================================
