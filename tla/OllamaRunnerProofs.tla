------------------------ MODULE OllamaRunnerProofs --------------------------
(***************************************************************************)
(* Seats, slots and permits of the runner agree, and a prompt reaches the  *)
(* cache unchanged, for any number of slots, requests and inputs.          *)
(***************************************************************************)
EXTENDS OllamaRunnerProperties, TLAPS, SequenceTheorems, FiniteSetTheorems,
        WellFoundedInduction

(* How recently a slot was used does not matter here.                      *)
SlotOK == [inputs : Seq(Tokens), inUse : BOOLEAN, lastUsed : Nat]

(* What relates the slots and the seats: no two sequences share a slot or  *)
(* a request, and a slot is in use if a sequence has it.                   *)
Apart(sq) ==
  \A i, k \in Seats :
    /\ sq[i] # NoSeq /\ sq[k] # NoSeq
    /\ sq[i].slot = sq[k].slot \/ sq[i].req = sq[k].req
    => i = k
UsedBySeats(sl, sq) ==
  \A s \in Slots : sl[s].inUse <=> \E i \in Seats : sq[i] # NoSeq /\ sq[i].slot = s
SeatsOK(sl, sq) ==
  /\ sl \in [Slots -> SlotOK] /\ sq \in [Seats -> Sequence \cup {NoSeq}]
  /\ Apart(sq) /\ UsedBySeats(sl, sq)

(* No slot outgrows its share of the context, not even with the inputs     *)
(* that were submitted.                                                    *)
InShare(sl, sq) ==
  /\ \A s \in Slots : Len(sl[s].inputs) <= NumCtx
  /\ \A i \in Seats :
       sq[i] # NoSeq =>
         Len(sl[sq[i].slot].inputs) + Len(sq[i].pendingInputs) <= NumCtx

(* PromptIntact, of any slots and seats.                                   *)
Prompts(sl, sq) ==
  \A i \in Seats :
    sq[i] # NoSeq /\ sq[i].numPredicted = 0 =>
      sl[sq[i].slot].inputs \o sq[i].pendingInputs \o sq[i].inputs
        = job[sq[i].req].prompt

(* A sequence whose turn to be batched comes.                              *)
Ready(q) == q.pendingInputs = <<>> /\ q.inputs # <<>>

(* The loop, the handlers and what they hold.                              *)
ControlOK ==
  /\ nextSeq \in Seats /\ cur \in Seats /\ seqsSem \in Nat
  /\ phase \in {"idle", "forward", "sample"}
  /\ pc \in [Requests -> {"new", "acquire", "load", "serving", "gone", "done"}]
JobsOK ==
  /\ job \in [Requests -> Job]
  /\ \A r \in Requests :
       /\ job[r].numKeep \in 0 .. NumCtx - 1
       /\ pc[r] \notin {"new", "done"} => Len(job[r].prompt) \in 1 .. NumCtx
Served == \A i \in Seats : seqs[i] # NoSeq => pc[seqs[i].req] \in {"serving", "gone"}
Waiting ==
  panic = "no" =>
    \A i \in Seats :
      seqs[i] # NoSeq /\ (phase = "idle" \/ (phase = "sample" /\ i < cur))
        => Ready(seqs[i])
Loading == {r \in Requests : pc[r] = "load"}
Permits == seqsSem + Cardinality(Loading) = Cardinality(Nil)

RunnerInv ==
  /\ ControlOK /\ JobsOK /\ SeatsOK(slots, seqs) /\ InShare(slots, seqs)
  /\ Prompts(slots, seqs) /\ Served /\ Waiting /\ Permits

-----------------------------------------------------------------------------
(* Lemmas about the operators of the model.                                *)

(* A non-empty set of numbers has a least element ...                      *)
LEMMA LeastElement ==
  ASSUME NEW T, T \subseteq Nat, T # {}
  PROVE  \E n \in T : \A m \in T : n <= m
<1> DEFINE Less == {ss \in Nat \X Nat : ss[1] < ss[2]}
<1>1. IsWellFoundedOn(Less, Nat)
  BY NatLessThanWellFounded DEF OpToRel
<1>2. \E n \in T : \A m \in T : ~ (<<m, n>> \in Less)
  <2> HIDE DEF Less
  <2> QED BY <1>1, WFMin
<1>3. PICK n \in T : \A m \in T : ~ (<<m, n>> \in Less)
  BY <1>2
<1>4. \A m \in T : m \in Nat /\ n \in Nat /\ ~(m < n)
  BY <1>3
<1> QED BY <1>4

(* ... which Min finds ...                                                 *)
LEMMA MinFound ==
  ASSUME NEW T, T \subseteq Nat, T # {}
  PROVE  Min(T) \in T /\ \A m \in T : Min(T) <= m
<1>1. \E n \in T : \A m \in T : n =< m
  BY LeastElement
<1> QED BY <1>1 DEF Min

(* ... and if it is bounded, a greatest one, which Max finds.              *)
LEMMA MaxFound ==
  ASSUME NEW b \in Nat, NEW T, T \subseteq 0 .. b, T # {}
  PROVE  Max(T) \in T /\ \A m \in T : m <= Max(T)
<1> DEFINE U == {b - t : t \in T}
<1>1. U \subseteq Nat /\ U # {}
  <2>1. \A t \in T : b - t \in Nat
    OBVIOUS
  <2> QED BY <2>1
<1>2. \E u \in U : \A v \in U : u <= v
  <2> HIDE DEF U
  <2> QED BY <1>1, LeastElement
<1>3. PICK u \in U : \A v \in U : u <= v
  BY <1>2
<1>4. PICK t \in T : u = b - t
  OBVIOUS
<1>5. \A m \in T : t >= m
  <2> SUFFICES ASSUME NEW m \in T PROVE t >= m
    OBVIOUS
  <2>1. b - t <= b - m
    BY <1>3, <1>4
  <2> QED BY <2>1
<1>6. \E n \in T : \A m \in T : n >= m
  BY <1>5
<1>7. Max(T) \in T /\ \A m \in T : Max(T) >= m
  BY <1>6 DEF Max
<1> QED BY <1>7

(* The context of a slot has room for an input.                            *)
LEMMA ContextSize == NumCtx \in Nat \ {0} /\ Parallel \in Nat \ {0}
BY CausalCacheAssumption DEF NumCtx

(* The seats come round in turn.                                           *)
LEMMA RoundRobin ==
  ASSUME NEW a \in Seats, NEW k \in 0 .. Parallel - 1
  PROVE  /\ (a + k) % Parallel \in Seats
         /\ (a + k) % Parallel = IF a + k < Parallel THEN a + k ELSE a + k - Parallel
BY CausalCacheAssumption DEF Seats, Slots

(* The common prefix of two sequences.                                     *)
LEMMA CommonPrefix ==
  ASSUME NEW a \in Seq(Tokens), NEW b \in Seq(Tokens)
  PROVE  /\ CountCommonPrefix(a, b) \in Nat
         /\ CountCommonPrefix(a, b) <= Len(a) /\ CountCommonPrefix(a, b) <= Len(b)
         /\ SubSeq(a, 1, CountCommonPrefix(a, b)) = SubSeq(b, 1, CountCommonPrefix(a, b))
<1> DEFINE m == Least(Len(a), Len(b))
           T == {n \in 0 .. m : SubSeq(a, 1, n) = SubSeq(b, 1, n)}
<1>1. m \in Nat /\ m <= Len(a) /\ m <= Len(b)
  BY DEF Least
<1>2. SubSeq(a, 1, 0) = SubSeq(b, 1, 0)
  BY SubSeqEmpty
<1>3. T \subseteq 0 .. m /\ 0 \in T
  BY <1>1, <1>2
<1>4. Max(T) \in T
  <2> HIDE DEF T, m
  <2> QED BY <1>1, <1>3, MaxFound
<1>5. CountCommonPrefix(a, b) = Max(T)
  BY DEF CountCommonPrefix
<1>6. \A n \in T : n \in 0 .. m /\ SubSeq(a, 1, n) = SubSeq(b, 1, n)
  OBVIOUS
<1> HIDE DEF m, T
<1> QED BY <1>1, <1>4, <1>5, <1>6

(* Concatenation is associative.                                           *)
LEMMA Rebracket ==
  ASSUME NEW a \in Seq(Tokens), NEW b \in Seq(Tokens), NEW c \in Seq(Tokens)
  PROVE  (a \o b) \o c = a \o (b \o c)
BY ConcatAssociative

(* A sequence without a part of it is shorter.                             *)
LEMMA WithoutShorter ==
  ASSUME NEW s \in Seq(Tokens), NEW keep \in Nat, NEW discard \in Nat,
         keep + discard <= Len(s)
  PROVE  /\ Without(s, keep, discard) \in Seq(Tokens)
         /\ Len(Without(s, keep, discard)) = Len(s) - discard
<1> DEFINE a == SubSeq(s, 1, keep)
           b == SubSeq(s, keep + discard + 1, Len(s))
<1>1. a \in Seq(Tokens) /\ Len(a) = keep
  BY SubSeqProperties
<1>2. b \in Seq(Tokens) /\ Len(b) = Len(s) - (keep + discard)
  BY SubSeqProperties
<1>3. Without(s, keep, discard) = a \o b
  BY DEF Without
<1> HIDE DEF a, b
<1>4. Len(a) + Len(b) = Len(s) - discard
  BY <1>1, <1>2
<1>5. a \o b \in Seq(Tokens) /\ Len(a \o b) = Len(a) + Len(b)
  BY <1>1, <1>2, ConcatProperties
<1> QED BY <1>3, <1>4, <1>5

(* A function that gives no value twice has as many values as arguments.   *)
LEMMA SameSize ==
  ASSUME NEW S, IsFiniteSet(S), NEW T, NEW f \in [S -> T],
         \A a, b \in S : f[a] = f[b] => a = b,
         \A t \in T : \E a \in S : f[a] = t
  PROVE  IsFiniteSet(T) /\ Cardinality(T) = Cardinality(S)
<1>1. f \in Bijection(S, T)
  BY DEF Bijection, Injection, IsInjective, Surjection
<1>2. ExistsBijection(S, T)
  BY <1>1 DEF ExistsBijection
<1> QED BY <1>2, FS_Bijection

(* NoSeq is no sequence.                                                   *)
LEMMA NoSeqDiffers == NoSeq \notin Sequence
BY DEF NoSeq, Sequence, Slots

(* There are finitely many seats.                                          *)
LEMMA SeatsFinite ==
  ASSUME NEW S \in SUBSET Seats
  PROVE  IsFiniteSet(S) /\ Cardinality(S) \in Nat
<1>1. IsFiniteSet(Seats)
  BY ContextSize, FS_Interval DEF Seats, Slots
<1>2. IsFiniteSet(S)
  BY <1>1, FS_Subset
<1> QED BY <1>2, FS_CardinalityType

(* As many slots are unused as seats are empty.                            *)
LEMMA UnusedNil ==
  ASSUME SeatsOK(slots, seqs)
  PROVE  Cardinality(Unused) = Cardinality(Nil)
<1> DEFINE f == [i \in Seats \ Nil |-> seqs[i].slot]
<1>1. /\ f \in [Seats \ Nil -> Slots \ Unused]
      /\ \A a, b \in Seats \ Nil : f[a] = f[b] => a = b
      /\ \A s \in Slots \ Unused : \E a \in Seats \ Nil : f[a] = s
  <2>1. \A i \in Seats \ Nil : seqs[i].slot \in Slots \ Unused
    BY NoSeqDiffers DEF SeatsOK, UsedBySeats, Unused, Nil, Sequence
  <2>2. \A a, b \in Seats \ Nil : seqs[a].slot = seqs[b].slot => a = b
    BY DEF SeatsOK, Apart, Nil
  <2>3. \A s \in Slots \ Unused : \E a \in Seats \ Nil : seqs[a].slot = s
    BY DEF SeatsOK, UsedBySeats, Unused, Nil
  <2> QED BY <2>1, <2>2, <2>3
<1>2. IsFiniteSet(Seats \ Nil) /\ IsFiniteSet(Nil) /\ IsFiniteSet(Unused)
  BY SeatsFinite DEF Nil, Unused, Seats
<1>3. Cardinality(Slots \ Unused) = Cardinality(Seats \ Nil)
  <2> HIDE DEF f
  <2> QED BY <1>1, <1>2, SameSize
<1>4. Seats \cap Nil = Nil /\ Slots \cap Unused = Unused
  BY DEF Nil, Unused
<1>5. /\ Cardinality(Seats \ Nil) = Cardinality(Seats) - Cardinality(Nil)
      /\ Cardinality(Slots \ Unused) = Cardinality(Slots) - Cardinality(Unused)
  <2>1. IsFiniteSet(Seats)
    BY SeatsFinite
  <2>2. Cardinality(Seats \ Nil) = Cardinality(Seats) - Cardinality(Seats \cap Nil)
    BY <2>1, FS_Difference
  <2>3. Cardinality(Slots \ Unused) = Cardinality(Slots) - Cardinality(Slots \cap Unused)
    BY <2>1, FS_Difference DEF Seats
  <2> QED BY <1>4, <2>2, <2>3
<1>6. /\ Cardinality(Nil) \in Nat /\ Cardinality(Unused) \in Nat
      /\ Cardinality(Seats) \in Nat
  BY SeatsFinite DEF Nil, Unused, Seats
<1> QED BY <1>3, <1>5, <1>6 DEF Seats

(* When sequences retire, each gives its seat, its permit and its handler  *)
(* free.                                                                   *)
LEMMA RetireKeeps ==
  ASSUME SeatsOK(slots, seqs), ControlOK, JobsOK, Served, Permits,
         Retire(seqs'), seqs' \in [Seats -> Sequence \cup {NoSeq}],
         \A i \in Seats :
           seqs'[i] # NoSeq => seqs[i] # NoSeq /\ seqs'[i].req = seqs[i].req
  PROVE  /\ pc' \in [Requests -> {"new", "acquire", "load", "serving", "gone", "done"}]
         /\ seqsSem' \in Nat /\ JobsOK' /\ Served' /\ Permits'
         /\ \A i \in Seats : seqs'[i] # NoSeq => job'[seqs'[i].req] = job[seqs'[i].req]
<1> DEFINE E == {k \in Seats \ Nil : seqs'[k] = NoSeq}
           ended == {seqs[i].req : i \in E}
<1>1. /\ seqsSem' = seqsSem + Cardinality(ended)
      /\ pc' = [r \in Requests |-> IF r \in ended THEN "done" ELSE pc[r]]
      /\ job' = [r \in Requests |-> IF r \in ended THEN NoJob ELSE job[r]]
  BY DEF Retire
<1>2. IsFiniteSet(E) /\ Cardinality(E) \in Nat /\ E \subseteq Seats \ Nil
  BY SeatsFinite
<1>3. Cardinality(ended) = Cardinality(E)
  <2> DEFINE f == [i \in E |-> seqs[i].req]
  <2>1. /\ f \in [E -> ended]
        /\ \A a, b \in E : f[a] = f[b] => a = b
        /\ \A r \in ended : \E a \in E : f[a] = r
    BY DEF SeatsOK, Apart, Nil
  <2> HIDE DEF f, E, ended
  <2> QED BY <1>2, <2>1, SameSize
<1>4. \A i \in Seats : seqs'[i] # NoSeq => seqs'[i].req \in Requests /\ seqs'[i].req \notin ended
  BY NoSeqDiffers DEF SeatsOK, Apart, Nil, Sequence
<1>5. \A r \in ended : pc[r] \in {"serving", "gone"}
  BY DEF Served, Nil
<1>6. Nil' = Nil \cup E /\ Nil \cap E = {} /\ Nil \in SUBSET Seats
  BY DEF Nil
<1>7. Loading' = Loading
  BY <1>1, <1>5 DEF Loading
<1> HIDE DEF ended, E
<1>8. Permits'
  <2>1. Cardinality(Nil \cup E) = Cardinality(Nil) + Cardinality(E)
    <3>1. IsFiniteSet(Nil) /\ Cardinality(Nil) \in Nat
      BY <1>6, SeatsFinite
    <3>2. Cardinality(Nil \cup E) = Cardinality(Nil) + Cardinality(E) - Cardinality(Nil \cap E)
      BY <1>2, <3>1, FS_Union
    <3>3. Cardinality(Nil \cap E) = 0
      BY <1>6, FS_EmptySet
    <3> QED BY <1>2, <3>1, <3>2, <3>3
  <2>2. Cardinality(Loading) \in Nat
    BY RunnerAssumption, FS_Subset, FS_CardinalityType DEF Loading
  <2>3. Cardinality(Nil)' = Cardinality(Nil) + Cardinality(E)
    BY <1>6, <2>1
  <2>4. Cardinality(Loading)' = Cardinality(Loading)
    BY <1>7
  <2> QED BY <1>1, <1>2, <1>3, <2>2, <2>3, <2>4 DEF Permits, ControlOK
<1>9. JobsOK'
  <2>1. NoJob \in Job /\ NoJob.numKeep \in 0 .. NumCtx - 1
    BY ContextSize DEF NoJob, Job
  <2> QED BY <1>1, <2>1 DEF JobsOK
<1>10. Served'
  BY <1>1, <1>4 DEF Served
<1>11. /\ pc' \in [Requests -> {"new", "acquire", "load", "serving", "gone", "done"}]
       /\ seqsSem' \in Nat
  BY <1>1, <1>2, <1>3 DEF ControlOK
<1>12. \A i \in Seats : seqs'[i] # NoSeq => job'[seqs'[i].req] = job[seqs'[i].req]
  BY <1>1, <1>4
<1> QED BY <1>8, <1>9, <1>10, <1>11, <1>12

-----------------------------------------------------------------------------
(* The handlers.                                                           *)

(* NewSequence leaves a prompt that fits the context.                      *)
LEMMA PromptCut ==
  ASSUME NEW j \in Job, j.prompt # <<>>
  PROVE  /\ Truncated(j) \in Seq(Tokens) /\ Len(Truncated(j)) \in 1 .. NumCtx
         /\ Kept(j) \in 0 .. NumCtx - 1
<1>1. j.prompt \in Seq(Tokens) /\ Len(j.prompt) \in Nat \ {0} /\ j.numKeep \in Int
  BY DEF Job
<1>2. Kept(j) \in 0 .. NumCtx - 1
  BY <1>1, ContextSize DEF Kept, Least
<1>3. CASE Len(j.prompt) <= NumCtx
  BY <1>1, <1>2, <1>3, ContextSize DEF Truncated
<1>4. CASE ~(Len(j.prompt) <= NumCtx)
  <2> DEFINE d == Len(j.prompt) - NumCtx
  <2>1. d \in Nat /\ Kept(j) \in Nat /\ Kept(j) + d <= Len(j.prompt)
    BY <1>1, <1>2, <1>4, ContextSize
  <2>2. /\ Without(j.prompt, Kept(j), d) \in Seq(Tokens)
        /\ Len(Without(j.prompt, Kept(j), d)) = Len(j.prompt) - d
    BY <1>1, <2>1, WithoutShorter
  <2> QED BY <1>1, <1>2, <1>4, <2>2, ContextSize DEF Truncated
<1> QED BY <1>3, <1>4

(* The steps of a handler that touch no sequence.                          *)
LEMMA HandlerStep ==
  ASSUME RunnerInv, NEW r \in Requests,
         NewSequence(r) \/ Acquire(r) \/ AbortAcquire(r) \/ CloseQuit(r)
  PROVE  RunnerInv'
<1> USE DEF RunnerInv
<1>1. UNCHANGED <<slots, seqs, nextSeq, phase, cur, panic>>
  BY DEF NewSequence, Acquire, AbortAcquire, CloseQuit, loopVars
<1>2. pc[r] \notin {"serving", "gone"} \/ CloseQuit(r)
  BY DEF NewSequence, Acquire, AbortAcquire
<1>3. /\ pc' \in [Requests -> {"new", "acquire", "load", "serving", "gone", "done"}]
      /\ \A q \in Requests : q # r => pc'[q] = pc[q]
      /\ CloseQuit(r) => pc'[r] = "gone"
  BY DEF NewSequence, Acquire, AbortAcquire, CloseQuit, ControlOK
<1>4. \A i \in Seats : seqs[i] # NoSeq => seqs[i].req \in Requests
  BY NoSeqDiffers DEF SeatsOK, Sequence
<1>5. \A q \in Requests : pc[q] \in {"serving", "gone"} => job'[q] = job[q]
  BY <1>2 DEF NewSequence, Acquire, AbortAcquire, CloseQuit, JobsOK
<1>6. Served'
  BY <1>1, <1>2, <1>3, <1>4 DEF Served
<1>7. Prompts(slots, seqs)'
  BY <1>1, <1>4, <1>5 DEF Prompts, Served
<1>8. JobsOK'
  <2>1. CASE NewSequence(r)
    <3>1. PICK j \in Jobs :
            /\ j.prompt # <<>>
            /\ job' = [job EXCEPT ![r] = [j EXCEPT !.prompt = Truncated(j), !.numKeep = Kept(j)]]
      BY <2>1 DEF NewSequence
    <3>2. j \in Job
      BY RunnerAssumption
    <3> DEFINE n == [j EXCEPT !.prompt = Truncated(j), !.numKeep = Kept(j)]
    <3>3. n \in Job /\ Len(n.prompt) \in 1 .. NumCtx /\ n.numKeep \in 0 .. NumCtx - 1
      <4>1. /\ Truncated(j) \in Seq(Tokens) /\ Len(Truncated(j)) \in 1 .. NumCtx
            /\ Kept(j) \in 0 .. NumCtx - 1
        BY <3>1, <3>2, PromptCut
      <4>2. n.prompt = Truncated(j) /\ n.numKeep = Kept(j)
        BY <3>2 DEF Job
      <4>3. Kept(j) \in Int
        BY <4>1, ContextSize
      <4>4. n \in Job
        BY <3>2, <4>1, <4>3 DEF Job
      <4> QED BY <4>1, <4>2, <4>4
    <3> HIDE DEF n
    <3>4. job' = [job EXCEPT ![r] = n]
      BY <3>1 DEF n
    <3> QED BY <1>3, <3>3, <3>4 DEF JobsOK
  <2>2. CASE AbortAcquire(r)
    <3>1. NoJob \in Job /\ NoJob.numKeep \in 0 .. NumCtx - 1
      BY ContextSize DEF NoJob, Job
    <3> QED BY <1>3, <2>2, <3>1 DEF AbortAcquire, JobsOK, ControlOK
  <2>3. CASE Acquire(r) \/ CloseQuit(r)
    BY <1>3, <2>3 DEF Acquire, CloseQuit, JobsOK
  <2> QED BY <2>1, <2>2, <2>3
<1>9. Permits' /\ seqsSem' \in Nat
  <2>1. IsFiniteSet(Loading) /\ Cardinality(Loading) \in Nat
    BY RunnerAssumption, FS_Subset, FS_CardinalityType DEF Loading
  <2>2. Nil' = Nil
    BY <1>1 DEF Nil
  <2>3. CASE Acquire(r)
    <3>1. Loading' = Loading \cup {r} /\ r \notin Loading
      BY <2>3 DEF Acquire, Loading, ControlOK
    <3>2. Cardinality(Loading \cup {r}) = Cardinality(Loading) + 1
      BY <2>1, <3>1, FS_AddElement
    <3>3. seqsSem' = seqsSem - 1 /\ seqsSem > 0
      BY <2>3 DEF Acquire
    <3> QED BY <2>1, <2>2, <3>1, <3>2, <3>3 DEF Permits, ControlOK
  <2>4. CASE ~Acquire(r)
    <3>1. Loading' = Loading /\ UNCHANGED seqsSem
      BY <2>4 DEF NewSequence, AbortAcquire, CloseQuit, Loading, ControlOK
    <3> QED BY <2>2, <3>1 DEF Permits, ControlOK
  <2> QED BY <2>3, <2>4
<1>10. ControlOK'
  BY <1>1, <1>3, <1>9 DEF ControlOK
<1>11. SeatsOK(slots, seqs)' /\ InShare(slots, seqs)' /\ Waiting'
  BY <1>1 DEF SeatsOK, Apart, UsedBySeats, InShare, Waiting, Ready
<1> QED BY <1>6, <1>7, <1>8, <1>9, <1>10, <1>11

(* The slot whose inputs agree most with a prompt.                         *)
LEMMA LongestFound ==
  ASSUME slots \in [Slots -> SlotOK], NEW S \in SUBSET Slots, S # {},
         NEW prompt \in Seq(Tokens)
  PROVE  Longest(S, prompt) \in S
<1> DEFINE C(t) == CountCommonPrefix(slots[t].inputs, prompt)
           T == {C(t) : t \in S}
           B == {s \in S : \A t \in S : C(t) <= C(s)}
<1>1. \A t \in S : C(t) \in 0 .. Len(prompt)
  <2> SUFFICES ASSUME NEW t \in S PROVE C(t) \in 0 .. Len(prompt)
    OBVIOUS
  <2>1. slots[t].inputs \in Seq(Tokens)
    BY DEF SlotOK
  <2> QED BY <2>1, CommonPrefix, SMTT(40)
<1>2. T \subseteq 0 .. Len(prompt) /\ T # {} /\ Len(prompt) \in Nat
  BY <1>1
<1>3. Max(T) \in T /\ \A m \in T : m <= Max(T)
  <2> HIDE DEF T
  <2> QED BY <1>2, MaxFound
<1>4. B # {}
  <2>1. PICK s \in S : C(s) = Max(T)
    BY <1>3
  <2>2. \A t \in S : C(t) <= C(s)
    BY <1>3, <2>1
  <2> QED BY <2>2
<1>5. B \subseteq Nat
  <2>1. S \subseteq Nat
    BY ContextSize DEF Slots
  <2> QED BY <2>1
<1>6. Min(B) \in B
  <2> HIDE DEF B
  <2> QED BY <1>4, <1>5, MinFound
<1>7. Longest(S, prompt) = Min(B)
  BY DEF Longest
<1> QED BY <1>6, <1>7

(* The slot that was not used for the longest time.                        *)
LEMMA OldestFound ==
  ASSUME slots \in [Slots -> SlotOK], Unused # {}
  PROVE  Oldest \in Unused
<1> DEFINE T == {slots[t].lastUsed : t \in Unused}
           B == {s \in Unused : \A t \in Unused : slots[s].lastUsed <= slots[t].lastUsed}
<1>1. T \subseteq Nat /\ T # {}
  BY DEF Unused, SlotOK
<1>2. Min(T) \in T /\ \A m \in T : Min(T) <= m
  <2> HIDE DEF T
  <2> QED BY <1>1, MinFound
<1>3. PICK s \in Unused : slots[s].lastUsed = Min(T)
  BY <1>2
<1>4. \A t \in Unused : slots[s].lastUsed <= slots[t].lastUsed
  BY <1>2, <1>3
<1>5. B # {} /\ B \subseteq Nat
  BY <1>4, ContextSize DEF Unused, Slots
<1>6. Min(B) \in B
  <2> HIDE DEF B
  <2> QED BY <1>5, MinFound
<1>7. Oldest = Min(B)
  BY DEF Oldest
<1> QED BY <1>6, <1>7

(* Sequences that agree in a prefix agree in a shorter one.                *)
LEMMA ShorterPrefix ==
  ASSUME NEW a \in Seq(Tokens), NEW b \in Seq(Tokens), NEW n \in Nat, NEW m \in 0 .. n,
         n <= Len(a), n <= Len(b), SubSeq(a, 1, n) = SubSeq(b, 1, n)
  PROVE  SubSeq(a, 1, m) = SubSeq(b, 1, m)
<1>1. \A i \in 1 .. n : a[i] \in Tokens /\ b[i] \in Tokens
  OBVIOUS
<1>2. \A i \in 1 .. n : SubSeq(a, 1, n)[i] = a[i] /\ SubSeq(b, 1, n)[i] = b[i]
  BY <1>1, SubSeqProperties
<1>3. \A i \in 1 .. m : a[i] = b[i]
  BY <1>2
<1> QED BY <1>3

(* The ranks of the slots remain numbers.                                  *)
LEMMA UsedNowTypes ==
  ASSUME slots \in [Slots -> SlotOK], NEW s \in Slots, NEW t \in Slots
  PROVE  UsedNow(s)[t] \in Nat
<1>1. Cardinality({u \in Slots : slots[u].lastUsed > 0}) \in Nat
  BY SeatsFinite DEF Seats
<1>2. slots[s].lastUsed \in Nat /\ slots[t].lastUsed \in Nat
  BY DEF SlotOK
<1> QED BY <1>1, <1>2 DEF UsedNow

(* What LoadCacheSlot finds: an unused slot, and another one or the same   *)
(* that holds the first inputs of the prompt, but not all of it.           *)
LEMMA SlotFound ==
  ASSUME RunnerInv, NEW r \in Requests, LoadCacheSlot(r)
  PROVE  \E s \in Unused, from \in Slots, n \in 0 .. Len(job[r].prompt) - 1 :
           /\ n <= Len(slots[from].inputs)
           /\ SubSeq(slots[from].inputs, 1, n) = SubSeq(job[r].prompt, 1, n)
           /\ slots' = [t \in Slots |->
                IF t = s THEN [inputs |-> SubSeq(slots[from].inputs, 1, n),
                               inUse |-> TRUE, lastUsed |-> UsedNow(s)[s]]
                ELSE [slots[t] EXCEPT !.lastUsed = UsedNow(s)[t]]]
           /\ seqs' = [seqs EXCEPT ![Min(Nil)] =
                [req |-> r, slot |-> s,
                 inputs |-> SubSeq(job[r].prompt, n + 1, Len(job[r].prompt)),
                 pendingInputs |-> <<>>, numPredicted |-> 0, pendingResponses |-> 0]]
           /\ \E m \in n .. Len(slots[from].inputs) :
                cache' = Remove(IF from = s THEN cache ELSE CopyPrefix(cache, from, s, m),
                                s, n, ToTheEnd)
<1> DEFINE p == job[r].prompt
           found == IF multiUserCache THEN FindBestCacheSlot(p)
                    ELSE FindLongestCacheSlot(p)
           n == NumPast(job[r], found)
<1>1. p \in Seq(Tokens) /\ Len(p) \in Nat \ {0} /\ job[r].cachePrompt \in BOOLEAN
  <2>1. job[r] \in Job /\ pc[r] = "load"
    BY DEF RunnerInv, JobsOK, LoadCacheSlot
  <2>2. Len(p) \in 1 .. NumCtx
    BY <2>1 DEF RunnerInv, JobsOK
  <2> QED BY <2>1, <2>2, ContextSize DEF Job
<1>2. slots \in [Slots -> SlotOK] /\ Unused # {} /\ Unused \subseteq Slots
  BY DEF RunnerInv, SeatsOK, LoadCacheSlot, Unused
<1>3. \A t \in Slots : slots[t].inputs \in Seq(Tokens)
  BY <1>2 DEF SlotOK
<1>4. /\ found.slot \in Unused /\ found.from \in Slots
      /\ \/ found.numPast = CountCommonPrefix(slots[found.from].inputs, p)
         \/ found.numPast = 0
  <2>1. CASE multiUserCache
    <3> DEFINE s == Longest(Slots, p)
               longest == CountCommonPrefix(slots[s].inputs, p)
               whole == longest = Len(slots[s].inputs) /\ s \in Unused
               target == IF whole THEN s ELSE Oldest
    <3>1. s \in Slots /\ target \in Unused
      BY <1>1, <1>2, LongestFound, OldestFound
    <3>2. longest \in Nat
      BY <1>1, <1>3, <3>1, CommonPrefix
    <3>3. found = [slot |-> target, from |-> IF longest > 0 THEN s ELSE target,
                   numPast |-> longest]
      BY <2>1 DEF FindBestCacheSlot
    <3>4. /\ found.slot = target /\ found.from = (IF longest > 0 THEN s ELSE target)
          /\ found.numPast = longest
      BY <3>3
    <3>5. longest = CountCommonPrefix(slots[s].inputs, p)
      OBVIOUS
    <3> HIDE DEF found, s, longest, whole, target
    <3> QED BY <1>2, <3>1, <3>2, <3>4, <3>5
  <2>2. CASE ~multiUserCache
    <3> DEFINE s == Longest(Unused, p)
    <3>1. s \in Unused
      BY <1>1, <1>2, LongestFound
    <3>2. found = [slot |-> s, from |-> s,
                   numPast |-> CountCommonPrefix(slots[s].inputs, p)]
      BY <2>2 DEF FindLongestCacheSlot
    <3> HIDE DEF s, found
    <3> QED BY <1>2, <3>1, <3>2
  <2> QED BY <2>1, <2>2
<1>5. /\ slots' = [t \in Slots |->
           IF t = found.slot
           THEN [inputs |-> SubSeq(slots[found.from].inputs, 1, n),
                 inUse |-> TRUE, lastUsed |-> UsedNow(found.slot)[found.slot]]
           ELSE [slots[t] EXCEPT !.lastUsed = UsedNow(found.slot)[t]]]
      /\ seqs' = [seqs EXCEPT ![Min(Nil)] =
           [req |-> r, slot |-> found.slot, inputs |-> SubSeq(p, n + 1, Len(p)),
            pendingInputs |-> <<>>, numPredicted |-> 0, pendingResponses |-> 0]]
      /\ cache' = Remove(IF found.from = found.slot THEN cache
                         ELSE CopyPrefix(cache, found.from, found.slot, found.numPast),
                         found.slot, n, ToTheEnd)
  BY DEF LoadCacheSlot
<1> HIDE DEF found
<1>6. PICK a \in Seq(Tokens) : a = slots[found.from].inputs
  BY <1>3, <1>4
<1>7. PICK k \in Nat : /\ k = found.numPast /\ k <= Len(a) /\ k <= Len(p)
                       /\ SubSeq(a, 1, k) = SubSeq(p, 1, k)
  <2>1. CASE found.numPast = 0
    BY <1>1, <1>6, <2>1, SubSeqEmpty
  <2> QED BY <1>1, <1>4, <1>6, <2>1, CommonPrefix
<1>8. n \in 0 .. k /\ n <= Len(p) - 1 /\ n \in Nat
  <2>1. n = LET m == IF job[r].cachePrompt THEN k ELSE 0
            IN  IF m = Len(p) THEN m - 1 ELSE m
    BY <1>7 DEF NumPast
  <2> HIDE DEF n, p
  <2> QED BY <1>1, <1>7, <2>1
<1> HIDE DEF n
<1>9. SubSeq(a, 1, n) = SubSeq(p, 1, n)
  BY <1>1, <1>7, <1>8, ShorterPrefix
<1>10. n \in 0 .. Len(p) - 1 /\ n <= Len(a)
  BY <1>1, <1>7, <1>8
<1> HIDE DEF p
<1>11. /\ n <= Len(slots[found.from].inputs)
       /\ SubSeq(slots[found.from].inputs, 1, n) = SubSeq(p, 1, n)
  BY <1>6, <1>9, <1>10
<1>12. k \in n .. Len(slots[found.from].inputs)
  BY <1>6, <1>7, <1>8
<1>13. \E m \in n .. Len(slots[found.from].inputs) :
         cache' = Remove(IF found.from = found.slot THEN cache
                         ELSE CopyPrefix(cache, found.from, found.slot, m), found.slot, n, ToTheEnd)
  BY <1>5, <1>7, <1>12
<1> QED BY <1>4, <1>5, <1>10, <1>11, <1>13 DEF p

(* LoadCacheSlot seats a sequence whose context is its prompt.             *)
LEMMA LoadStep ==
  ASSUME RunnerInv, NEW r \in Requests, LoadCacheSlot(r)
  PROVE  RunnerInv'
<1> DEFINE p == job[r].prompt
<1>1. PICK s \in Unused, from \in Slots, n \in 0 .. Len(p) - 1 :
           /\ n <= Len(slots[from].inputs)
           /\ SubSeq(slots[from].inputs, 1, n) = SubSeq(p, 1, n)
           /\ slots' = [t \in Slots |->
                IF t = s THEN [inputs |-> SubSeq(slots[from].inputs, 1, n),
                               inUse |-> TRUE, lastUsed |-> UsedNow(s)[s]]
                ELSE [slots[t] EXCEPT !.lastUsed = UsedNow(s)[t]]]
           /\ seqs' = [seqs EXCEPT ![Min(Nil)] =
                [req |-> r, slot |-> s, inputs |-> SubSeq(p, n + 1, Len(p)),
                 pendingInputs |-> <<>>, numPredicted |-> 0, pendingResponses |-> 0]]
  BY SlotFound
<1>2. /\ UNCHANGED <<multiUserCache, seqsSem, job, nextSeq, phase, cur, batch, panic>>
      /\ pc[r] = "load" /\ phase = "idle" /\ Nil # {} /\ pc' = [pc EXCEPT ![r] = "serving"]
  BY DEF LoadCacheSlot, loopVars
<1>3. PICK e \in Nil : e = Min(Nil)
  <2>1. Nil \subseteq Nat
    BY ContextSize DEF Nil, Seats, Slots
  <2> QED BY <1>2, <2>1, MinFound
<1>4. /\ s \in Slots /\ ~slots[s].inUse /\ e \in Seats /\ seqs[e] = NoSeq
      /\ slots \in [Slots -> SlotOK] /\ seqs \in [Seats -> Sequence \cup {NoSeq}]
  BY DEF Unused, Nil, RunnerInv, SeatsOK
<1>5. p \in Seq(Tokens) /\ Len(p) \in Nat /\ 1 <= Len(p) /\ Len(p) <= NumCtx
  <2>1. job[r] \in Job /\ Len(p) \in 1 .. NumCtx
    BY <1>2 DEF RunnerInv, JobsOK
  <2> QED BY <2>1, ContextSize DEF Job
<1> HIDE DEF p
<1> DEFINE a == SubSeq(p, 1, n)
           b == SubSeq(p, n + 1, Len(p))
           q == [req |-> r, slot |-> s, inputs |-> b,
                 pendingInputs |-> <<>>, numPredicted |-> 0, pendingResponses |-> 0]
           l(t) == UsedNow(s)[t]
<1>6. \A t \in Slots : l(t) \in Nat
  BY <1>4, UsedNowTypes
<1>7. a \in Seq(Tokens) /\ Len(a) = n /\ b \in Seq(Tokens) /\ Len(b) >= 1
  <2>1. (\A i \in 1 .. n : p[i] \in Tokens) /\ (\A i \in n + 1 .. Len(p) : p[i] \in Tokens)
    BY <1>5
  <2>2. a \in Seq(Tokens) /\ Len(a) = n
    BY <1>5, <2>1, SubSeqProperties
  <2>3. b \in Seq(Tokens) /\ Len(b) = Len(p) - n
    BY <1>5, <2>1, SubSeqProperties
  <2> QED BY <1>5, <2>2, <2>3
<1>8. a \o b = p
  BY <1>5, ConcatAdjacentSubSeq, SubSeqFull
<1>9. slots' = [t \in Slots |->
                 IF t = s THEN [inputs |-> a, inUse |-> TRUE, lastUsed |-> l(s)]
                 ELSE [slots[t] EXCEPT !.lastUsed = l(t)]]
  BY <1>1
<1>10. seqs' = [seqs EXCEPT ![e] = q]
  BY <1>1, <1>3
<1> HIDE DEF a, b, l
<1>11. /\ q \in Sequence /\ q # NoSeq /\ q.slot = s /\ q.req = r
       /\ q.inputs = b /\ q.pendingInputs = <<>> /\ q.numPredicted = 0
  <2>1. q \in Sequence
    BY <1>4, <1>7, RunnerAssumption DEF Sequence
  <2> QED BY <2>1, NoSeqDiffers
<1> HIDE DEF q
<1>12. /\ seqs' \in [Seats -> Sequence \cup {NoSeq}] /\ seqs'[e] = q
       /\ \A i \in Seats : i # e => seqs'[i] = seqs[i]
  BY <1>4, <1>10, <1>11
<1>13. /\ slots' \in [Slots -> SlotOK]
       /\ slots'[s].inputs = a /\ slots'[s].inUse
       /\ \A t \in Slots : t # s => /\ slots'[t].inputs = slots[t].inputs
                                    /\ slots'[t].inUse = slots[t].inUse
  <2>1. \A t \in Slots : slots'[t] \in SlotOK
    BY <1>4, <1>6, <1>7, <1>9 DEF SlotOK
  <2> QED BY <1>4, <1>9, <2>1 DEF SlotOK
<1>14. \A i \in Seats : seqs[i] # NoSeq => seqs[i].slot # s /\ seqs[i].slot \in Slots /\ seqs[i].req # r
  BY <1>2, <1>4, NoSeqDiffers DEF RunnerInv, SeatsOK, UsedBySeats, Served, Sequence
<1>15. SeatsOK(slots, seqs)'
  <2>1. Apart(seqs)'
    BY <1>4, <1>11, <1>12, <1>14 DEF RunnerInv, SeatsOK, Apart
  <2>2. UsedBySeats(slots, seqs)'
    BY <1>4, <1>11, <1>12, <1>13, <1>14 DEF RunnerInv, SeatsOK, UsedBySeats
  <2> QED BY <1>12, <1>13, <2>1, <2>2 DEF SeatsOK
<1>16. InShare(slots, seqs)'
  <2>1. Len(<<>>) = 0 /\ n \in Nat /\ n <= NumCtx
    BY <1>5, ContextSize
  <2>2. \A t \in Slots : Len(slots'[t].inputs) <= NumCtx
    BY <1>7, <1>13, <2>1 DEF RunnerInv, InShare
  <2>3. \A i \in Seats : seqs'[i] # NoSeq =>
          Len(slots'[seqs'[i].slot].inputs) + Len(seqs'[i].pendingInputs) <= NumCtx
    <3> SUFFICES ASSUME NEW i \in Seats, seqs'[i] # NoSeq
                 PROVE  Len(slots'[seqs'[i].slot].inputs) + Len(seqs'[i].pendingInputs) <= NumCtx
      OBVIOUS
    <3>1. CASE i = e
      <4>1. slots'[seqs'[i].slot].inputs = a /\ seqs'[i].pendingInputs = <<>>
        BY <1>11, <1>12, <1>13, <3>1
      <4> QED BY <1>7, <2>1, <4>1
    <3>2. CASE i # e
      <4>1. seqs'[i] = seqs[i] /\ slots'[seqs[i].slot].inputs = slots[seqs[i].slot].inputs
        BY <1>12, <1>13, <1>14, <3>2
      <4> QED BY <4>1 DEF RunnerInv, InShare
    <3> QED BY <3>1, <3>2
  <2> QED BY <2>2, <2>3 DEF InShare
<1>17. Prompts(slots, seqs)'
  <2>1. a \o <<>> = a
    BY <1>7, ConcatEmptySeq
  <2>2. slots'[s].inputs \o q.pendingInputs \o q.inputs = p
    BY <1>8, <1>11, <1>13, <2>1
  <2>3. job'[q.req].prompt = p
    BY <1>2, <1>11 DEF p
  <2> SUFFICES ASSUME NEW i \in Seats, seqs'[i] # NoSeq, seqs'[i].numPredicted = 0
               PROVE  slots'[seqs'[i].slot].inputs \o seqs'[i].pendingInputs \o seqs'[i].inputs
                        = job'[seqs'[i].req].prompt
    BY DEF Prompts
  <2>4. CASE i = e
    BY <1>11, <1>12, <2>2, <2>3, <2>4
  <2>5. CASE i # e
    <3>1. seqs'[i] = seqs[i] /\ slots'[seqs[i].slot].inputs = slots[seqs[i].slot].inputs
      BY <1>12, <1>13, <1>14, <2>5
    <3> QED BY <1>2, <3>1 DEF RunnerInv, Prompts
  <2> QED BY <2>4, <2>5
<1>18. Waiting'
  BY <1>2, <1>7, <1>11, <1>12 DEF RunnerInv, Waiting, Ready
<1>19. Served' /\ ControlOK' /\ JobsOK'
  <2>1. Served'
    BY <1>2, <1>11, <1>12, <1>14, NoSeqDiffers DEF RunnerInv, Served, ControlOK, SeatsOK, Sequence
  <2>2. ControlOK' /\ JobsOK'
    BY <1>2 DEF RunnerInv, ControlOK, JobsOK
  <2> QED BY <2>1, <2>2
<1>20. Permits'
  <2>1. IsFiniteSet(Loading) /\ Cardinality(Loading) \in Nat
    BY RunnerAssumption, FS_Subset, FS_CardinalityType DEF Loading
  <2>2. IsFiniteSet(Nil) /\ Cardinality(Nil) \in Nat
    BY SeatsFinite DEF Nil
  <2>3. Nil' = Nil \ {e}
    BY <1>4, <1>11, <1>12 DEF Nil
  <2>4. Loading' = Loading \ {r} /\ r \in Loading
    BY <1>2 DEF Loading, RunnerInv, ControlOK
  <2>5. Cardinality(Nil \ {e}) = Cardinality(Nil) - 1
    BY <2>2, FS_RemoveElement
  <2>6. Cardinality(Loading \ {r}) = Cardinality(Loading) - 1
    BY <2>1, <2>4, FS_RemoveElement
  <2> QED BY <1>2, <2>1, <2>2, <2>3, <2>4, <2>5, <2>6 DEF RunnerInv, Permits, ControlOK
<1> QED BY <1>15, <1>16, <1>17, <1>18, <1>19, <1>20 DEF RunnerInv

-----------------------------------------------------------------------------
(* The loop: Forward and the turns of the second loop of processBatch.     *)

(* Forward leaves the sequences to be sampled.                             *)
LEMMA ForwardStep ==
  ASSUME RunnerInv, Forward
  PROVE  RunnerInv'
<1>1. /\ UNCHANGED <<slots, seqs, nextSeq, seqsSem, pc, job>>
      /\ phase' = "sample" /\ cur' = 0
  BY DEF Forward
<1>2. \A i \in Seats : ~(i < 0)
  BY ContextSize DEF Seats, Slots
<1>3. 0 \in Seats
  BY ContextSize DEF Seats, Slots
<1>4. Waiting'
  BY <1>1, <1>2 DEF Waiting
<1>5. ControlOK' /\ JobsOK' /\ Served'
  BY <1>1, <1>3 DEF RunnerInv, ControlOK, JobsOK, Served
<1>6. Permits'
  BY <1>1 DEF RunnerInv, Permits, Loading, Nil
<1>7. SeatsOK(slots, seqs)' /\ InShare(slots, seqs)' /\ Prompts(slots, seqs)'
  BY <1>1 DEF RunnerInv, SeatsOK, Apart, UsedBySeats, InShare, Prompts
<1> QED BY <1>4, <1>5, <1>6, <1>7 DEF RunnerInv

(* The turn goes from seat to seat; after the last one the loop is idle.   *)
LEMMA TurnGoesOn ==
  ASSUME ControlOK, NEW i \in Seats, Turn(i)
  PROVE  /\ cur = i /\ phase = "sample" /\ nextSeq' \in Seats /\ cur' \in Seats
         /\ phase' \in {"idle", "forward", "sample"}
         /\ \A k \in Seats : phase' = "idle" \/ (phase' = "sample" /\ k < cur')
                              => k = i \/ k < cur
<1>1. cur = i /\ cur' = (i + 1) % Parallel /\ UNCHANGED nextSeq /\ phase = "sample"
  BY DEF Turn
<1>2. (i + 1) % Parallel = IF i + 1 < Parallel THEN i + 1 ELSE 0
  BY ContextSize DEF Seats, Slots
<1>3. IF cur' # 0 THEN phase' = phase ELSE phase' = "idle"
  BY DEF Turn
<1> QED BY <1>1, <1>2, <1>3, ContextSize DEF Seats, Slots, ControlOK

(* The inputs of a slot with those that were submitted.                    *)
LEMMA StoredFits ==
  ASSUME SeatsOK(slots, seqs), InShare(slots, seqs), NEW i \in Seats, seqs[i] # NoSeq
  PROVE  /\ seqs[i] \in Sequence
         /\ Stored(seqs[i]) \in Seq(Tokens) /\ Len(Stored(seqs[i])) <= NumCtx
<1>1. seqs[i] \in Sequence
  BY DEF SeatsOK
<1>2. /\ slots[seqs[i].slot].inputs \in Seq(Tokens)
      /\ seqs[i].pendingInputs \in Seq(Tokens)
  BY <1>1 DEF SeatsOK, Sequence, SlotOK
<1>3. Len(slots[seqs[i].slot].inputs) + Len(seqs[i].pendingInputs) <= NumCtx
  BY DEF InShare
<1>4. /\ Stored(seqs[i]) \in Seq(Tokens)
      /\ Len(Stored(seqs[i])) = Len(slots[seqs[i].slot].inputs) + Len(seqs[i].pendingInputs)
  BY <1>2, ConcatProperties DEF Stored
<1> QED BY <1>1, <1>3, <1>4

(* A sequence goes on: its inputs are stored, and others are ready.        *)
LEMMA StoreStep ==
  ASSUME RunnerInv, panic = "no", NEW i \in Seats, Turn(i), seqs[i] # NoSeq, NEW q \in Sequence,
         slots' = [slots EXCEPT ![seqs[i].slot].inputs = Stored(seqs[i])],
         seqs' = [seqs EXCEPT ![i] = q],
         q.slot = seqs[i].slot, q.req = seqs[i].req, Ready(q),
         q.numPredicted = 0 => seqs[i].numPredicted = 0 /\ q.inputs = seqs[i].inputs,
         UNCHANGED <<seqsSem, pc, job, panic>>
  PROVE  RunnerInv'
<1> DEFINE s == seqs[i].slot
           a == Stored(seqs[i])
<1>1. /\ seqs[i] \in Sequence /\ s \in Slots
      /\ slots \in [Slots -> SlotOK] /\ seqs \in [Seats -> Sequence \cup {NoSeq}]
  BY StoredFits DEF RunnerInv, SeatsOK, Sequence
<1>2. a \in Seq(Tokens) /\ Len(a) <= NumCtx
  BY StoredFits DEF RunnerInv
<1> HIDE DEF a
<1>3. /\ slots' \in [Slots -> SlotOK] /\ slots'[s].inputs = a
      /\ \A t \in Slots : slots'[t].inUse = slots[t].inUse
      /\ \A t \in Slots : t # s => slots'[t].inputs = slots[t].inputs
  <2>1. slots' = [slots EXCEPT ![s] = [slots[s] EXCEPT !.inputs = a]]
    BY DEF a
  <2> DEFINE u == [slots[s] EXCEPT !.inputs = a]
  <2>2. u \in SlotOK /\ u.inputs = a /\ u.inUse = slots[s].inUse
    BY <1>1, <1>2 DEF SlotOK
  <2>3. slots' = [slots EXCEPT ![s] = u]
    BY <2>1
  <2> HIDE DEF u, s
  <2> QED BY <1>1, <2>2, <2>3
<1>4. /\ seqs' \in [Seats -> Sequence \cup {NoSeq}] /\ seqs'[i] = q /\ q # NoSeq
      /\ \A k \in Seats : k # i => seqs'[k] = seqs[k]
  BY <1>1, NoSeqDiffers
<1>5. \A k \in Seats : k # i /\ seqs[k] # NoSeq => seqs[k].slot # s /\ seqs[k].slot \in Slots
  BY NoSeqDiffers DEF RunnerInv, SeatsOK, Apart, Sequence
<1> HIDE DEF s
<1>6. q.slot = s /\ q.req = seqs[i].req /\ q.pendingInputs = <<>> /\ q.inputs # <<>>
  BY DEF s, Ready
<1>7. SeatsOK(slots, seqs)'
  <2>1. Apart(seqs)'
    BY <1>4 DEF RunnerInv, SeatsOK, Apart
  <2>2. UsedBySeats(slots, seqs)'
    BY <1>3, <1>4 DEF RunnerInv, SeatsOK, UsedBySeats
  <2> QED BY <1>3, <1>4, <2>1, <2>2 DEF SeatsOK
<1>8. InShare(slots, seqs)'
  <2>1. \A t \in Slots : Len(slots'[t].inputs) <= NumCtx
    BY <1>2, <1>3 DEF RunnerInv, InShare
  <2>2. ASSUME NEW k \in Seats, seqs'[k] # NoSeq
        PROVE  Len(slots'[seqs'[k].slot].inputs) + Len(seqs'[k].pendingInputs) <= NumCtx
    <3>1. CASE k = i
      <4>1. slots'[seqs'[k].slot].inputs = a /\ seqs'[k].pendingInputs = <<>>
        BY <1>3, <1>4, <1>6, <3>1
      <4>2. Len(slots'[seqs'[k].slot].inputs) = Len(a) /\ Len(seqs'[k].pendingInputs) = 0
        BY <4>1
      <4>3. Len(a) + 0 <= NumCtx
        BY <1>2, ContextSize
      <4> QED BY <4>2, <4>3, Zenon
    <3>2. CASE k # i
      <4>1. seqs'[k] = seqs[k] /\ slots'[seqs[k].slot].inputs = slots[seqs[k].slot].inputs
        BY <1>3, <1>4, <1>5, <2>2, <3>2
      <4> QED BY <2>2, <4>1 DEF RunnerInv, InShare
    <3> QED BY <3>1, <3>2
  <2> QED BY <2>1, <2>2 DEF InShare
<1>9. Prompts(slots, seqs)'
  <2> SUFFICES ASSUME NEW k \in Seats, seqs'[k] # NoSeq, seqs'[k].numPredicted = 0
               PROVE  slots'[seqs'[k].slot].inputs \o seqs'[k].pendingInputs \o seqs'[k].inputs
                        = job'[seqs'[k].req].prompt
    BY DEF Prompts
  <2>1. CASE k = i
    <3>1. a \o <<>> = a
      BY <1>2, ConcatEmptySeq
    <3>2. q.inputs = seqs[i].inputs /\ a \o seqs[i].inputs = job[q.req].prompt
      BY <1>4, <1>6, <2>1 DEF RunnerInv, Prompts, a, Stored
    <3> QED BY <1>3, <1>4, <1>6, <2>1, <3>1, <3>2
  <2>2. CASE k # i
    <3>1. seqs'[k] = seqs[k] /\ slots'[seqs[k].slot].inputs = slots[seqs[k].slot].inputs
      BY <1>3, <1>4, <1>5, <2>2
    <3> QED BY <3>1 DEF RunnerInv, Prompts
  <2> QED BY <2>1, <2>2
<1>10. Waiting' /\ ControlOK'
  <2>1. ControlOK
    BY DEF RunnerInv
  <2>2. \A k \in Seats : phase' = "idle" \/ (phase' = "sample" /\ k < cur') => k = i \/ k < cur
    BY <2>1, TurnGoesOn
  <2>3. phase = "sample"
    BY <2>1, TurnGoesOn
  <2>4. Waiting'
    BY <1>4, <1>6, <2>2, <2>3 DEF RunnerInv, Waiting, Ready
  <2>5. ControlOK'
    BY <2>1, TurnGoesOn DEF ControlOK
  <2> QED BY <2>4, <2>5
<1>11. Permits'
  <2>1. Nil' = Nil /\ Loading' = Loading
    BY <1>4 DEF Nil, Loading
  <2> QED BY <2>1 DEF RunnerInv, Permits
<1>12. Served' /\ JobsOK'
  BY <1>4 DEF RunnerInv, Served, JobsOK
<1> QED BY <1>7, <1>8, <1>9, <1>10, <1>11, <1>12 DEF RunnerInv

(* A sequence ends: its slot keeps inputs that fit.                        *)
LEMMA EndStep ==
  ASSUME RunnerInv, panic = "no", NEW i \in Seats, Turn(i), seqs[i] # NoSeq,
         NEW a \in Seq(Tokens), Len(a) <= NumCtx, EndSequence(i, a)
  PROVE  RunnerInv'
<1> DEFINE s == seqs[i].slot
<1>1. /\ seqs[i] \in Sequence /\ s \in Slots
      /\ slots \in [Slots -> SlotOK] /\ seqs \in [Seats -> Sequence \cup {NoSeq}]
  BY StoredFits DEF RunnerInv, SeatsOK, Sequence
<1>2. /\ seqs' = [seqs EXCEPT ![i] = NoSeq] /\ Retire(seqs')
      /\ slots' = [slots EXCEPT ![s].inputs = a, ![s].inUse = FALSE]
  BY DEF EndSequence, Retire
<1>3. /\ slots' \in [Slots -> SlotOK] /\ slots'[s].inputs = a /\ ~slots'[s].inUse
      /\ \A t \in Slots : t # s => slots'[t] = slots[t]
  <2> DEFINE u == [slots[s] EXCEPT !.inputs = a, !.inUse = FALSE]
  <2>1. u \in SlotOK /\ u.inputs = a /\ u.inUse = FALSE
    BY <1>1 DEF SlotOK
  <2>2. slots' = [slots EXCEPT ![s] = u]
    BY <1>1, <1>2
  <2> HIDE DEF u, s
  <2> QED BY <1>1, <2>1, <2>2
<1>4. /\ seqs' \in [Seats -> Sequence \cup {NoSeq}] /\ seqs'[i] = NoSeq
      /\ \A k \in Seats : k # i => seqs'[k] = seqs[k]
  BY <1>1, <1>2
<1>5. \A k \in Seats : k # i /\ seqs[k] # NoSeq => seqs[k].slot # s /\ seqs[k].slot \in Slots
  BY NoSeqDiffers DEF RunnerInv, SeatsOK, Apart, Sequence
<1>6. /\ pc' \in [Requests -> {"new", "acquire", "load", "serving", "gone", "done"}]
      /\ seqsSem' \in Nat /\ JobsOK' /\ Served' /\ Permits'
      /\ \A k \in Seats : seqs'[k] # NoSeq => job'[seqs'[k].req] = job[seqs'[k].req]
  <2>1. \A k \in Seats :
           seqs'[k] # NoSeq => seqs[k] # NoSeq /\ seqs'[k].req = seqs[k].req
    BY <1>4
  <2> QED BY <1>2, <1>4, <2>1, RetireKeeps DEF RunnerInv
<1>7. \A k \in Seats : seqs'[k] # NoSeq =>
        k # i /\ seqs'[k] = seqs[k] /\ slots'[seqs[k].slot] = slots[seqs[k].slot]
  BY <1>3, <1>4, <1>5
<1>8. SeatsOK(slots, seqs)'
  <2>1. Apart(seqs)'
    BY <1>4 DEF RunnerInv, SeatsOK, Apart
  <2>2. UsedBySeats(slots, seqs)'
    <3> SUFFICES ASSUME NEW t \in Slots
                 PROVE  slots'[t].inUse <=> \E k \in Seats : seqs'[k] # NoSeq /\ seqs'[k].slot = t
      BY DEF UsedBySeats
    <3>1. slots[t].inUse <=> \E k \in Seats : seqs[k] # NoSeq /\ seqs[k].slot = t
      BY DEF RunnerInv, SeatsOK, UsedBySeats
    <3>2. CASE t = s
      BY <1>3, <1>4, <1>5, <3>2
    <3>3. CASE t # s
      BY <1>3, <1>4, <3>1, <3>3
    <3> QED BY <3>2, <3>3
  <2> QED BY <1>3, <1>4, <2>1, <2>2 DEF SeatsOK
<1> HIDE DEF s
<1>9. InShare(slots, seqs)'
  <2>1. \A t \in Slots : Len(slots'[t].inputs) <= NumCtx
    BY <1>3 DEF RunnerInv, InShare
  <2>2. \A k \in Seats : seqs'[k] # NoSeq =>
           Len(slots'[seqs'[k].slot].inputs) + Len(seqs'[k].pendingInputs) <= NumCtx
    BY <1>7 DEF RunnerInv, InShare
  <2> QED BY <2>1, <2>2 DEF InShare
<1>10. Prompts(slots, seqs)'
  <2> SUFFICES ASSUME NEW k \in Seats, seqs'[k] # NoSeq, seqs'[k].numPredicted = 0
               PROVE  slots'[seqs'[k].slot].inputs \o seqs'[k].pendingInputs \o seqs'[k].inputs
                        = job'[seqs'[k].req].prompt
    BY DEF Prompts
  <2>1. /\ seqs'[k] = seqs[k] /\ slots'[seqs[k].slot] = slots[seqs[k].slot]
        /\ job'[seqs[k].req] = job[seqs[k].req]
    BY <1>6, <1>7
  <2> QED BY <2>1 DEF RunnerInv, Prompts
<1>11. Waiting' /\ ControlOK'
  <2>1. ControlOK
    BY DEF RunnerInv
  <2>2. \A k \in Seats : phase' = "idle" \/ (phase' = "sample" /\ k < cur') => k = i \/ k < cur
    BY <2>1, TurnGoesOn
  <2>3. phase = "sample"
    BY <2>1, TurnGoesOn
  <2>4. Waiting'
    BY <1>4, <2>2, <2>3 DEF RunnerInv, Waiting
  <2>5. ControlOK'
    BY <1>6, <2>1, TurnGoesOn DEF ControlOK
  <2> QED BY <2>4, <2>5
<1> QED BY <1>6, <1>8, <1>9, <1>10, <1>11 DEF RunnerInv

(* A sequence whose inputs were stored.                                    *)
LEMMA StoredSequence ==
  ASSUME NEW q \in Sequence, NEW b \in Seq(Tokens), NEW p, p = [q EXCEPT !.pendingInputs = b]
  PROVE  /\ p \in Sequence /\ p.inputs = q.inputs /\ p.pendingInputs = b
         /\ p.slot = q.slot /\ p.req = q.req /\ p.numPredicted = q.numPredicted
BY DEF Sequence

(* Each way the turn of a sequence ends.                                   *)
LEMMA SampleStep ==
  ASSUME RunnerInv, panic = "no", NEW i \in Seats, Sample(i)
  PROVE  RunnerInv'
<1>1. CASE SampleNil(i)
  <2>1. ControlOK /\ Turn(i) /\ seqs[i] = NoSeq
    BY <1>1 DEF RunnerInv, SampleNil
  <2>2. UNCHANGED <<slots, seqs, seqsSem, pc, job, panic>>
    BY <1>1 DEF SampleNil
  <2>3. /\ \A k \in Seats : phase' = "idle" \/ (phase' = "sample" /\ k < cur') => k = i \/ k < cur
        /\ phase = "sample"
    BY <2>1, TurnGoesOn
  <2>4. Waiting'
    BY <2>1, <2>2, <2>3 DEF RunnerInv, Waiting, Ready
  <2>5. ControlOK'
    BY <2>1, <2>2, TurnGoesOn DEF ControlOK
  <2>6. Permits' /\ Served' /\ JobsOK'
    BY <2>2 DEF RunnerInv, Permits, Loading, Nil, Served, JobsOK
  <2>7. SeatsOK(slots, seqs)' /\ InShare(slots, seqs)' /\ Prompts(slots, seqs)'
    BY <2>2 DEF RunnerInv, SeatsOK, Apart, UsedBySeats, InShare, Prompts
  <2> QED BY <2>4, <2>5, <2>6, <2>7 DEF RunnerInv
<1>2. CASE seqs[i] # NoSeq
  <2>1. /\ seqs[i] \in Sequence /\ seqs \in [Seats -> Sequence \cup {NoSeq}]
        /\ Stored(seqs[i]) \in Seq(Tokens) /\ Len(Stored(seqs[i])) <= NumCtx
    BY <1>2, StoredFits DEF RunnerInv, SeatsOK
  <2>2. CASE ProcessPrompt(i)
    <3>1. PICK q : q = [seqs[i] EXCEPT !.pendingInputs = <<>>]
      OBVIOUS
    <3>2. /\ q \in Sequence /\ q.slot = seqs[i].slot /\ q.req = seqs[i].req
          /\ q.pendingInputs = <<>> /\ q.inputs = seqs[i].inputs
          /\ q.numPredicted = seqs[i].numPredicted
      <4>1. PICK z, b : z = seqs[i] /\ b = <<>>
        OBVIOUS
      <4>2. z \in Sequence /\ b \in Seq(Tokens) /\ q = [z EXCEPT !.pendingInputs = b]
        BY <2>1, <3>1, <4>1
      <4>3. /\ q \in Sequence /\ q.slot = z.slot /\ q.req = z.req
            /\ q.pendingInputs = b /\ q.inputs = z.inputs
            /\ q.numPredicted = z.numPredicted
        BY <4>2, StoredSequence
      <4> QED BY <4>1, <4>3
    <3>3. seqs' = [seqs EXCEPT ![i] = q]
      BY <2>2, <3>1 DEF ProcessPrompt
    <3>4. /\ slots' = [slots EXCEPT ![seqs[i].slot].inputs = Stored(seqs[i])]
          /\ seqs[i].inputs # <<>> /\ Turn(i) /\ UNCHANGED <<seqsSem, pc, job, panic>>
      BY <2>2 DEF ProcessPrompt
    <3>5. Ready(q)
      BY <3>2, <3>4 DEF Ready
    <3> QED BY <1>2, <3>2, <3>3, <3>4, <3>5, StoreStep
  <2>3. ASSUME NEW tok \in Tokens, NEW held \in 0 .. MaxHeld + 1, Turn(i), Continue(i, tok, held)
        PROVE  RunnerInv'
    <3> DEFINE n == Least(seqs[i].numPredicted + 1, MaxPredict)
    <3>1. n \in 0 .. MaxPredict /\ n # 0
      BY <2>1, RunnerAssumption DEF Sequence, Least
    <3> HIDE DEF n
    <3>2. PICK q : q = [seqs[i] EXCEPT !.inputs = <<tok>>, !.pendingInputs = <<>>,
                                       !.pendingResponses = held, !.numPredicted = n]
      OBVIOUS
    <3>3. <<tok>> \in Seq(Tokens) /\ <<tok>> # <<>>
      OBVIOUS
    <3>4. /\ q \in Sequence /\ q.slot = seqs[i].slot /\ q.req = seqs[i].req
          /\ q.pendingInputs = <<>> /\ q.inputs = <<tok>> /\ q.numPredicted = n
      <4>1. PICK z, m : z = seqs[i] /\ m = n
        OBVIOUS
      <4>2. PICK a, b : a = <<tok>> /\ b = <<>>
        OBVIOUS
      <4>3. z \in Sequence /\ m \in 0 .. MaxPredict /\ a \in Seq(Tokens) /\ b \in Seq(Tokens)
        BY <2>1, <3>1, <3>3, <4>1, <4>2
      <4>4. q = [z EXCEPT !.inputs = a, !.pendingInputs = b, !.pendingResponses = held,
                          !.numPredicted = m]
        BY <3>2, <4>1, <4>2
      <4>5. /\ q \in Sequence /\ q.slot = z.slot /\ q.req = z.req
            /\ q.pendingInputs = b /\ q.inputs = a /\ q.numPredicted = m
        BY <4>3, <4>4 DEF Sequence
      <4> QED BY <4>1, <4>2, <4>5
    <3>5. seqs' = [seqs EXCEPT ![i] = q]
      BY <2>3, <3>2 DEF Continue, n
    <3>6. /\ slots' = [slots EXCEPT ![seqs[i].slot].inputs = Stored(seqs[i])]
          /\ UNCHANGED <<seqsSem, pc, job, panic>>
      BY <2>3 DEF Continue
    <3>7. Ready(q) /\ q.numPredicted # 0
      BY <3>1, <3>3, <3>4 DEF Ready
    <3> QED BY <1>2, <2>3, <3>4, <3>5, <3>6, <3>7, StoreStep
  <2>4. CASE HoldBack(i)
    <3>1. PICK tok \in Tokens : Continue(i, tok, seqs[i].pendingResponses + 1)
      BY <2>4 DEF HoldBack
    <3>2. PICK held : held = seqs[i].pendingResponses + 1
      OBVIOUS
    <3>3. held \in 0 .. MaxHeld + 1 /\ Turn(i) /\ Continue(i, tok, held)
      BY <2>1, <2>4, <3>1, <3>2, RunnerAssumption DEF HoldBack, SampleToken, Sequence
    <3> QED BY <2>3, <3>3
  <2>5. CASE FlushPending(i)
    <3>1. PICK tok \in Tokens : Continue(i, tok, 0)
      BY <2>5 DEF FlushPending
    <3>2. 0 \in 0 .. MaxHeld + 1 /\ Turn(i)
      BY <2>5, RunnerAssumption DEF FlushPending, SampleToken
    <3> QED BY <2>3, <3>1, <3>2
  <2>6. CASE SampleEnd(i) \/ ConnectionClosed(i)
    <3>1. PICK a : a = Stored(seqs[i])
      OBVIOUS
    <3>2. Turn(i) /\ EndSequence(i, a)
      BY <2>6, <3>1 DEF SampleEnd, ConnectionClosed, SampleToken
    <3> QED BY <1>2, <2>1, <3>1, <3>2, EndStep
  <2>7. CASE HitStop(i)
    <3> DEFINE origLen == seqs[i].pendingResponses + 1
    <3>1. PICK newLen \in 0 .. origLen, tokenTruncated \in BOOLEAN :
            LET tokenLen == TokenLen(Len(Stored(seqs[i])), origLen, newLen, tokenTruncated)
            IN  /\ IF tokenTruncated THEN newLen > 0 ELSE newLen < origLen
                /\ EndSequence(i, SubSeq(Stored(seqs[i]), 1, tokenLen))
      BY <2>7 DEF HitStop
    <3>2. PICK tokenLen : tokenLen = TokenLen(Len(Stored(seqs[i])), origLen, newLen, tokenTruncated)
      OBVIOUS
    <3>3. Len(Stored(seqs[i])) \in Nat /\ origLen \in Nat
      BY <2>1, RunnerAssumption DEF Sequence
    <3>4. tokenLen \in Int /\ tokenLen <= Len(Stored(seqs[i]))
      <4> HIDE DEF origLen
      <4> QED BY <3>1, <3>2, <3>3 DEF TokenLen
    <3>5. PICK a : a = SubSeq(Stored(seqs[i]), 1, tokenLen)
      OBVIOUS
    <3>6. a \in Seq(Tokens) /\ Len(a) <= NumCtx
      <4>1. CASE tokenLen < 1
        <5>1. a = <<>>
          BY <2>1, <3>4, <3>5, <4>1, SubSeqEmpty
        <5> QED BY <5>1, ContextSize
      <4>2. CASE tokenLen >= 1
        <5>1. \A k \in 1 .. tokenLen : Stored(seqs[i])[k] \in Tokens
          BY <2>1, <3>4
        <5>2. a \in Seq(Tokens) /\ Len(a) = tokenLen
          BY <2>1, <3>4, <3>5, <4>2, <5>1, SubSeqProperties
        <5> QED BY <2>1, <3>3, <3>4, <5>2, ContextSize
      <4> QED BY <3>4, <4>1, <4>2
    <3>7. Turn(i) /\ EndSequence(i, a)
      BY <2>7, <3>1, <3>2, <3>5 DEF HitStop, SampleToken
    <3> QED BY <1>2, <3>6, <3>7, EndStep
  <2>8. CASE SampleNil(i)
    BY <1>2, <2>8 DEF SampleNil
  <2> QED BY <2>2, <2>4, <2>5, <2>6, <2>7, <2>8 DEF Sample
<1>3. seqs[i] = NoSeq => SampleNil(i)
  BY DEF Sample, ProcessPrompt, SampleEnd, HitStop, HoldBack, FlushPending, ConnectionClosed,
         SampleToken, Samples
<1> QED BY <1>1, <1>2, <1>3

-----------------------------------------------------------------------------
(* The loop: Gather, one sequence after the other.                         *)

(* The larger of two numbers.                                              *)
LEMMA MaxOfTwo ==
  ASSUME NEW a \in Nat, NEW b \in Nat
  PROVE  Max({a, b}) = IF a < b THEN b ELSE a
<1>1. {a, b} \subseteq 0 .. a + b /\ {a, b} # {} /\ a + b \in Nat
  OBVIOUS
<1>2. Max({a, b}) \in {a, b} /\ \A m \in {a, b} : m <= Max({a, b})
  BY <1>1, MaxFound
<1> QED BY <1>2

(* A full context gives up at least one input, and none of those to keep.  *)
LEMMA DiscardFits ==
  ASSUME NEW keep \in 0 .. NumCtx - 1
  PROVE  /\ ShiftDiscard(NumCtx, keep) \in Nat \ {0}
         /\ keep + ShiftDiscard(NumCtx, keep) <= NumCtx
<1> DEFINE half == (NumCtx - keep) \div 2
<1>1. half \in Nat /\ keep + half <= NumCtx /\ keep + 1 <= NumCtx /\ keep \in Nat
  BY ContextSize
<1> HIDE DEF half
<1>2. PICK m \in Nat : m = (IF half < 1 THEN 1 ELSE half)
  BY <1>1
<1>3. Max({half, 1}) = m
  BY <1>1, <1>2, MaxOfTwo
<1>4. m - (NumCtx - NumCtx) = m
  BY <1>2, ContextSize
<1>5. ShiftDiscard(NumCtx, keep) = Max({0, m})
  BY <1>3, <1>4 DEF ShiftDiscard, half
<1>6. Max({0, m}) = m /\ m # 0
  BY <1>1, <1>2, MaxOfTwo
<1> QED BY <1>1, <1>2, <1>5, <1>6

(* A batch takes no more inputs than there are, and than there is room for.*)
LEMMA BatchFits ==
  ASSUME NEW a \in Seq(Tokens), NEW room \in Nat
  PROVE  BatchLen(a, room) \in 0 .. Len(a) /\ BatchLen(a, room) <= room
<1> DEFINE T == {Len(a), BatchSize, room}
           m == Most(a, room)
           U == {n \in 0 .. m : \A k \in 2 .. n : a[k] \in Images => a[k - 1] \in Images}
<1>1. T \subseteq Nat /\ T # {}
  BY RunnerAssumption
<1>2. Min(T) \in T /\ \A x \in T : Min(T) <= x
  <2> HIDE DEF T
  <2> QED BY <1>1, MinFound
<1>3. m = Min(T)
  BY DEF Most
<1>4. m \in Nat /\ m <= Len(a) /\ m <= room
  BY <1>1, <1>2, <1>3
<1> HIDE DEF m, T
<1>5. U \subseteq 0 .. m /\ 0 \in U
  BY <1>4
<1>6. BatchLen(a, room) = Max(U)
  BY DEF BatchLen, m
<1> HIDE DEF U
<1>7. Max(U) \in 0 .. m
  BY <1>4, <1>5, MaxFound
<1> QED BY <1>4, <1>6, <1>7

(* A sequence has n inputs in the batch, behind the inputs a of its slot.  *)
ToBatch(sl, sq, i, a, n, p, tl, tq) ==
  /\ SeatsOK(sl, sq) /\ InShare(sl, sq) /\ Prompts(sl, sq) /\ sq[i] # NoSeq /\ Ready(sq[i])
  /\ a \in Seq(Tokens) /\ n \in 0 .. Len(sq[i].inputs) /\ Len(a) + n <= NumCtx
  /\ sq[i].numPredicted = 0 => a = sl[sq[i].slot].inputs
  /\ p \in Sequence /\ p.slot = sq[i].slot /\ p.req = sq[i].req
  /\ p.numPredicted = sq[i].numPredicted
  /\ p.inputs = SubSeq(sq[i].inputs, n + 1, Len(sq[i].inputs))
  /\ p.pendingInputs = SubSeq(sq[i].inputs, 1, n)
  /\ tl \in [Slots -> SlotOK] /\ tl[sq[i].slot].inputs = a
  /\ \A t \in Slots : tl[t].inUse = sl[t].inUse
  /\ \A t \in Slots : t # sq[i].slot => tl[t].inputs = sl[t].inputs
  /\ tq \in [Seats -> Sequence \cup {NoSeq}] /\ tq[i] = p
  /\ \A k \in Seats : k # i => tq[k] = sq[k]

(* Then the seats, the slots and the prompts still agree.                  *)
LEMMA Batched ==
  ASSUME NEW sl, NEW sq, NEW i \in Seats, NEW a, NEW n, NEW p, NEW tl, NEW tq,
         ToBatch(sl, sq, i, a, n, p, tl, tq)
  PROVE  /\ SeatsOK(tl, tq) /\ InShare(tl, tq) /\ Prompts(tl, tq)
         /\ p # NoSeq /\ p.req = sq[i].req /\ (n = 0 => Ready(p))
<1> USE DEF ToBatch
<1> DEFINE q == sq[i]
           s == q.slot
           x == SubSeq(q.inputs, 1, n)
           y == SubSeq(q.inputs, n + 1, Len(q.inputs))
<1>1. /\ q \in Sequence /\ s \in Slots /\ q.inputs \in Seq(Tokens)
      /\ sl \in [Slots -> SlotOK] /\ sq \in [Seats -> Sequence \cup {NoSeq}]
      /\ q.pendingInputs = <<>> /\ q.inputs # <<>> /\ Len(q.inputs) \in Nat
  BY DEF SeatsOK, Sequence, Ready
<1>2. /\ x \in Seq(Tokens) /\ Len(x) = n /\ y \in Seq(Tokens) /\ x \o y = q.inputs
      /\ n = 0 => x = <<>> /\ y = q.inputs
  <2> HIDE DEF q
  <2>1. \A k \in 1 .. Len(q.inputs) : q.inputs[k] \in Tokens
    BY <1>1
  <2>2. n \in 0 .. Len(q.inputs)
    BY DEF q
  <2>3. x \in Seq(Tokens) /\ Len(x) = n
    <3>1. \A k \in 1 .. n : q.inputs[k] \in Tokens
      BY <1>1, <2>1, <2>2
    <3> QED BY <1>1, <2>2, <3>1, SubSeqProperties
  <2>4. y \in Seq(Tokens)
    <3>1. \A k \in n + 1 .. Len(q.inputs) : q.inputs[k] \in Tokens
      BY <1>1, <2>1, <2>2
    <3> QED BY <1>1, <2>2, <3>1, SubSeqProperties
  <2>5. x \o y = SubSeq(q.inputs, 1, Len(q.inputs))
    <3>1. 1 \in 1 .. Len(q.inputs) + 1 /\ n \in 1 - 1 .. Len(q.inputs)
           /\ Len(q.inputs) \in n .. Len(q.inputs)
      BY <1>1, <2>2
    <3> QED BY <1>1, <3>1, ConcatAdjacentSubSeq
  <2>6. SubSeq(q.inputs, 1, Len(q.inputs)) = q.inputs
    BY <1>1, SubSeqFull
  <2>7. ASSUME n = 0 PROVE x = <<>> /\ y = q.inputs
    <3>1. n + 1 = 1
      BY <2>7
    <3>2. y = SubSeq(q.inputs, 1, Len(q.inputs))
      BY <3>1
    <3> QED BY <2>3, <2>6, <2>7, <3>2, EmptySeq
  <2> QED BY <2>3, <2>4, <2>5, <2>6, <2>7
<1> HIDE DEF x, y
<1>3. /\ p \in Sequence /\ p.slot = s /\ p.req = q.req /\ p.inputs = y
      /\ p.pendingInputs = x /\ p.numPredicted = q.numPredicted /\ p # NoSeq
  BY NoSeqDiffers DEF x, y
<1>4. /\ tl \in [Slots -> SlotOK] /\ tl[s].inputs = a
      /\ \A t \in Slots : tl[t].inUse = sl[t].inUse
      /\ \A t \in Slots : t # s => tl[t].inputs = sl[t].inputs
  OBVIOUS
<1>5. /\ tq \in [Seats -> Sequence \cup {NoSeq}] /\ tq[i] = p
      /\ \A k \in Seats : k # i => tq[k] = sq[k]
  OBVIOUS
<1>6. \A k \in Seats : k # i /\ sq[k] # NoSeq => sq[k].slot # s /\ sq[k].slot \in Slots
  BY NoSeqDiffers DEF SeatsOK, Apart, Sequence
<1> HIDE DEF s
<1>7. SeatsOK(tl, tq)
  <2>1. Apart(tq)
    BY <1>3, <1>5 DEF SeatsOK, Apart, s
  <2>2. UsedBySeats(tl, tq)
    BY <1>3, <1>4, <1>5 DEF SeatsOK, UsedBySeats, s
  <2> QED BY <1>4, <1>5, <2>1, <2>2 DEF SeatsOK
<1>8. InShare(tl, tq)
  <2>1. Len(a) \in Nat /\ n \in Nat
    BY <1>2
  <2>2. Len(a) <= NumCtx
    BY <2>1, ContextSize
  <2>3. \A t \in Slots : Len(tl[t].inputs) <= NumCtx
    BY <1>4, <2>2 DEF InShare
  <2>4. ASSUME NEW k \in Seats, tq[k] # NoSeq
        PROVE  Len(tl[tq[k].slot].inputs) + Len(tq[k].pendingInputs) <= NumCtx
    <3>1. CASE k = i
      <4>1. Len(tl[tq[k].slot].inputs) = Len(a) /\ Len(tq[k].pendingInputs) = n
        BY <1>2, <1>3, <1>4, <1>5, <3>1
      <4> QED BY <4>1, Zenon
    <3>2. CASE k # i
      <4>1. tq[k] = sq[k] /\ tl[sq[k].slot].inputs = sl[sq[k].slot].inputs
        BY <1>4, <1>5, <1>6, <2>4, <3>2
      <4> QED BY <2>4, <4>1 DEF InShare
    <3> QED BY <3>1, <3>2
  <2> QED BY <2>3, <2>4 DEF InShare
<1>9. Prompts(tl, tq)
  <2> SUFFICES ASSUME NEW k \in Seats, tq[k] # NoSeq, tq[k].numPredicted = 0
               PROVE  tl[tq[k].slot].inputs \o tq[k].pendingInputs \o tq[k].inputs
                        = job[tq[k].req].prompt
    BY DEF Prompts
  <2>1. CASE k = i
    <3>1. q.numPredicted = 0 /\ a = sl[s].inputs
      BY <1>3, <1>5, <2>1 DEF s
    <3>2. a \o <<>> \o q.inputs = job[q.req].prompt
      BY <1>1, <3>1 DEF Prompts, s
    <3>3. a \o <<>> = a
      BY ConcatEmptySeq
    <3>4. (a \o x) \o y = a \o (x \o y)
      <4>1. x \in Seq(Tokens) /\ y \in Seq(Tokens)
        BY <1>2
      <4>2. PICK b, c : b = x /\ c = y
        OBVIOUS
      <4>3. a \in Seq(Tokens) /\ b \in Seq(Tokens) /\ c \in Seq(Tokens)
        BY <4>1, <4>2
      <4>4. (a \o b) \o c = a \o (b \o c)
        BY <4>3, Rebracket
      <4> QED BY <4>2, <4>4
    <3>5. (a \o x) \o y = job[q.req].prompt
      BY <1>2, <3>2, <3>3, <3>4
    <3> QED BY <1>3, <1>4, <1>5, <2>1, <3>5
  <2>2. CASE k # i
    <3>1. tq[k] = sq[k] /\ tl[sq[k].slot].inputs = sl[sq[k].slot].inputs
      BY <1>4, <1>5, <1>6, <2>2
    <3> QED BY <3>1, ZenonT(40) DEF Prompts
  <2> QED BY <2>1, <2>2
<1>10. n = 0 => Ready(p)
  BY <1>1, <1>2, <1>3 DEF Ready
<1> QED BY <1>3, <1>7, <1>8, <1>9, <1>10

(* A sequence that reached its limit leaves its seat and its slot.         *)
LEMMA Dropped ==
  ASSUME NEW sl, NEW sq, SeatsOK(sl, sq), InShare(sl, sq), Prompts(sl, sq),
         NEW i \in Seats, sq[i] # NoSeq,
         NEW tl, tl = [sl EXCEPT ![sq[i].slot].inUse = FALSE],
         NEW tq, tq = [sq EXCEPT ![i] = NoSeq]
  PROVE  SeatsOK(tl, tq) /\ InShare(tl, tq) /\ Prompts(tl, tq)
<1> DEFINE s == sq[i].slot
<1>1. /\ sq[i] \in Sequence /\ s \in Slots
      /\ sl \in [Slots -> SlotOK] /\ sq \in [Seats -> Sequence \cup {NoSeq}]
  BY DEF SeatsOK, Sequence
<1>2. /\ tl \in [Slots -> SlotOK] /\ ~tl[s].inUse
      /\ \A t \in Slots : tl[t].inputs = sl[t].inputs
      /\ \A t \in Slots : t # s => tl[t].inUse = sl[t].inUse
  <2> DEFINE u == [sl[s] EXCEPT !.inUse = FALSE]
  <2>1. u \in SlotOK /\ u.inUse = FALSE /\ u.inputs = sl[s].inputs
    BY <1>1 DEF SlotOK
  <2>2. tl = [sl EXCEPT ![s] = u]
    OBVIOUS
  <2> HIDE DEF u, s
  <2> QED BY <1>1, <2>1, <2>2
<1>3. /\ tq \in [Seats -> Sequence \cup {NoSeq}] /\ tq[i] = NoSeq
      /\ \A k \in Seats : k # i => tq[k] = sq[k]
  BY <1>1
<1>4. \A k \in Seats : tq[k] # NoSeq => k # i /\ tq[k] = sq[k] /\ sq[k] \in Sequence
  BY <1>1, <1>3
<1>5. \A k \in Seats : k # i /\ sq[k] # NoSeq => sq[k].slot # s /\ sq[k].slot \in Slots
  BY NoSeqDiffers DEF SeatsOK, Apart, Sequence
<1>6. SeatsOK(tl, tq)
  <2>1. Apart(tq)
    BY <1>4 DEF SeatsOK, Apart
  <2>2. UsedBySeats(tl, tq)
    <3> SUFFICES ASSUME NEW t \in Slots
                 PROVE  tl[t].inUse <=> \E k \in Seats : tq[k] # NoSeq /\ tq[k].slot = t
      BY DEF UsedBySeats
    <3>1. sl[t].inUse <=> \E k \in Seats : sq[k] # NoSeq /\ sq[k].slot = t
      BY DEF SeatsOK, UsedBySeats
    <3>2. CASE t = s
      BY <1>2, <1>3, <1>5, <3>2
    <3>3. CASE t # s
      BY <1>2, <1>3, <3>1, <3>3
    <3> QED BY <3>2, <3>3
  <2> QED BY <1>2, <1>3, <2>1, <2>2 DEF SeatsOK
<1>7. InShare(tl, tq)
  <2>1. \A t \in Slots : Len(tl[t].inputs) <= NumCtx
    BY <1>2 DEF InShare
  <2>2. \A k \in Seats : tq[k] # NoSeq =>
           Len(tl[tq[k].slot].inputs) + Len(tq[k].pendingInputs) <= NumCtx
    BY <1>2, <1>4, <1>5 DEF InShare
  <2> QED BY <2>1, <2>2 DEF InShare
<1>8. Prompts(tl, tq)
  <2> SUFFICES ASSUME NEW k \in Seats, tq[k] # NoSeq, tq[k].numPredicted = 0
               PROVE  tl[tq[k].slot].inputs \o tq[k].pendingInputs \o tq[k].inputs
                        = job[tq[k].req].prompt
    BY DEF Prompts
  <2>1. tq[k] = sq[k] /\ sq[k] # NoSeq /\ tl[sq[k].slot].inputs = sl[sq[k].slot].inputs
    BY <1>2, <1>4, <1>5
  <2> QED BY <2>1 DEF Prompts
<1> QED BY <1>6, <1>7, <1>8

(* Gather so far: what is known of the state g that its first loop builds  *)
(* up, when the turns from the n-th on are still to come.                  *)
GatherState(g) ==
  g = [cache |-> g.cache, slots |-> g.slots, seqs |-> g.seqs, batch |-> g.batch,
       nextSeq |-> g.nextSeq, failed |-> g.failed]
BatchInput == [slot : Slots, pos : Int, tok : Tokens]
GatherInv(g) ==
  /\ SeatsOK(g.slots, g.seqs) /\ InShare(g.slots, g.seqs) /\ Prompts(g.slots, g.seqs)
  /\ g.nextSeq \in Seats /\ g.batch \in Seq(BatchInput)
  /\ \A i \in Seats :
       g.seqs[i] # NoSeq =>
         /\ seqs[i] # NoSeq /\ g.seqs[i].req = seqs[i].req
         /\ g.batch = <<>> => Ready(g.seqs[i])
GatherOK(g, n) ==
  /\ GatherState(g) /\ GatherInv(g)
  /\ \A k \in n .. Parallel - 1 :
       g.seqs[(nextSeq + k) % Parallel] = seqs[(nextSeq + k) % Parallel]

(* A sequence's turn to be batched.                                        *)
LEMMA GatherTurn ==
  ASSUME JobsOK, Served, NEW g, NEW i \in Seats, GatherState(g), GatherInv(g),
         g.seqs[i] # NoSeq => Ready(g.seqs[i]), NEW h, h = GatherSeq(g, i)
  PROVE  /\ GatherState(h) /\ GatherInv(h)
         /\ \A k \in Seats : k # i => h.seqs[k] = g.seqs[k]
<1> DEFINE q == g.seqs[i]
           j == job[q.req]
           stored == g.slots[q.slot].inputs
           discard == IF Len(stored) + 1 > NumCtx THEN ShiftDiscard(Len(stored), j.numKeep) ELSE 0
           inputs == IF discard = 0 THEN stored ELSE Without(stored, j.numKeep, discard)
           shifted == IF discard = 0 THEN g.cache
                      ELSE Remove(g.cache, q.slot, j.numKeep, j.numKeep + discard)
           room == NumCtx - Len(inputs)
           n == BatchLen(q.inputs, room)
           added == [k \in 1 .. n |-> [slot |-> q.slot, pos |-> Len(inputs) + k - 1,
                                       tok |-> q.inputs[k]]]
<1>1. CASE h = g
  BY <1>1
<1>2. CASE h = [g EXCEPT !.cache = shifted, !.failed = TRUE]
  <2> HIDE DEF shifted
  <2>1. /\ GatherState(h) /\ h.slots = g.slots /\ h.seqs = g.seqs
        /\ h.batch = g.batch /\ h.nextSeq = g.nextSeq
    BY <1>2 DEF GatherState
  <2> QED BY <2>1 DEF GatherInv
<1>3. CASE q # NoSeq /\ h = [g EXCEPT !.seqs[i] = NoSeq, !.slots[q.slot].inUse = FALSE]
  <2>1. /\ GatherState(h) /\ h.batch = g.batch /\ h.nextSeq = g.nextSeq
        /\ h.seqs = [g.seqs EXCEPT ![i] = NoSeq]
        /\ h.slots = [g.slots EXCEPT ![q.slot].inUse = FALSE]
    BY <1>3 DEF GatherState
  <2>2. SeatsOK(h.slots, h.seqs) /\ InShare(h.slots, h.seqs) /\ Prompts(h.slots, h.seqs)
    <3>1. PICK sl, sq, tl, tq : sl = g.slots /\ sq = g.seqs /\ tl = h.slots /\ tq = h.seqs
      OBVIOUS
    <3>2. /\ SeatsOK(sl, sq) /\ InShare(sl, sq) /\ Prompts(sl, sq) /\ sq[i] # NoSeq
          /\ tl = [sl EXCEPT ![sq[i].slot].inUse = FALSE] /\ tq = [sq EXCEPT ![i] = NoSeq]
      BY <1>3, <2>1, <3>1 DEF GatherInv
    <3>3. SeatsOK(tl, tq) /\ InShare(tl, tq) /\ Prompts(tl, tq)
      BY <3>2, Dropped
    <3> QED BY <3>1, <3>3
  <2>3. h.seqs[i] = NoSeq /\ \A k \in Seats : k # i => h.seqs[k] = g.seqs[k]
    BY <2>1 DEF GatherInv, SeatsOK
  <2> QED BY <2>1, <2>2, <2>3 DEF GatherInv
<1>4. CASE /\ q # NoSeq
           /\ h = [g EXCEPT !.cache = shifted, !.slots[q.slot].inputs = inputs,
                            !.batch = @ \o added,
                            !.nextSeq = IF n < Most(q.inputs, room) THEN i ELSE @,
                            !.seqs[i] = [q EXCEPT !.inputs = SubSeq(@, n + 1, Len(@)),
                                                  !.pendingInputs = SubSeq(q.inputs, 1, n)]]
  <2>1. /\ q \in Sequence /\ q.slot \in Slots /\ q.inputs \in Seq(Tokens) /\ q.req \in Requests
        /\ Ready(q) /\ stored \in Seq(Tokens) /\ Len(stored) <= NumCtx
        /\ seqs[i] # NoSeq /\ q.req = seqs[i].req
        /\ g.seqs \in [Seats -> Sequence \cup {NoSeq}] /\ g.slots \in [Slots -> SlotOK]
    <3>1. /\ g.seqs \in [Seats -> Sequence \cup {NoSeq}] /\ g.slots \in [Slots -> SlotOK]
          /\ \A t \in Slots : Len(g.slots[t].inputs) <= NumCtx
      BY DEF GatherInv, SeatsOK, InShare
    <3>2. q \in Sequence /\ Ready(q) /\ seqs[i] # NoSeq /\ q.req = seqs[i].req
      BY <1>4, <3>1 DEF GatherInv
    <3>3. q.slot \in Slots /\ q.inputs \in Seq(Tokens) /\ q.req \in Requests
      BY <3>2 DEF Sequence
    <3>4. g.slots[q.slot] \in SlotOK
      BY <3>1, <3>3
    <3>5. stored \in Seq(Tokens) /\ Len(stored) <= NumCtx
      BY <3>1, <3>3, <3>4 DEF SlotOK
    <3> QED BY <3>1, <3>2, <3>3, <3>5
  <2>2. j.numKeep \in 0 .. NumCtx - 1 /\ Len(j.prompt) <= NumCtx
    <3>1. pc[q.req] \in {"serving", "gone"}
      BY <2>1 DEF Served
    <3>2. PICK r \in Requests : r = q.req
      BY <2>1
    <3>3. job[r].numKeep \in 0 .. NumCtx - 1 /\ Len(job[r].prompt) \in 1 .. NumCtx
      BY <3>1, <3>2 DEF JobsOK
    <3> QED BY <3>2, <3>3, ContextSize
  <2> HIDE DEF j, stored, q
  <2>3. q.numPredicted = 0 => Len(stored) + 1 <= NumCtx
    <3> SUFFICES ASSUME q.numPredicted = 0 PROVE Len(stored) + 1 <= NumCtx
      OBVIOUS
    <3>1. stored \o <<>> \o q.inputs = j.prompt
      BY <1>4, <2>1 DEF GatherInv, Prompts, Ready, stored, j, q
    <3>2. stored \o <<>> = stored
      BY <2>1, ConcatEmptySeq
    <3>3. Len(stored \o q.inputs) = Len(stored) + Len(q.inputs)
      BY <2>1, ConcatProperties
    <3>4. Len(q.inputs) \in Nat \ {0} /\ Len(stored) \in Nat
      BY <2>1, EmptySeq DEF Ready
    <3>5. Len(stored) + Len(q.inputs) <= NumCtx
      BY <2>2, <3>1, <3>2, <3>3
    <3> QED BY <3>4, <3>5, ContextSize
  <2>4. /\ inputs \in Seq(Tokens) /\ Len(inputs) <= NumCtx
        /\ q.numPredicted = 0 => inputs = stored
    <3>1. CASE Len(stored) + 1 > NumCtx
      <4>1. Len(stored) = NumCtx
        BY <2>1, <3>1, ContextSize
      <4>2. discard = ShiftDiscard(NumCtx, j.numKeep)
        BY <3>1, <4>1
      <4>3. discard \in Nat \ {0} /\ j.numKeep + discard <= Len(stored) /\ j.numKeep \in Nat
        <5>1. PICK keep : keep = j.numKeep
          OBVIOUS
        <5>2. keep \in 0 .. NumCtx - 1 /\ keep \in Nat
          BY <2>2, <5>1, ContextSize
        <5>3. /\ ShiftDiscard(NumCtx, keep) \in Nat \ {0}
              /\ keep + ShiftDiscard(NumCtx, keep) <= NumCtx
          BY <5>2, DiscardFits
        <5> HIDE DEF discard
        <5> QED BY <4>1, <4>2, <5>1, <5>2, <5>3
      <4> HIDE DEF discard
      <4>4. /\ Without(stored, j.numKeep, discard) \in Seq(Tokens)
            /\ Len(Without(stored, j.numKeep, discard)) = Len(stored) - discard
        BY <2>1, <4>3, WithoutShorter
      <4>5. inputs = Without(stored, j.numKeep, discard)
        BY <4>3
      <4>6. Len(stored) - discard <= NumCtx
        BY <4>1, <4>3, ContextSize
      <4>7. q.numPredicted # 0
        BY <2>3, <3>1, <4>1, ContextSize
      <4> QED BY <4>4, <4>5, <4>6, <4>7
    <3>2. CASE ~(Len(stored) + 1 > NumCtx)
      BY <2>1, <3>2
    <3> QED BY <3>1, <3>2
  <2> HIDE DEF inputs, discard, shifted
  <2>5. room \in Nat /\ Len(inputs) \in Nat
    BY <2>4, ContextSize
  <2>6. n \in 0 .. Len(q.inputs) /\ n <= room
    <3> HIDE DEF room
    <3> QED BY <2>1, <2>5, BatchFits
  <2>7. Len(inputs) + n <= NumCtx /\ n \in Nat
    <3>1. Len(q.inputs) \in Nat
      BY <2>1
    <3> HIDE DEF n
    <3> QED BY <2>5, <2>6, <3>1, ContextSize
  <2> DEFINE x == SubSeq(q.inputs, n + 1, Len(q.inputs))
             y == SubSeq(q.inputs, 1, n)
             p == [q EXCEPT !.inputs = x, !.pendingInputs = y]
             next == IF n < Most(q.inputs, room) THEN i ELSE g.nextSeq
  <2>8. added \in Seq(BatchInput) /\ Len(added) = n
    <3> HIDE DEF n
    <3>1. \A k \in 1 .. n : [slot |-> q.slot, pos |-> Len(inputs) + k - 1, tok |-> q.inputs[k]]
                              \in BatchInput
      BY <2>1, <2>5, <2>6, <2>7 DEF BatchInput
    <3> QED BY <2>7, <3>1
  <2>8a. x \in Seq(Tokens) /\ y \in Seq(Tokens)
    <3> HIDE DEF n
    <3>1. n + 1 \in Int /\ Len(q.inputs) \in Int /\ n \in Int
      BY <2>1, <2>7
    <3>2. \A k \in 1 .. n : q.inputs[k] \in Tokens
      BY <2>1, <2>6, <3>1
    <3>3. \A k \in n + 1 .. Len(q.inputs) : q.inputs[k] \in Tokens
      BY <2>1, <2>6, <3>1
    <3>4. x \in Seq(Tokens)
      BY <3>1, <3>3, SubSeqProperties
    <3>5. y \in Seq(Tokens)
      BY <3>1, <3>2, SubSeqProperties
    <3> QED BY <3>4, <3>5
  <2> HIDE DEF n, added, x, y
  <2>9. /\ GatherState(h)
        /\ h.seqs = [g.seqs EXCEPT ![i] = p]
        /\ h.slots = [g.slots EXCEPT ![q.slot].inputs = inputs]
        /\ h.batch = g.batch \o added /\ h.nextSeq \in {i, g.nextSeq}
    <3>1. h = [g EXCEPT !.cache = shifted, !.slots[q.slot].inputs = inputs,
                        !.batch = @ \o added, !.nextSeq = next, !.seqs[i] = p]
      BY <1>4 DEF x, y
    <3>2. next \in {i, g.nextSeq}
      OBVIOUS
    <3> HIDE DEF next, p
    <3> QED BY <3>1, <3>2 DEF GatherState
  <2>10. /\ SeatsOK(h.slots, h.seqs) /\ InShare(h.slots, h.seqs) /\ Prompts(h.slots, h.seqs)
         /\ p # NoSeq /\ p.req = q.req /\ (n = 0 => Ready(p))
    <3>1. PICK sl, sq, tl, tq, a, m, z : /\ sl = g.slots /\ sq = g.seqs
                                         /\ tl = h.slots /\ tq = h.seqs
                                         /\ a = inputs /\ m = n /\ z = p
      OBVIOUS
    <3>2. sq[i] = q /\ sl[sq[i].slot].inputs = stored
      BY <3>1 DEF q, stored
    <3>3. SeatsOK(sl, sq) /\ InShare(sl, sq) /\ Prompts(sl, sq) /\ sq[i] # NoSeq /\ Ready(sq[i])
      BY <1>4, <2>1, <3>1, <3>2 DEF GatherInv
    <3>4. /\ a \in Seq(Tokens) /\ m \in 0 .. Len(sq[i].inputs) /\ Len(a) + m <= NumCtx
          /\ sq[i].numPredicted = 0 => a = sl[sq[i].slot].inputs
      BY <2>4, <2>6, <2>7, <3>1, <3>2
    <3>5. /\ z \in Sequence /\ z.slot = sq[i].slot /\ z.req = sq[i].req
          /\ z.numPredicted = sq[i].numPredicted
          /\ z.inputs = SubSeq(sq[i].inputs, m + 1, Len(sq[i].inputs))
          /\ z.pendingInputs = SubSeq(sq[i].inputs, 1, m)
      <4>1. z.inputs = x /\ z.pendingInputs = y /\ z \in Sequence
            /\ z.slot = q.slot /\ z.req = q.req /\ z.numPredicted = q.numPredicted
        <5>1. PICK b, c, v : b = x /\ c = y /\ v = q
          OBVIOUS
        <5>2. v \in Sequence /\ b \in Seq(Tokens) /\ c \in Seq(Tokens)
              /\ z = [v EXCEPT !.inputs = b, !.pendingInputs = c]
          BY <2>1, <2>8a, <3>1, <5>1
        <5>3. /\ z \in Sequence /\ z.inputs = b /\ z.pendingInputs = c
              /\ z.slot = v.slot /\ z.req = v.req /\ z.numPredicted = v.numPredicted
          BY <5>2 DEF Sequence
        <5> QED BY <5>1, <5>3
      <4> QED BY <3>1, <3>2, <4>1 DEF x, y
    <3>7. /\ tl \in [Slots -> SlotOK] /\ tl[sq[i].slot].inputs = a
          /\ \A t \in Slots : tl[t].inUse = sl[t].inUse
          /\ \A t \in Slots : t # sq[i].slot => tl[t].inputs = sl[t].inputs
      <4>1. PICK u, s : u = [sl[q.slot] EXCEPT !.inputs = a] /\ s = q.slot
        OBVIOUS
      <4>2. sl \in [Slots -> SlotOK] /\ s \in Slots /\ a \in Seq(Tokens)
        BY <2>1, <3>1, <3>4, <4>1
      <4>3. tl = [sl EXCEPT ![s] = u]
        BY <2>9, <3>1, <4>1
      <4>4. u \in SlotOK /\ u.inputs = a /\ u.inUse = sl[s].inUse
        BY <4>1, <4>2 DEF SlotOK
      <4>5. sq[i].slot = s
        BY <3>2, <4>1
      <4> QED BY <4>2, <4>3, <4>4, <4>5
    <3>8. /\ tq \in [Seats -> Sequence \cup {NoSeq}] /\ tq[i] = z
          /\ \A k \in Seats : k # i => tq[k] = sq[k]
      <4>1. tq = [sq EXCEPT ![i] = z] /\ sq \in [Seats -> Sequence \cup {NoSeq}]
        BY <2>1, <2>9, <3>1
      <4> QED BY <3>5, <4>1
    <3>6. /\ SeatsOK(tl, tq) /\ InShare(tl, tq) /\ Prompts(tl, tq)
          /\ z # NoSeq /\ z.req = sq[i].req /\ (m = 0 => Ready(z))
      <4>1. ToBatch(sl, sq, i, a, m, z, tl, tq)
        BY <3>3, <3>4, <3>5, <3>7, <3>8 DEF ToBatch
      <4> QED BY <4>1, Batched
    <3> HIDE DEF p
    <3> QED BY <3>1, <3>2, <3>6
  <2> HIDE DEF p
  <2>11. h.seqs[i] = p /\ \A k \in Seats : k # i => h.seqs[k] = g.seqs[k]
    BY <2>1, <2>9
  <2>12. h.batch \in Seq(BatchInput) /\ (h.batch = <<>> => g.batch = <<>> /\ n = 0)
    <3>1. g.batch \in Seq(BatchInput)
      BY DEF GatherInv
    <3>2. g.batch \o added \in Seq(BatchInput) /\ Len(g.batch \o added) = Len(g.batch) + Len(added)
      BY <2>8, <3>1, ConcatProperties
    <3>3. Len(g.batch) \in Nat /\ Len(added) \in Nat
      BY <2>8, <3>1
    <3>4. Len(g.batch \o added) = 0 => Len(g.batch) = 0 /\ Len(added) = 0
      BY <3>2, <3>3
    <3>5. Len(g.batch) = 0 => g.batch = <<>>
      BY <3>1, EmptySeq
    <3> QED BY <2>8, <2>9, <3>2, <3>4, <3>5
  <2> QED BY <2>1, <2>9, <2>10, <2>11, <2>12 DEF GatherInv
<1>5. \/ h = g
      \/ h = [g EXCEPT !.cache = shifted, !.failed = TRUE]
      \/ q # NoSeq /\ h = [g EXCEPT !.seqs[i] = NoSeq, !.slots[q.slot].inUse = FALSE]
      \/ /\ q # NoSeq
         /\ h = [g EXCEPT !.cache = shifted, !.slots[q.slot].inputs = inputs,
                          !.batch = @ \o added,
                          !.nextSeq = IF n < Most(q.inputs, room) THEN i ELSE @,
                          !.seqs[i] = [q EXCEPT !.inputs = SubSeq(@, n + 1, Len(@)),
                                                !.pendingInputs = SubSeq(q.inputs, 1, n)]]
  BY Zenon DEF GatherSeq
<1> QED BY <1>1, <1>2, <1>3, <1>4, <1>5

(* Each turn leads to the next one.                                        *)
LEMMA GatherNext ==
  ASSUME RunnerInv, phase = "idle", panic = "no",
         NEW g, NEW n \in 0 .. Parallel - 1, GatherOK(g, n),
         NEW h, h = GatherSeq(g, (nextSeq + n) % Parallel)
  PROVE  GatherOK(h, n + 1)
<1>1. PICK i : i = (nextSeq + n) % Parallel
  OBVIOUS
<1>2. PICK a \in Seats : a = nextSeq
  BY DEF RunnerInv, ControlOK
<1>3. i \in Seats
  BY <1>1, <1>2, RoundRobin
<1>4. g.seqs[i] = seqs[i]
  BY <1>1, ContextSize DEF GatherOK
<1>5. g.seqs[i] # NoSeq => Ready(g.seqs[i])
  BY <1>3, <1>4 DEF RunnerInv, Waiting
<1>6. h = GatherSeq(g, i)
  BY <1>1
<1>7. /\ GatherState(h) /\ GatherInv(h)
      /\ \A k \in Seats : k # i => h.seqs[k] = g.seqs[k]
  BY <1>3, <1>5, <1>6, GatherTurn DEF RunnerInv, GatherOK
<1>8. ASSUME NEW k \in n + 1 .. Parallel - 1
      PROVE  h.seqs[(nextSeq + k) % Parallel] = seqs[(nextSeq + k) % Parallel]
  <2>1. k \in n .. Parallel - 1 /\ k \in 0 .. Parallel - 1 /\ k # n
    BY ContextSize
  <2>2. (a + k) % Parallel \in Seats
    BY <2>1, RoundRobin
  <2>3. (a + k) % Parallel # (a + n) % Parallel
    <3>1. (a + k) % Parallel = IF a + k < Parallel THEN a + k ELSE a + k - Parallel
      BY <2>1, RoundRobin
    <3>2. (a + n) % Parallel = IF a + n < Parallel THEN a + n ELSE a + n - Parallel
      BY RoundRobin
    <3>3. a \in 0 .. Parallel - 1
      BY DEF Seats, Slots
    <3> QED BY <2>1, <3>1, <3>2, <3>3, ContextSize
  <2>4. h.seqs[(a + k) % Parallel] = g.seqs[(a + k) % Parallel]
    BY <1>1, <1>2, <1>7, <2>2, <2>3
  <2>5. g.seqs[(nextSeq + k) % Parallel] = seqs[(nextSeq + k) % Parallel]
    BY <2>1 DEF GatherOK
  <2> QED BY <1>2, <2>4, <2>5
<1> QED BY <1>7, <1>8 DEF GatherOK

(* The state that the first loop starts from, and its turns.               *)
GatherStart ==
  [cache |-> cache, slots |-> slots, seqs |-> seqs, batch |-> <<>>,
   nextSeq |-> nextSeq, failed |-> FALSE]
Turns(m, f) ==
  f = [n \in 0 .. m |->
         IF n = 0 THEN GatherStart ELSE GatherSeq(f[n - 1], (nextSeq + n - 1) % Parallel)]

(* The recursive function that Gathered is made of exists: if there were a *)
(* least number of turns without one, a turn could be added to the ones    *)
(* before.                                                                 *)
LEMMA TurnsExist == \A m \in Nat : \E f : Turns(m, f)
<1> SUFFICES ASSUME NEW n \in Nat, ~ \E f : Turns(n, f) PROVE FALSE
  OBVIOUS
<1> DEFINE T == {k \in Nat : ~ \E f : Turns(k, f)}
<1>1. PICK m \in T : \A k \in T : m <= k
  <2>1. T \subseteq Nat /\ T # {}
    OBVIOUS
  <2> HIDE DEF T
  <2> QED BY <2>1, LeastElement
<1>2. CASE m = 0
  <2>1. Turns(0, [k \in 0 .. 0 |-> GatherStart])
    BY DEF Turns
  <2> QED BY <1>2, <2>1
<1>3. CASE m # 0
  <2>1. PICK f : Turns(m - 1, f)
    BY <1>1, <1>3
  <2> DEFINE g == [k \in 0 .. m |-> IF k = m THEN GatherSeq(f[m - 1], (nextSeq + m - 1) % Parallel)
                                    ELSE f[k]]
  <2>2. Turns(m, g)
    BY <1>3, <2>1 DEF Turns
  <2> QED BY <2>2
<1> QED BY <1>2, <1>3

(* What Gathered returns keeps the agreement, by induction over the turns. *)
LEMMA GatheredOK ==
  ASSUME RunnerInv, phase = "idle", panic = "no"
  PROVE  GatherOK(Gathered, Parallel)
<1> DEFINE turn == CHOOSE t : t = [n \in 0 .. Parallel |->
                     IF n = 0 THEN GatherStart
                     ELSE GatherSeq(t[n - 1], (nextSeq + n - 1) % Parallel)]
<1>1. Turns(Parallel, turn)
  BY TurnsExist, ContextSize DEF Turns
<1>2. Gathered = turn[Parallel]
  BY DEF Gathered, GatherStart
<1>3. PICK t : t = turn
  OBVIOUS
<1> HIDE DEF turn
<1>4. t = [n \in 0 .. Parallel |->
             IF n = 0 THEN GatherStart ELSE GatherSeq(t[n - 1], (nextSeq + n - 1) % Parallel)]
  BY <1>1, <1>3 DEF Turns
<1>5. GatherOK(t[0], 0)
  <2>1. t[0] = GatherStart
    BY <1>4, ContextSize
  <2>2. GatherState(GatherStart)
    BY DEF GatherState, GatherStart
  <2>3. /\ GatherStart.slots = slots /\ GatherStart.seqs = seqs
        /\ GatherStart.batch = <<>> /\ GatherStart.nextSeq = nextSeq
    BY DEF GatherStart
  <2>4. GatherInv(GatherStart)
    <3>1. <<>> \in Seq(BatchInput)
      OBVIOUS
    <3> QED BY <2>3, <3>1 DEF GatherInv, RunnerInv, ControlOK, Waiting
  <2> QED BY <2>1, <2>2, <2>3, <2>4 DEF GatherOK
<1>6. ASSUME NEW n \in 0 .. Parallel - 1, GatherOK(t[n], n)
      PROVE  GatherOK(t[n + 1], n + 1)
  <2>1. PICK g, h : g = t[n] /\ h = t[n + 1]
    OBVIOUS
  <2>2. n + 1 \in 0 .. Parallel /\ n + 1 # 0 /\ (n + 1) - 1 = n
    BY ContextSize
  <2>3. nextSeq + (n + 1) - 1 = nextSeq + n
    BY ContextSize DEF RunnerInv, ControlOK, Seats, Slots
  <2>4. h = GatherSeq(g, (nextSeq + n) % Parallel)
    BY <1>4, <2>1, <2>2, <2>3
  <2>5. GatherOK(g, n)
    BY <1>6, <2>1
  <2> QED BY <2>1, <2>4, <2>5, GatherNext
<1>7. \A n \in 0 .. Parallel : GatherOK(t[n], n)
  <2> SUFFICES ASSUME NEW b \in 0 .. Parallel, ~ GatherOK(t[b], b) PROVE FALSE
    OBVIOUS
  <2> DEFINE T == {k \in 0 .. Parallel : ~ GatherOK(t[k], k)}
  <2>1. PICK m \in T : \A k \in T : m <= k
    <3>1. T \subseteq Nat /\ T # {}
      BY ContextSize
    <3> HIDE DEF T
    <3> QED BY <3>1, LeastElement
  <2>2. m # 0
    BY <1>5
  <2>3. m - 1 \in 0 .. Parallel - 1 /\ m - 1 \in 0 .. Parallel /\ ~(m <= m - 1) /\ (m - 1) + 1 = m
    BY <2>2, ContextSize
  <2>4. GatherOK(t[m - 1], m - 1)
    BY <2>1, <2>3
  <2>5. GatherOK(t[m], m)
    BY <1>6, <2>3, <2>4
  <2> QED BY <2>5
<1>8. Parallel \in 0 .. Parallel
  BY ContextSize
<1> QED BY <1>2, <1>3, <1>7, <1>8

(* The whole of Gather.                                                    *)
LEMMA GatherStep ==
  ASSUME RunnerInv, panic = "no", Gather
  PROVE  RunnerInv'
<1>1. PICK g : g = Gathered
  OBVIOUS
<1>2. /\ phase = "idle" /\ slots' = g.slots /\ Retire(g.seqs) /\ nextSeq' = g.nextSeq
      /\ phase' = (IF g.batch = <<>> THEN "idle" ELSE "forward") /\ cur' = cur
  BY <1>1 DEF Gather
<1>3. GatherInv(g)
  BY <1>1, <1>2, GatheredOK DEF GatherOK
<1>4. seqs' = g.seqs /\ Retire(seqs')
  BY <1>2 DEF Retire
<1>5. /\ seqs' \in [Seats -> Sequence \cup {NoSeq}]
      /\ \A i \in Seats :
           seqs'[i] # NoSeq => seqs[i] # NoSeq /\ seqs'[i].req = seqs[i].req
  BY <1>3, <1>4 DEF GatherInv, SeatsOK
<1>6. /\ pc' \in [Requests -> {"new", "acquire", "load", "serving", "gone", "done"}]
      /\ seqsSem' \in Nat /\ JobsOK' /\ Served' /\ Permits'
      /\ \A k \in Seats : seqs'[k] # NoSeq => job'[seqs'[k].req] = job[seqs'[k].req]
  BY <1>4, <1>5, RetireKeeps DEF RunnerInv
<1>7. SeatsOK(slots, seqs)' /\ InShare(slots, seqs)'
  BY <1>2, <1>3, <1>4 DEF GatherInv, SeatsOK, Apart, UsedBySeats, InShare
<1>8. Prompts(slots, seqs)'
  <2> SUFFICES ASSUME NEW k \in Seats, seqs'[k] # NoSeq, seqs'[k].numPredicted = 0
               PROVE  slots'[seqs'[k].slot].inputs \o seqs'[k].pendingInputs \o seqs'[k].inputs
                        = job'[seqs'[k].req].prompt
    BY DEF Prompts
  <2>1. job'[seqs'[k].req] = job[seqs'[k].req]
    BY <1>6
  <2>2. Prompts(slots', seqs')
    BY <1>2, <1>3, <1>4 DEF GatherInv
  <2> QED BY <2>1, <2>2 DEF Prompts
<1>9. Waiting' /\ ControlOK'
  <2>1. Waiting'
    BY <1>2, <1>3, <1>4 DEF GatherInv, Waiting
  <2>2. ControlOK'
    BY <1>2, <1>3, <1>6 DEF GatherInv, RunnerInv, ControlOK
  <2> QED BY <2>1, <2>2
<1> QED BY <1>6, <1>7, <1>8, <1>9 DEF RunnerInv

-----------------------------------------------------------------------------
(* The theorems.                                                           *)

(* RunnerInvariant: the seats, slots, permits, handlers and prompts of the *)
(* runner agree in every state.                                            *)
THEOREM RunnerInvariant == Spec => []RunnerInv
<1>1. Init => RunnerInv
  <2> SUFFICES ASSUME Init PROVE RunnerInv
    OBVIOUS
  <2>1. ControlOK /\ Served /\ Waiting
    BY ContextSize DEF Init, ControlOK, Served, Waiting, Seats, Slots
  <2>2. JobsOK
    <3>1. NoJob \in Job /\ NoJob.numKeep \in 0 .. NumCtx - 1
      BY ContextSize DEF NoJob, Job
    <3> QED BY <3>1 DEF Init, JobsOK
  <2>3. \A s \in Slots : slots[s].inputs = <<>> /\ ~slots[s].inUse /\ slots[s] \in SlotOK
    BY DEF Init, SlotOK
  <2>4. SeatsOK(slots, seqs)
    BY <2>3 DEF Init, SeatsOK, Apart, UsedBySeats
  <2>5. InShare(slots, seqs)
    BY <2>3, ContextSize DEF Init, InShare
  <2>6. Prompts(slots, seqs)
    BY DEF Init, Prompts
  <2>7. Permits
    <3>1. Loading = {} /\ Nil = Seats
      BY DEF Init, Loading, Nil
    <3>2. Cardinality(Seats) = Parallel
      <4>1. 0 \in Int /\ Parallel - 1 \in Int
        BY ContextSize
      <4>2. Cardinality(0 .. Parallel - 1) = IF 0 > Parallel - 1 THEN 0 ELSE Parallel - 1 - 0 + 1
        BY <4>1, FS_Interval
      <4> QED BY <4>2, ContextSize DEF Seats, Slots
    <3>3. Cardinality(Loading) = 0
      BY <3>1, FS_EmptySet
    <3> QED BY <3>1, <3>2, <3>3, ContextSize DEF Init, Permits
  <2> QED BY <2>1, <2>2, <2>4, <2>5, <2>6, <2>7 DEF RunnerInv
<1>2. RunnerInv /\ [Next]_vars => RunnerInv'
  <2> SUFFICES ASSUME RunnerInv, [Next]_vars PROVE RunnerInv'
    OBVIOUS
  <2>1. CASE panic = "no" /\ Gather
    BY <2>1, GatherStep
  <2>2. CASE Forward
    BY <2>2, ForwardStep
  <2>3. CASE panic = "no" /\ \E i \in Seats : Sample(i)
    BY <2>3, SampleStep
  <2>4. CASE panic = "no" /\ \E r \in Requests : Handler(r)
    <3>1. PICK r \in Requests : Handler(r)
      BY <2>4
    <3>2. CASE LoadCacheSlot(r)
      BY <3>2, LoadStep
    <3>3. CASE NewSequence(r) \/ Acquire(r) \/ AbortAcquire(r) \/ CloseQuit(r)
      BY <3>3, HandlerStep
    <3> QED BY <3>1, <3>2, <3>3 DEF Handler
  <2>5. CASE UNCHANGED vars
    <3>1. UNCHANGED <<slots, seqs, seqsSem, pc, job, nextSeq, phase, cur, panic>>
      BY <2>5 DEF vars, loopVars
    <3>2. ControlOK' /\ JobsOK' /\ Served' /\ Waiting' /\ Permits'
      BY <3>1 DEF RunnerInv, ControlOK, JobsOK, Served, Waiting, Ready, Permits, Loading, Nil
    <3>3. SeatsOK(slots, seqs)' /\ InShare(slots, seqs)' /\ Prompts(slots, seqs)'
      BY <3>1 DEF RunnerInv, SeatsOK, Apart, UsedBySeats, InShare, Prompts
    <3> QED BY <3>2, <3>3 DEF RunnerInv
  <2> QED BY <2>1, <2>2, <2>3, <2>4, <2>5 DEF Next, Ended
<1> QED BY <1>1, <1>2, PTL DEF Spec

(* PermitsHaveSeats: a handler with a permit always finds an empty seat in *)
(* s.seqs and an unused slot, whatever sequences are loaded, retired and   *)
(* shifted meanwhile.                                                      *)
THEOREM PermitsHaveSeats == Spec => []SeatForEveryPermit
<1>1. RunnerInv => SeatForEveryPermit
  <2> SUFFICES ASSUME RunnerInv PROVE SeatForEveryPermit
    OBVIOUS
  <2>1. Cardinality(Unused) = Cardinality(Nil)
    BY UnusedNil DEF RunnerInv
  <2>2. seqsSem + Cardinality({r \in Requests : pc[r] = "load"}) = Cardinality(Nil)
    BY DEF RunnerInv, Permits, Loading
  <2> QED BY <2>1, <2>2 DEF SeatForEveryPermit
<1> QED BY <1>1, RunnerInvariant, PTL

(* PromptsIntact: however a prompt was cut, found in a slot, forked from   *)
(* another and batched, what is stored, submitted and left of it is the    *)
(* prompt until the first token is sampled.                                *)
THEOREM PromptsIntact == Spec => []PromptIntact
<1>1. RunnerInv => PromptIntact
  <2> SUFFICES ASSUME RunnerInv, NEW q \in Live, q.numPredicted = 0
               PROVE  Context(q) = job[q.req].prompt
    BY DEF PromptIntact
  <2>1. PICK i \in Seats : seqs[i] # NoSeq /\ q = seqs[i]
    BY DEF Live, Nil
  <2> QED BY <2>1 DEF RunnerInv, Prompts, Context
<1> QED BY <1>1, RunnerInvariant, PTL
=============================================================================
