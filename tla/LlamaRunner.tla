----------------------------- MODULE LlamaRunner -----------------------------
(***************************************************************************)
(* The runner of llama.cpp models (runner/llamarunner) and llama_decode:   *)
(* slots that reuse and fork prefixes, batches over all sequences, context *)
(* shifts, decoding in ubatches.  s.mu makes LoadCacheSlot and             *)
(* processBatch exclude each other; phase says where processBatch is.      *)
(*                                                                         *)
(* Left out: images, embeddings and the recurrent cache.  A decode that    *)
(* fails makes run panic (phase "dead").                                   *)
(***************************************************************************)
EXTENDS LlamaKvCache

CONSTANTS
  Prompts,       \* inputs of a request, already cut to the context
  NumKeeps,      \* numKeep of a request, below the context size
  BatchSize,     \* s.batchSize, inputs per sequence and batch
  UBatchSize,    \* n_ubatch
  MultiUser,     \* the values of multiUserCache to look at
  ComputeMayFail,\* the backend may report a failure
  NumPredict,    \* tokens after which a sequence ends
  MaxHeld,       \* bound: pieces withheld for a stop string
  MaxRequests    \* bound: requests that arrive

NumCtx == KvSize \div Parallel

ASSUME RunnerAssumption ==
  /\ Prompts \subseteq {p \in Seq(Tokens) : Len(p) \in 1 .. NumCtx}
  /\ NumKeeps \subseteq 0 .. NumCtx - 1
  /\ BatchSize \in Nat \ {0} /\ UBatchSize \in Nat \ {0} /\ MultiUser \subseteq BOOLEAN
  /\ ComputeMayFail \in BOOLEAN /\ NumPredict \in Nat /\ MaxHeld \in Nat /\ MaxRequests \in Nat

VARIABLES
  multiUserCache, cache,
  slots,          \* InputCache.slots
  seqs,           \* s.seqs
  arrived,        \* requests so far
  phase,          \* "idle", "prepare", "compute", "sample", "dead"
  sbatch,         \* inputs of the batch that are not decoded yet
  ubatch,         \* inputs of the ubatch
  cur,            \* the sequence that is sampled next
  code,           \* what llama_decode returned
  restorer        \* kv_slot_restorer: head at the start and slots of the batch; history:
                  \* who owned the cells at the start

decodeVars == <<phase, sbatch, ubatch, cur, code, restorer>>
vars == <<multiUserCache, cache, slots, seqs, arrived, decodeVars>>

(* lastUsed: the rank of the slot by time of use, 0 if never used.         *)
Slot == [inputs : Seq(Tokens), inUse : BOOLEAN, lastUsed : 0 .. Parallel]
(* text is history: everything the sequence was asked and has sampled.     *)
Sequence ==
  [slot : SeqIds, numKeep : NumKeeps, inputs : Seq(Tokens), pendingInputs : Seq(Tokens),
   numPredicted : 0 .. NumPredict, held : 0 .. MaxHeld, text : Seq(Tokens)]
NoSeq == [slot |-> -1]
BatchInput == [tok : Tokens, pos : 0 .. NumCtx - 1, seq : SeqIds]
NoRestorer == [head |-> 0, boundaries |-> <<>>, seqs |-> [i \in Cells |-> {}]]

Seats == SeqIds
Nil == {i \in Seats : seqs[i] = NoSeq}

TypeOK ==
  /\ multiUserCache \in BOOLEAN /\ cache \in KvCache /\ (phase # "dead" => cache.head \in Cells)
  /\ slots \in [SeqIds -> Slot] /\ seqs \in [Seats -> Sequence \cup {NoSeq}]
  /\ arrived \in 0 .. MaxRequests
  /\ phase \in {"idle", "prepare", "compute", "sample", "dead"}
  /\ sbatch \in Seq(BatchInput) /\ ubatch \in Seq(BatchInput) /\ cur \in Seats
  /\ code \in {0, 1, -3}
  /\ restorer \in [head : 0 .. KvSize, boundaries : Seq((0 .. KvSize) \X (0 .. KvSize)),
                   seqs : [Cells -> SUBSET SeqIds]]

Init ==
  /\ multiUserCache \in MultiUser /\ cache = InitCache
  /\ slots = [s \in SeqIds |-> [inputs |-> <<>>, inUse |-> FALSE, lastUsed |-> 0]]
  /\ seqs = [i \in Seats |-> NoSeq] /\ arrived = 0
  /\ phase = "idle" /\ sbatch = <<>> /\ ubatch = <<>> /\ cur = 0 /\ code = 0
  /\ restorer = NoRestorer

-----------------------------------------------------------------------------
(* LoadCacheSlot.                                                          *)

Least(a, b) == IF a < b THEN a ELSE b
Without(s, keep, discard) == SubSeq(s, 1, keep) \o SubSeq(s, keep + discard + 1, Len(s))

CountCommonPrefix(a, b) ==
  Max({n \in 0 .. Least(Len(a), Len(b)) : SubSeq(a, 1, n) = SubSeq(b, 1, n)})
Common(s, prompt) == CountCommonPrefix(slots[s].inputs, prompt)

Unused == {s \in SeqIds : ~slots[s].inUse}
Longest(S, prompt) == Min({s \in S : \A t \in S : Common(t, prompt) <= Common(s, prompt)})
Oldest == Min({s \in Unused : \A t \in Unused : slots[s].lastUsed <= slots[t].lastUsed})

FindLongestCacheSlot(prompt) ==
  LET s == Longest(Unused, prompt)
  IN  [slot |-> s, from |-> s, numPast |-> Common(s, prompt)]

FindBestCacheSlot(prompt) ==
  LET s == Longest(SeqIds, prompt)
      whole == Common(s, prompt) = Len(slots[s].inputs) /\ s \in Unused
      target == IF whole THEN s ELSE Oldest
  IN  [slot |-> target, from |-> IF Common(s, prompt) > 0 THEN s ELSE target,
       numPast |-> Common(s, prompt)]

(* The fork of findBestCacheSlot.                                          *)
Forked(c, found) ==
  IF found.from = found.slot THEN c
  ELSE SeqCp(SeqRm(c, found.slot, 0, -1), found.from, found.slot, 0, found.numPast)

(* Inputs from numPast on are decoded anew; at least the last one is.      *)
NumPastAll(prompt, cachePrompt, found) == IF cachePrompt THEN found.numPast ELSE 0
NumPast(prompt, cachePrompt, found) ==
  LET n == IF cachePrompt THEN found.numPast ELSE 0
  IN  IF n = Len(prompt) THEN n - 1 ELSE n

UsedNow(s) ==
  LET r == slots[s].lastUsed
      used == Cardinality({t \in SeqIds : slots[t].lastUsed > 0})
  IN  [t \in SeqIds |->
         CASE t = s -> IF r = 0 THEN used + 1 ELSE used
           [] t # s -> IF r > 0 /\ slots[t].lastUsed > r THEN slots[t].lastUsed - 1
                       ELSE slots[t].lastUsed]

LoadCacheSlot(prompt, numKeep, cachePrompt) ==
  LET found == IF multiUserCache THEN FindBestCacheSlot(prompt)
               ELSE FindLongestCacheSlot(prompt)
      s == found.slot
      numPast == NumPast(prompt, cachePrompt, found)
  IN  /\ phase = "idle" /\ Nil # {} /\ Unused # {} /\ arrived < MaxRequests
      /\ cache' = SeqRm(Forked(cache, found), s, numPast, -1)
      /\ slots' = [t \in SeqIds |->
           IF t = s THEN [inputs |-> SubSeq(slots[found.from].inputs, 1, numPast),
                          inUse |-> TRUE, lastUsed |-> UsedNow(s)[s]]
           ELSE [slots[t] EXCEPT !.lastUsed = UsedNow(s)[t]]]
      /\ seqs' = [seqs EXCEPT ![Min(Nil)] =
           [slot |-> s, numKeep |-> numKeep, pendingInputs |-> <<>>, numPredicted |-> 0,
            held |-> 0, inputs |-> SubSeq(prompt, numPast + 1, Len(prompt)), text |-> prompt]]
      /\ arrived' = arrived + 1
      /\ UNCHANGED <<multiUserCache, decodeVars>>

-----------------------------------------------------------------------------
(* The first loop of processBatch.                                         *)

ShiftDiscard(inputLen, numKeep) ==
  Max({0, Max({(NumCtx - numKeep) \div 2, 1}) - (NumCtx - inputLen)})

(* ShiftCacheSlot on the KV cache.                                         *)
ShiftCacheSlotOnlyRemoves(c, s, inputLen, numKeep, discard) ==
  SeqRm(c, s, numKeep, numKeep + discard)
ShiftCacheSlot(c, s, inputLen, numKeep, discard) ==
  SeqAdd(SeqRm(c, s, numKeep, numKeep + discard), s, numKeep + discard, inputLen, -discard)

(* The inputs a sequence adds: up to the batch size and the context.       *)
BatchLen(inputs, stored) == Min({Len(inputs), BatchSize, NumCtx - Len(stored)})

(* The turn of one sequence: it ends at its limit; a full context is       *)
(* shifted; then it adds inputs to the batch.                              *)
GatherSeq(g, i) ==
  LET q == g.seqs[i]
      stored == g.slots[q.slot].inputs
      full == Len(stored) + 1 > NumCtx
      discard == ShiftDiscard(Len(stored), q.numKeep)
      inputs == IF full THEN Without(stored, q.numKeep, discard) ELSE stored
      n == BatchLen(q.inputs, inputs)
  IN  IF q = NoSeq THEN g
      ELSE IF NumPredict > 0 /\ q.numPredicted >= NumPredict
      THEN [g EXCEPT !.seqs[i] = NoSeq, !.slots[q.slot].inUse = FALSE]
      ELSE [g EXCEPT
        !.cache = IF full THEN ShiftCacheSlot(@, q.slot, Len(stored), q.numKeep, discard) ELSE @,
        !.slots[q.slot].inputs = inputs,
        !.batch = @ \o [k \in 1 .. n |-> [tok |-> q.inputs[k], pos |-> Len(inputs) + k - 1,
                                          seq |-> q.slot]],
        !.seqs[i] = [q EXCEPT !.inputs = SubSeq(q.inputs, n + 1, Len(q.inputs)),
                              !.pendingInputs = SubSeq(q.inputs, 1, n),
                              !.text = IF full THEN Without(q.text, q.numKeep, discard)
                                       ELSE q.text]]

Gathered ==
  LET turn[n \in 0 .. Parallel] ==
        IF n = 0 THEN [cache |-> cache, slots |-> slots, seqs |-> seqs, batch |-> <<>>]
        ELSE GatherSeq(turn[n - 1], n - 1)
  IN  turn[Parallel]

(* Decode begins: llama_decode_impl up to its loop.                        *)
Gather ==
  LET g == Gathered
  IN  /\ phase = "idle" /\ Nil # Seats
      /\ cache' = g.cache /\ slots' = g.slots /\ seqs' = g.seqs /\ sbatch' = g.batch
      /\ phase' = IF g.batch = <<>> THEN "idle" ELSE "prepare"
      /\ restorer' = IF g.batch = <<>> THEN NoRestorer
                     ELSE [head |-> g.cache.head, boundaries |-> <<>>,
                           seqs |-> [c \in Cells |-> g.cache.cells[c].seqs]]
      /\ UNCHANGED <<multiUserCache, arrived, ubatch, cur, code>>

-----------------------------------------------------------------------------
(* llama_decode_impl.                                                      *)

(* With many free cells before the head the search starts at the front.    *)
Rewound(c, n) == IF c.head > c.used + 2 * n THEN [c EXCEPT !.head = 0] ELSE c

(* The slot for n inputs.  If none is found, the cache is defragmented and *)
(* searched again.                                                         *)
SlotAtOnce(c, n) == [cache |-> c, slot |-> FindSlot(c, n)]
SlotFor(c, n) ==
  LET first == FindSlot(c, n)
      moved == Defrag([c EXCEPT !.head = first.head])
  IN  IF first.found THEN [cache |-> c, slot |-> first]
      ELSE [cache |-> moved, slot |-> FindSlot(moved, n)]

(* llama_prepare_ubatch, with split_simple.  Without a slot llama_decode   *)
(* returns 1.                                                              *)
PrepareUbatch ==
  LET n == Least(UBatchSize, Len(sbatch))
      r == SlotFor(Rewound(KShift(cache), n), n)
  IN  /\ phase = "prepare"
      /\ ubatch' = SubSeq(sbatch, 1, n) /\ sbatch' = SubSeq(sbatch, n + 1, Len(sbatch))
      /\ IF r.slot.found
         THEN /\ cache' = Occupy(r.cache, r.slot.head, ubatch') /\ phase' = "compute"
              /\ restorer' = [restorer EXCEPT
                   !.boundaries = Append(@, <<r.slot.head, r.slot.head + n>>)]
              /\ UNCHANGED code
         ELSE /\ cache' = [r.cache EXCEPT !.head = r.slot.head] /\ phase' = "dead"
              /\ code' = 1 /\ UNCHANGED restorer
      /\ UNCHANGED <<multiUserCache, slots, seqs, arrived, cur>>

(* The graph is computed; the head moves behind the ubatch.                *)
Advance(c, n) == [c EXCEPT !.head = IF @ + n >= KvSize THEN 0 ELSE @ + n]

ComputeUbatch ==
  /\ phase = "compute"
  /\ cache' = Advance(WriteRows(cache, ubatch), Len(ubatch))
  /\ phase' = IF sbatch = <<>> THEN "sample" ELSE "prepare"
  /\ restorer' = IF sbatch = <<>> THEN NoRestorer ELSE restorer
  /\ UNCHANGED <<multiUserCache, slots, seqs, arrived, sbatch, ubatch, cur, code>>

(* The backend reports that it was aborted, short of memory or failed (2,  *)
(* -2 or -3, which the runner does not tell apart).                        *)
ComputeFails ==
  /\ phase = "compute" /\ ComputeMayFail
  /\ cache' = Restore(cache, restorer.head, restorer.boundaries)
  /\ code' = -3 /\ phase' = "dead"
  /\ UNCHANGED <<multiUserCache, slots, seqs, arrived, sbatch, ubatch, cur, restorer>>

-----------------------------------------------------------------------------
(* The second loop of processBatch: one action for each way the turn of a  *)
(* sequence ends.  Decoded inputs are now stored.                          *)
Turn(i) ==
  /\ phase = "sample" /\ cur = i
  /\ cur' = (cur + 1) % Parallel
  /\ ubatch' = <<>>
  /\ phase' = IF cur' = 0 THEN "idle" ELSE "sample"
  /\ UNCHANGED <<multiUserCache, cache, arrived, sbatch, code, restorer>>

Stored(q) == slots[q.slot].inputs \o q.pendingInputs

SampleNil(i) == Turn(i) /\ seqs[i] = NoSeq /\ UNCHANGED <<slots, seqs>>

ProcessPrompt(i) ==
  /\ Turn(i) /\ seqs[i] # NoSeq /\ seqs[i].inputs # <<>>
  /\ slots' = [slots EXCEPT ![seqs[i].slot].inputs = Stored(seqs[i])]
  /\ seqs' = [seqs EXCEPT ![i].pendingInputs = <<>>]

Sampled(i) == Turn(i) /\ seqs[i] # NoSeq /\ seqs[i].inputs = <<>>

(* The end of generation, or a client that left.                           *)
SampleEnd(i) ==
  /\ Sampled(i)
  /\ slots' = [slots EXCEPT ![seqs[i].slot].inputs = Stored(seqs[i]),
                            ![seqs[i].slot].inUse = FALSE]
  /\ seqs' = [seqs EXCEPT ![i] = NoSeq]

(* A stop string is complete: the inputs of the pieces it takes are        *)
(* dropped from the slot, while their cells stay.                          *)
HitStop(i) ==
  \E stripped \in 0 .. seqs[i].held :
    /\ Sampled(i)
    /\ slots' = [slots EXCEPT
         ![seqs[i].slot].inputs = SubSeq(Stored(seqs[i]), 1, Len(Stored(seqs[i])) - stripped),
         ![seqs[i].slot].inUse = FALSE]
    /\ seqs' = [seqs EXCEPT ![i] = NoSeq]

(* The sampled token is the next input; its piece is sent or withheld.     *)
SampleToken(i, tok) ==
  \E held \in {0, seqs[i].held + 1} :
    /\ Sampled(i) /\ held <= MaxHeld
    /\ slots' = [slots EXCEPT ![seqs[i].slot].inputs = Stored(seqs[i])]
    /\ LET q == seqs[i]
       IN  seqs' = [seqs EXCEPT ![i] =
             [q EXCEPT !.inputs = <<tok>>, !.pendingInputs = <<>>, !.held = held,
                       !.numPredicted = Least(q.numPredicted + 1, NumPredict),
                       !.text = Append(q.text, tok)]]

(* The goroutine of run.                                                   *)
Run ==
  \/ Gather \/ PrepareUbatch \/ ComputeUbatch \/ ComputeFails
  \/ \E i \in Seats :
       \/ SampleNil(i) \/ ProcessPrompt(i) \/ SampleEnd(i)
       \/ seqs[i] # NoSeq /\ HitStop(i)
       \/ seqs[i] # NoSeq /\ \E tok \in Tokens : SampleToken(i, tok)

Next == (\E p \in Prompts, k \in NumKeeps, b \in BOOLEAN : LoadCacheSlot(p, k, b)) \/ Run

Spec == Init /\ [][Next]_vars

(* Weak fairness of Run, with ENABLED <<Run>>_vars written out: Gather     *)
(* changes something if a sequence has inputs or is at its limit.          *)
Busy ==
  \/ phase \in {"prepare", "compute", "sample"}
  \/ /\ phase = "idle"
     /\ \E i \in Seats \ Nil : seqs[i].inputs # <<>> \/ seqs[i].numPredicted >= NumPredict
FairSpec == Spec /\ ([]<>~Busy \/ []<><<Run>>_vars)
=============================================================================
