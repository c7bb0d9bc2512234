--------------------------- MODULE OllamaRunner ---------------------------
(***************************************************************************)
(* The runner of ollama/runner/ollamarunner: HTTP handlers that bring      *)
(* sequences in (completion, embeddings), the loop that decodes them in    *)
(* batches (run, processBatch), and the slots of the input cache that map  *)
(* a sequence to its part of the KV cache (cache.go).                      *)
(*                                                                         *)
(* s.mu is held by a handler for the length of one action, and by the loop *)
(* from Gather to the last sampled sequence (phase # "idle").              *)
(*                                                                         *)
(* The definitions that are named after another one with a suffix are      *)
(* slips one could make there, as in CausalCache.                          *)
(***************************************************************************)
EXTENDS CausalCache

CONSTANTS
  Requests,    \* bound: the requests that arrive
  Jobs,        \* what a client may ask for
  Images,      \* the tokens that stand for an image
  BatchSize,   \* s.batchSize, per sequence
  MultiUser,   \* the values of multiUserCache to look at
  MaxPredict,  \* bound: numPredicted is not counted further
  MaxHeld      \* bound: pieces that wait for the rest of a stop string

Job == [prompt : Seq(Tokens), numKeep : Int, numPredict : Int,
        cachePrompt : BOOLEAN, embeddingOnly : BOOLEAN]

ASSUME RunnerAssumption ==
  /\ IsFiniteSet(Requests)
  /\ Jobs \subseteq Job /\ Images \subseteq Tokens /\ BatchSize \in Nat \ {0}
  /\ MultiUser \subseteq BOOLEAN /\ MaxPredict \in Nat \ {0} /\ MaxHeld \in Nat
  /\ \A j \in Jobs : j.numPredict <= MaxPredict

VARIABLES
  multiUserCache,  \* InputCache.multiUserCache
  cache,           \* InputCache.cache
  slots,           \* InputCache.slots
  seqs,            \* s.seqs
  nextSeq,         \* s.nextSeq
  seqsSem,         \* permits left in s.seqsSem
  pc,              \* where the handler of each request is
  job,             \* its Sequence's parameters, after NewSequence
  phase,           \* where processBatch is
  cur,             \* the sequence it samples next
  batch,           \* options: the inputs, with slot and position
  panic            \* the error that ended the process

loopVars == <<nextSeq, phase, cur, batch, panic>>
vars == <<multiUserCache, cache, slots, seqs, seqsSem, pc, job, loopVars>>

NumCtx == KvSize \div Parallel

NoJob == [prompt |-> <<>>, numKeep |-> 0, numPredict |-> 0,
          cachePrompt |-> FALSE, embeddingOnly |-> FALSE]

(* lastUsed: the rank of the slot by time of use, 0 if never used.         *)
Slot == [inputs : Seq(Tokens), inUse : BOOLEAN, lastUsed : 0 .. Parallel]

(* pendingResponses is the number of its pieces.                           *)
Sequence ==
  [req : Requests, slot : Slots, inputs : Seq(Tokens), pendingInputs : Seq(Tokens),
   numPredicted : 0 .. MaxPredict, pendingResponses : 0 .. MaxHeld + 1]
NoSeq == [slot |-> -1]

Seats == Slots     \* the indexes of s.seqs
Nil == {i \in Seats : seqs[i] = NoSeq}

TypeOK ==
  /\ multiUserCache \in BOOLEAN /\ cache \in CacheState
  /\ slots \in [Slots -> Slot] /\ seqs \in [Seats -> Sequence \cup {NoSeq}]
  /\ nextSeq \in Seats /\ seqsSem \in 0 .. Parallel
  /\ pc \in [Requests -> {"new", "acquire", "load", "serving", "gone", "done"}]
  /\ job \in [Requests -> Job]
  /\ phase \in {"idle", "forward", "sample"} /\ cur \in Seats
  /\ batch \in Seq([slot : Slots, pos : 0 .. NumCtx - 1, tok : Tokens])
  /\ panic \in {"no", "shared", "full", "bounds"}

Init ==
  /\ multiUserCache \in MultiUser /\ cache = InitCache
  /\ slots = [s \in Slots |-> [inputs |-> <<>>, inUse |-> FALSE, lastUsed |-> 0]]
  /\ seqs = [i \in Seats |-> NoSeq] /\ nextSeq = 0 /\ seqsSem = Parallel
  /\ pc = [r \in Requests |-> "new"] /\ job = [r \in Requests |-> NoJob]
  /\ phase = "idle" /\ cur = 0 /\ batch = <<>> /\ panic = "no"

-----------------------------------------------------------------------------
(* The handlers.                                                           *)

(* NewSequence: the prompt is cut to the context.                          *)
Least(a, b) == IF a < b THEN a ELSE b
Kept(j) == Least(IF j.numKeep < 0 THEN Len(j.prompt) ELSE j.numKeep, NumCtx - 1)
Without(s, keep, discard) == SubSeq(s, 1, keep) \o SubSeq(s, keep + discard + 1, Len(s))
Truncated(j) ==
  IF Len(j.prompt) <= NumCtx THEN j.prompt
  ELSE Without(j.prompt, Kept(j), Len(j.prompt) - NumCtx)

NewSequence(r) ==
  /\ pc[r] = "new"
  /\ \E j \in Jobs :
       /\ j.prompt # <<>>
       /\ job' = [job EXCEPT ![r] = [j EXCEPT !.prompt = Truncated(j), !.numKeep = Kept(j)]]
  /\ pc' = [pc EXCEPT ![r] = "acquire"]
  /\ UNCHANGED <<multiUserCache, cache, slots, seqs, seqsSem, loopVars>>

(* seqsSem.Acquire, which the end of the client's context interrupts.      *)
Acquire(r) ==
  /\ pc[r] = "acquire" /\ seqsSem > 0
  /\ seqsSem' = seqsSem - 1
  /\ pc' = [pc EXCEPT ![r] = "load"]
  /\ UNCHANGED <<multiUserCache, cache, slots, seqs, job, loopVars>>

AbortAcquire(r) ==
  /\ pc[r] = "acquire"
  /\ pc' = [pc EXCEPT ![r] = "done"] /\ job' = [job EXCEPT ![r] = NoJob]
  /\ UNCHANGED <<multiUserCache, cache, slots, seqs, seqsSem, loopVars>>

(* The slot for a prompt.  The common prefix is kept unless cachePrompt is *)
(* off, but for one input, left to sample from.                            *)
CountCommonPrefixPlusOne(a, b) ==
  Least(1 + Max({n \in 0 .. Least(Len(a), Len(b)) : SubSeq(a, 1, n) = SubSeq(b, 1, n)}),
        Least(Len(a), Len(b)))

CountCommonPrefix(a, b) ==
  Max({n \in 0 .. Least(Len(a), Len(b)) : SubSeq(a, 1, n) = SubSeq(b, 1, n)})

Unused == {s \in Slots : ~ slots[s].inUse}
Longest(S, prompt) ==
  Min({s \in S : \A t \in S : CountCommonPrefix(slots[t].inputs, prompt)
                                <= CountCommonPrefix(slots[s].inputs, prompt)})
Oldest == Min({s \in Unused : \A t \in Unused : slots[s].lastUsed <= slots[t].lastUsed})

FindLongestCacheSlot(prompt) ==
  LET s == Longest(Unused, prompt)
  IN  [slot |-> s, from |-> s, numPast |-> CountCommonPrefix(slots[s].inputs, prompt)]

FindBestCacheSlot(prompt) ==
  LET s == Longest(Slots, prompt)
      longest == CountCommonPrefix(slots[s].inputs, prompt)
      whole == longest = Len(slots[s].inputs) /\ s \in Unused
      target == IF whole THEN s ELSE Oldest
  IN  [slot |-> target, from |-> IF longest > 0 THEN s ELSE target, numPast |-> longest]

NumPast(j, found) ==
  LET n == IF j.cachePrompt THEN found.numPast ELSE 0
  IN  IF n = Len(j.prompt) THEN n - 1 ELSE n

UsedNow(s) ==
  LET r == slots[s].lastUsed
      used == Cardinality({t \in Slots : slots[t].lastUsed > 0})
  IN  [t \in Slots |->
         CASE t = s -> IF r = 0 THEN used + 1 ELSE used
           [] t # s -> IF r > 0 /\ slots[t].lastUsed > r THEN slots[t].lastUsed - 1
                       ELSE slots[t].lastUsed]

(* LoadCacheSlot and the entry into s.seqs, in one hold of s.mu.           *)
LoadCacheSlot(r) ==
  LET found == IF multiUserCache THEN FindBestCacheSlot(job[r].prompt)
               ELSE FindLongestCacheSlot(job[r].prompt)
      s == found.slot
      forked == IF found.from = s THEN cache
                ELSE CopyPrefix(cache, found.from, s, found.numPast)
      numPast == NumPast(job[r], found)
      prompt == job[r].prompt
  IN  /\ pc[r] = "load" /\ phase = "idle" /\ Nil # {} /\ Unused # {}
      /\ cache' = Remove(forked, s, numPast, ToTheEnd)
      /\ slots' = [t \in Slots |->
           IF t = s THEN [inputs |-> SubSeq(slots[found.from].inputs, 1, numPast),
                          inUse |-> TRUE, lastUsed |-> UsedNow(s)[s]]
           ELSE [slots[t] EXCEPT !.lastUsed = UsedNow(s)[t]]]
      /\ seqs' = [seqs EXCEPT ![Min(Nil)] =
           [req |-> r, slot |-> s, inputs |-> SubSeq(prompt, numPast + 1, Len(prompt)),
            pendingInputs |-> <<>>, numPredicted |-> 0, pendingResponses |-> 0]]
      /\ pc' = [pc EXCEPT ![r] = "serving"]
      /\ UNCHANGED <<multiUserCache, seqsSem, job, loopVars>>

(* The client of a completion goes away: its handler closes seq.quit.      *)
CloseQuit(r) ==
  /\ pc[r] = "serving" /\ ~ job[r].embeddingOnly
  /\ pc' = [pc EXCEPT ![r] = "gone"]
  /\ UNCHANGED <<multiUserCache, cache, slots, seqs, seqsSem, job, loopVars>>

-----------------------------------------------------------------------------
(* The loop.                                                               *)

(* removeSequence, for the sequences that are gone in after: the slot is   *)
(* released where slots is assigned; here the seat, the permit and the     *)
(* channels, whose closing ends the handler.                               *)
RetireKeepsPermit(after) ==
  LET ended == {seqs[i].req : i \in {k \in Seats \ Nil : after[k] = NoSeq}}
  IN  /\ seqs' = after /\ UNCHANGED seqsSem
      /\ pc' = [r \in Requests |-> IF r \in ended THEN "done" ELSE pc[r]]
      /\ job' = [r \in Requests |-> IF r \in ended THEN NoJob ELSE job[r]]

Retire(after) ==
  LET ended == {seqs[i].req : i \in {k \in Seats \ Nil : after[k] = NoSeq}}
  IN  /\ seqs' = after
      /\ seqsSem' = seqsSem + Cardinality(ended)
      /\ pc' = [r \in Requests |-> IF r \in ended THEN "done" ELSE pc[r]]
      /\ job' = [r \in Requests |-> IF r \in ended THEN NoJob ELSE job[r]]

ShiftDiscard(inputLen, numKeep) ==
  Max({0, Max({(NumCtx - numKeep) \div 2, 1}) - (NumCtx - inputLen)})

(* How many inputs of a sequence join the batch: no more than there is     *)
(* room for, and no image after text.                                      *)
Most(inputs, room) == Min({Len(inputs), BatchSize, room})
BatchLen(inputs, room) ==
  Max({n \in 0 .. Most(inputs, room) :
         \A k \in 2 .. n : inputs[k] \in Images => inputs[k - 1] \in Images})

(* One sequence's turn in the first loop of processBatch, with             *)
(* ShiftCacheSlot when its context is full.                                *)
GatherSeq(g, i) ==
  LET q == g.seqs[i]
      j == job[q.req]
      stored == g.slots[q.slot].inputs
      discard == IF Len(stored) + 1 > NumCtx THEN ShiftDiscard(Len(stored), j.numKeep) ELSE 0
      inputs == IF discard = 0 THEN stored ELSE Without(stored, j.numKeep, discard)
      shifted == IF discard = 0 THEN g.cache
                 ELSE Remove(g.cache, q.slot, j.numKeep, j.numKeep + discard)
      room == NumCtx - Len(inputs)
      n == BatchLen(q.inputs, room)
      added == [k \in 1 .. n |-> [slot |-> q.slot, pos |-> Len(inputs) + k - 1,
                                  tok |-> q.inputs[k]]]
  IN  IF q = NoSeq \/ g.failed THEN g
      ELSE IF j.numPredict > 0 /\ q.numPredicted >= j.numPredict
      THEN [g EXCEPT !.seqs[i] = NoSeq, !.slots[q.slot].inUse = FALSE]
      ELSE IF discard > 0 /\ RemoveFails(g.cache, q.slot, j.numKeep + discard)
      THEN [g EXCEPT !.cache = shifted, !.failed = TRUE]
      ELSE [g EXCEPT !.cache = shifted, !.slots[q.slot].inputs = inputs,
                     !.batch = @ \o added,
                     !.nextSeq = IF n < Most(q.inputs, room) THEN i ELSE @,
                     !.seqs[i] = [q EXCEPT !.inputs = SubSeq(@, n + 1, Len(@)),
                                           !.pendingInputs = SubSeq(q.inputs, 1, n)]]

Gathered ==
  LET start == [cache |-> cache, slots |-> slots, seqs |-> seqs, batch |-> <<>>,
                nextSeq |-> nextSeq, failed |-> FALSE]
      turn[n \in 0 .. Parallel] ==
        IF n = 0 THEN start ELSE GatherSeq(turn[n - 1], (nextSeq + n - 1) % Parallel)
  IN  turn[Parallel]

(* processBatch up to Forward.  An error panics in run.                    *)
Gather ==
  LET g == Gathered
  IN  /\ phase = "idle" /\ Nil # Seats
      /\ cache' = g.cache /\ slots' = g.slots /\ Retire(g.seqs)
      /\ nextSeq' = g.nextSeq /\ batch' = g.batch
      /\ phase' = IF g.batch = <<>> THEN "idle" ELSE "forward"
      /\ panic' = IF g.failed THEN "shared" ELSE "no"
      /\ UNCHANGED <<multiUserCache, cur>>

(* model.Forward; its error, too, panics in run.                           *)
Forward ==
  LET full == KvCacheFull(cache, batch)
  IN  /\ phase = "forward"
      /\ panic' = IF full THEN "full" ELSE "no"
      /\ cache' = IF full THEN cache ELSE StartForward(cache, batch)
      /\ phase' = "sample" /\ cur' = 0
      /\ UNCHANGED <<multiUserCache, slots, seqs, nextSeq, seqsSem, pc, job, batch>>

(* The second loop of processBatch, one action for each way a sequence's   *)
(* turn ends.  After the last turn the batch and its mask are forgotten.   *)
Turn(i) ==
  /\ phase = "sample" /\ cur = i
  /\ cur' = (cur + 1) % Parallel
  /\ IF cur' # 0 THEN UNCHANGED <<cache, phase, batch>>
     ELSE cache' = [cache EXCEPT !.mask = <<>>] /\ phase' = "idle" /\ batch' = <<>>
  /\ UNCHANGED <<multiUserCache, nextSeq>>

(* After Forward, the pending inputs are in the cache.                     *)
Stored(q) == slots[q.slot].inputs \o q.pendingInputs

SampleNil(i) ==
  /\ Turn(i) /\ seqs[i] = NoSeq
  /\ UNCHANGED <<slots, seqs, seqsSem, pc, job, panic>>

(* More of the prompt is left.                                             *)
ProcessPrompt(i) ==
  LET q == seqs[i]
  IN  /\ Turn(i) /\ q # NoSeq /\ q.inputs # <<>>
      /\ slots' = [slots EXCEPT ![q.slot].inputs = Stored(q)]
      /\ seqs' = [seqs EXCEPT ![i].pendingInputs = <<>>]
      /\ UNCHANGED <<seqsSem, pc, job, panic>>

Samples(i) == seqs[i] # NoSeq /\ seqs[i].inputs = <<>>

(* The sequence ends, with these inputs remembered for its slot.           *)
EndSequenceKeepsSlot(i, inputs) ==
  /\ slots' = [slots EXCEPT ![seqs[i].slot].inputs = inputs]
  /\ Retire([seqs EXCEPT ![i] = NoSeq])

EndSequence(i, inputs) ==
  /\ slots' = [slots EXCEPT ![seqs[i].slot].inputs = inputs, ![seqs[i].slot].inUse = FALSE]
  /\ Retire([seqs EXCEPT ![i] = NoSeq])

(* An embedding is done, or the end-of-sequence token was sampled.         *)
SampleEnd(i) ==
  /\ Turn(i) /\ Samples(i)
  /\ EndSequence(i, Stored(seqs[i]))
  /\ UNCHANGED panic

SampleToken(i) == Turn(i) /\ Samples(i) /\ ~ job[seqs[i].req].embeddingOnly

(* The new piece completes a stop string, which is cut off (TruncateStop): *)
(* newLen pieces stay, the last one shortened if tokenTruncated.           *)
TokenLen(stored, origLen, newLen, tokenTruncated) ==
  stored + 1 - (origLen - newLen) - (IF tokenTruncated \/ origLen = newLen THEN 1 ELSE 0)

HitStop(i) ==
  LET origLen == seqs[i].pendingResponses + 1
  IN  /\ SampleToken(i)
      /\ \E newLen \in 0 .. origLen, tokenTruncated \in BOOLEAN :
           LET tokenLen == TokenLen(Len(Stored(seqs[i])), origLen, newLen, tokenTruncated)
           IN  /\ IF tokenTruncated THEN newLen > 0 ELSE newLen < origLen
               /\ panic' = IF tokenLen < 0 THEN "bounds" ELSE "no"
               /\ EndSequence(i, SubSeq(Stored(seqs[i]), 1, tokenLen))

(* The sequence goes on with the sampled token.                            *)
Continue(i, tok, held) ==
  LET q == seqs[i]
  IN  /\ slots' = [slots EXCEPT ![q.slot].inputs = Stored(q)]
      /\ seqs' = [seqs EXCEPT ![i] =
           [q EXCEPT !.inputs = <<tok>>, !.pendingInputs = <<>>, !.pendingResponses = held,
                     !.numPredicted = Least(@ + 1, MaxPredict)]]
      /\ UNCHANGED <<seqsSem, pc, job, panic>>

(* Its pieces may begin a stop string, or a Unicode character: they wait.  *)
HoldBack(i) ==
  /\ SampleToken(i) /\ seqs[i].pendingResponses < MaxHeld
  /\ \E tok \in Tokens \ Images : Continue(i, tok, seqs[i].pendingResponses + 1)

(* flushPending: with quit closed and room in responses, select picks any. *)
FlushPending(i) == SampleToken(i) /\ \E tok \in Tokens \ Images : Continue(i, tok, 0)

ConnectionClosed(i) ==
  /\ SampleToken(i) /\ pc[seqs[i].req] = "gone"
  /\ EndSequence(i, Stored(seqs[i]))
  /\ UNCHANGED panic

(* run's panic ends the process; without requests it waits for ever.       *)
Ended == (panic # "no" \/ \A r \in Requests : pc[r] = "done") /\ UNCHANGED vars

Sample(i) ==
  \/ SampleNil(i) \/ ProcessPrompt(i) \/ SampleEnd(i) \/ HitStop(i)
  \/ HoldBack(i) \/ FlushPending(i) \/ ConnectionClosed(i)

Handler(r) ==
  \/ NewSequence(r) \/ Acquire(r) \/ AbortAcquire(r) \/ LoadCacheSlot(r) \/ CloseQuit(r)

Next ==
  \/ /\ panic = "no"
     /\ \/ Gather \/ Forward
        \/ \E i \in Seats : Sample(i)
        \/ \E r \in Requests : Handler(r)
  \/ Ended

Spec == Init /\ [][Next]_vars

(* The loop never stops by itself.  The semaphore serves its waiters in    *)
(* the order of their arrival, and a mutex is handed to a waiter that      *)
(* waited too long: neither starves a handler.                             *)
(* Written with the enabling conditions of the actions, which are cheap to *)
(* evaluate; none of these actions, when enabled, leaves all unchanged.    *)
Fairness ==
  /\ <>[](panic = "no" /\ phase = "idle" /\ Nil # Seats) => []<><<Gather>>_vars
  /\ <>[](panic = "no" /\ phase = "forward") => []<><<Forward>>_vars
  /\ \A i \in Seats :
       <>[](panic = "no" /\ phase = "sample" /\ cur = i) => []<><<Sample(i)>>_vars
  /\ \A r \in Requests :
       /\ []<>(panic = "no" /\ pc[r] = "acquire" /\ seqsSem > 0) => []<><<Acquire(r)>>_vars
       /\ []<>(panic = "no" /\ pc[r] = "load" /\ phase = "idle")
            => []<><<LoadCacheSlot(r)>>_vars

FairSpec == Spec /\ Fairness

=============================================================================
