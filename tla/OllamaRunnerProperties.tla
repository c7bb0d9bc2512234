---------------------- MODULE OllamaRunnerProperties ----------------------
(* What the runner and its caches promise.                                 *)
EXTENDS OllamaRunner

(* The logical context of a sequence: stored, submitted, still to come.    *)
Context(q) == slots[q.slot].inputs \o q.pendingInputs \o q.inputs
Live == {seqs[i] : i \in Seats \ Nil}

(* What input k of the batch should attend to: the inputs of its own       *)
(* sequence, up to itself, that are within the window.                     *)
Past(k) ==
  LET b == batch[k]
      q == CHOOSE q \in Live : q.slot = b.slot
  IN  {[tok |-> Context(q)[p + 1], pos |-> p] : p \in Max({0, b.pos - WindowSize}) .. b.pos}

(* The sequences of a batch have just been through Forward.                *)
Forwarded == phase = "sample" /\ cur = 0 /\ panic = "no"

(* AttentionExact: each input of a batch attends to the keys and values of *)
(* exactly the inputs that precede it in its own sequence, each once.      *)
AttentionExact ==
  Forwarded => \A k \in 1 .. Len(batch) :
    /\ {cache.kv[j] : j \in cache.mask[k]} = Past(k)
    /\ Cardinality(cache.mask[k]) = Cardinality(Past(k))

(* AttentionExactUnlessMerged: the same as long as no defragmentation has  *)
(* combined two moves.                                                     *)
AttentionExactUnlessMerged == cache.merged \/ AttentionExact

(* PositionsExact: even then, the mask shows one cell for each position.   *)
PositionsExact ==
  Forwarded => \A k \in 1 .. Len(batch) :
    /\ {cache.cells[j].pos : j \in cache.mask[k]} = {d.pos : d \in Past(k)}
    /\ Cardinality(cache.mask[k]) = Cardinality(Past(k))

(* PromptIntact: however much of a prompt was found in the cache (its own  *)
(* slot's or forked from another's), and however it was batched, until the *)
(* first token is sampled the sequence's context is the prompt.            *)
PromptIntact ==
  \A q \in Live : q.numPredicted = 0 => Context(q) = job[q.req].prompt

(* SeatForEveryPermit: a handler that holds a permit of seqsSem finds an   *)
(* empty seat and an unused slot, so that neither "could not find an       *)
(* available sequence" nor "no available cache slots" (which would leak    *)
(* the permit) can happen.                                                 *)
SeatForEveryPermit ==
  LET permits == seqsSem + Cardinality({r \in Requests : pc[r] = "load"})
  IN  permits = Cardinality(Nil) /\ permits = Cardinality(Unused)

(* NeverFull: the cache never rejects a batch, since no slot outgrows its  *)
(* share of it.                                                            *)
NeverFull == panic # "full"

(* FailedShiftRemoved: after an error of Remove the context of the         *)
(* sequence is removed.                                                    *)
FailedShiftRemoved == panic = "shared" => \E q \in Live : Holding(cache.cells, q.slot) = {}

(* RequestsEnd: a request with a limit on its tokens is over some day,     *)
(* unless the process ends.                                                *)
RequestsEnd == \A r \in Requests : pc[r] = "acquire" ~> (pc[r] = "done" \/ panic # "no")

=============================================================================
