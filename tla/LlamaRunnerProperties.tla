----------------------- MODULE LlamaRunnerProperties ------------------------
(***************************************************************************)
(* What LlamaRunner promises.                                              *)
(***************************************************************************)
EXTENDS LlamaRunner

(* llama_kv_cache.used is the number of cells somebody owns, the cells     *)
(* with a position.  llama_kv_cache_defrag_impl aborts the process         *)
(* otherwise: "this can only happen if n_used is not accurate".            *)
UsedExact ==
  /\ cache.used = Cardinality(Owned(cache.cells))
  /\ Owned(cache.cells) = {i \in Cells : cache.cells[i].pos >= 0}

(* The cells of sequence s at position p.                                  *)
At(s, p) == {i \in Cells : s \in cache.cells[i].seqs /\ cache.cells[i].pos = p}

(* "Inputs that are stored in the KV cache" (InputCacheSlot): every input  *)
(* of the slot is in exactly one cell of its sequence, computed from that  *)
(* token and rotated, once pending shifts are done, to that position.      *)
StoredExactly(s) ==
  \A p \in 0 .. Len(slots[s].inputs) - 1 :
    \E i \in Cells :
      /\ At(s, p) = {i} /\ cache.rows[i] # NoRow
      /\ cache.rows[i].tok = slots[s].inputs[p + 1]
      /\ cache.rows[i].at + cache.cells[i].delta = p

(* Every slot is stored exactly.                                           *)
SlotsStored == phase # "dead" => \A s \in SeqIds : StoredExactly(s)

(* Every slot is stored exactly, whatever forks, reuse, shifts and         *)
(* defragmentation did, unless another sequence's shift moved its cells.   *)
SlotsStoredUnlessTorn ==
  phase # "dead" => \A s \in SeqIds \ cache.torn : StoredExactly(s)

(* What llama_decode just computed for input u saw the text of its         *)
(* sequence up to u and nothing else, each token once at its position.     *)
SawText(u, text) ==
  LET visible == Visible(cache, u.seq, u.pos)
  IN  /\ Cardinality(visible) = u.pos + 1
      /\ {cache.rows[i] : i \in visible} = {[tok |-> text[p + 1], at |-> p] : p \in 0 .. u.pos}

(* Attention is exact for every input of the ubatch that was computed,     *)
(* unless another sequence's shift moved its cells.                        *)
AttentionExactUnlessTorn ==
  phase \in {"prepare", "sample"} =>
    \A k \in 1 .. Len(ubatch), i \in Seats \ Nil :
      seqs[i].slot = ubatch[k].seq /\ ubatch[k].seq \notin cache.torn
        => SawText(ubatch[k], seqs[i].text)

(* llama_decode finds a slot for every ubatch ("could not find a KV slot"  *)
(* makes the runner panic), unless a shift moved another sequence's cells. *)
NeverFull == cache.torn = {} => code # 1

(* A sequence that was loaded ends (it samples until its limit), unless    *)
(* the runner panics.                                                      *)
SequencesEnd == \A i \in Seats : seqs[i] # NoSeq ~> seqs[i] = NoSeq \/ phase = "dead"

(* "In case of unsuccessful decoding (error or warning), the kv_cache      *)
(* state will be returned to its original state" (llama_decode_impl): the  *)
(* cells a failed decode leaves are owned as before it.                    *)
DecodeRestores ==
  code # 0 => \A i \in Cells : cache.cells[i].seqs = restorer.seqs[i]
=============================================================================
