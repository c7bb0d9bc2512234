---------------------------- MODULE LlamaKvCache ----------------------------
(***************************************************************************)
(* llama.cpp's KV cache of a transformer (llama-kv-cache.cpp, and what     *)
(* llama.cpp does to it around a decode): a ring of cells, each shared by  *)
(* a set of sequences at one position, and the tensors behind them.        *)
(*                                                                         *)
(* A tensor row is the token it was computed from and the position its key *)
(* is rotated to.  Rows of cells that nobody owns are not told apart.      *)
(* Some definitions have a second form with a telling name, a plausible    *)
(* mistake that the properties must catch.                                 *)
(***************************************************************************)
EXTENDS Integers, Sequences, FiniteSetsExt

CONSTANTS
  Tokens,
  Parallel,    \* n_seq_max
  KvSize       \* cells, the n_ctx of the context

ASSUME CacheAssumption == Parallel \in Nat \ {0} /\ KvSize \in Nat /\ KvSize >= Parallel

SeqIds == 0 .. Parallel - 1
Cells == 0 .. KvSize - 1

Cell == [pos : -1 .. KvSize, delta : -KvSize .. KvSize, seqs : SUBSET SeqIds]
EmptyCell == [pos |-> -1, delta |-> 0, seqs |-> {}]

Row == [tok : Tokens, at : Int]
NoRow == [at |-> -1]

(* torn: history, the sequences some of whose cells another one's shift    *)
(* has moved.                                                              *)
KvCache ==
  [cells : [Cells -> Cell], rows : [Cells -> Row \cup {NoRow}], head : 0 .. KvSize,
   used : 0 .. KvSize, has_shift : BOOLEAN, torn : SUBSET SeqIds]

InitCache ==
  [cells |-> [i \in Cells |-> EmptyCell], rows |-> [i \in Cells |-> NoRow], head |-> 0,
   used |-> 0, has_shift |-> FALSE, torn |-> {}]

Owned(cells) == {i \in Cells : cells[i].seqs # {}}

(* What nobody reads is not told apart.                                    *)
Forget(c) ==
  [c EXCEPT !.rows = [i \in Cells |-> IF c.cells[i].seqs = {} THEN NoRow ELSE c.rows[i]]]

-----------------------------------------------------------------------------
(* Sequences.  p1 < 0 stands for the end.                                  *)

Within(cell, p0, p1) == cell.pos >= p0 /\ (p1 < 0 \/ cell.pos < p1)

(* If cells became free, the search for a slot starts at the first one.    *)
HeadAt(c, freed) == IF freed # {} /\ Min(freed) < c.head THEN Min(freed) ELSE c.head

(* llama_kv_cache_seq_rm; seq < 0 stands for every sequence.               *)
SeqRmKeepsUsed(c, seq, p0, p1) ==
  LET hit == {i \in Cells : Within(c.cells[i], p0, p1) /\ (seq < 0 \/ seq \in c.cells[i].seqs)}
      freed == {i \in hit : seq < 0 \/ c.cells[i].seqs = {seq}}
  IN  Forget([c EXCEPT
        !.cells = [i \in Cells |->
          IF i \in freed THEN [c.cells[i] EXCEPT !.pos = -1, !.seqs = {}]
          ELSE IF i \in hit THEN [c.cells[i] EXCEPT !.seqs = @ \ {seq}] ELSE c.cells[i]],
        !.head = HeadAt(c, freed)])

SeqRm(c, seq, p0, p1) ==
  LET hit == {i \in Cells : Within(c.cells[i], p0, p1) /\ (seq < 0 \/ seq \in c.cells[i].seqs)}
      freed == {i \in hit : seq < 0 \/ c.cells[i].seqs = {seq}}
  IN  Forget([c EXCEPT
        !.cells = [i \in Cells |->
          IF i \in freed THEN [c.cells[i] EXCEPT !.pos = -1, !.seqs = {}]
          ELSE IF i \in hit THEN [c.cells[i] EXCEPT !.seqs = @ \ {seq}] ELSE c.cells[i]],
        !.used = @ - Cardinality(freed),
        !.torn = IF p0 = 0 /\ p1 < 0 THEN @ \ {seq} ELSE @,
        !.head = HeadAt(c, freed)])

(* llama_kv_cache_seq_cp.                                                  *)
SeqCp(c, src, dst, p0, p1) ==
  [c EXCEPT !.head = 0,
            !.torn = IF src \in @ THEN @ \cup {dst} ELSE @ \ {dst},
            !.cells = [i \in Cells |->
              IF src \in c.cells[i].seqs /\ Within(c.cells[i], p0, p1)
              THEN [c.cells[i] EXCEPT !.seqs = @ \cup {dst}] ELSE c.cells[i]]]

(* llama_kv_cache_seq_add.                                                 *)
SeqAdd(c, seq, p0, p1, delta) ==
  LET hit == {i \in Cells : seq \in c.cells[i].seqs /\ Within(c.cells[i], p0, p1)}
      gone == {i \in hit : c.cells[i].pos + delta < 0}
  IN  IF p0 = p1 THEN c
      ELSE Forget([c EXCEPT
        !.cells = [i \in Cells |->
          IF i \in gone THEN [c.cells[i] EXCEPT !.pos = -1, !.delta = @ + delta, !.seqs = {}]
          ELSE IF i \in hit THEN [c.cells[i] EXCEPT !.pos = @ + delta, !.delta = @ + delta]
          ELSE c.cells[i]],
        !.has_shift = @ \/ hit # {},
        !.used = @ - Cardinality(gone),
        !.head = IF gone # {} THEN Min(gone) ELSE 0,
        !.torn = @ \cup ((UNION {c.cells[i].seqs : i \in hit}) \ {seq})])

-----------------------------------------------------------------------------
(* Around a decode.                                                        *)

(* llama_kv_cache_find_slot: n free cells in a row, from the head on and   *)
(* round once.  The head is where the search ends.                         *)
FindSlot(c, n) ==
  LET taken(h) == {i \in 0 .. n - 1 : c.cells[h + i].pos >= 0}
      search[at \in (0 .. KvSize) \X Nat] ==
        LET h == at[1]
            n_tested == at[2]
            next == Min(taken(h)) + 1
        IN  IF h + n > KvSize THEN search[<<0, n_tested + KvSize - h>>]
            ELSE IF taken(h) = {} THEN [found |-> TRUE, head |-> h]
            ELSE IF n_tested + next >= KvSize THEN [found |-> FALSE, head |-> h + next]
            ELSE search[<<h + next, n_tested + next>>]
  IN  IF n > KvSize THEN [found |-> FALSE, head |-> c.head] ELSE search[<<c.head, 0>>]

(* The cells of the slot that was found take the tokens of the ubatch.     *)
Occupy(c, head, ubatch) ==
  [c EXCEPT !.head = head,
            !.cells = [i \in Cells |->
              IF i \in head .. head + Len(ubatch) - 1
              THEN [c.cells[i] EXCEPT !.pos = ubatch[i - head + 1].pos,
                                      !.seqs = @ \cup {ubatch[i - head + 1].seq}]
              ELSE c.cells[i]],
            !.used = @ + Len(ubatch)]

(* The graph of the model writes the rows of the ubatch at the head.       *)
WriteRows(c, ubatch) ==
  [c EXCEPT !.rows = [i \in Cells |->
     IF i \in c.head .. c.head + Len(ubatch) - 1
     THEN [tok |-> ubatch[i - c.head + 1].tok, at |-> ubatch[i - c.head + 1].pos]
     ELSE c.rows[i]]]

(* llama_kv_cache_cell_max and the mask of llama_set_inputs.               *)
CellMax(c) == IF Owned(c.cells) = {} THEN 0 ELSE Max(Owned(c.cells)) + 1
Visible(c, seq, pos) ==
  {i \in 0 .. CellMax(c) - 1 : seq \in c.cells[i].seqs /\ c.cells[i].pos <= pos}

(* The K-shift of llama_kv_cache_update_impl.                              *)
KShiftKeepsDelta(c) ==
  IF ~c.has_shift THEN c
  ELSE Forget([c EXCEPT
    !.rows = [i \in Cells |-> IF c.rows[i] = NoRow THEN NoRow
                              ELSE [c.rows[i] EXCEPT !.at = @ + c.cells[i].delta]],
    !.has_shift = FALSE])

KShift(c) ==
  IF ~c.has_shift THEN c
  ELSE [c EXCEPT
    !.rows = [i \in Cells |-> IF c.rows[i] = NoRow THEN NoRow
                              ELSE [c.rows[i] EXCEPT !.at = @ + c.cells[i].delta]],
    !.cells = [i \in Cells |-> [c.cells[i] EXCEPT !.delta = 0]],
    !.has_shift = FALSE]

(* llama_kv_cache_defrag_impl: the empty cells among the first n_used are  *)
(* filled from the end of the cache.  A run of holes takes as many of the  *)
(* last cells as it is long, in their order; the next run takes the ones   *)
(* before them.  Cells and rows move alike.  If used is exact there is a   *)
(* cell for every hole (GGML_ASSERT(nf == nh)).                            *)
Holes(c) == {i \in 0 .. c.used - 1 : c.cells[i].seqs = {}}
Strays(c) == {i \in Owned(c.cells) : i >= c.used}

RunStart(c, h) == Min({a \in Holes(c) : a <= h /\ a .. h \subseteq Holes(c)})
RunEnd(c, h) == Max({b \in Holes(c) : b >= h /\ h .. b \subseteq Holes(c)})

(* How many strays stay above the one that fills hole h.                   *)
Above(c, h) ==
  Cardinality({k \in Holes(c) : k < RunStart(c, h)}) + (RunEnd(c, h) - h)

Filler(c, h) ==
  CHOOSE s \in Strays(c) : Cardinality({k \in Strays(c) : k > s}) = Above(c, h)

Defrag(c) ==
  IF Holes(c) = {} THEN c
  ELSE Forget([c EXCEPT
    !.cells = [i \in Cells |->
      IF i \in Holes(c) THEN c.cells[Filler(c, i)]
      ELSE IF i \in {Filler(c, h) : h \in Holes(c)} THEN EmptyCell ELSE c.cells[i]],
    !.rows = [i \in Cells |-> IF i \in Holes(c) THEN c.rows[Filler(c, i)] ELSE c.rows[i]],
    !.head = c.used])

(* llama_kv_slot_restorer: the slots of this batch are given back.         *)
Restore(c, old_head, boundaries) ==
  LET undo[n \in 0 .. Len(boundaries)] ==
        IF n = 0 THEN [c EXCEPT !.head = old_head]
        ELSE SeqRm(undo[n - 1], -1, boundaries[n][1], boundaries[n][2])
  IN  undo[Len(boundaries)]
=============================================================================
