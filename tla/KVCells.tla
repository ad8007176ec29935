------------------------------- MODULE KVCells --------------------------------
(***************************************************************************)
(* The cells of one KV cache of llama.cpp, llama-kv-cells.h, and what one  *)
(* cache does with them, llama-kv-cache.cpp, with a single stream.  A      *)
(* cache is a record: cells, head, where the search for free cells starts, *)
(* and swa, whether its layers see no further back than a window.          *)
(*                                                                         *)
(* The sets and maps llama_kv_cells keeps beside its cells (used, seq_pos) *)
(* are read off the cells here.                                            *)
(***************************************************************************)
EXTENDS Integers, SequencesExt

CONSTANTS
  Seqs,     \* the sequences, n_seq_max of them
  Window    \* n_swa: how many positions back a windowed layer sees

NoCell == [pos |-> -1, seqs |-> {}]
Cells(c) == DOMAIN c.cells
Empty(c, i) == c.cells[i].pos = -1
Used(c) == {i \in Cells(c) : ~Empty(c, i)}

NewCache(size, swa) ==
  [cells |-> [i \in 0 .. size - 1 |-> NoCell], head |-> 0, swa |-> swa]

(* The positions of a sequence and the cells that hold it; -1: none.       *)
CellsOf(c, s)     == {i \in Cells(c) : s \in c.cells[i].seqs}
Positions(c, s)   == {c.cells[i].pos : i \in CellsOf(c, s)}
SeqPosMax(c, s)   == Max(Positions(c, s) \cup {-1})
SeqPosMin(c, s)   == IF Positions(c, s) = {} THEN -1 ELSE Min(Positions(c, s))

(* llama_hparams::is_masked_swa, the standard window.                      *)
IsMasked(p0, p1) == p1 - p0 >= Window

(* Slips: cells of the other cache are reused too; no cell is; a cell is  *)
(* one position too early.                                                 *)
CanUseAnyCache(c, i) ==
  \/ Empty(c, i)
  \/ \E s \in Seqs : /\ c.cells[i].seqs = {s}
                      /\ IsMasked(c.cells[i].pos, SeqPosMax(c, s) + 1)
CanUseEmptyOnly(c, i) == Empty(c, i)
CanUseEarly(c, i) ==
  \/ Empty(c, i)
  \/ c.swa /\ \E s \in Seqs :
       /\ c.cells[i].seqs = {s}
       /\ IsMasked(c.cells[i].pos, SeqPosMax(c, s) + 2)

(* A cell is free for a token when it is empty, or when its one sequence   *)
(* will never look at it again.                                            *)
CanUse(c, i) ==
  \/ Empty(c, i)
  \/ c.swa /\ \E s \in Seqs :
       /\ c.cells[i].seqs = {s}
       /\ IsMasked(c.cells[i].pos, SeqPosMax(c, s) + 1)

(* find_slot: the first n such cells, around from the head, in this order; *)
(* none when there are fewer.                                              *)
FindSlot(c, n) ==
  LET size    == Cardinality(Cells(c))
      from    == IF c.head > Cardinality(Used(c)) + 2 * n THEN 0 ELSE c.head
      free    == {i \in Cells(c) : CanUse(c, i)}
      Rank(i) == IF i >= from THEN i - from ELSE i + size - from
      Before(i) == {j \in free : Rank(j) < Rank(i)}
  IN  IF Cardinality(free) < n THEN <<>>
      ELSE [k \in 1 .. n |-> CHOOSE i \in free : Cardinality(Before(i)) = k - 1]

(* A slip: the position of an empty cell stays. *)
WithoutKeepsPos(cell, S) == [cell EXCEPT !.seqs = @ \ S]

(* A cell without the sequences S; without any it is empty.                *)
Without(cell, S) ==
  IF cell.seqs \subseteq S THEN NoCell ELSE [cell EXCEPT !.seqs = @ \ S]

(* The last of the positions that a sequence loses to a slot; -1: none.    *)
Lost(c, slot, t) == Max({c.cells[i].pos : i \in Range(slot) \cap CellsOf(c, t)} \cup {-1})

Index(slot, i) == CHOOSE k \in DOMAIN slot : slot[k] = i

(* apply_ubatch: the tokens of sequence s at positions p, p + 1, ... into  *)
(* the cells of a slot.  Of every sequence that lost a cell, the positions *)
(* up to the last one it lost are purged.                                  *)
ApplyUbatch(c, slot, s, p) ==
  LET Put(i) == IF i \in Range(slot) THEN [pos |-> p + Index(slot, i) - 1, seqs |-> {s}]
                ELSE c.cells[i]
      Purge(cell) == Without(cell, {t \in Seqs : cell.pos <= Lost(c, slot, t)})
  IN  [c EXCEPT !.cells = [i \in Cells(c) |-> Purge(Put(i))],
                !.head  = slot[Len(slot)] + 1]

(* Cells that became empty pull the head back to the first of them.        *)
Freed(c, cells) ==
  LET freed == {i \in Cells(c) : ~Empty(c, i) /\ cells[i] = NoCell}
  IN  [c EXCEPT !.cells = cells,
                !.head  = IF freed # {} THEN Min(freed \cup {@}) ELSE @]

(* seq_rm from position p0 on.                                             *)
SeqRm(c, s, p0) ==
  Freed(c, [i \in Cells(c) |->
              IF c.cells[i].pos >= p0 THEN Without(c.cells[i], {s}) ELSE c.cells[i]])

SeqKeep(c, s) ==
  Freed(c, [i \in Cells(c) |-> Without(c.cells[i], Seqs \ {s})])

(* seq_cp of a whole sequence: the cells are shared.                       *)
SeqCp(c, s0, s1) ==
  [c EXCEPT !.cells = [i \in Cells(c) |->
     IF s0 \in c.cells[i].seqs THEN [c.cells[i] EXCEPT !.seqs = @ \cup {s1}]
     ELSE c.cells[i]]]

(* llama_kv_cells::cp and set: the contents of the cells of a slot.        *)
Save(c, slot) == [slot |-> slot, cells |-> [k \in DOMAIN slot |-> c.cells[slot[k]]],
                  head |-> c.head]
PutBack(c, saved) ==
  [c EXCEPT !.head  = saved.head,
            !.cells = [i \in Cells(c) |->
               IF i \in Range(saved.slot)
               THEN saved.cells[Index(saved.slot, i)]
               ELSE c.cells[i]]]

(* A slip: slots are found one after the other without placing anything. *)
PlaceNowhere(r, u) ==
  LET slot == FindSlot(r.cache, u.n)
  IN  IF ~r.found \/ slot = <<>> THEN [r EXCEPT !.found = FALSE]
      ELSE [r EXCEPT !.slots = Append(@, slot), !.saved = Append(@, Save(r.cache, slot))]

(* llama_kv_cache::prepare.  Ubatches are placed one after the other as    *)
(* long as there is a slot, ...                                            *)
Place(r, u) ==
  LET slot == FindSlot(r.cache, u.n)
  IN  IF ~r.found \/ slot = <<>> THEN [r EXCEPT !.found = FALSE]
      ELSE [r EXCEPT !.cache = ApplyUbatch(@, slot, u.seq, u.pos),
                     !.slots = Append(@, slot),
                     !.saved = Append(@, Save(r.cache, slot))]

(* ... and then taken back, the last one first.  The k-th step back undoes *)
(* the k-th save from the end; the slip: from the start.                   *)
TakeBackInOrder(r) ==
  LET undone[k \in 0 .. Len(r.saved)] ==
        IF k = 0 THEN r.cache ELSE PutBack(undone[k - 1], r.saved[k])
  IN  [r EXCEPT !.cache = undone[Len(r.saved)]]

TakeBack(r) ==
  LET undone[k \in 0 .. Len(r.saved)] ==
        IF k = 0 THEN r.cache ELSE PutBack(undone[k - 1], r.saved[Len(r.saved) - k + 1])
  IN  [r EXCEPT !.cache = undone[Len(r.saved)]]

Prepare(c, ubatches) ==
  LET placed[k \in 0 .. Len(ubatches)] ==
        IF k = 0 THEN [cache |-> c, found |-> TRUE, slots |-> <<>>, saved |-> <<>>]
        ELSE Place(placed[k - 1], ubatches[k])
  IN  TakeBack(placed[Len(ubatches)])
=============================================================================
