------------------------------- MODULE KVCache --------------------------------
(***************************************************************************)
(* llama_decode over the two KV caches of a model with sliding windows:    *)
(* llama_context::decode, llama_kv_cache_iswa.  The tokens of a call       *)
(* belong to one sequence and continue it, as llama_batch_get_one and its  *)
(* generated positions make them.  A batch is split into ubatches; slots   *)
(* for all of them are found by placing them, first in the base cache,     *)
(* then in the windowed one, and taken back again; only then each is       *)
(* placed and computed.                                                    *)
(***************************************************************************)
EXTENDS KVCells, TLC

CONSTANTS
  BaseSize,   \* cells of the cache of the layers without a window
  UBatch,     \* n_ubatch: tokens placed and computed at once
  Submitted,  \* how many tokens callers submit in a call, at most n_batch
  MaxPos      \* bound: positions of a sequence

ASSUME CacheAssumption ==
  /\ IsFiniteSet(Seqs)
  /\ {Window, BaseSize, UBatch, MaxPos} \cup Submitted \subseteq Nat \ {0}

VARIABLES
  base, swa,  \* the caches
  call,       \* the call of llama_decode in progress
  torn        \* cells whose keys and values are not those of their token

(* The windowed cache has room for the window of each sequence and a       *)
(* ubatch.                                                                 *)
SwaSize == Min({BaseSize, Cardinality(Seqs) * Window + UBatch})

vars == <<base, swa, call, torn>>

Idle == [pc |-> "idle", todo |-> <<>>, refused |-> "no"]

Init ==
  /\ base = NewCache(BaseSize, FALSE)
  /\ swa = NewCache(SwaSize, TRUE)
  /\ call = Idle
  /\ torn = [base |-> {}, swa |-> {}]

(* split_simple: n tokens of sequence s from position p on, as ubatches.   *)
Split(s, p, n) ==
  [k \in 1 .. (n + UBatch - 1) \div UBatch |->
     LET done == (k - 1) * UBatch
     IN  [seq |-> s, pos |-> p + done, n |-> Min({UBatch, n - done})]]

(* Of the torn cells, those still in use.                                  *)
StillTorn(t, b, w) == [base |-> t.base \cap Used(b), swa |-> t.swa \cap Used(w)]
-----------------------------------------------------------------------------
(* What a caller does between calls of llama_decode.                       *)

Clear ==
  /\ call.pc = "idle"
  /\ base' = NewCache(BaseSize, FALSE)
  /\ swa' = NewCache(SwaSize, TRUE)
  /\ torn' = [base |-> {}, swa |-> {}]
  /\ call' = Idle

Edits(b, w) ==
  /\ call.pc = "idle"
  /\ base' = b /\ swa' = w
  /\ torn' = StillTorn(torn, b, w)
  /\ call' = Idle

(* Callers ask for the smallest position present first: what the next      *)
(* token will look back at must be there.                                  *)
MayCut(s, p) == p = 0 \/ SeqPosMin(swa, s) <= (IF p < Window THEN 0 ELSE p - Window + 1)

CutSequence(s, p) ==
  /\ p <= SeqPosMax(swa, s) /\ MayCut(s, p)
  /\ Edits(SeqRm(base, s, p), SeqRm(swa, s, p))

ShareSequence(s0, s1) ==
  /\ Positions(base, s0) # {} /\ Positions(base, s1) = {}
  /\ Edits(SeqCp(base, s0, s1), SeqCp(swa, s0, s1))

KeepSequence(s) ==
  /\ \E t \in Seqs \ {s} : Positions(base, t) # {}
  /\ Edits(SeqKeep(base, s), SeqKeep(swa, s))
-----------------------------------------------------------------------------
(* llama_context::decode.                                                  *)

(* llama_kv_cache_iswa::init_batch: slots in the base cache, then in the   *)
(* windowed one; when one has none, the same again with the ubatches of    *)
(* the equal split, which are the same for one sequence.                   *)
Try(b, w, ubatches) ==
  LET inBase == Prepare(b, ubatches)
      inSwa  == Prepare(w, ubatches)
  IN  IF inBase.found
      THEN [refused |-> IF inSwa.found THEN "no" ELSE "swa", base |-> inBase.cache,
            swa |-> inSwa.cache, slots |-> <<inBase.slots, inSwa.slots>>]
      ELSE [refused |-> "base", base |-> inBase.cache, swa |-> w]

InitBatch(b, w, ubatches) ==
  LET first == Try(b, w, ubatches)
  IN  IF first.refused = "no" THEN first ELSE Try(first.base, first.swa, ubatches)

(* Positions go on from the last one in the windowed cache.                *)
Decode(s, n) ==
  /\ call.pc = "idle"
  /\ SeqPosMax(swa, s) + n <= MaxPos
  /\ LET ubatches == Split(s, SeqPosMax(swa, s) + 1, n)
     IN  \E result \in {InitBatch(base, swa, ubatches)} :
         /\ base' = result.base /\ swa' = result.swa
         /\ call' = IF result.refused # "no" THEN [Idle EXCEPT !.refused = result.refused]
                    ELSE [Idle EXCEPT !.pc = "prepared", !.todo = [k \in DOMAIN ubatches |->
                           [seq |-> s, pos |-> ubatches[k].pos, n |-> ubatches[k].n,
                            slots |-> <<result.slots[1][k], result.slots[2][k]>>]]]
  /\ UNCHANGED torn

(* No room for the outputs. *)
OutputsFail == call.pc = "prepared" /\ call' = Idle /\ UNCHANGED <<base, swa, torn>>

Ubatch == Head(call.todo)

(* process_ubatch: the metadata of the ubatch first, ...                   *)
Apply ==
  /\ call.pc \in {"prepared", "place"}
  /\ base' = ApplyUbatch(base, Ubatch.slots[1], Ubatch.seq, Ubatch.pos)
  /\ swa'  = ApplyUbatch(swa, Ubatch.slots[2], Ubatch.seq, Ubatch.pos)
  /\ torn' = StillTorn([base |-> torn.base \cup Range(Ubatch.slots[1]),
                        swa |-> torn.swa \cup Range(Ubatch.slots[2])], base', swa')
  /\ call' = [call EXCEPT !.pc = "compute"]

(* ... then its keys and values.                                           *)
Computed ==
  /\ call.pc = "compute"
  /\ torn' = [base |-> torn.base \ Range(Ubatch.slots[1]),
              swa |-> torn.swa \ Range(Ubatch.slots[2])]
  /\ call' = IF Len(call.todo) = 1 THEN Idle ELSE [call EXCEPT !.pc = "place", !.todo = Tail(@)]
  /\ UNCHANGED <<base, swa>>

(* A slip: the base cache keeps them. *)
RemovesFromSwa(p) ==
  /\ swa' = SeqRm(swa, Ubatch.seq, p)
  /\ torn' = StillTorn(torn, base, swa')
  /\ call' = Idle
  /\ UNCHANGED base

Removes(p) ==
  /\ base' = SeqRm(base, Ubatch.seq, p)
  /\ swa' = SeqRm(swa, Ubatch.seq, p)
  /\ torn' = StillTorn(torn, base', swa')
  /\ call' = Idle

(* A slip: only what comes after the first token is removed. *)
ComputeFailsKeepsFirst == call.pc = "compute" /\ Removes(Ubatch.pos + 1)

(* A slip: the whole sequence is removed. *)
ComputeFailsRemovesAll == call.pc = "compute" /\ Removes(0)

(* The graph was aborted, or could not be allocated or computed: the       *)
(* positions of this ubatch are removed, those of earlier ones stay.       *)
ComputeFails == call.pc = "compute" /\ Removes(Ubatch.pos)

Next ==
  \/ Clear
  \/ \E s \in Seqs : \/ \E p \in 0 .. MaxPos : CutSequence(s, p)
                     \/ \E t \in Seqs \ {s} : ShareSequence(s, t)
                     \/ KeepSequence(s)
                     \/ \E n \in Submitted : Decode(s, n)
  \/ OutputsFail \/ Apply \/ Computed \/ ComputeFails

Spec == Init /\ [][Next]_vars
-----------------------------------------------------------------------------
CacheOK(c, size, windowed) ==
  /\ c \in [cells: [0 .. size - 1 -> [pos: -1 .. MaxPos, seqs: SUBSET Seqs]],
            head: 0 .. size, swa: {windowed}]
  /\ \A i \in Cells(c) : Empty(c, i) <=> c.cells[i].seqs = {}

TypeOK ==
  /\ CacheOK(base, BaseSize, FALSE) /\ CacheOK(swa, SwaSize, TRUE)
  /\ call.pc \in {"idle", "prepared", "place", "compute"}
  /\ torn.base \subseteq Cells(base) /\ torn.swa \subseteq Cells(swa)

(* "all positions in the range [pos_min, pos_max] are guaranteed to be     *)
(* present in the memory" (llama.h:756).  What the windowed cache holds is *)
(* told by SeesWindow; here, each position is in one cell of it.           *)
Contiguous ==
  \A s \in Seqs :
    /\ Positions(base, s) = 0 .. SeqPosMax(base, s)
    /\ \A c \in {base, swa} : Cardinality(CellsOf(c, s)) = Cardinality(Positions(c, s))

(* "the base cache is a superset of the SWA cache"                         *)
(* (llama-kv-cache-iswa.cpp:110), and both end at the same position.       *)
BaseIsSuperset ==
  \A s \in Seqs : /\ Positions(swa, s) \subseteq Positions(base, s)
                  /\ SeqPosMax(swa, s) = SeqPosMax(base, s)

(* Whatever was overwritten, the tokens computed now, and the next one of  *)
(* every sequence, find every position before them that they look at.      *)
InView(s, p) ==
  /\ 0 .. p - 1 \subseteq Positions(base, s)
  /\ {q \in 0 .. p - 1 : ~IsMasked(q, p)} \subseteq Positions(swa, s)

SeesWindow ==
  /\ \A s \in Seqs : InView(s, SeqPosMax(swa, s) + 1)
  /\ call.pc = "compute" => \A j \in 0 .. Ubatch.n - 1 : InView(Ubatch.seq, Ubatch.pos + j)

(* After a call, failed or not, no cell in use holds keys and values that  *)
(* were not computed for it.                                               *)
NothingTorn == call.pc = "idle" => torn = [base |-> {}, swa |-> {}]

(* Slots found while preparing are still free when they are used, in spite *)
(* of what was taken back in between (the assertions of apply_ubatch).     *)
SlotsStayFree ==
  call.pc \in {"prepared", "place"} =>
    /\ \A i \in Range(Ubatch.slots[1]) : CanUse(base, i)
    /\ \A i \in Range(Ubatch.slots[2]) : CanUse(swa, i)

(* "restore the cells to their original state" (llama-kv-cache.cpp:608):   *)
(* finding slots, with success or without, changes nothing that a sequence *)
(* still looks at.                                                         *)
InSight(c) ==
  [i \in Cells(c) |->
     Without(c.cells[i], {s \in Seqs : IsMasked(c.cells[i].pos, SeqPosMax(c, s) + 1)})]

PreparingUndone ==
  [][call.pc = "idle" /\ (call'.pc = "prepared" \/ call'.refused # "no") =>
       base' = base /\ swa'.head = swa.head /\ InSight(swa') = InSight(swa)]_vars

(* The size of the windowed cache is enough: it refuses a batch only when  *)
(* sequences share its cells.                                              *)
Shared == \E i \in Cells(swa) : Cardinality(swa.cells[i].seqs) > 1

RoomInSwa == call.refused = "swa" => Shared

(* What the next token of a sequence can use: the positions whose keys and *)
(* values are whole in the base cache, and in the windowed one unless they *)
(* are out of the window.                                                  *)
Held(c, t, s) == {c.cells[i].pos : i \in CellsOf(c, s) \ t}

Known(s) ==
  {q \in Held(base, torn.base, s) :
     q \in Held(swa, torn.swa, s) \/ IsMasked(q, SeqPosMax(base, s) + 1)}

Tokens == [s \in Seqs |-> Cardinality(Known(s))]

Extending ==
  IF call.pc = "idle" THEN <<>>
  ELSE LET last == call.todo[Len(call.todo)] IN <<last.seq, last.pos + last.n>>

Memory == INSTANCE SequenceMemory WITH memory <- Tokens, batch <- Extending

(* The two caches, with cells that are reused, and batches that are placed *)
(* and computed in parts are to a caller what llama.h says: a sequence is  *)
(* its tokens up to the last one; a refused batch changes nothing, a       *)
(* failed one leaves the tokens computed before; no call touches another   *)
(* sequence (SequenceMemory).                                              *)
MemoryKept == Memory!Spec
=============================================================================
