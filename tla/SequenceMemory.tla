---------------------------- MODULE SequenceMemory ----------------------------
(***************************************************************************)
(* What llama.h promises of the memory of a context (lines 702-770) and of *)
(* llama_decode (lines 931-945), whatever cells, caches and ubatches are   *)
(* behind it: a sequence is so many tokens from its first one on; a batch  *)
(* that is refused leaves it as it was; one that is aborted or fails       *)
(* leaves what was processed until then; and nothing else changes it than  *)
(* what the caller asks for.                                               *)
(***************************************************************************)
EXTENDS Integers, Sequences

CONSTANTS
  Seqs,       \* the sequences
  Submitted   \* how many tokens are submitted in a call

VARIABLES
  memory,  \* memory[s]: how many tokens of s are in the memory
  batch    \* <<s, end>>: s is being extended to so many tokens; <<>>: none

vars == <<memory, batch>>

Init == memory = [s \in Seqs |-> 0] /\ batch = <<>>

Edits(m) == batch = <<>> /\ batch' = <<>> /\ memory' = m

Clear == Edits([s \in Seqs |-> 0])

Cut(s) == \E n \in 0 .. memory[s] - 1 : Edits([memory EXCEPT ![s] = n])

Share(s, t) == memory[t] = 0 /\ Edits([memory EXCEPT ![t] = memory[s]])

Keep(s) == Edits([t \in Seqs |-> IF t = s THEN memory[s] ELSE 0])

Begin(s, n) == batch = <<>> /\ batch' = <<s, memory[s] + n>> /\ UNCHANGED memory

(* Some of its tokens are processed; with the last one the call returns.   *)
Extend ==
  /\ batch # <<>>
  /\ \E n \in memory[batch[1]] + 1 .. batch[2] :
       /\ memory' = [memory EXCEPT ![batch[1]] = n]
       /\ batch' = IF n = batch[2] THEN <<>> ELSE batch

Fail == batch # <<>> /\ batch' = <<>> /\ UNCHANGED memory

Next ==
  \/ Clear \/ Extend \/ Fail
  \/ \E s \in Seqs : \/ Cut(s) \/ Keep(s)
                     \/ \E t \in Seqs \ {s} : Share(s, t)
                     \/ \E n \in Submitted : Begin(s, n)

Spec == Init /\ [][Next]_vars
=============================================================================
