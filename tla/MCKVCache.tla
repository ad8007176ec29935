------------------------------- MODULE MCKVCache ------------------------------
(* Callers edit sequences a bounded number of times until the next clear,    *)
(* and no more after a call that failed (the bridge clears before every      *)
(* prompt).  In MCSpec they submit more than a ubatch only to an empty       *)
(* cache, as the bridge does with a prompt; in AnySpec at any time, while    *)
(* they do no more to a sequence than cut it.                                *)
EXTENDS KVCache

CONSTANTS s1, s2, MaxEdits
VARIABLE edits

(* Windows are of more than one token (the smallest that is not read from  *)
(* a file is 128, llama-model.cpp:1918).  With one a token would see no    *)
(* other, and the windowed cache could lose the last of a sequence.        *)
ASSUME EditsAssumption == Window > 1 /\ MaxEdits \in Nat

Symmetry == Permutations({s1, s2})

MCInit == Init /\ edits = 0
MCClear == Clear /\ edits' = 0

Cut == \E s \in Seqs, p \in 0 .. MaxPos : CutSequence(s, p)
ShareOrKeep == \E s \in Seqs : KeepSequence(s) \/ \E t \in Seqs \ {s} : ShareSequence(s, t)
Edit(step) == edits < MaxEdits /\ edits' = edits + 1 /\ step

Call(short) ==
  \/ \E s \in Seqs, n \in Submitted :
       /\ short => n <= UBatch
       /\ Decode(s, n)
       /\ edits' = IF call'.refused = "no" THEN edits ELSE MaxEdits
  \/ (Apply \/ Computed) /\ UNCHANGED edits
  \/ (OutputsFail \/ ComputeFails) /\ edits' = MaxEdits

MCNext  == MCClear \/ Edit(Cut \/ ShareOrKeep) \/ Call(Used(base) # {})
MCSpec  == MCInit /\ [][MCNext]_<<vars, edits>>
AnySpec == MCInit /\ [][MCClear \/ Edit(Cut) \/ Call(FALSE)]_<<vars, edits>>
=============================================================================
