----------------------------- MODULE MCSession -----------------------------
EXTENDS AyaSession, TLC
Symmetry == Permutations(Streams) \cup Permutations(Paths) \cup Permutations(Selects)
=============================================================================
