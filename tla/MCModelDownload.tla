--------------------------- MODULE MCModelDownload ---------------------------
EXTENDS ModelDownloadController, TLC
Symmetry == Permutations(Models) \cup Permutations(Calls) \cup Permutations(Completers)
=============================================================================
