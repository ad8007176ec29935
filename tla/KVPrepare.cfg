SPECIFICATION AnySpec
CONSTANTS
  s1 = s1
  s2 = s2
  Seqs = {s1, s2}
  Window = 3
  BaseSize = 7
  UBatch = 1
  Submitted = {1, 3}
  MaxPos = 5
  MaxEdits = 1
PROPERTY PreparingUndone
SYMMETRY Symmetry
