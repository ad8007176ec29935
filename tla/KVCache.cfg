SPECIFICATION MCSpec
CONSTANTS
  s1 = s1
  s2 = s2
  Seqs = {s1, s2}
  Window = 2
  BaseSize = 7
  UBatch = 2
  Submitted = {1, 2, 7}
  MaxPos = 6
  MaxEdits = 1
INVARIANTS TypeOK Contiguous BaseIsSuperset SeesWindow NothingTorn SlotsStayFree RoomInSwa
PROPERTIES PreparingUndone MemoryKept
SYMMETRY Symmetry
