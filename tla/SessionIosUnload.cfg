SPECIFICATION Spec
CONSTANTS
  Streams = {s1, s2}
  Selects = {a1}
  Paths = {p1, p2}
  None = None
  Platforms = {"ios"}
  MaxTokens = 1
  MaxAttempts = 2
  MaxSelects = 2
  OverlapSelects = FALSE
  OverlapStreams = FALSE
SYMMETRY Symmetry
INVARIANT KeepsContext
CHECK_DEADLOCK FALSE
