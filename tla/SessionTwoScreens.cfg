SPECIFICATION Spec
CONSTANTS
  Streams = {s1, s2}
  Selects = {a1}
  Paths = {p1, p2}
  None = None
  Platforms = {"android"}
  MaxTokens = 1
  MaxAttempts = 2
  MaxSelects = 1
  OverlapSelects = FALSE
  OverlapStreams = TRUE
SYMMETRY Symmetry
INVARIANT GenerationsEnd
CHECK_DEADLOCK FALSE
