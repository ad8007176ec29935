SPECIFICATION Spec
CONSTANTS
  Streams = {s1, s2}
  Selects = {a1}
  Paths = {p1, p2}
  None = None
  Platforms = {"android", "ios"}
  MaxTokens = 1
  MaxAttempts = 2
  MaxSelects = 3
  OverlapSelects = FALSE
  OverlapStreams = FALSE
SYMMETRY Symmetry
INVARIANT SessionTypeOK
INVARIANT AndroidKeepsContext
INVARIANT GenerationsEnd
INVARIANT ReadyIsLoaded
INVARIANT ActiveIsSaved
INVARIANT OwnTokensUncancelled
CHECK_DEADLOCK FALSE
