SPECIFICATION PaceSpec
CONSTANTS
  Models = {m1, m2}
  Calls = {a1}
  Finalizers = {f1}
  Completers = {c1, c2, c3}
  None = None
  MaxEvents = 3
  MaxCalls = 6
  MaxRestarts = 0
  Throwing = {}
CHECK_DEADLOCK FALSE
SYMMETRY Symmetry
INVARIANTS NotStranded UnhurriedSingleDownload UnhurriedPausedIsPaused UnhurriedOnDiskListed UnhurriedRunningIsShown
