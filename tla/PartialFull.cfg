SPECIFICATION Spec
CONSTANTS
  Size = 2
  MaxAttempts = 2
  MaxCalls = 2
  MaxRestarts = 1
INVARIANT
  PartCanGrow
CHECK_DEADLOCK FALSE
