SPECIFICATION Spec
CONSTANTS
  Size = 3
  MaxAttempts = 3
  MaxCalls = 5
  MaxRestarts = 2
INVARIANTS
  TypeOK
  WholeFile
PROPERTIES
  BytesKept
  OnlyResumeStrands
CHECK_DEADLOCK FALSE
