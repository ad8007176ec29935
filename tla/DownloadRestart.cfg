SPECIFICATION FairSpec
CONSTANTS
  Models = {m1}
  Calls = {a1}
  Finalizers = {f1}
  Completers = {c1, c2, c3}
  None = None
  MaxEvents = 2
  MaxCalls = 2
  MaxRestarts = 1
  Throwing = {"client", "list", "records", "reattach", "storage", "enqueueFailed", "pause",
    "resume", "cancel", "cancelRecord", "erase", "deleteCancel", "deleteCancelRecord",
    "delete", "deleteFile", "validate", "path", "refresh", "readiness"}
CHECK_DEADLOCK FALSE
INVARIANTS TypeOK CurrentIsPending ScreenHasModel FailureIsExplained
PROPERTIES SettledOnce FinalizingEnds
