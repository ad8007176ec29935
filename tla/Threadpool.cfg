SPECIFICATION FairSpec
CONSTANTS
  PoolSize = 3
  Graphs <- MCGraphs
  RawChunks = 4
  PerThread = 1
  MaxGraphs = 2
  MayAbort = TRUE
  MayPause = TRUE
INVARIANTS TypeOK ResetAlone
PROPERTIES KeepsPromise CallsReturn PoolsEnd
