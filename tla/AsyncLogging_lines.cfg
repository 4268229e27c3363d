SPECIFICATION Spec
CONSTANTS
  rollSize = 2
  flushInterval = 0
  checkEveryN = 2
  kRollPerSeconds = 2
  BufferSize = 3
  MaxBatch = 2
  MayFail = TRUE
  MaxLines = 6
  MaxTime = 2
INVARIANTS NoAbort LinesInOrder
PROPERTIES RollsBySize CallsComplete
\* Logging stops.
CHECK_DEADLOCK FALSE
