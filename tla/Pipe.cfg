SPECIFICATION Spec
CONSTANTS
  Procs <- MCProcs
  ThreadId <- MCThreadId
  Reasons <- MCReasons
  Ends <- MCEnds
  PIPE_BUF = 2
  Capacity = 3
  ReadLens = {0, 1, 2}
  WriteLens = {0, 1, 3}
  MaxWrites = 2
INVARIANTS
  TypeOK
  NoLostWakeup
  WritesNotInterleaved
  StreamInOrder
CHECK_DEADLOCK FALSE
