SPECIFICATION FairSpec
CONSTANTS
  Procs <- MCProcs
  ThreadId <- MCThreadId
  Reasons <- MCReasons
  Ends <- MCEnds
  PIPE_BUF = 2
  Capacity = 3
  ReadLens = {0, 2}
  WriteLens = {1}
  MaxWrites = 1
PROPERTY EofWhenWritersGone
CHECK_DEADLOCK FALSE
