SPECIFICATION FairSpec
CONSTANTS
  ThreadId <- MCThreadId
  Reasons <- MCReasons
  Main = 1
  Executor = 4
  Compositor = 3
  Files = {f1}
  FirstPid = 6
  LastPid = 8
PROPERTY ForkReturns
CHECK_DEADLOCK FALSE
