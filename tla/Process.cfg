SPECIFICATION ExitFairSpec
CONSTANTS
  ThreadId <- MCThreadId
  Reasons <- MCReasons
  Main = 1
  Executor = 4
  Compositor = 3
  Files = {f1}
  FirstPid = 6
  LastPid = 8
INVARIANTS
  TypeOK
  ForkedHasThread
  ExitFindsItself
  SleepersHoldNoLock
  LockChainsEnd
  WokenStillBlocked
PROPERTIES
  WaitEndsAfterExit
  BlockedParentWakes
CHECK_DEADLOCK FALSE
