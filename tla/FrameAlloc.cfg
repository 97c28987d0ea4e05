SPECIFICATION FairSpec
CONSTANTS
  PAGE = 4
  LowMemory = 3
  MemoryMaps <- MCMemoryMaps
  UsedRanges <- MCUsedRanges
INVARIANTS
  TypeOK
  KernelFramesFree
  HandedOutOnce
  NothingLeft
PROPERTY
  NextFrameReturns
CHECK_DEADLOCK FALSE
