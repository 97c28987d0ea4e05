SPECIFICATION Spec
CONSTANTS
  BootThreads <- MCBootThreads
  Procs <- MCProcs
  SliceTicks = 2
  MaxSleep = 1
INVARIANT SwitchNotInterrupted
