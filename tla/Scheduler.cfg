SPECIFICATION FairSpec
CONSTANTS
  BootThreads <- MCBootThreads
  Procs <- MCProcs
  SliceTicks = 2
  MaxSleep = 2
INVARIANTS
  TypeOK
  QueueDiscipline
  OnlyRunningExecutes
PROPERTIES
  NoOvertaking
  ReadyGetsCpu
  ImplementsThreads
