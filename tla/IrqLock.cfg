SPECIFICATION Spec
CONSTANTS
  Thread <- MCThread
  Main = 1
  MaxDepth = 2
INVARIANTS
  TypeOK
  GuardedIsAtomic
  NotWhileAtomic
PROPERTY FlagRestored
