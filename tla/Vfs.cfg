SPECIFICATION Spec
CONSTANTS
  Procs = {1, 2}
  NodeId = {1, 2, 3, 4, 5, 6}
  ClusterLen = 4
  TotalClusters = 8
  Names <- MCNames
  NewNames = {"n"}
  Opened <- MCOpened
  Long = {}
  Absolute <- MCAbsolute
  Stored <- MCStored
  FileId = {1, 2, 3, 4}
  Fds = {0, 1, 2}
  Lens = {1, 12}
  MaxCalls = 2
  MaxPowerCuts = 1
  Disks <- MCDisks
CONSTRAINT
  Sound
INVARIANTS
  ChainsIntact
  NoLostClusters
  ReadsAreAtomic
PROPERTY
  OnlyOwnerChanges
CHECK_DEADLOCK FALSE
