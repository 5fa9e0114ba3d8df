SPECIFICATION Spec
CONSTANTS
  Groups <- MCGroups
  Words <- AllWords
  W16 = 4
  W32 = 4
  W64 = 64
  MaxRoot = 4
  NumAddrs = 3
  NumPorts = 3
  NumShards = 4
  NumThreads = 1
  MaxTargets = 0
INVARIANTS EveryTargetOnce EveryTargetCovered
PROPERTIES Termination WalksSubshards
