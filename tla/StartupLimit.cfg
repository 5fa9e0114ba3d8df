SPECIFICATION Spec
CONSTANTS
  None = None
  Groups <- MCGroups
  W8 = 8
  W16 = 8
  W32 = 16
  W64 = 256
  MaxRoot = 8
  DefaultSourcePorts = 4
  ProbeModules <- SomeModules
  SourcePortArgs <- Sources
  ProbesArgs = {1, 3}
  TargetPortArgs <- SomeTargetPorts
  OutputFieldArgs <- OutputArgs
  FilterArgs <- Filters
  ShardArgs <- SomeShard
  ShardsArgs <- SomeShards
  MaxTargetsArgs <- SomeLimits
  ThreadArgs <- Threads
  AllowedCounts = {0, 1, 4, 15}
  CoreCounts = {1, 4}
INVARIANT UnlimitedReachesAll
CHECK_DEADLOCK FALSE
