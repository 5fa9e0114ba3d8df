CONSTANTS
  Responses <- ThreeTargets
  MaxCaptured = 5
  Confs <- SomeConfs
  WindowSize = 2
  Paddings = {0}
  StackWords = {1}
  FilterKeeps <- KeepFresh
  MaxResults = 4
SPECIFICATION RecvSpec
INVARIANTS NoDuplicateRows UniqueIsUnique WindowDedup
PROPERTY ImplementsWindow
