SPECIFICATION Spec
CONSTANTS
  Q = 18
  S = 4
INVARIANTS
  Disjoint
  Exhaustive
\* a walk ends when every subshard is done
CHECK_DEADLOCK FALSE
