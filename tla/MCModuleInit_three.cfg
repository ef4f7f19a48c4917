SPECIFICATION FairSpec
CONSTANTS
  a = a
  b = b
  c = c
  missing = missing
  NULL = NULL
  N = 3
  Name <- Names
  Decls <- ThreeModules
INVARIANTS
  TypeOK
  DepthBounded
  ReturnsComplete
PROPERTIES
  StartedInOrder
  EndsAsItMust
CHECK_DEADLOCK FALSE
