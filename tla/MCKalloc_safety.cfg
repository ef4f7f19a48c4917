SPECIFICATION Spec
CONSTANTS
  p1 = p1
  p2 = p2
  p3 = p3
  p4 = p4
  data = data
  NULL = NULL
  Page <- FourPages
  Data = {data}
INVARIANTS
  TypeOK
  ListSound
PROPERTIES
  PoolSpec
CHECK_DEADLOCK FALSE
