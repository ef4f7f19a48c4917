SPECIFICATION Spec
CONSTANTS
  s1 = s1
  s2 = s2
  s3 = s3
  BYTE = 4
  NIBBLE = 2
  TssAt = 201
  TssSize = 7
  TssStackEnd = 3
  HandlerAt <- HandlersAt
  BootStack = s1
  Stacks = {s1, s2, s3}
  Unused = 200
INVARIANTS
  KernelEntered
  TrapsReturn
CHECK_DEADLOCK FALSE
