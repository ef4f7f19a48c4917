SPECIFICATION Spec
CONSTANTS
  MemSize = 10
  PAGESIZE = 2
  KERN_BASE = 36
  AddressSpace = 48
  Sizes <- SomeSizes
  Stray <- SomeStray
INVARIANTS
  ListSound
  FaultsOnReturnedOnly
PROPERTIES
  GivesRuns
CHECK_DEADLOCK FALSE
