SPECIFICATION PrintfSpec
CONSTANTS
  LongBits = 6
  ShortBits = 5
  CharBits = 3
  NtoaSize = 8
  PtrDigits = 3
  MemSize = 20
  Calls <- AllCalls
INVARIANTS
  TruncationReturnsCount
CHECK_DEADLOCK FALSE
