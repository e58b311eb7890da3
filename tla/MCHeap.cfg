SPECIFICATION Spec
CONSTANTS
  Start = 1
  HeapSize = 13
  HeaderSize = 2
  Requests = {0, 1, 3, 11}
INVARIANTS
  ListWellFormed
  Coalesced
  BlocksIsolated
  NothingLeaks
  ScanIsFirstFit
PROPERTIES
  HeldBlocksStable
  ImplementsBlockAllocator
