SPECIFICATION Spec
CONSTANTS
  HDR_SIZE = 2
  FTR_SIZE = 1
  ALIGN = 2
  MIN_DATA = 2
  HEAP_SIZE = 30
  WORD = 64
  Requests = {0, 1, 3, 6, 30}
  NULL = NULL
INVARIANTS TypeOK BlocksTile FreeListExact ClientsOwnBlocks
PROPERTY ImplementsAllocator
