SPECIFICATION Spec
CONSTANTS
  Requests = {3, 16, 48, 80}
  CHUNKSIZE = 8
  Limit <- LimitDef
  MaxHeap = 24
  MaxLive = 3
INVARIANTS
  TypeOK
  HeapTiled
  FreeListed
  Coalesced
  GrownOnce
PROPERTIES
  Implements
\* Nothing follows a wild write.
CHECK_DEADLOCK FALSE
