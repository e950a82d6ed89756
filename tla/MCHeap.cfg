SPECIFICATION Spec
CONSTANTS
  HeapStart = 1024
  InitialPages = 1
  PageSize = 128
  HdrSize = 32
  Align = 16
  Requests <- SmallRequests
  MaxFrames = 4
INVARIANTS
  SegmentsTileTheHeap
  FreeSegmentsAreMerged
  TwoExpansionsAreEnough
PROPERTIES
  ImplementsBlockStore
CHECK_DEADLOCK FALSE
