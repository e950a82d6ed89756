CONSTANTS
  MemoryPages = 7
  FirmwarePages <- FirmwareIn
  PageSize = 4
  Segments <- KernelSegments
  TableLists <- TablesMoved
  EventBound = 0
  Platforms <- PlatformsThere
  Devices = 3
  Functions = 2
SPECIFICATION Spec
CHECK_DEADLOCK FALSE
INVARIANT RootPointerIsOfACPI2
