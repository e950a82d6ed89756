CONSTANTS
  MemoryPages = 7
  FirmwarePages <- FirmwareIn
  PageSize = 4
  Segments <- KernelSegments
  TableLists <- TablesFound
  EventBound = 1
  Platforms <- PlatformsThere
  Devices = 3
  Functions = 2
SPECIFICATION Spec
CHECK_DEADLOCK FALSE
INVARIANTS HandedOverMapIsCurrent ImageIsWhole EveryControllerHasADriver
