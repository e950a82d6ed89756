SPECIFICATION Spec
CONSTANTS
  PageBytes = 4
  BiosPages = 1
  Entries = 4
  MemoryMaps <- Maps
  KernelPages = {0, 1}
  FbBases = {40, 62}
  FbPages = 1
  HeapStart = 64
  InitialPages = 2
  DevicePages = {44, 48, 200}
INVARIANTS
  TablesFormATree
  FramesHaveOneUse
  UsedFramesAreMappedToThemselves
PROPERTIES
  NoTranslationIsReplaced
  ImplementsAddressSpace
CHECK_DEADLOCK FALSE
