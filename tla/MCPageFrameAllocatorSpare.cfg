SPECIFICATION Spec
CONSTANTS
  PageBytes = 2
  BiosPages = 1
  MemoryMaps <- Maps
  KernelPages = {0, 8}
  FramebufferPages = {12, 13, 30}
  NoAnswer = NoAnswer
INVARIANTS
  HandedOutPagesAreConventional
