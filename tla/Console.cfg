SPECIFICATION Spec
CONSTANTS
  CharWidth = 2
  Width = 5
  PixelsPerScanLine = 5
  Height = 3
  Message = 3
  Title = 1
  PanicText = 2
  Scancodes = {42, 170, 54, 182, 28, 57, 14, 30, 15, 58, 158}
  MaxKeys = 6
INVARIANTS TypeOK CursorIsInRow NothingIsOverprinted PanicIsShown
CHECK_DEADLOCK FALSE
