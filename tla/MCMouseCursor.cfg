SPECIFICATION CursorSpec
CONSTANTS
  Width = 2
  Height = 2
  Size = 2
  MousePointer <- MCPointer
  PacketBytes = {0, 1, 255}
  Colours = {black, white}
  White = white
  Black = black
INVARIANTS CursorTypeOK StaysOnItsLines PointerLeavesNoTrace
