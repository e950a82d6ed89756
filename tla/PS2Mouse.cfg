SPECIFICATION MovingSpec
CONSTANTS
  PacketSizes = {3, 4}
  Packets = 1
  Acks = {0, 1, 2}
INVARIANTS TypeOK DrawnPacketIsWhole InSyncUntilAByteIsMissed
PROPERTIES CursorKeepsMoving
