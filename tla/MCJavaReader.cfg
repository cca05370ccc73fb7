CONSTANTS
  HeaderSize = 2
  BodySizes = {0, 1, 2}
  MaxPackets = 3
SPECIFICATION JavaSpec
INVARIANTS
  WholeUntilShort
  SpeaksTheProtocol
PROPERTIES
  LoopEnds
CHECK_DEADLOCK FALSE
