CONSTANTS
  HeaderSize = 2
  BodySizes = {0, 1, 2}
  MaxPackets = 3
SPECIFICATION JavaSpec
INVARIANTS
  BlocksUntilFinished
CHECK_DEADLOCK FALSE
