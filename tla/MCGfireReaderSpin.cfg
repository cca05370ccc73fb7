CONSTANTS
  HeaderSize = 2
  BodySizes = {0, 1, 3}
  MaxPackets = 1
  MaxLogins = 1
  MaxForeign = 0
SPECIFICATION GfireSpec
PROPERTIES
  EndNoticed
CHECK_DEADLOCK FALSE
