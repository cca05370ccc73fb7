CONSTANTS
  HeaderSize = 2
  BodySizes = {0, 3}
  MaxPackets = 3
  MaxLogins = 2
  MaxForeign = 1
SPECIFICATION GfireSpec
INVARIANTS
  HandledInOrder
  BufferAccounts
  
  ReadsTheServer
PROPERTIES
  EndBetweenPacketsNoticed
CHECK_DEADLOCK FALSE
