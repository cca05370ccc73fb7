CONSTANTS
  HeaderSize = 2
  BodySizes = {0, 1, 3}
  MaxPackets = 3
SPECIFICATION CppSpec
INVARIANTS
  InOrderAndWhole
  KeepsItsPlace
  
PROPERTIES
  ImplementsChannel
  ThreadReturns
CHECK_DEADLOCK FALSE
