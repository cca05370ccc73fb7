CONSTANTS
  Buddy <- MCBuddy
  Statuses <- MCStatuses
  BackWords <- MCBackWords
  Games = {7}
  MaxSid = 3
  MaxWire = 3
  MaxEvents = 4
  MaxLogins = 2
  MaxParts = 1
SPECIFICATION Spec
INVARIANTS
  Mirrors
  ShownAsSent
  CountsParts
CHECK_DEADLOCK FALSE
