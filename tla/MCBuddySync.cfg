CONSTANTS
  HeapWords <- MCHeapWords
  Buddy <- MCBuddy
  UserId <- MCUserId
  Nicks <- MCNicks
  Statuses <- MCStatuses
  Games <- MCGames
  MaxSid = 5
  MaxWire = 2
  MaxEvents = 4
SPECIFICATION Spec
INVARIANTS
  Mirrors
  SidsIdentify
  FriendsFollow
PROPERTIES
  OnlyRemovalForgets
CHECK_DEADLOCK FALSE
