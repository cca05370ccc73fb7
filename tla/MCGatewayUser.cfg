CONSTANTS
  HeapWords <- MCHeapWords
  Buddy <- MCBuddy
  UserId <- MCUserId
  Resource = {home, work}
  MaxWire = 2
  MaxEvents = 5
SPECIFICATION Spec
SYMMETRY MCSymmetry
INVARIANTS
  
  OfflineHidesBuddies
  ShownAsListed
  EveryBuddyOffered
  ServedWhilePresent
  GoneAreHidden
CHECK_DEADLOCK FALSE
