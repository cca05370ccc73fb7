CONSTANTS
  Accounts = {a, b}
  Games = {1}
  OtherGames = {9}
  NoGc = NoGc
  NoFile = NoFile
  Partial = Partial
  MaxLogins = 2
  MaxPrograms = 2
SPECIFICATION Spec
INVARIANTS
  TypeOK
  FaultsNeedALeftover
  ToldIsInGame
  OneGameAtATime
PROPERTIES
  InGameEnds
CHECK_DEADLOCK FALSE
