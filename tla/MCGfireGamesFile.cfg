CONSTANTS
  Accounts = {a}
  Games = {1}
  OtherGames = {9}
  NoGc = NoGc
  NoFile = NoFile
  Partial = Partial
  MaxLogins = 1
  MaxPrograms = 2
SPECIFICATION Spec
PROPERTIES
  OnlyFileGamesEndByFile
CHECK_DEADLOCK FALSE
