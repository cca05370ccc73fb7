CONSTANTS
  Resource = {1, 2}
  Plugin <- MCPlugin
  OwnGames <- MCOwnGames
  Foreign = {0, 4}
  NoInfo = NoInfo
  MaxEvents = 5
SPECIFICATION Spec
INVARIANTS
  NeverToldWrong
  UntoldOnlyIfRemembered
  FaultsNeedAnUnknownGame
CHECK_DEADLOCK FALSE
