CONSTANTS
  Text <- MCText
  Words <- MCWords
  Word <- MCWord
  Jids <- MCJids
  Names <- MCNames
  Passwords <- MCPasswords
  Buddies <- MCBuddies
  Lower <- MCLower
SPECIFICATION Spec
INVARIANTS
  TypeOK
  AccountsUnique
  OnlyTheJobDiffers
  AnsweredIsDurable
  ShutdownKeepsRosters
PROPERTIES
  ImplementsRegistrations
