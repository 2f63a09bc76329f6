SPECIFICATION Spec
CONSTANTS
  Day = 12
  Minute = 2
  WhiteList <- MCWhiteList
  Creation <- MCCreation
  NotYet = NotYet
  NoDate = NoDate
  TooLate = TooLate
INVARIANTS
  TypeOK
  ExpiresWithinADay
  NeverTooLate
  ExpiresInWhitelist
  GivesUpOnlyInside
CHECK_DEADLOCK FALSE
