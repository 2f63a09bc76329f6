SPECIFICATION Spec
CONSTANTS
  Day = 12
  Minute = 2
  WhiteList <- MCWhiteList
  Creation <- MCCreation
  NotYet = NotYet
  NoDate = NoDate
  TooLate = TooLate
CHECK_DEADLOCK FALSE
INVARIANT ExpiresAfterHalfADay
