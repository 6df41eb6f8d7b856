SPECIFICATION TestSpec
CONSTANTS
  WaitTimeout = 4
  Tries = 3
  MaxTime = 6
INVARIANTS
  RetriedToTheEnd
CHECK_DEADLOCK FALSE
