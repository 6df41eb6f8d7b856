SPECIFICATION Spec
CONSTANTS
  Lines = {a, x}
  Refused = {}
  Fatal = {x}
  MaxNbLogs = 2
  MaxFaults = 0
INVARIANT WriterSurvives
CHECK_DEADLOCK FALSE
