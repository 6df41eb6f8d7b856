SPECIFICATION FairSpec
CONSTANTS
  Lines = {a, b, c, d, x}
  Refused = {d}
  Fatal = {x}
  MaxNbLogs = 2
  MaxFaults = 1
INVARIANTS TypeOK NothingLost RowsInOrder DropIsLocal
PROPERTY EveryLineLeaves
CHECK_DEADLOCK FALSE
