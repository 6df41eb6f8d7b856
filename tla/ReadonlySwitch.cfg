CONSTANTS
  Procs = {p1, p2}
  TurnOn = {on1}
  TurnOff = {off1}
  None = None
  MaxFaults = 1
SPECIFICATION FairSpec
INVARIANTS TypeOK SettledUsesStored LastSwitchPrevails
PROPERTY SwitchSpreads
CHECK_DEADLOCK FALSE
