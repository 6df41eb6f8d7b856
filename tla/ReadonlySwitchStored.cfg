CONSTANTS
  Procs = {p1, p2}
  TurnOn = {on1}
  TurnOff = {off1}
  None = None
  MaxFaults = 0
SPECIFICATION Spec
INVARIANT CurrentStateIsStored
CHECK_DEADLOCK FALSE
