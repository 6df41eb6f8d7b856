CONSTANTS
  Procs = {p1, p2}
  Asks = {a1}
  Tells = {}
  Main = Main
  Dummy = Dummy
  None = None
  MaxFaults = 0
SPECIFICATION Spec
PROPERTIES ReturnedAnswersFixed
CHECK_DEADLOCK FALSE
