CONSTANTS
  Procs = {p1, p2}
  Asks = {a1}
  Tells = {t1}
  Main = Main
  Dummy = Dummy
  None = None
  MaxFaults = 1
SPECIFICATION Spec
SYMMETRY Symmetry
INVARIANTS TypeOK OneAnswerEach CompleteAnswers SameOrder
PROPERTIES ImplementsScatterGather
CHECK_DEADLOCK FALSE
