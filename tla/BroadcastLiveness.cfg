SPECIFICATION FairSpec
CONSTANTS
  Procs = {p1, p2}
  Asks = {a1}
  Tells = {}
  Main = Main
  Dummy = Dummy
  None = None
  MaxFaults = 1
PROPERTIES
  EveryCallSettles
  AnswerChannelsReleased
CHECK_DEADLOCK FALSE
