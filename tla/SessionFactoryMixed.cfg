SPECIFICATION Spec
CONSTANTS
  Threads = {t1, t2}
  Master = Master
  Slave = Slave
  None = None
INVARIANTS
  EngineOfTheRequest
