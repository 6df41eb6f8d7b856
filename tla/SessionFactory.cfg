SPECIFICATION FairSpec
CONSTANTS
  Threads = {t1, t2, t3}
  Master = Master
  Slave = Slave
  None = None
INVARIANTS
  TypeOK
  AloneIsRight
PROPERTIES
  MasterDrains
