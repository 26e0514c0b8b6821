SPECIFICATION FairSpec
CONSTANTS
  Tasks = {t1, t2, t3}
  Producers = {p1, p2}
  Thieves = {h1}
  MaxBatch = 2
  None = None
INVARIANT NoLostWakeup
PROPERTIES
  StopEndsOwner
  ImplementsHandoff
CHECK_DEADLOCK FALSE
