SPECIFICATION FairSpec
CONSTANTS
  NumWorkers = 2
  Tasks = {t1, t2}
  Main = Main
  Outsiders = {}
  MaxBatch = 2
INVARIANTS
  SleepersAreCounted
  FirstQueueIsServed
PROPERTIES
  BatchIsServed
  StopEndsWorkers
CHECK_DEADLOCK FALSE
