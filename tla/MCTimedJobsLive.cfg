SPECIFICATION FairSpec
CONSTANTS
  Jobs = {j1}
  OneShots = {}
  Workers = {w1, w2}
  None = None
  MaxPushes = 2
  StopEarly = TRUE
PROPERTIES
  WaitReturns
  ActiveJobRuns
  StopEnds
CHECK_DEADLOCK FALSE
