SPECIFICATION Spec
CONSTANTS
  Jobs = {j1, j2}
  OneShots = {j2}
  Workers = {w1}
  None = None
  MaxPushes = 2
  StopEarly = FALSE
INVARIANTS
  OnePlace
  DestroyedUnused
  NoStaleSleep
  CancelLetsOneRunBegin
CHECK_DEADLOCK FALSE
