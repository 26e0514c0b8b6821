SPECIFICATION Spec
CONSTANTS
  Jobs = {j1}
  OneShots = {}
  Workers = {w1}
  None = None
  MaxPushes = 1
  StopEarly = TRUE
PROPERTY RescheduledWhileActive
CHECK_DEADLOCK FALSE
