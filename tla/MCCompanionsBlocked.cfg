SPECIFICATION Spec
CONSTANTS
  Workers = {w1}
  Companions = {c1, c2}
  Initial = {c1, c2}
  Pushers = {p1}
  MaxBackgroundWorkers = 1
  Tasks = {t1, t2}
  BackgroundTasks = {}
INVARIANT BlockedHaveCompanion
CHECK_DEADLOCK FALSE
