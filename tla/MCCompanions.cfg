\* Two companions for one worker, the second created when a task blocks.
SPECIFICATION FairSpec
CONSTANTS
  Workers = {w1}
  Companions = {c1, c2}
  Initial = {c1}
  Pushers = {p1}
  MaxBackgroundWorkers = 1
  Tasks = {t1}
  BackgroundTasks = {b1, b2}
INVARIANT CountersMatch
PROPERTIES
  BackgroundTaskRuns
  StopEndsCompanions
CHECK_DEADLOCK FALSE
