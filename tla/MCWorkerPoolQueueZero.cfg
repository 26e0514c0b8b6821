SPECIFICATION Spec
CONSTANTS
  NumWorkers = 2
  Tasks = {t1, t2}
  Main = Main
  Outsiders = {o1}
  MaxBatch = 1
SYMMETRY Symmetry
INVARIANTS
  QueueZeroIsServed
CHECK_DEADLOCK FALSE
