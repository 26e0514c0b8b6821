SPECIFICATION Spec
CONSTANTS
  Callers = {c1, c2}
  Workers = {w1, w2}
  MaxRequests = 1
  Nobody = Nobody
INVARIANT DestroyedUnused
CHECK_DEADLOCK FALSE
