SPECIFICATION FilesFairSpec
CONSTANTS
  Callers = {c1, c2, c3}
  Workers = {w1, w2}
  MaxRequests = 2
  Nobody = Nobody
INVARIANTS
  NoStrandedItem
  DestroyedIdle
PROPERTIES
  LoadsAreServed
  ClosingEnds
CHECK_DEADLOCK FALSE
