SPECIFICATION FairSpec
CONSTANTS
  Callers = {c1, c2}
  Workers = {w1, w2}
  Owner = Owner
  MaxRequests = 2
INVARIANTS
  NoLostRequest
  DestroyedUnused
PROPERTIES
  WaitReturnsServed
  WaitReturns
CHECK_DEADLOCK FALSE
