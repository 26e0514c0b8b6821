\* Two workers and the caller, four partitions at most; the other parts have their bounds in MCParts.
SPECIFICATION PartsFairSpec
CONSTANTS
  Workers = {w1, w2}
  Caller = caller
  Loops <- MCLoops
  MaxPartitions = 4
  IOPushers = {w1, w2}
  IOThreads = {1, 2}
  MaxPushes = 4
  Releasers = {w1, w2}
  MaxPages = 2
  TSize = 2
  MaxBlocks = 5
  None = None
  GroupPushers = {w1, w2}
  GroupOwner = caller
  MaxJobs = 3
  Values = {w1, w2}
  RingSize = 3
  MaxItems = 5
  Loggers = {1, 2, 3}
  LogIOThread = 4
  Destroyer = 5
  NoThread = 0
  SmallRangeSize = 2
  Counts = {1, 2, 3}
  MaxTotal = 9
INVARIANTS
  AllItemsRun
  ReturnedUnused
  AssertionsHold
  GroupIsComplete
  IOTaskHasThread
  StopDrainsIO
  BlocksAreDistinct
  PurgedWhenUnused
  HoldsTheList
  IdsArePartitioned
PROPERTIES
  LoopReturns
  GroupEnds
  DelayedJobRuns
  StopEndsIO
  FlushedIsPrinted
CHECK_DEADLOCK FALSE
