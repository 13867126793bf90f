CONSTANTS
  MaxU = 20
  NANOSECONDS_PER_SECOND = 2
  MILLION = 2
  Pids = {1, 2}
  MilliWatts = {3}
  IdlePowers = {0}
  Windows = {1}
  THOUSAND = 1
  CAPACITY = 2
  MaxProcs = 3
  MaxChanges = 0
  MaxTime = 0
  MaxCalls = 0
  MaxEnqueued = 0
SPECIFICATION FairSpec
PROPERTY EveryQueryReturns
