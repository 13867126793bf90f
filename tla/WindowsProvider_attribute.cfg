CONSTANTS
  MaxU = 60
  NANOSECONDS_PER_SECOND = 2
  MILLION = 2
  Pids = {1, 2}
  MilliWatts = {0, 3}
  IdlePowers = {0, 1}
  Windows = {0, 1, 3}
  THOUSAND = 2
  CAPACITY = 1
  MaxProcs = 2
  MaxChanges = 1
  MaxTime = 1
  MaxCalls = 1
  MaxEnqueued = 1
SPECIFICATION Spec
INVARIANTS TypeOK WindowsAddUp SplitIsFresh
