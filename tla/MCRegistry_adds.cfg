CONSTANTS
  MaxU = 3
  Pids = {1, 2}
  Deltas = {2}
  Writers = {w1, w2, w3}
  Auditors = {a1}
  Reapers = {}
  MaxGen = 2
  MaxCalls = 3
SPECIFICATION LFairSpec
INVARIANTS LTypeOK NoDeltaLost SnapshotBetweenStartAndEnd TotalMissesNothing OneCanonicalCell
PROPERTIES ImplementsAtomic EveryAddReturns EveryWalkReturns
CHECK_DEADLOCK FALSE
