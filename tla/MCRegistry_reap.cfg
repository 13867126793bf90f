CONSTANTS
  MaxU = 2
  Pids = {1, 2}
  Deltas = {1}
  Writers = {w1, w2}
  Auditors = {a1}
  Reapers = {r1}
  MaxGen = 2
  MaxCalls = 3
SPECIFICATION LSpec
INVARIANTS TotalIsLowerBound LostOnlyInRace NothingCountedTwice
PROPERTY CellsNeverDecrease
CHECK_DEADLOCK FALSE
