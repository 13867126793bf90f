CONSTANTS
  MaxU = 20
  MaxU32 = 2
  NANOSECONDS_PER_SECOND = 2
  MILLION = 2
  Pids = {1, 2}
  MaxRange = 4
  Bursts = {3}
  FencePower = 3
  FenceTimes = {1}
  MaxBurnt = 3
  MaxTime = 2
  MaxFaults = 0
  MaxFences = 2
  MaxLost = 1
  MaxEnqueued = 1
  MaxExits = 1
SPECIFICATION Spec
INVARIANTS EveryAttributionArrivesOnce ActiveCountsFences
