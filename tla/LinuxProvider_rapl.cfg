CONSTANTS
  MaxU = 120
  MaxU32 = 1
  NANOSECONDS_PER_SECOND = 3
  MILLION = 2
  Pids = {}
  MaxRange = 4
  Bursts = {0, 1, 4}
  FencePower = 0
  FenceTimes = {0}
  MaxBurnt = 8
  MaxTime = 4
  MaxFaults = 1
  MaxFences = 0
  MaxLost = 0
  MaxEnqueued = 0
  MaxExits = 0
SPECIFICATION Spec
INVARIANTS TypeOK NeverFabricates NoBackfill TickLosesLittle
