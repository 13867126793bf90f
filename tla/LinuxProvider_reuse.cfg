CONSTANTS
  MaxU = 20
  MaxU32 = 2
  NANOSECONDS_PER_SECOND = 2
  MILLION = 2
  Pids = {1}
  MaxRange = 4
  Bursts = {}
  FencePower = 1
  FenceTimes = {1}
  MaxBurnt = 0
  MaxTime = 0
  MaxFaults = 0
  MaxFences = 2
  MaxLost = 0
  MaxEnqueued = 0
  MaxExits = 1
SPECIFICATION Spec
PROPERTY SignalKeepsBusyPid
