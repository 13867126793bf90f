CONSTANTS
  MaxU = 60
  NANOSECONDS_PER_SECOND = 2
  MILLION = 2
  Pids = {1}
  Channels = {cpu, gpu}
  NJ_PER_UJ = 2
  Bursts = {0, 3}
  IdlePowers = {0, 1}
  MaxActive = 1
  Snapshots = {3}
  Spans = {1}
  MaxBurnt = 6
  Times = {0, 1, 2, 6}
  MaxFaults = 1
  MaxEnqueued = 1
SPECIFICATION Spec
INVARIANTS TypeOK NeverFabricates NoBackfill PowerNeverOverstated TickLosesLittle DebugAssertHolds
