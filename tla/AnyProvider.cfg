CONSTANTS
  MaxU = 5
  NANOSECONDS_PER_SECOND = 3
  MILLION = 3
  Pids = {1, 2}
  Powers = {0, 4}
  MaxActive = 3
  Clock = {0, 2, 5}
  MaxBack = 1
SPECIFICATION FairSpec
INVARIANTS SplitPreservesTotal RegistryHoldsTotal WindowEnergyIsExact ModelStaysWithinBusyTime SharesStayWithinDelta
PROPERTY LoopSurvivesErrors
