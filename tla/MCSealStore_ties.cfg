CONSTANTS
  Gpus = {}
  Names = {n1}
  Hosts = {h1}
  Systems = {"linux"}
  Keys = {k1}
  Versions = {1}
  OsPids = {1}
  Energies = {1, 2}
  Totals = {3}
  KeySets <- NoneDiffers
  Times = {1}
  MaxList = 2
  MaxStarts = 1
  MaxProbes = 1
  MaxIssued = 2
  MaxMixups = 0
SPECIFICATION Spec
INVARIANT SealIgnoresOrder
CHECK_DEADLOCK FALSE
