CONSTANTS
  Gpus = {g1}
  Names = {n1, n2}
  Hosts = {h1, h2}
  Systems = {"linux", "macos", "windows"}
  Keys = {k1, k2}
  Versions = {1}
  OsPids = {1}
  Energies = {1}
  Totals = {1}
  KeySets <- OneDiffers
  Times = {1}
  MaxList = 2
  MaxStarts = 2
  MaxProbes = 2
  MaxIssued = 2
  MaxMixups = 1
SPECIFICATION Spec
INVARIANTS StoreTypeOK VerifiedSealWasSealed VerifiedManifestWasSigned IdentityBindsHost FingerprintIsStable SealIgnoresOrderOfKeys
SYMMETRY SealSymmetry
CHECK_DEADLOCK FALSE
