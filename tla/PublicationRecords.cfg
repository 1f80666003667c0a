CONSTANTS
  p1 = p1
  p2 = p2
  Publications <- TwoVersions
  DocumentOf <- MCDocumentOf
  VersionOf <- MCVersionOf
  Cleaners = {w1}
  NoCleaner = NoCleaner
  ManifestVersions = {1, 2}
  MaxGeneration = 9
  MaxReissues = 1
  MaxOperations = 1
SPECIFICATION DBSpec
INVARIANTS
  RecordsTypeOK
  ActivationFence
  AccessHistory
  NewestIsActive
PROPERTY
  ForwardOnly
CHECK_DEADLOCK FALSE
