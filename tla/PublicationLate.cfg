CONSTANTS
  p1 = p1
  p2 = p2
  Publications <- OnePublication
  DocumentOf <- MCDocumentOf
  VersionOf <- MCVersionOf
  Cleaners = {w1}
  NoCleaner = NoCleaner
  ManifestVersions <- MCManifestVersions
  MaxGeneration = 9
  MaxReissues = 0
  MaxOperations = 2
  Requests = {r1, r2, r3}
  NoPublication = NoPublication
  MaxManifestVersion = 9
  MaxCrashes = 0
  Kinds = {}
SPECIFICATION LateSpec
CHECK_DEADLOCK FALSE
SYMMETRY RequestSymmetry
INVARIANT
  VisibleStored
