CONSTANTS
  p1 = p1
  p2 = p2
  Publications <- TwoVersions
  DocumentOf <- MCDocumentOf
  VersionOf <- MCVersionOf
  Cleaners = {w1}
  NoCleaner = NoCleaner
  ManifestVersions <- MCManifestVersions
  MaxGeneration = 9
  MaxReissues = 0
  MaxOperations = 2
  Requests = {r1}
  NoPublication = NoPublication
  MaxManifestVersion = 9
  MaxCrashes = 1
  Kinds = {"upload", "commit", "activate", "abort"}
SPECIFICATION ConvergenceSpec
CHECK_DEADLOCK FALSE
INVARIANTS
  ManifestAgrees
  ActivationFence
PROPERTIES
  Convergence
  ImplementsDeck
