CONSTANTS
  p1 = p1
  p2 = p2
  Publications <- OnePublication
  DocumentOf <- MCDocumentOf
  VersionOf <- MCVersionOf
  Cleaners = {w1, w2}
  NoCleaner = NoCleaner
  ManifestVersions <- MCManifestVersions
  MaxGeneration = 9
  MaxReissues = 0
  MaxOperations = 1
  Requests = {r1}
  NoPublication = NoPublication
  MaxManifestVersion = 9
  MaxCrashes = 0
  Kinds = {"upload", "commit", "activate", "abort"}
SPECIFICATION Spec
CHECK_DEADLOCK FALSE
SYMMETRY InvocationSymmetry
INVARIANTS
  ManifestAgrees
  CleanupSound
PROPERTIES
  SentinelsStay
  ImplementsRecords
