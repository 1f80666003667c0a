CONSTANTS
  p1 = p1
  p2 = p2
  Publications <- OnePublication
  DocumentOf <- MCDocumentOf
  VersionOf <- MCVersionOf
  Cleaners = {w1}
  NoCleaner = NoCleaner
  ManifestVersions <- MCManifestVersions
  MaxGeneration = 9
  MaxReissues = 1
  MaxOperations = 2
  Requests = {r1}
  NoPublication = NoPublication
  MaxManifestVersion = 7
  MaxCrashes = 1
  Kinds = {"upload", "commit", "activate", "abort"}
SPECIFICATION Spec
CHECK_DEADLOCK FALSE
INVARIANTS
  ManifestAgrees
PROPERTY
  ImplementsRecords
