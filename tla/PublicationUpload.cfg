CONSTANTS
  p1 = p1
  p2 = p2
  Publications <- OnePublication
  DocumentOf <- MCDocumentOf
  VersionOf <- MCVersionOf
  Cleaners = {w1}
  NoCleaner = NoCleaner
  ManifestVersions <- MCManifestVersions
  MaxGeneration = 9
  MaxReissues = 1
  MaxOperations = 1
  Requests = {r1, r2}
  NoPublication = NoPublication
  MaxManifestVersion = 5
  MaxCrashes = 1
  Kinds = {"upload", "status"}
SPECIFICATION Spec
CHECK_DEADLOCK FALSE
SYMMETRY RequestSymmetry
INVARIANTS
  UploadSound
PROPERTY
  GenerationsForward
