CONSTANTS
  p1 = p1
  p2 = p2
  Publications <- TwoVersions
  DocumentOf <- MCDocumentOf
  VersionOf <- MCVersionOf
  Cleaners = {w1}
  NoCleaner = NoCleaner
  ManifestVersions <- MCManifestVersions
  MaxGeneration = 9
  MaxReissues = 0
  MaxOperations = 1
  Requests = {r1, r2}
  NoPublication = NoPublication
  MaxManifestVersion = 9
  MaxCrashes = 0
  Kinds = {"upload", "commit", "activate", "abort"}
SPECIFICATION ReplacementSpec
CHECK_DEADLOCK FALSE
SYMMETRY RequestSymmetry
INVARIANTS
  DeckSound
  AccessHistory
  NewestIsActive
PROPERTY
  ForwardOnly
