CONSTANTS
  c1 = c1
  Connections = {c1}
  Manual = Manual
  NoConnection = NoConnection
  PageCount = 2
  MaxSequence = 3
  MaxTime = 2
  MaxMisses = 2
SPECIFICATION FairSyncSpec
CHECK_DEADLOCK FALSE
INVARIANTS
  SyncTypeOK
  DisplayOwned
  QuietIsShown
PROPERTIES
  PagesForward
  Converges
  SidesAgree
