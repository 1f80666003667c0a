CONSTANTS
  Lectures = {l1}
  NoLecture = NoLecture
  Requests = {r1, r2}
  NoRequest = NoRequest
  Posts = {p1}
  Likes = {k1}
  CommentLimit = 2
  LikeLimit = 1
  MaxChanges <- Two
  MaxMoves = 2
SPECIFICATION FairSnapshotSpec
CHECK_DEADLOCK FALSE
INVARIANTS
  ShownIsOwn
  KnownIsShown
PROPERTIES
  OnlyForward
  CloseReaches
