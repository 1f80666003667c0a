CONSTANTS
  o1 = o1
  o2 = o2
  s1 = s1
  s2 = s2
  Operations = {o1}
  NoOperation = NoOperation
  Sweepers = {s1, s2}
  MaxGrants = 1
SPECIFICATION FairRealtimeSpec
CHECK_DEADLOCK FALSE
INVARIANTS
  CallsAccounted
PROPERTIES
  SettledOnce
  SettledAndWithdrawn
  KnownCallEnds
