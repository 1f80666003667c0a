CONSTANTS
  Links = {d1}
  Windows = {w1}
  Profile <- SameProfile
  None = None
  Events = {"reload"}
  MaxPage = 2
  MaxStamp = 3
  MaxGeneration = 2
  MaxAnswers = 2
  MaxReports = 2
SPECIFICATION DisplaySpec
INVARIANTS
  SyncedIsRendered
