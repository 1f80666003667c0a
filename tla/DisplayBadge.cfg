CONSTANTS
  Links = {d1}
  Windows = {w1}
  Profile <- SameProfile
  None = None
  Events = {"reload", "hide"}
  MaxPage = 2
  MaxStamp = 2
  MaxGeneration = 2
  MaxAnswers = 1
  MaxReports = 2
SPECIFICATION FairDisplaySpec
INVARIANTS
  SyncedIsRendered
PROPERTIES
  ReportsArrive
