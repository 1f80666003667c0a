CONSTANTS
  Links = {d1, d2}
  Windows = {w1}
  Profile <- SameProfile
  None = None
  Events = {"close", "revoke", "gate", "term", "reload", "hide"}
  MaxPage = 1
  MaxStamp = 1
  MaxGeneration = 2
  MaxAnswers = 1
  MaxReports = 0
SPECIFICATION FairDisplaySpec
PROPERTIES
  WindowsEnd
