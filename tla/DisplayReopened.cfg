CONSTANTS
  Links = {d1}
  Windows = {w1}
  Profile <- SameProfile
  None = None
  Events = {"reload", "reopen"}
  MaxPage = 1
  MaxStamp = 1
  MaxGeneration = 2
  MaxAnswers = 1
  MaxReports = 2
SPECIFICATION FairDisplaySpec
PROPERTIES
  FirstRenderAcknowledged
