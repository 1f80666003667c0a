CONSTANTS
  Links = {d1}
  Windows = {w1}
  Profile <- SameProfile
  None = None
  Events = {}
  MaxPage = 1
  MaxStamp = 2
  MaxGeneration = 1
  MaxAnswers = 1
  MaxReports = 2
SPECIFICATION FairDisplaySpec
CHECK_DEADLOCK FALSE
PROPERTIES
  FirstRenderAcknowledged
