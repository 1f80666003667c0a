CONSTANTS
  Links = {d1}
  Windows = {w1}
  Profile <- SameProfile
  None = None
  Events = {"gate"}
  MaxPage = 1
  MaxStamp = 1
  MaxGeneration = 1
  MaxAnswers = 1
  MaxReports = 0
SPECIFICATION DisplaySpec
PROPERTIES
  GateBlocksClaims
