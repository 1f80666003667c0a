CONSTANTS
  Links = {d1, d2}
  Windows = {w1, w2}
  Profile <- Strangers
  None = None
  Events = {"close", "revoke", "gate", "term", "reload", "reopen"}
  MaxPage = 1
  MaxStamp = 1
  MaxGeneration = 1
  MaxAnswers = 1
  MaxReports = 0
SYMMETRY Symmetric
SPECIFICATION DisplaySpec
INVARIANTS
  DisplaysSound
PROPERTIES
  LinksFinal
