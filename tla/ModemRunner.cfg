CONSTANTS
  MaxSessions = 2
  MinBackoff = 3
  MaxBackoff = 4
  FailLimit = 2
  Appends = TRUE
SPECIFICATION FairSpec
INVARIANTS
  SentOnce
PROPERTIES
  AbsentIsShown
  ShutdownEndsRun
CHECK_DEADLOCK FALSE
