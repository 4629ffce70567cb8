SPECIFICATION FairSpec
CONSTANTS
  Dials = {d1, d2}
  Hangups = {h1}
  URCs = {"CLIP", "COLP", "NO CARRIER"}
  HangupFails = TRUE
  HasChecker = TRUE
  Incoming = Incoming
  Urc = Urc
  NIL = NIL
CHECK_DEADLOCK FALSE
INVARIANT OutgoingIsTimed
INVARIANT NoDoubleClose
PROPERTY RingingEnds
PROPERTY AnsweredIsDropped
