SPECIFICATION FairSpec
CONSTANTS
  Calls = {c1, c2}
  UrcCap = 1
  Unsolicited = {"NOCARRIER"}
  NIL = NIL
CHECK_DEADLOCK FALSE
INVARIANT ReaderNeverBlocks
INVARIANT CleanAnswer
INVARIANT CleanPayloadAfterPrompt
PROPERTY ResponseFrozen
PROPERTY EveryCallReturns
