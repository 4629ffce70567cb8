SPECIFICATION FairSpec
CONSTANTS
  Keys = {"a:1", "b:1", "b:2"}
  Msgs <- MCMsgs
  Traffics <- Separate
  MaxParts = 2
  Callers = {urc, sync}
  NIL = NIL
CHECK_DEADLOCK FALSE
INVARIANT CompleteIsWhole
INVARIANT CompletedOncePerCopy
INVARIANT NothingLost
PROPERTY EveryPartPublished
