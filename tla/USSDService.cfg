SPECIFICATION FairSpec
CONSTANTS
  Queries = {q1, q2}
  NIL = NIL
CHECK_DEADLOCK FALSE
INVARIANT NoReplyDropped
INVARIANT ReturnedIsReported
PROPERTY EverySendReturns
