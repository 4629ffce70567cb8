SPECIFICATION FairSpec
CONSTANTS
  Msgs = {m1, m2}
  Numbers = {n1, n2}
  Refs = {0, 1}
  HasTimeout = TRUE
  NIL = NIL
CHECK_DEADLOCK FALSE
INVARIANT AtMostOneOutcome
INVARIANT OutcomeIsReported
PROPERTY EntriesLeave
