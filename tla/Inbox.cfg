SPECIFICATION InboxFairSpec
CONSTANTS
  Singles = {a}
  Multi = {p, q}
  Junk = {j}
  Indexes = {1, 2}
  MaxInbox = 2
  MaxFaults = 1
  NONE = NONE
INVARIANTS
  NoneLost
  InboxOnce
PROPERTIES
  StoredIsRead
CHECK_DEADLOCK FALSE
