SPECIFICATION FairSpec
CONSTANTS
  NModems = 2
  PoolRequests = {r1}
  DirectRequests = {r2}
  Dests = {d1, d2}
  Blocked = {}
  Strategies = {"round-robin", "failover", "best-signal", "operator-match"}
  Parts = 2
  Span = 0
  MaxPerSpan = 1
  NumSpan = 1
  MaxPerNumber = 1
  Cooldown = 1
  MaxNow = 2
INVARIANTS
  ChargedIsSent
  WindowsSlide
PROPERTIES
  KeepsPromise
  EveryTargetEnds
CHECK_DEADLOCK FALSE
