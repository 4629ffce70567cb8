SPECIFICATION RecipientsFairSpec
CONSTANTS
  Raws <- MCRaws
  Lists <- MCLists
  Whitelist <- MCWhitelist
  Requests = {r1, r2}
  Conns = {c1}
  Modems = 1
  MaxFaults = 1
  NONE = NONE
INVARIANTS
  ShownIsCurrent
PROPERTIES
  RestartKeeps
  StartupEnds
CHECK_DEADLOCK FALSE
