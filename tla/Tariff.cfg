SPECIFICATION TariffSpec
CONSTANTS
  MaxMgr = 2
  MaxLives = 2
  MaxOps = 4
  MaxLater = 2
  MaxCount = 11
  Days = 3
  Kinds = {"sms", "day", "call"}
  Amounts = {1, 9}
  Overrides = {10}
  Limit = 10
  Balances = {0, 1, 2}
  MinBalance = 2
  NIL = NIL
  TORN = TORN
INVARIANTS
  RestartLosesNothing
PROPERTIES
  AlertsTold
CHECK_DEADLOCK FALSE
