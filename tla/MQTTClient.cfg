CONSTANTS
  MaxConns = 2
  Topics = {t1}
  Main = Main
  Offline = Offline
  NIL = NIL
SPECIFICATION FairSpec
INVARIANTS
  NoOrphan
PROPERTIES
  SubscriptionsRestored
  ComesOnline
CHECK_DEADLOCK FALSE
