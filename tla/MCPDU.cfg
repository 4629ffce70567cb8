SPECIFICATION PDUSpec
CONSTANTS
  Inputs <- MCInputs
  TranslitMap <- MCTranslitMap
  RefCounters = {1, 255}
  RacedRefs = {0}
  WideRefs = {0, 261}
  Prefix <- MCPrefix
INVARIANTS
  PartsFit
  RoundTrip
  PackedAsStandard
CHECK_DEADLOCK FALSE
