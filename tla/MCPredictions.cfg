SPECIFICATION Spec
CONSTANTS
  Asset = {1, 2}
  Market = {1, 2}
  Price = {1, 2, 3}
  Quotes <- SomeQuotes
  Reparses <- SomeReparses
  Attr <- SomeAttr
  FirstAttrs <- OneListed
  Floor = 1
  MinClass = 1
  TopN = 1
  Cadence = 4
  Horizon = 2
  MaxAge = 5
  MaxTime = 6
  MaxBatches = 2
  MaxReplays = 1
  MaxRefreshes = 1
CHECK_DEADLOCK FALSE
INVARIANTS
  TypeOK
  MarkedClaimsRecompute
  NoSecondOpinion
PROPERTIES
  SettledAnswersStand
