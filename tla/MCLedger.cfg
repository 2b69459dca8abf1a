SPECIFICATION Spec
CONSTANTS
  Pair = {"a"}
  Quotes <- SomeQuotes
  Version = {1, 2}
  Reads <- ReadsByVersion
  Released = 1
  Slack = 1
  MaxAge = 2
  MaxRuns = 4
  MaxIngests = 2
  MaxCut = 1
CHECK_DEADLOCK FALSE
INVARIANTS
  TypeOK
  CountsAddUp
  WrittenCountHolds
PROPERTIES
  ReplayReproduces
