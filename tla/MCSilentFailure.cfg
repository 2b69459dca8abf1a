SPECIFICATION ServeSpec
CONSTANTS
  Interval = 1
  Retry = 0
  MaxDump = 0
  Keep = 1
  Ahead = 0
  MaxHands = 0
  MaxTime = 1
CHECK_DEADLOCK FALSE
PROPERTIES
  FaultsAreReported
