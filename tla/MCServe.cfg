SPECIFICATION FairServe
CONSTANTS
  Interval = 2
  Retry = 1
  MaxDump = 1
  Keep = 2
  Ahead = 1
  MaxHands = 1
  MaxTime = 6
CHECK_DEADLOCK FALSE
INVARIANTS
  TypeOK
PROPERTIES
  NewestDumpsKept
  KeepsTime
  StallIsAnnounced
