SPECIFICATION FairSpec
CONSTANTS
  Proc = {serve, cli}
  Server = serve
  Replayer = {cli}
  RunId = {r1, r2}
  NoProc = NoProc
  NoRun = NoRun
  DailyBudget = 1
  AbandonAfter = 0
  MaxBatches = 1
  MaxDay = 0
INVARIANTS
  TypeOK
  RowsReplayable
PROPERTIES
  EndedIsFinal
  OnlyReplayMovesRows
  EveryRunEnds
  LockIsFreed
