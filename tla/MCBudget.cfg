SPECIFICATION Spec
SYMMETRY RunAndProcSymmetry
CONSTANTS
  Proc = {serve, cli}
  Server = serve
  Replayer = {}
  RunId = {r1, r2}
  NoProc = NoProc
  NoRun = NoRun
  DailyBudget = 2
  AbandonAfter = 0
  MaxBatches = 1
  MaxDay = 1
INVARIANTS
  DailyBudgetKept
  DayAtMostDoubled
  SpendSurvivesCrash
  ArchiveBeforeRows
  OkMeansEverythingPolled
PROPERTIES
  SpendsAsPromised
