SPECIFICATION Spec
CONSTANTS
  Pair = {"a"}
  Quotes <- FewQuotes
  Version = {1, 2}
  Reads <- ReadsByVersion
  Released = 1
  Slack = 1
  MaxAge = 2
  MaxRuns = 3
  MaxIngests = 3
  MaxCut = 1
CHECK_DEADLOCK FALSE
PROPERTIES
  ReplayTwiceSame
