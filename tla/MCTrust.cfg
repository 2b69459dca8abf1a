SPECIFICATION DailySpec
CONSTANTS
  Asset = {1, 2, 3, 4}
  Market = {ps}
  Coverage = 3
  BatchSize = 1
  DailyBudget = 2
  Fast = 1
  Slow = 2
  MaxBackoff = 2
  Broken = {}
  Unpriced = {}
INVARIANTS
  StaysTrusted
