SPECIFICATION FairSpec
CONSTANTS
  Asset = {1, 2, 3}
  Market = {ps}
  Coverage = 2
  BatchSize = 1
  DailyBudget = 2
  Fast = 1
  Slow = 2
  MaxBackoff = 2
  Broken = {3}
  Unpriced = {1}
INVARIANTS
  TypeOK
  IntervalHonest
  CoverageExact
PROPERTIES
  HealthyCardsPolled
