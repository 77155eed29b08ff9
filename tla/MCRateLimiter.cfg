CONSTANTS
  Worker = {w1, w2}
  Sizes = {0, 1, 3, 4}
  MaxRequests = 3
  Rates = {0, 1, 2, 3}
  TicksPerSecond = 4
SPECIFICATION LimiterFairSpec
INVARIANT BudgetRespected
PROPERTY BudgetServed
