CONSTANTS
  Options <- MCOptions
  Detected = 2
  CeilingCap = 4
  BackendRates <- MCBackendRates
  TotalRam = 12
  PerOp = {1, 2}
  Fast = 2
  Slow = 3
  Cooldown = 2
  Reprobe = 3
  MaxGap = 2
  MaxSpawned = 2
SPECIFICATION ControllerFairSpec
INVARIANT BudgetsHold
PROPERTIES CooldownHolds Recovers
CHECK_DEADLOCK FALSE
