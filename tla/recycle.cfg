SPECIFICATION Spec
CONSTANTS
  Counted = {}
  Rising <- Ticker
  Unsequenced <- Level2
  DrainCeiling = 2
  MaxId = 3
  MaxRecycles = 1
  MaxFaults = 1
INVARIANT OutageRecorded
