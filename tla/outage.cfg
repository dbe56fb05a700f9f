SPECIFICATION Spec
CONSTANTS
  Counted <- Trades
  Rising = {}
  Unsequenced = {}
  DrainCeiling = 2
  MaxId = 3
  MaxRecycles = 0
  MaxFaults = 2
INVARIANT NoSilentOutage
