SPECIFICATION FairSpec
CONSTANTS
  Counted <- Trades
  Rising = {}
  Unsequenced = {}
  DrainCeiling = 2
  MaxId = 3
  MaxRecycles = 2
  MaxFaults = 2
INVARIANTS TypeOK HolesMarked CapturedOnce SessionBounded
INVARIANT HandoverLosesNothing
PROPERTIES BufferedIsWritten AlwaysReadsAgain
