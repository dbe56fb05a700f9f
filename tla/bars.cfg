SPECIFICATION FairSpec
CONSTANTS
  MaxDay = 4
  MaxBackfills = 2
  MaxFaults = 2
  Overlap = FALSE
INVARIANTS TypeOK WholeFile
PROPERTIES ImplementsTable UpdateStoresOnlySettled DayArrives
CHECK_DEADLOCK FALSE
