SPECIFICATION FairSpec
CONSTANTS
    NMetrics = 2
    MaxDay = 3
    MaxVintages = 3
    MaxChanges = 1
    MAX_PAGES = 3
    MaxPasses = 3
    MaxFaults = 1
INVARIANTS TypeOK NothingSkipped PrintsContiguous EveryPassRecorded
PROPERTIES CleanWeekIsTrue PassEnds
CHECK_DEADLOCK FALSE
