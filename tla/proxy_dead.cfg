SPECIFICATION Spec
CONSTANTS
    NFeeds = 3
    Backfilled = {4, 11}
    MaxQuarters = 4
    MaxChanges = 3
PROPERTY WindowIsRecent
CHECK_DEADLOCK FALSE
