SPECIFICATION Spec
CONSTANTS
    NFeeds = 3
    Backfilled = {4, 11}
    MaxQuarters = 4
    MaxChanges = 3
PROPERTIES RotationSpared FirstBreakSaid
CHECK_DEADLOCK FALSE
