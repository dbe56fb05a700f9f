CONSTANTS
    NGroups = 1
    Files <- TwoFiles
    Seeded <- OneFile
    Streamed <- OneStream
    Sizes = {1, 2}
    MaxJobs = 3
    MaxChanges = 2
    MaxFaults = 2
SPECIFICATION Spec
PROPERTIES OnlyCleared SuccessMeansCurrent
CHECK_DEADLOCK FALSE
