SPECIFICATION FairSpec
CONSTANTS
  Streams <- OneStream
  MaxDay = 2
  FlushBound = 4
  MaxFaults = 2
INVARIANTS TypeOK Preserved OneCopyEach
PROPERTIES DeletedOnlyWithCopy EveryBatchArchived DiskDrains ImplementsArchive
