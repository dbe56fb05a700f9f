SPECIFICATION Spec
CONSTANTS
  Streams <- OneStream
  MaxDay = 2
  FlushBound = 4
  MaxFaults = 2
INVARIANT NeverLost
