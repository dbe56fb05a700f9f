SPECIFICATION Spec
CONSTANTS
  nightly = nightly
  manual = manual
  gauntlet = gauntlet
  Procs <- Containers
  Limit = 1
  MaxRetries = 2
  MaxHour = 1
  MaxCharges = 3
SYMMETRY Interchangeable
INVARIANTS TypeOK OverspendIsLost EveryAttemptCharged
PROPERTY RefusedOnlyWhenSpent
