CONSTANTS
  BlockSize = 6
  MaxLength = 5
  MaxRecords = 3
  MaxCrashes = 1
  MaxDamage = 1
SPECIFICATION MCSpec
CHECK_DEADLOCK FALSE
INVARIANT ReplayExact
PROPERTY ReplayEnds
