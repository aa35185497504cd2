CONSTANTS
  s1 = s1
  Key = {1, 2}
  Kind = {"value", "deletion"}
  Handle = {s1}
  NumLevels = 3
  MaxMemTableOutputLevel = 1
  Level0CompactionTrigger = 2
  LevelCapacity = 2
  LevelFactor = 2
  TargetFileSize = 1
  GrandparentLimit = 1
  ExpandedLimit = 6
  MaxWrites = 5
  MaxCharges = 1
SPECIFICATION MCSpec
CHECK_DEADLOCK FALSE
INVARIANTS TreeOrdered BackgroundSound
PROPERTY CompactionsDescend
