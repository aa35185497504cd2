CONSTANTS
  s1 = s1
  Key = {1, 2}
  Kind = {"value", "deletion"}
  Handle = {s1}
  NumLevels = 4
  MaxMemTableOutputLevel = 2
  Level0CompactionTrigger = 2
  LevelCapacity = 2
  LevelFactor = 2
  TargetFileSize = 1
  GrandparentLimit = 1
  ExpandedLimit = 6
  MaxWrites = 4
  MaxCharges = 1
SPECIFICATION ReadSpec
CHECK_DEADLOCK FALSE
PROPERTY ReadsAreAMap
