SPECIFICATION MCSpec
CONSTANTS
  MaxByte = 3
  MaxEntries = 4
  MaxTrailer = 7
  FilterRange = 2
  CacheCapacity = 1
  Sizes = {1, 3}
  Inputs <- MCInputs
  Probes <- MCProbes
INVARIANTS
  TablesExact
  BlocksExact
  StoredBlocksExact
  MemTableExact
CHECK_DEADLOCK FALSE
