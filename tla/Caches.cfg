CONSTANTS
  r1 = r1
  r2 = r2
  e1 = e1
  e2 = e2
  k1 = k1
  k2 = k2
  k3 = k3
  Reader = {r1, r2}
  Evictor = {e1, e2}
  Cache = {1, 2}
  File = {1, 2}
  Slots = {1}
  SlotOf <- OneSlot
  Capacity = 2
  Terminal = 2
  MaxOpens = 3
  MaxEvicts = 3
SYMMETRY Alike
SPECIFICATION MCSpec
CHECK_DEADLOCK FALSE
INVARIANTS LruExact HintedReads
PROPERTY LruEvictsOldest
