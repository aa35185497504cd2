SPECIFICATION Spec
CONSTANTS
  t1 = t1
  t2 = t2
  k1 = k1
  k2 = k2
  Thread = {t1, t2}
  Key = {k1, k2}
  Hash <- Collide
  Charge = {1, 2}
  Capacity = 2
  Allowance = 10
  InitialBuckets = 2
  SegmentSlots = 1
  PinAttempts = 2
  MaxInserts = 3
INVARIANTS
  BlocksOwned
  IndexExact
PROPERTY
  CriticalSectionsEnd
