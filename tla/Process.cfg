SPECIFICATION MCSpec
CONSTANTS
  p1 = p1
  p2 = p2
  t1 = t1
  t2 = t2
  t3 = t3
  t4 = t4
  None = None
  Process = {p1, p2}
  Thread = {t1, t2, t3, t4}
  File = {f1, f2}
  ProcessOf <- MCProcessOf
INVARIANTS
  LockSafe
  TasksOnce
  BatchesWhole
  TestsFair
PROPERTY
  WorkSettles
CHECK_DEADLOCK FALSE
