SPECIFICATION MCSpec
CONSTANTS
  t1 = t1
  t2 = t2
  Reader = {r1, r2, r3, r4, r5}
  Maximum = 2
SYMMETRY Alike
INVARIANTS
  LimiterSafe
  FilesSound
  RecordsRead
  NamesExact
  HandlesKeep
  VerdictsExact
CHECK_DEADLOCK FALSE
