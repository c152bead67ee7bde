CONSTANTS
  t1 = t1
  t2 = t2
  t3 = t3
  t4 = t4
  t5 = t5
  Threads = {t1, t2, t3, t4, t5}
SPECIFICATION Spec
INVARIANTS
  LockSound
  NobodyForgotten
PROPERTIES
  WritersProgress
  ReadersProgress
