CONSTANTS
  t1 = t1
  Threads = {t1}
  SmallMax = 1
  LargeMin = 4
  ArenaMin = 12
  Align = 2
  FirstLength = 2
  MaxValues = 5
SPECIFICATION Spec
INVARIANTS
  ItemsKept
CHECK_DEADLOCK FALSE
