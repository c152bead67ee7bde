CONSTANTS
  t1 = t1
  t2 = t2
  Threads = {t1, t2}
  SmallMax = 1
  LargeMin = 4
  ArenaMin = 12
  Align = 2
  FirstLength = 2
  MaxValues = 5
SPECIFICATION Spec
SYMMETRY Symmetry
INVARIANTS
  ValuesKeepTheirItems
  ChunksApart
CHECK_DEADLOCK FALSE
CONSTRAINT Orderly
