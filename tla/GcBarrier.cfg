CONSTANTS
  m = m
  w1 = w1
  w2 = w2
  Threads = {m, w1, w2}
  Master = m
  GenMod = 3
SPECIFICATION Spec
INVARIANTS
  StopTheWorld
  OneSweepPerRound
PROPERTIES
  CollectionHappens
  CollectionEnds
  FreeReturns
CHECK_DEADLOCK FALSE
