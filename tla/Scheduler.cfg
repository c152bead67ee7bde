CONSTANTS
  w1 = w1
  w2 = w2
  m = m
  a = a
  b = b
  c = c
  d = d
  e = e
  f = f
  root = root
  Workers = {w1, w2}
  Master = m
  Tasks = {a, b, c, d, e, f}
  Root = root
  Kids <- MCKids
  QueueMax = 2
  NoTicket = NoTicket
SPECIFICATION Spec
INVARIANTS
  Structured
  RunsOnce
PROPERTIES
  EvaluationEnds
  FreeEnds
CHECK_DEADLOCK FALSE
