CONSTANTS
  t1 = t1
  t2 = t2
  i1 = i1
  i2 = i2
  i3 = i3
  plain = plain
  escape2 = escape2
  escape = escape
  newline = newline
  Threads = {t1, t2}
  Items = {i1, i2, i3}
  Strings <- MCStrings
  Requests <- MCRequests
  Text <- MCText
  Hash <- MCHash
  Initial = 8
  MaxCapacity = 16
  Null = Null
  Tombstone = Tombstone
  None = None
SPECIFICATION Spec
SYMMETRY Symmetry
INVARIANTS
  MapConsistent
  ProbeEnds
PROPERTY TableSpec
CHECK_DEADLOCK FALSE
