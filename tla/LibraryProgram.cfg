CONSTANTS
  Numbers = {1, 2}
  Letters <- MCLetters
  Separators <- MCSeparators
  MaxItems = 5
  Paths <- MCPaths
  MaxChanges = 4
SPECIFICATION Spec
INVARIANTS
  SortsStably
  PositionsAgree
  PartsMakeTheWhole
  RangesEnd
  OccurrencesAgree
  PathsAreAMap
CHECK_DEADLOCK FALSE
