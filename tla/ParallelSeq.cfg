CONSTANTS
  Threshold = 2
  MaxLength = 3
SPECIFICATION Spec
INVARIANTS
  SameItemsAsTheLoop
  LeavesNothingBehind
CHECK_DEADLOCK FALSE
