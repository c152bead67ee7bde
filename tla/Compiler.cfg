SPECIFICATION Spec
CONSTANTS
  Programs <- Samples
  Levels = {0, 1, 2, 3}
INVARIANTS
  WellScoped
  MeaningKept
PROPERTIES
  Settles
CHECK_DEADLOCK FALSE
