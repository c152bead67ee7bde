CONSTANTS
  Arity = 1
  MaxNodes = 5
  RegisterMax = 6
  Kinds = {"cmp", "gamma"}
  Once = {}
  Known = {"shared"}
SPECIFICATION Spec
INVARIANT AnswersAsTheGraph
CHECK_DEADLOCK FALSE
