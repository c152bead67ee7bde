CONSTANTS
  Arity = 1
  MaxNodes = 5
  RegisterMax = 6
  Kinds = {"cmp", "call", "fork", "list", "const", "capture", "lambda", "gamma"}
  Once = {"list", "const", "capture", "lambda"}
  Known = {}
SPECIFICATION Spec
INVARIANTS
  AnswersAsTheGraph
  FitsFrame
CHECK_DEADLOCK FALSE
