CONSTANTS
  Arity = 1
  MaxNodes = 5
  RegisterMax = 6
  Kinds = {"cmp", "call", "fork", "gamma"}
  Once = {}
  Known = {"forked"}
SPECIFICATION Spec
INVARIANT AnswersAsTheGraph
CHECK_DEADLOCK FALSE
