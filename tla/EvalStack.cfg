CONSTANTS
  main = main
  small = small
  wide = wide
  Fns = {main, small, wide}
  Registers <- MCRegisters
  Arity <- MCArity
  Variadic = {wide}
  MaxArgs = 2
  MaxRegs = 4
  MaxFrames = 3
  MaxDepth = 4
SPECIFICATION Spec
INVARIANTS
  ResumesCaller
  RegistersSafe
CHECK_DEADLOCK FALSE
CONSTRAINT Orderly
