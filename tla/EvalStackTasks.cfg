CONSTANTS
  main = main
  small = small
  wide = wide
  Fns = {main, small, wide}
  Registers <- MCRegisters
  Arity <- MCArity
  Variadic = {wide}
  MaxArgs = 2
  MaxRegs = 4
  MaxFrames = 3
  MaxDepth = 4
SPECIFICATION Spec
INVARIANT OwnFrames
CHECK_DEADLOCK FALSE
