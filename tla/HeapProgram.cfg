SPECIFICATION Spec
CONSTANTS
  Threads = {main, w1}
  Main = main
  Blocks = {1, 2, 3, 4, 5, 6, 7, 8, 9, 10, 11, 12}
  BlockMax = 2
  Nil = Nil
  NativeMap = NativeMap
  Mains = {"mapping", "folding", "emptyFold", "pipeline", "again", "forking", "nested"}
  Code <- mcCode
  Registers <- mcRegisters
  RegMax = 16
  QueueMax = 1
INVARIANTS
  NothingInUseIsFree
  RetainedAreHeld
