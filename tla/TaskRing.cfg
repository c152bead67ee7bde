CONSTANTS
  t1 = t1
  t2 = t2
  Threads = {t1, t2}
  QueueMax = 2
  GenMod = 6
  MaxTasks = 5
  NoTask = NoTask
SPECIFICATION Spec
SYMMETRY Symmetry
INVARIANTS
  SlotExclusive
  RunsWhatWasPushed
  JoinWaits
  JoinSeesEnd
PROPERTY PoolSpec
