SPECIFICATION Spec
CONSTANTS
  Threads = {t1, t2}
  InitBlockNum = 1
  HeapBlockNum = 3
  AddAllocMax = 2
  TagMod = 5
  MallocMayFail = TRUE
INVARIANTS BlocksAccounted WithinLimit AddedBlocksListed MarksExact
PROPERTIES EveryCallReturns
CHECK_DEADLOCK FALSE
