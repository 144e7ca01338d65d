SPECIFICATION Spec
CONSTANTS
  Threads = {t1, t2}
  ChunkSize = 2
  InitChunkCnt = 2
  HeapArrays = 2
  AddAllocMax = 1
  MaxChunks = 5
  MaxTag = 4
  MallocMayFail = TRUE
INVARIANTS ChunksAccounted BlocksConserved StackedChunksFull ChunkCountsExact
CHECK_DEADLOCK FALSE
