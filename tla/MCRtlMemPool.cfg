SPECIFICATION PoolSpec
CONSTANTS
  SL_INDEX_COUNT_LOG2 = 2
  FL_INDEX_MAX = 7
  Chunk <- TwoChunks
  Request = {1, 18, 25, 36, 47, 200}
INVARIANTS AllocationsDisjoint HeapWellFormed GoodFit
