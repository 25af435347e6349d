SPECIFICATION PoolSpec
CONSTANTS
  SL_INDEX_COUNT_LOG2 = 2
  FL_INDEX_MAX = 7
  Chunk <- TwoChunks
  Request = {18, 114}
INVARIANT IndexesInRange
