\* A small first arena and one of full size.
SPECIFICATION PoolSpec
CONSTANTS
  ARENA_SIZE = 12
  ARENA_ALIGN = 2
  Limit = 8
  Request = {1, 2, 3, 5, 7, 11}
  MaxArenas = 2
INVARIANTS ChunksPartition WholeWhenFree
