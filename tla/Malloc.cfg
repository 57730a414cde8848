CONSTANTS
  Slots = {s1, s2}
  NULL = NULL
  Garbage = Garbage
  MIN_REGION_LEN = 2
  BLOCK_SM = 6
  BLOCK_MD = 6
  BLOCK_LG = 12
  HARD_LIMIT = 24
  SIZE_T = 64
  Requests = {0, 2, 6, 12}
  BEST_FIT = FALSE
SPECIFICATION Spec
SYMMETRY Symmetry
INVARIANTS Tiling MemoryIsHeldOnce
CHECK_DEADLOCK FALSE
