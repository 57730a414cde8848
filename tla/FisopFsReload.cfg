CONSTANTS
  Names = {a, b}
  Data = {x}
  INODE_AMOUNT = 4
  BLOCK_AMOUNT = 5
  BLOCK_SIZE = 4
  KiB = 1
  MAX_DIRECT_BLOCK_COUNT = 2
  Paths <- Long
  Lengths = {7}
  Sizes = {0}
  GarbageSizes = {0, 1}
  Saves = 2
  Onward = TRUE
SPECIFICATION Spec
SYMMETRY Symmetry
VIEW View
INVARIANTS NoInodeTwice
CHECK_DEADLOCK FALSE
