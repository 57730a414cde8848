CONSTANTS
  a = a
  Names = {a, b}
  Data = {x}
  INODE_AMOUNT = 4
  BLOCK_AMOUNT = 5
  BLOCK_SIZE = 4
  KiB = 1
  MAX_DIRECT_BLOCK_COUNT = 2
  Paths <- Long
  Lengths = {7}
  Sizes = {2}
  GarbageSizes = {0, 1}
  Saves = 0
  Onward = FALSE
SPECIFICATION MCSpec
SYMMETRY Symmetry
VIEW MCView
INVARIANTS StorageSound TreeIsSound
PROPERTIES AppendsAllOrNothing LoadableComesBack
CHECK_DEADLOCK FALSE
