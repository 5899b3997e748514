SPECIFICATION Spec
CONSTANTS
  PageSize = 64
  HeapStart = 64
  HeapTop = 384
  Modulus = 4096
  Sizes = {4, 285}
  Arrays <- NoArrays
  PageCounts = {}
  Resizes = FALSE
  MaxBlocks = 2
CHECK_DEADLOCK FALSE
INVARIANT
  BlocksAreMapped
