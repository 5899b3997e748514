SPECIFICATION Spec
CONSTANTS
  PageSize = 64
  HeapStart = 64
  HeapTop = 448
  Modulus = 4096
  Sizes = {4, 30}
  Arrays <- NoArrays
  PageCounts = {}
  Resizes = FALSE
  MaxBlocks = 3
CHECK_DEADLOCK FALSE
INVARIANT
  UsedAreasAreOwned
