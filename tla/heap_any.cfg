SPECIFICATION Spec
CONSTANTS
  PageSize = 32
  HeapStart = 32
  HeapTop = 160
  Modulus = 4096
  Sizes = {4, 20}
  Arrays <- NoArrays
  PageCounts = {1}
  Resizes = TRUE
  MaxBlocks = 3
CHECK_DEADLOCK FALSE
INVARIANT
  VisitedHeadsAreMapped
PROPERTY
  PageBlocksAreAligned
