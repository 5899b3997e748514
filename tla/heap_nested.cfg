SPECIFICATION NestedSpec
CONSTANTS
  PageSize = 64
  HeapStart = 64
  HeapTop = 320
  Modulus = 4096
  Sizes = {30}
  Arrays <- MCArrays
  PageCounts = {1, 2}
  Resizes = TRUE
  MaxBlocks = 3
CHECK_DEADLOCK FALSE
INVARIANTS
  TypeOK
  HeadsAreHeads
  UsedAreasAreOwned
  BlockHoldsRequest
  BlocksAreMapped
  NothingOwnedIsOneArea
PROPERTY
  ImplementsBlockStore
