SPECIFICATION MainSpec
CONSTANTS
  PageSize = 4096
  HeapStart = 65536
  HeapTop = 147456
  Modulus = 1073741824
  Sizes = {12, 20, 50, 100, 200, 4096}
  Arrays = {}
  PageCounts = {1, 4}
  Resizes = TRUE
  MaxBlocks = 6
  Small = {12, 20, 50}
  Big = {100, 4096}
  Grown = {100, 200}
  TableEntries = 4
  Size = 2
  PtIndices <- MCPtIndices
  Available <- MCAvailable
  Machines <- MCMachines
  Wanted <- MCWanted
INVARIANTS
  HeadsAreHeads
  UsedAreasAreOwned
  BlocksAreMapped
  TestRestoresHeap
  HeapPagesAreBacked
  PrintsTheDevice
