SPECIFICATION Spec
CONSTANTS
  PageSize = 8
  Word = 1024
  LongWord = 65536
  KernelStart = 48
  KernelSize = 20
  MemoryMaps <- UnalignedMaps
INVARIANT
  FreePagesAreUsable
