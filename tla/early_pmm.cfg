SPECIFICATION BootSpec
CONSTANTS
  PageSize = 8
  Word = 1024
  LongWord = 65536
  KernelStart = 48
  KernelSize = 20
  MemoryMaps <- PcMaps
  TableEntries = 16
  NoWriteEnd = 53
  BootDirectory = 7
  BootTable = 8
  VgaFrame = 5
INVARIANTS
  TypeOK
  FreePagesAreUsable
  BitmapHoldsAllPages
  UsablePagesAreFree
  HandsOverFreeHint
  ManagerIsHandedOver
  BitmapIsReachable
  MemoryHasOneUse
  StartUpSucceeds
