SPECIFICATION Spec
CONSTANTS
  Size = 1
  Available <- MCAvailable
  PdIndices = {768, 896}
  PtIndices = {0, 1}
  Device = 0
  LastFrame = 1048575
  TlbSize = 1
CHECK_DEADLOCK FALSE
INVARIANT
  TlbAgreesWithTables
