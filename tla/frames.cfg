SPECIFICATION Spec
CONSTANTS
  Size = 2
  Available <- MCAvailable
  NoFrame = NoFrame
INVARIANTS
  TypeOK
  BitmapMatchesHolders
  HintIsFreeOrBeyond
PROPERTIES
  NoFrameGrantedTwice
  ImplementsPool
