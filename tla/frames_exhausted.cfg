SPECIFICATION Spec
CONSTANTS
  Size = 2
  Available <- MCAvailable
  NoFrame = NoFrame
INVARIANT
  ConsecutivePagesDiffer
