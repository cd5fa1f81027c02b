SPECIFICATION FairSpec
CONSTANTS
  Sizes = {portrait, landscape}
  NoSize = NoSize
INVARIANTS
  OffDeadSurface
  NullCanvasOnlyThen
  WholeSizes
PROPERTIES
  UIComesBack
  Plays
CHECK_DEADLOCK FALSE
