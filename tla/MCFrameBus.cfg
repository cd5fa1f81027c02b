SPECIFICATION FairSpec
CONSTANTS
  Clients = {c1, c2}
  MaxFrames = 3
INVARIANTS
  WholeFrames
  FreshFrames
PROPERTIES
  CameraGoesOn
  WaitersAreServed
CHECK_DEADLOCK FALSE
