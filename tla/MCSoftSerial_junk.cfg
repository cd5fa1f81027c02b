SPECIFICATION Spec
CONSTANTS
  BufSize = 3
  MaxPi = 1
  MaxHost = 1
INVARIANT
  NoJunk
