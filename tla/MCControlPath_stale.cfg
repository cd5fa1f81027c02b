SPECIFICATION FairSpec
CONSTANTS
  Clients = {c1, c2}
  NoClient = NoClient
  Calls <- MCFewCalls
  MaxCalls = 1
  MaxPieces = 1
  MaxNacks = 0
  MaxLostWrites = 0
  MaxCrashes = 1
  MaxStops = 0
  SERVO_PULSE_MIN = 500
  SERVO_PULSE_MAX = 2400
PROPERTY
  ServedCallReturns
CHECK_DEADLOCK FALSE
