SPECIFICATION Spec
CONSTANTS
  Clients = {c1}
  NoClient = NoClient
  Calls <- MCFewCalls
  MaxCalls = 1
  MaxPieces = 3
  MaxNacks = 0
  MaxLostWrites = 0
  MaxCrashes = 0
  MaxStops = 0
  SERVO_PULSE_MIN = 500
  SERVO_PULSE_MAX = 2400
PROPERTY
  TrueMeansMoved
CHECK_DEADLOCK FALSE
