SPECIFICATION Spec
CONSTANTS
  Clients = {c1}
  NoClient = NoClient
  Calls <- MCCalls
  MaxCalls = 1
  MaxPieces = 1
  MaxNacks = 8
  MaxLostWrites = 1
  MaxCrashes = 0
  MaxStops = 0
  SERVO_PULSE_MIN = 500
  SERVO_PULSE_MAX = 2400
INVARIANTS
  TypeOK
PROPERTIES
  FirstTrueMeansMoved
CHECK_DEADLOCK FALSE
