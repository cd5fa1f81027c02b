SPECIFICATION Spec
CONSTANTS
  Clients = {c1, c2}
  NoClient = NoClient
  Calls <- MCCalls
  MaxCalls = 2
  MaxPieces = 2
  MaxNacks = 0
  MaxLostWrites = 0
  MaxCrashes = 1
  MaxStops = 0
  SERVO_PULSE_MIN = 500
  SERVO_PULSE_MAX = 2400
INVARIANTS
  RestsBetweenSessions
PROPERTIES
  ImplementsService
  TrueMeansMoved
SYMMETRY ClientSymmetry
CHECK_DEADLOCK FALSE
