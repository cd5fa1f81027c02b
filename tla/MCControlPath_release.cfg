SPECIFICATION FairSpec
CONSTANTS
  Clients = {c1}
  NoClient = NoClient
  Calls <- MCShortCalls
  MaxCalls = 2
  MaxPieces = 2
  MaxNacks = 1
  MaxLostWrites = 0
  MaxCrashes = 1
  MaxStops = 1
  SERVO_PULSE_MIN = 500
  SERVO_PULSE_MAX = 2400
INVARIANTS
  RestsBetweenSessions
  OffAfterStop
PROPERTIES
  HeadReleased
  
CHECK_DEADLOCK FALSE
