SPECIFICATION Spec
CONSTANTS
  SERVO_PULSE_MIN = 500
  SERVO_PULSE_MAX = 2400
  Parsed <- MCParsed
INVARIANTS
  TypeOK
  RegistersInRange
  ProgressAgrees
  ReplyIsOwed
PROPERTY
  RefusalMovesOneAxisAtMost
