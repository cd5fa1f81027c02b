------------------------------- MODULE SuperIO -------------------------------
(****************************************************************************)
(* The I2C slave of the SuperIO firmware (src/arduino-code/atmega_com.ino): *)
(* receiveI2c dispatches a parsed command onto the five registers, and      *)
(* sendI2c answers the bus master one byte per request, remembering in      *)
(* i2c_ret how far the answer has got.  Both run in the TWI interrupt, so   *)
(* each is one atomic step.  The bus master is not modelled here: it may    *)
(* stop reading at any byte and write another command.                      *)
(****************************************************************************)
EXTENDS Integers, Sequences

CONSTANTS
  SERVO_PULSE_MIN,  \* pulse widths (microseconds) a servo takes lie
  SERVO_PULSE_MAX,  \* strictly between these two
  Parsed            \* the results of the byte loop that can be dispatched

Devices == {"led", "servo"}
Types == {"en", "pwm", "pwm_x", "pwm_y"}
IntMin == -32768
IntMax == 32767
Int16s == IntMin..IntMax

ParseResults ==
  [ret : {"N", "G", "S", "F"}, flags : 0..4, device : Devices \cup {"keep"},
   type : Types \cup {"keep"}, v0 : Int16s, v1 : Int16s]

\* The positions setup() starts the servos at are pulses a servo takes, and
\* every pulse fits in the four digits of a reply.
ASSUME PulseAssumption ==
  /\ SERVO_PULSE_MIN \in 0..1149
  /\ SERVO_PULSE_MAX \in 1481..10000

\* A command that got as far as its value (flags 3 or 4) named a method, a
\* device and a type on the way.
ASSUME ParsedAssumption ==
  /\ Parsed \subseteq ParseResults
  /\ \A p \in Parsed : p.flags >= 3 =>
       p.ret # "N" /\ p.device # "keep" /\ p.type # "keep"

VARIABLES
  i2c_ret,      \* what the next byte of the answer is made from
  device,       \* device and type of the last command
  type,
  get_bytes_c,  \* digits of the answer still to be sent
  reg,          \* led_en, led_pwm, servo_en, servo_pwm_x, servo_pwm_y
  out,          \* what setup and receiveI2c last told the pins and the servos;
                \* pollingTimer's own write of one pin is in PowerButton
  asked,        \* history: what the last command must be answered with
  reply         \* history: the bytes read since, up to the first NUL

vars == <<i2c_ret, device, type, get_bytes_c, reg, out, asked, reply>>

----------------------------------------------------------------------------
(* Registers.                                                               *)

Registers == {"led_en", "led_pwm", "servo_en", "servo_pwm_x", "servo_pwm_y"}

\* The register a single-value command names, "none" if there is no such one.
Register(d, t) ==
  CASE d = "led"   /\ t = "en"    -> "led_en"
    [] d = "led"   /\ t = "pwm"   -> "led_pwm"
    [] d = "servo" /\ t = "en"    -> "servo_en"
    [] d = "servo" /\ t = "pwm_x" -> "servo_pwm_x"
    [] d = "servo" /\ t = "pwm_y" -> "servo_pwm_y"
    [] OTHER                      -> "none"

\* Faulty: the limits themselves are let through.
PulseOrLimit(v) == v >= SERVO_PULSE_MIN /\ v <= SERVO_PULSE_MAX

Pulse(v) == v > SERVO_PULSE_MIN /\ v < SERVO_PULSE_MAX

Accepts(r, v) ==
  \/ r \in {"led_en", "servo_en"} /\ v \in {0, 1}
  \/ r = "led_pwm" /\ v >= 0 /\ v <= 255
  \/ r \in {"servo_pwm_x", "servo_pwm_y"} /\ Pulse(v)

\* Faulty: five digits for any int.
WidthOfInt(r) == IF r \in {"led_en", "servo_en"} THEN 1 ELSE 5

\* The number of digits a Get of the register is answered with.
Width(r) == CASE r \in {"led_en", "servo_en"} -> 1
              [] r = "led_pwm"                -> 3
              [] OTHER                        -> 4

----------------------------------------------------------------------------
(* receiveI2c, once its loop has made p of the bytes received.              *)

Answer(ret, what) ==
  /\ i2c_ret' = ret
  /\ asked' = what
  /\ reply' = <<>>

\* The statics keep their values when the command broke off before them.
Named(p) ==
  /\ device' = IF p.device = "keep" THEN device ELSE p.device
  /\ type' = IF p.type = "keep" THEN type ELSE p.type

Reject == Answer("F", "fail") /\ UNCHANGED <<get_bytes_c, reg, out>>

\* Faulty: a digit count left by an answer cut short is kept.
GetRegisterUnarmed(p) ==
  LET r == Register(p.device, p.type) IN
  /\ p.ret = "G" /\ p.flags = 3 /\ r # "none"
  /\ get_bytes_c' = IF get_bytes_c = 0 THEN Width(r) ELSE get_bytes_c
  /\ Answer("G", r)
  /\ UNCHANGED <<reg, out>>

\* "Gdt": arm the answer, one digit per byte.
GetRegister(p) ==
  LET r == Register(p.device, p.type) IN
  /\ p.ret = "G" /\ p.flags = 3 /\ r # "none"
  /\ get_bytes_c' = Width(r)
  /\ Answer("G", r)
  /\ UNCHANGED <<reg, out>>

\* "Sdtv": one register and the output behind it.
SetRegister(p) ==
  LET r == Register(p.device, p.type) IN
  /\ p.ret = "S" /\ p.flags = 3 /\ r # "none" /\ Accepts(r, p.v0)
  /\ reg' = [reg EXCEPT ![r] = p.v0]
  /\ out' = [out EXCEPT ![r] = p.v0]
  /\ Answer("S", "ack")
  /\ UNCHANGED get_bytes_c

\* Faulty: both axes move before their values are looked at.
SetBothAxesFirst(p) ==
  LET Move(f) == [f EXCEPT !["servo_pwm_x"] = p.v0, !["servo_pwm_y"] = p.v1] IN
  /\ p.ret = "S" /\ p.flags = 4 /\ p.device = "servo" /\ p.type = "pwm"
  /\ reg' = Move(reg)
  /\ out' = Move(out)
  /\ IF Pulse(p.v0) /\ Pulse(p.v1) THEN Answer("S", "ack") ELSE Answer("F", "fail")
  /\ UNCHANGED get_bytes_c

\* "SSPx,y": the axes one after the other, each if its value is a pulse; the
\* value -1 leaves its axis alone, any other fails the command, which does not
\* undo what the other axis did.
SetBothAxes(p) ==
  LET Move(f) == [f EXCEPT
                    !["servo_pwm_x"] = IF Pulse(p.v0) THEN p.v0 ELSE @,
                    !["servo_pwm_y"] = IF Pulse(p.v1) THEN p.v1 ELSE @]
  IN
  /\ p.ret = "S" /\ p.flags = 4 /\ p.device = "servo" /\ p.type = "pwm"
  /\ reg' = Move(reg)
  /\ out' = Move(out)
  /\ IF \A v \in {p.v0, p.v1} : Pulse(v) \/ v = -1
     THEN Answer("S", "ack")
     ELSE Answer("F", "fail")
  /\ UNCHANGED get_bytes_c

\* Everything else: a loop that failed or stopped early, a register that is
\* not there, a value out of range, a second value where none is taken.
RejectCommand(p) ==
  LET r == Register(p.device, p.type) IN
  /\ \/ p.ret = "F"
     \/ p.flags < 3
     \/ p.flags = 3 /\ r = "none"
     \/ p.flags = 3 /\ p.ret = "S" /\ r # "none" /\ ~Accepts(r, p.v0)
     \/ p.flags = 4 /\ ~(p.ret = "S" /\ p.device = "servo" /\ p.type = "pwm")
  /\ Reject

ReceiveI2c(p) ==
  /\ Named(p)
  /\ GetRegister(p) \/ SetRegister(p) \/ SetBothAxes(p) \/ RejectCommand(p)

----------------------------------------------------------------------------
(* sendI2c: one byte per request of the master.                             *)

Letter(x) == CASE x = "led"   -> "L" [] x = "servo" -> "S"
               [] x = "en"    -> "E" [] x = "pwm"   -> "P"
               [] x = "pwm_x" -> "X" [] x = "pwm_y" -> "Y"

ReplyBytes == {"R", "L", "S", "E", "P", "X", "Y", "T", "F", "NUL",
               "0", "1", "2", "3", "4", "5", "6", "7", "8", "9"}

Char == <<"0", "1", "2", "3", "4", "5", "6", "7", "8", "9">>

\* num_divider: ten to the power get_bytes_c - 1.
Divider == <<1, 10, 100, 1000>>

\* The digit of n that n \div d ends in, as the character itoa makes of it.
DigitAt(n, d) == Char[((n \div d) % 10) + 1]

\* The bytes after the first NUL are not recorded.
WireWrite(byte) ==
  reply' = IF reply # <<>> /\ reply[Len(reply)] = "NUL" THEN reply
           ELSE Append(reply, byte)

SendHeader ==
  /\ \/ i2c_ret = "G" /\ WireWrite("R") /\ i2c_ret' = "D"
     \/ i2c_ret = "D" /\ WireWrite(Letter(device)) /\ i2c_ret' = "W"
     \/ i2c_ret = "W" /\ WireWrite(Letter(type)) /\ i2c_ret' = "B"
  /\ UNCHANGED get_bytes_c

\* Faulty: the answer ends one digit early.
SendDigitButLast ==
  LET r == Register(device, type) IN
  /\ i2c_ret = "B"
  /\ WireWrite(DigitAt(reg[r], Divider[get_bytes_c]))
  /\ get_bytes_c' = get_bytes_c - 1
  /\ i2c_ret' = IF get_bytes_c <= 2 THEN "0" ELSE "B"

SendDigit ==
  LET r == Register(device, type) IN
  /\ i2c_ret = "B"
  /\ WireWrite(IF r = "none" THEN "F"
               ELSE DigitAt(reg[r], Divider[get_bytes_c]))
  /\ get_bytes_c' = get_bytes_c - 1
  /\ i2c_ret' = IF r = "none" \/ get_bytes_c = 1 THEN "0" ELSE "B"

\* "S" is answered T; "F", and the 0 the static starts as, are answered F.
SendResult ==
  /\ i2c_ret \notin {"G", "D", "W", "B", "0"}
  /\ WireWrite(IF i2c_ret = "S" THEN "T" ELSE "F")
  /\ i2c_ret' = "0"
  /\ UNCHANGED get_bytes_c

SendEnd ==
  /\ i2c_ret = "0"
  /\ WireWrite("NUL")
  /\ UNCHANGED <<i2c_ret, get_bytes_c>>

SendI2c ==
  /\ SendHeader \/ SendDigit \/ SendResult \/ SendEnd
  /\ UNCHANGED <<device, type, reg, out, asked>>

----------------------------------------------------------------------------
\* What the globals hold when setup() has registered the two handlers.
Init ==
  /\ i2c_ret = "init"
  /\ device = "led"
  /\ type = "en"
  /\ get_bytes_c = 0
  /\ reg = [r \in Registers |-> CASE r \in {"led_en", "servo_en"} -> 0
                                  [] r = "led_pwm"     -> 255
                                  [] r = "servo_pwm_x" -> 1480
                                  [] r = "servo_pwm_y" -> 1150]
  /\ out = reg
  /\ asked = "fail"
  /\ reply = <<>>

Next == (\E p \in Parsed : ReceiveI2c(p)) \/ SendI2c

Spec == Init /\ [][Next]_vars

----------------------------------------------------------------------------
(* Properties.                                                              *)

\* Every variable keeps its type; get_bytes_c, an int the loop over
\* num_divider relies on, stays between 0 and 4.
TypeOK ==
  /\ i2c_ret \in {"init", "G", "D", "W", "B", "S", "F", "0"}
  /\ device \in Devices
  /\ type \in Types
  /\ get_bytes_c \in 0..4
  /\ reg \in [Registers -> Int16s]
  /\ out \in [Registers -> Int16s]
  /\ asked \in Registers \cup {"ack", "fail"}
  /\ reply \in Seq(ReplyBytes)

\* No sequence of commands, however their decimal values wrap in 16 bits and
\* however a two-axis command fails half way, leaves a register or the output
\* behind it outside its range: 0 or 1, a PWM duty, a pulse strictly between
\* the limits the Servo objects are attached with.
RegistersInRange ==
  /\ reg["led_en"] \in 0..1 /\ reg["servo_en"] \in 0..1
  /\ reg["led_pwm"] \in 0..255
  /\ \A r \in {"servo_pwm_x", "servo_pwm_y"} :
       SERVO_PULSE_MIN < reg[r] /\ reg[r] < SERVO_PULSE_MAX
  /\ out = reg

\* The answer the last command is owed, byte by byte, read off the protocol
\* and not off i2c_ret: R, the two letters and the digits of the register, or
\* T or F; then the NUL the bus master stops at.
OwedLength == IF asked \in Registers THEN 4 + Width(asked) ELSE 2

OwedByte(k) ==
  IF k = OwedLength THEN "NUL"
  ELSE IF asked \notin Registers THEN (IF asked = "ack" THEN "T" ELSE "F")
  ELSE CASE k = 1 -> "R"
         [] k = 2 -> IF asked \in {"led_en", "led_pwm"} THEN "L" ELSE "S"
         [] k = 3 -> (CASE asked \in {"led_en", "servo_en"} -> "E"
                        [] asked = "led_pwm"                -> "P"
                        [] asked = "servo_pwm_x"            -> "X"
                        [] asked = "servo_pwm_y"            -> "Y")
         [] OTHER -> DigitAt(reg[asked], Divider[OwedLength - k])

\* i2c_ret, get_bytes_c and the number of bytes sent are three views of the
\* same progress, and a digit is sent only while one is left: num_divider is
\* never computed from a count of zero.
ProgressAgrees ==
  IF asked \in Registers
  THEN /\ Register(device, type) = asked
       /\ \/ i2c_ret = "G" /\ Len(reply) = 0 /\ get_bytes_c = Width(asked)
          \/ i2c_ret = "D" /\ Len(reply) = 1 /\ get_bytes_c = Width(asked)
          \/ i2c_ret = "W" /\ Len(reply) = 2 /\ get_bytes_c = Width(asked)
          \/ /\ i2c_ret = "B"
             /\ get_bytes_c \in 1..Width(asked)
             /\ Len(reply) = 3 + Width(asked) - get_bytes_c
          \/ i2c_ret = "0" /\ Len(reply) \in 3 + Width(asked)..OwedLength
  ELSE \/ /\ i2c_ret \in (IF asked = "ack" THEN {"S"} ELSE {"F", "init"})
          /\ Len(reply) = 0
       \/ i2c_ret = "0" /\ Len(reply) \in 1..2

\* Whenever the master reads, and however often it breaks off and writes
\* again, what sendI2c has sent is the beginning of the answer owed: most
\* significant digit first, of the value the register has now, ended by NUL,
\* and never longer than the 8 bytes z_server's cmd has to hold.
ReplyIsOwed ==
  /\ Len(reply) <= OwedLength
  /\ \A k \in 1..Len(reply) : reply[k] = OwedByte(k)
  /\ Len(reply) <= 8

\* A command that is answered F changed nothing, or moved one servo axis: the
\* half of an SSP whose other half was refused.
RefusalMovesOneAxisAtMost ==
  [][i2c_ret' = "F" =>
       LET changed == {r \in Registers : reg'[r] # reg[r]} IN
       \/ changed = {}
       \/ changed = {"servo_pwm_x"}
       \/ changed = {"servo_pwm_y"}]_vars
=============================================================================
