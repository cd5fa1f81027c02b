---------------------------- MODULE CommandParser ----------------------------
(****************************************************************************)
(* The byte loop of receiveI2c (src/arduino-code/atmega_com.ino): how the   *)
(* SuperIO firmware reads one text command off the I2C bus.  A command is a *)
(* sequence of bytes, each a one-character string; "NUL", "LF" and " "      *)
(* stand for the bytes the loop skips.  What the firmware then does with    *)
(* the result is module SuperIO.                                            *)
(****************************************************************************)
EXTENDS Integers, Sequences

Digit == <<"0", "1", "2", "3", "4", "5", "6", "7", "8", "9">>

IsDigit(c) == \E k \in 1..10 : Digit[k] = c

DigitValue(c) == (CHOOSE k \in 1..10 : Digit[k] = c) - 1

\* Bytes not above 32, which the loop passes over.
Blank == {"NUL", "LF", " "}

LowerCase == [g |-> "G", s |-> "S", l |-> "L", e |-> "E", p |-> "P",
              x |-> "X", y |-> "Y"]

ToUpper(c) == IF c \in DOMAIN LowerCase THEN LowerCase[c] ELSE c

DeviceOf == [L |-> "led", S |-> "servo"]

TypeOf == [E |-> "en", P |-> "pwm", X |-> "pwm_x", Y |-> "pwm_y"]

\* An int of the AVR has 16 bits.
Int16(n) == ((n + 32768) % 65536) - 32768

(****************************************************************************)
(* String.toInt() stored in an int: the long it returns is cut to 16 bits,  *)
(* and no digits at all read as 0.  Reducing at every digit gives the same  *)
(* value as reducing once, because 2^16 divides the 2^32 of a long.         *)
(****************************************************************************)
ToInt(digits) ==
  LET value[n \in 0..Len(digits)] ==
        IF n = 0 THEN 0 ELSE Int16(10 * value[n - 1] + DigitValue(digits[n]))
  IN value[Len(digits)]

\* "keep": the static `device` or `type` of an earlier command is untouched.
Start == [i2c_ret |-> "N", need_flags |-> 0, device |-> "keep",
          type |-> "keep", tmp_str |-> <<>>, val_0 |-> -1]

\* Faulty: a byte that fits nowhere is passed over.
SkipBadByte(s) == s

Fail(s) == [s EXCEPT !.i2c_ret = "F"]

LoopStates ==
  [i2c_ret : {"N", "G", "S", "F"}, need_flags : 0..4,
   device : {"led", "servo", "keep"},
   type : {"en", "pwm", "pwm_x", "pwm_y", "keep"},
   tmp_str : Seq({Digit[k] : k \in 1..10}), val_0 : Int]

\* One turn of the while loop, a function of the loop's variables.
ReadByte(input) ==
  LET c == ToUpper(input) IN
  [s \in LoopStates |->
     IF input \in Blank \/ s.i2c_ret = "F" THEN s
     ELSE CASE s.need_flags = 0 /\ c \in {"G", "S"} ->
                 [s EXCEPT !.i2c_ret = c, !.need_flags = 1]
            [] s.need_flags = 1 /\ c \in DOMAIN DeviceOf ->
                 [s EXCEPT !.device = DeviceOf[c], !.need_flags = 2]
            [] s.need_flags = 2 /\ c \in DOMAIN TypeOf ->
                 [s EXCEPT !.type = TypeOf[c], !.need_flags = 3]
            [] s.need_flags \in {3, 4} /\ IsDigit(input) ->
                 [s EXCEPT !.tmp_str = Append(@, input)]
            [] s.need_flags = 3 /\ input = "," ->
                 [s EXCEPT !.val_0 = ToInt(s.tmp_str), !.need_flags = 4,
                           !.tmp_str = <<>>]
            [] OTHER -> Fail(s)]

\* The loop's variables when it has read all of msg.
AtEnd(msg) ==
  LET after[n \in 0..Len(msg)] ==
        IF n = 0 THEN Start ELSE ReadByte(msg[n])[after[n - 1]]
  IN after[Len(msg)]

\* Faulty: the second value is written over the first.
ParseIntoFirst(msg) ==
  LET s == AtEnd(msg) IN
  [ret |-> s.i2c_ret, flags |-> s.need_flags, device |-> s.device,
   type |-> s.type, v0 |-> ToInt(s.tmp_str), v1 |-> -1]

(****************************************************************************)
(* What the loop leaves behind for the dispatch that follows it: the method *)
(* or the failure, how far the command got, the device and type it named,   *)
(* and the two values.                                                      *)
(****************************************************************************)
Parse(msg) ==
  LET s == AtEnd(msg) IN
  [ret |-> s.i2c_ret, flags |-> s.need_flags, device |-> s.device,
   type |-> s.type,
   v0 |-> IF s.need_flags = 4 THEN s.val_0 ELSE ToInt(s.tmp_str),
   v1 |-> IF s.need_flags = 4 THEN ToInt(s.tmp_str) ELSE -1]
=============================================================================
