--------------------------- MODULE ControlPathProofs ---------------------------
(****************************************************************************)
(* The control path (ControlPath), for any phones, calls, crashes, stops    *)
(* and lost writes, and up to eight failed reads (BoundsAssumption).        *)
(*                                                                          *)
(* How the server leaves the head: at rest between two sessions and off     *)
(* after a stop, as long as no write on the bus has been lost.  The         *)
(* argument is about the commands main and beforeExit send themselves: what *)
(* the firmware's byte loop and toInt make of them, what receiveI2c then    *)
(* does to the registers, and the invariant Inv that the commands already   *)
(* written have reached their registers while the server is still inside    *)
(* the exchange.                                                            *)
(*                                                                          *)
(* Type correctness of the whole composition, whatever is lost: every       *)
(* command is a C string of at most 13 bytes and its terminator, every      *)
(* answer at most 8 bytes, so the server's index into it stays below its    *)
(* 16 bytes.  The firmware's own invariants (SuperIOProofs) are reused at   *)
(* every byte of the bus, and what a text parses to comes from the theorems *)
(* about the parser (CommandParserProofs).                                  *)
(****************************************************************************)
EXTENDS ControlPath, SequenceTheorems, FiniteSetTheorems, WellFoundedInduction, TLAPS

--------------------------------------------------------------------------------
(* The parser: its definitions and the theorems about them                    *)

PP == INSTANCE CommandParserProofs
        WITH Bytes <- {}, Seeds <- {}, MaxGrowth <- 0, msg <- cmd, room <- 0

\* The parser's definitions are those its theorems are about.
LEMMA SameTables ==
  /\ PP!Digit = Parser!Digit /\ PP!Blank = Parser!Blank
  /\ PP!DeviceOf = Parser!DeviceOf /\ PP!TypeOf = Parser!TypeOf
  /\ PP!Start = Parser!Start
BY DEF PP!Digit, Parser!Digit, PP!Blank, Parser!Blank, PP!DeviceOf, Parser!DeviceOf,
       PP!TypeOf, Parser!TypeOf, PP!Start, Parser!Start

\* toInt and the byte loop give the same results, whatever the text.
LEMMA SameToInt == \A s : PP!ToInt(s) = Parser!ToInt(s)
<1>1. \A n : PP!Int16(n) = Parser!Int16(n)
  BY DEF PP!Int16, Parser!Int16
<1>2. \A b : PP!DigitValue(b) = Parser!DigitValue(b)
  BY SameTables DEF PP!DigitValue, Parser!DigitValue
<1> QED
  BY <1>1, <1>2, Zenon DEF PP!ToInt, Parser!ToInt

LEMMA SameParse == \A m : PP!Parse(m) = Parser!Parse(m)
<1>1. \A b : PP!ReadByte(b) = Parser!ReadByte(b)
  BY SMTT(30)
     DEF PP!ReadByte, Parser!ReadByte, PP!ToInt, Parser!ToInt, PP!ToUpper,
         Parser!ToUpper, PP!LowerCase, Parser!LowerCase, PP!Blank, Parser!Blank,
         PP!IsDigit, Parser!IsDigit, PP!Digit, Parser!Digit, PP!DeviceOf,
         Parser!DeviceOf, PP!TypeOf, Parser!TypeOf, PP!Fail, Parser!Fail,
         PP!LoopStates, Parser!LoopStates, PP!Int16, Parser!Int16,
         PP!DigitValue, Parser!DigitValue
<1>2. \A m : PP!AtEnd(m) = Parser!AtEnd(m)
  BY <1>1, SameTables DEF PP!AtEnd, Parser!AtEnd
<1> QED
  BY <1>2, SameToInt DEF PP!Parse, Parser!Parse

\* What the byte loop makes of any bytes at all.
LEMMA Parsed ==
  ASSUME NEW m, Len(m) \in Nat
  PROVE  Parser!Parse(m) \in {p \in IO!ParseResults : p.flags >= 3 =>
            p.ret # "N" /\ p.device # "keep" /\ p.type # "keep"}
<1> DEFINE p == Parser!Parse(m)
<1>1. /\ p.ret \in {"N", "G", "S", "F"}
      /\ p.flags \in 0..4
      /\ p.device \in {"led", "servo", "keep"}
      /\ p.type \in {"en", "pwm", "pwm_x", "pwm_y", "keep"}
      /\ PP!InInt(p.v0) /\ PP!InInt(p.v1)
      /\ p = [ret |-> p.ret, flags |-> p.flags, device |-> p.device,
              type |-> p.type, v0 |-> p.v0, v1 |-> p.v1]
      /\ p.flags >= 3 => p.ret # "N" /\ p.device # "keep" /\ p.type # "keep"
  <2>1. p = PP!Parse(m)
    BY SameParse
  <2> HIDE DEF p
  <2> QED
    BY <2>1, PP!ParseTyped
<1> HIDE DEF p
<1>2. p.v0 \in IO!Int16s /\ p.v1 \in IO!Int16s
  <2>1. ASSUME NEW n, PP!InInt(n)
        PROVE  n \in IO!Int16s
    <3>1. /\ n \in Int /\ IO!IntMin \in Int /\ IO!IntMax \in Int
          /\ IO!IntMin <= n /\ n <= IO!IntMax
      BY <2>1 DEF PP!InInt, IO!IntMin, IO!IntMax
    <3> QED
      BY <3>1 DEF IO!Int16s
  <2> QED
    BY <1>1, <2>1, Zenon
<1>3. p.device \in IO!Devices \cup {"keep"} /\ p.type \in IO!Types \cup {"keep"}
  BY <1>1 DEF IO!Devices, IO!Types
<1>4. [ret |-> p.ret, flags |-> p.flags, device |-> p.device,
       type |-> p.type, v0 |-> p.v0, v1 |-> p.v1] \in IO!ParseResults
  <2> DEFINE a == p.ret  b == p.flags  c == p.device  d == p.type  e == p.v0  f == p.v1
  <2>1. /\ a \in {"N", "G", "S", "F"} /\ b \in 0..4 /\ c \in IO!Devices \cup {"keep"}
        /\ d \in IO!Types \cup {"keep"} /\ e \in IO!Int16s /\ f \in IO!Int16s
    BY <1>1, <1>2, <1>3
  <2> HIDE DEF a, b, c, d, e, f
  <2>2. [ret |-> a, flags |-> b, device |-> c, type |-> d, v0 |-> e, v1 |-> f]
           \in IO!ParseResults
    BY <2>1 DEF IO!ParseResults
  <2> QED
    BY <2>2, Zenon DEF a, b, c, d, e, f
<1>5. p \in IO!ParseResults
  BY <1>1, <1>4, Zenon
<1> QED
  BY <1>1, <1>5, Zenon DEF p

--------------------------------------------------------------------------------
(* How a number is written                                                    *)

\* A place of a number is one of the four its digits are counted by.
LEMMA PlacesFit ==
  ASSUME NEW n, PP!FourDigits(n)
  PROVE  /\ Places(n) \in 1..4
         /\ \/ Places(n) = 1 /\ n < 10
            \/ Places(n) = 2 /\ n < 100
            \/ Places(n) = 3 /\ n < 1000
            \/ Places(n) = 4 /\ n < 10000
<1>0. Power[1] = 1 /\ Power[2] = 10 /\ Power[3] = 100 /\ Power[4] = 1000
  BY DEF Power
<1>1. \E w \in 1..4 : Fits(n, w)
  <2>0. n \in Int
    BY DEF PP!FourDigits
  <2>1. CASE n < 10
    BY <1>0, <2>0, <2>1 DEF Fits
  <2>2. CASE 10 <= n /\ n < 100
    BY <1>0, <2>0, <2>2 DEF Fits
  <2>3. CASE 100 <= n /\ n < 1000
    BY <1>0, <2>0, <2>3 DEF Fits
  <2>4. CASE 1000 <= n
    BY <1>0, <2>0, <2>4 DEF Fits
  <2> QED
    BY <2>0, <2>1, <2>2, <2>3, <2>4
<1>2. Places(n) \in 1..4 /\ Fits(n, Places(n))
  BY <1>1, Zenon DEF Places
<1>3. PICK w \in 1..4 : w = Places(n) /\ Fits(n, w)
  BY <1>2, Zenon
<1>4. \/ w = 1 /\ n < 10
      \/ w = 2 /\ n < 100
      \/ w = 3 /\ n < 1000
      \/ w = 4 /\ n < 10000
  BY <1>0, <1>3 DEF Fits, PP!FourDigits
<1> QED
  BY <1>3, <1>4

\* Integer.toString gives one to four digits, and toInt takes them back.
LEMMA DecimalDigits ==
  ASSUME NEW n, PP!FourDigits(n)
  PROVE  /\ PP!AllDigits(Decimal(n))
         /\ Len(Decimal(n)) \in 1..4
         /\ DOMAIN Decimal(n) = 1..Len(Decimal(n))
         /\ Parser!ToInt(Decimal(n)) = n
<1> DEFINE str == Decimal(n)
<1>1. PICK w \in 1..4 : w = Places(n)
  <2>1. Places(n) \in 1..4
    BY PlacesFit
  <2> QED
    BY <2>1, Zenon
<1>2. str = [k \in 1..w |-> DigitOf(n, w - k + 1)]
  BY <1>1, Zenon DEF Decimal
<1>3. PICK d : d = [k \in 1..4 |-> (n \div Power[k]) % 10]
  BY Zenon
<1>4. \A k \in 1..4 : d[k] = (n \div Power[k]) % 10
  BY <1>3, Zenon
<1>5. n \in Nat /\ n \div 1 = n
  BY DEF PP!FourDigits
<1>6. /\ d[1] = n % 10 /\ d[2] = (n \div 10) % 10 /\ d[3] = (n \div 100) % 10
      /\ d[4] = (n \div 1000) % 10
  <2>1. d[1] = (n \div Power[1]) % 10 /\ d[2] = (n \div Power[2]) % 10
        /\ d[3] = (n \div Power[3]) % 10 /\ d[4] = (n \div Power[4]) % 10
    <3>1. 1 \in 1..4 /\ 2 \in 1..4 /\ 3 \in 1..4 /\ 4 \in 1..4
      OBVIOUS
    <3> QED
      BY <1>4, <3>1, Zenon
  <2>2. Power[1] = 1 /\ Power[2] = 10 /\ Power[3] = 100 /\ Power[4] = 1000
    BY DEF Power
  <2> QED
    BY <1>5, <2>1, <2>2
<1>7. PP!Value(d, w) = n /\ \A k \in 1..4 : d[k] \in 0..9
  BY <1>1, <1>5, <1>6, PlacesFit, PP!ValueOfDigits
<1>8. /\ Len(str) = w /\ DOMAIN str = 1..w
      /\ \A k \in 1..w : str[k] = DigitOf(n, w - k + 1)
  <2>1. DOMAIN str = 1..w /\ \A k \in 1..w : str[k] = DigitOf(n, w - k + 1)
    BY <1>2, Zenon
  <2> HIDE DEF str
  <2>2. Len(str) = w
    BY <1>2
  <2> QED
    BY <2>1, <2>2
<1> HIDE DEF str
<1>9. \A k \in 1..w : str[k] = PP!Digit[d[w - k + 1] + 1]
  <2>1. ASSUME NEW k \in 1..4
        PROVE  DigitOf(n, k) = PP!Digit[d[k] + 1]
    <3>1. d[k] = (n \div Power[k]) % 10
      BY <1>4, Zenon
    <3> QED
      BY <3>1, SameTables, Zenon DEF DigitOf
  <2>2. \A k \in 1..w : w - k + 1 \in 1..4
    OBVIOUS
  <2> QED
    BY <1>8, <2>1, <2>2, Zenon
<1>10. PP!AllDigits(str) /\ PP!ToInt(str) = PP!Value(d, w)
  <2>1. \A k \in 1..w : d[k] \in 0..9
    BY <1>7
  <2> QED
    BY <1>8, <1>9, <2>1, PP!ToIntOfFew
<1>11. /\ PP!AllDigits(str) /\ Len(str) \in 1..4 /\ DOMAIN str = 1..Len(str)
       /\ Parser!ToInt(str) = n
  BY <1>7, <1>8, <1>10, SameToInt
<1> QED
  BY <1>11, Zenon DEF str

--------------------------------------------------------------------------------
(* The firmware: its definitions and the theorems about them                  *)

SP == INSTANCE SuperIOProofs
        WITH Parsed <- {p \in IO!ParseResults : p.flags >= 3 =>
                          p.ret # "N" /\ p.device # "keep" /\ p.type # "keep"}

\* The firmware's definitions are those its theorems are about.
LEMMA SameSets ==
  /\ SP!Devices = IO!Devices /\ SP!Types = IO!Types /\ SP!Registers = IO!Registers
  /\ SP!Int16s = IO!Int16s /\ SP!ReplyBytes = IO!ReplyBytes
  /\ SP!Divider = IO!Divider /\ SP!Char = IO!Char /\ SP!ParseResults = IO!ParseResults
<1>1. SP!Int16s = IO!Int16s
  <2>1. SP!IntMin = IO!IntMin /\ SP!IntMax = IO!IntMax
    BY DEF SP!IntMin, IO!IntMin, SP!IntMax, IO!IntMax
  <2> QED
    BY <2>1, Zenon DEF SP!Int16s, IO!Int16s
<1>2. SP!Devices = IO!Devices /\ SP!Types = IO!Types
  BY DEF SP!Devices, IO!Devices, SP!Types, IO!Types
<1>3. SP!ParseResults = IO!ParseResults
  BY <1>1, <1>2, Zenon DEF SP!ParseResults, IO!ParseResults
<1> QED
  BY <1>1, <1>2, <1>3, Zenon
     DEF SP!Registers, IO!Registers, SP!ReplyBytes, IO!ReplyBytes,
         SP!Divider, IO!Divider, SP!Char, IO!Char

\* Each definition of the firmware in turn, then each of its actions.
LEMMA SameRegister == \A d, t : SP!Register(d, t) = IO!Register(d, t)
BY DEF SP!Register, IO!Register

LEMMA SameWidth == \A r : SP!Width(r) = IO!Width(r)
BY DEF SP!Width, IO!Width

LEMMA SameDigitAt == \A n, d : SP!DigitAt(n, d) = IO!DigitAt(n, d)
BY SameSets, Zenon DEF SP!DigitAt, IO!DigitAt

LEMMA SameLetter == \A x : SP!Letter(x) = IO!Letter(x)
BY DEF SP!Letter, IO!Letter

LEMMA SameOwed == SP!OwedLength = IO!OwedLength /\ \A k : SP!OwedByte(k) = IO!OwedByte(k)
<1>1. SP!OwedLength = IO!OwedLength
  BY SameWidth, SameSets, Zenon DEF SP!OwedLength, IO!OwedLength
<1>2. ASSUME NEW k
      PROVE  SP!OwedByte(k) = IO!OwedByte(k)
  <2>1. SP!DigitAt(reg[asked], SP!Divider[SP!OwedLength - k])
          = IO!DigitAt(reg[asked], IO!Divider[IO!OwedLength - k])
    BY <1>1, SameSets, SameDigitAt, Zenon
  <2> QED
    BY <1>1, <2>1, SameSets DEF SP!OwedByte, IO!OwedByte
<1> QED
  BY <1>1, <1>2

LEMMA SameTypeOK == SP!TypeOK <=> IO!TypeOK
BY SameSets DEF SP!TypeOK, IO!TypeOK

LEMMA SameRange == SP!RegistersInRange <=> IO!RegistersInRange
BY DEF SP!RegistersInRange, IO!RegistersInRange

LEMMA SameProgress == SP!ProgressAgrees <=> IO!ProgressAgrees
BY SameSets, SameWidth, SameOwed, SameRegister, Zenon DEF SP!ProgressAgrees, IO!ProgressAgrees

LEMMA SameReply == SP!ReplyIsOwed <=> IO!ReplyIsOwed
BY SameOwed, Zenon DEF SP!ReplyIsOwed, IO!ReplyIsOwed

LEMMA SameInit == IO!Init <=> SP!Init
BY SameSets, Zenon DEF IO!Init, SP!Init

LEMMA SameSend == IO!SendI2c <=> SP!SendI2c
<1>1. \A b : IO!WireWrite(b) <=> SP!WireWrite(b)
  BY DEF IO!WireWrite, SP!WireWrite
<1>2. IO!SendHeader <=> SP!SendHeader
  BY <1>1, SameLetter DEF IO!SendHeader, SP!SendHeader
<1>3. IO!SendDigit <=> SP!SendDigit
  BY <1>1, SameRegister, SameDigitAt, SameSets DEF IO!SendDigit, SP!SendDigit
<1>4. IO!SendResult <=> SP!SendResult
  BY <1>1 DEF IO!SendResult, SP!SendResult
<1>5. IO!SendEnd <=> SP!SendEnd
  BY <1>1 DEF IO!SendEnd, SP!SendEnd
<1> QED
  BY <1>2, <1>3, <1>4, <1>5 DEF IO!SendI2c, SP!SendI2c

LEMMA SameReceive == \A p : IO!ReceiveI2c(p) <=> SP!ReceiveI2c(p)
<1> SUFFICES ASSUME NEW p
             PROVE  IO!ReceiveI2c(p) <=> SP!ReceiveI2c(p)
  OBVIOUS
<1>1. \A r, a : IO!Answer(r, a) <=> SP!Answer(r, a)
  BY DEF IO!Answer, SP!Answer
<1>2. \A v : IO!Pulse(v) <=> SP!Pulse(v)
  BY DEF IO!Pulse, SP!Pulse
<1>3. \A r, v : IO!Accepts(r, v) <=> SP!Accepts(r, v)
  BY <1>2 DEF IO!Accepts, SP!Accepts
<1>4. IO!GetRegister(p) <=> SP!GetRegister(p)
  BY <1>1, SameRegister, SameWidth, Zenon DEF IO!GetRegister, SP!GetRegister
<1>5. IO!SetRegister(p) <=> SP!SetRegister(p)
  BY <1>1, <1>3, SameRegister, Zenon DEF IO!SetRegister, SP!SetRegister
<1>6. IO!SetBothAxes(p) <=> SP!SetBothAxes(p)
  BY <1>1, <1>2 DEF IO!SetBothAxes, SP!SetBothAxes
<1>7. IO!RejectCommand(p) <=> SP!RejectCommand(p)
  BY <1>1, <1>3, SameRegister, Zenon DEF IO!RejectCommand, SP!RejectCommand, IO!Reject, SP!Reject
<1> QED
  BY <1>4, <1>5, <1>6, <1>7, Zenon DEF IO!ReceiveI2c, SP!ReceiveI2c, IO!Named, SP!Named

--------------------------------------------------------------------------------
(* What each byte on the bus keeps of the firmware                            *)

\* What SuperIO assumes of its constants holds here.
LEMMA SuperIOAssumptions == SP!PulseAssumption /\ SP!ParsedAssumption
<1>1. SP!PulseAssumption
  BY PulseAssumption DEF SP!PulseAssumption
<1>2. SP!ParsedAssumption
  BY SameSets DEF SP!ParsedAssumption
<1> QED
  BY <1>1, <1>2

\* The firmware keeps its invariant through every write and every byte read.
LEMMA WriteKeepsFirmware ==
  ASSUME SP!IInv, NEW text, Len(text) \in Nat, OnBus(text)
  PROVE  SP!IInv'
<1>1. CASE UNCHANGED firmware
  <2>1. UNCHANGED SP!vars
    BY <1>1 DEF firmware, SP!vars
  <2> QED
    BY <2>1, SP!NextInv, SuperIOAssumptions DEF SP!PulseAssumption, SP!ParsedAssumption
<1>2. ASSUME NEW p \in {Parser!Parse(text)}, IO!ReceiveI2c(p)
      PROVE  SP!IInv'
  <2>1. SP!ReceiveI2c(p)
    BY <1>2, SameReceive
  <2>2. p \in {q \in IO!ParseResults : q.flags >= 3 =>
                 q.ret # "N" /\ q.device # "keep" /\ q.type # "keep"}
    BY Parsed
  <2> QED
    BY <2>1, <2>2, SP!ReceiveKeepsInv, SuperIOAssumptions DEF SP!PulseAssumption, SP!ParsedAssumption
<1> QED
  BY <1>1, <1>2 DEF OnBus

\* A byte the server reads keeps the invariant of the firmware.
LEMMA ReadKeepsFirmware ==
  ASSUME SP!IInv, IO!SendI2c
  PROVE  SP!IInv'
BY SameSend, SP!SendKeepsInv, SuperIOAssumptions DEF SP!PulseAssumption, SP!ParsedAssumption

\* So does a step that leaves the firmware alone.
LEMMA FirmwareStays ==
  ASSUME SP!IInv, UNCHANGED firmware
  PROVE  SP!IInv'
<1>1. UNCHANGED SP!vars
  BY DEF firmware, SP!vars
<1> QED
  BY <1>1, SP!NextInv, SuperIOAssumptions DEF SP!PulseAssumption, SP!ParsedAssumption

\* What SP's invariant says of the firmware.
LEMMA FirmwareFacts ==
  ASSUME SP!IInv
  PROVE  IO!TypeOK /\ IO!RegistersInRange /\ IO!ProgressAgrees /\ IO!ReplyIsOwed
BY SameTypeOK, SameRange, SameProgress, SameReply DEF SP!IInv

\* The same after a step.
LEMMA FirmwareFactsNext ==
  SP!IInv' => IO!TypeOK' /\ IO!RegistersInRange' /\ IO!ProgressAgrees' /\ IO!ReplyIsOwed'
<1>1. SP!IInv => IO!TypeOK /\ IO!RegistersInRange /\ IO!ProgressAgrees /\ IO!ReplyIsOwed
  BY FirmwareFacts
<1> QED
  BY <1>1, PTL

\* An answer that is not whole has room for a byte more.
LEMMA OwedNul ==
  ASSUME SP!IInv
  PROVE  /\ IO!OwedLength \in 2..8
         /\ Len(reply) \in 0..IO!OwedLength
         /\ Len(reply) = IO!OwedLength => reply[Len(reply)] = "NUL"
<1>1. IO!OwedLength \in 2..8
  <2>1. SP!TypeOK
    BY DEF SP!IInv
  <2>2. SP!OwedLength \in 2..8
    BY <2>1, SP!OwedLengthBounds, SuperIOAssumptions
       DEF SP!PulseAssumption, SP!ParsedAssumption
  <2> QED
    BY <2>2, SameOwed
<1>2. IO!ReplyIsOwed /\ reply \in Seq(IO!ReplyBytes)
  BY FirmwareFacts DEF IO!TypeOK
<1>3. Len(reply) \in 0..IO!OwedLength
  BY <1>1, <1>2 DEF IO!ReplyIsOwed
<1>4. IO!OwedByte(IO!OwedLength) = "NUL"
  BY DEF IO!OwedByte
<1>5. ASSUME Len(reply) = IO!OwedLength
      PROVE  reply[Len(reply)] = "NUL"
  <2>1. Len(reply) \in 1..Len(reply)
    BY <1>1, <1>5
  <2>2. reply[Len(reply)] = IO!OwedByte(Len(reply))
    BY <1>2, <2>1 DEF IO!ReplyIsOwed
  <2> QED
    BY <1>4, <1>5, <2>2
<1> QED
  BY <1>1, <1>3, <1>5

--------------------------------------------------------------------------------
(* The texts a phone sends                                                    *)

\* The bytes of answers, numbers and commands are bytes of the wire.
LEMMA BytesAre ==
  /\ IO!ReplyBytes \subseteq Bytes /\ PP!Comma \in Bytes
  /\ {"G", "LF", "?"} \subseteq Bytes
  /\ PP!Digits \subseteq Bytes
<1>1. IO!ReplyBytes \subseteq Bytes
  BY Zenon DEF Bytes
<1>2. PP!Comma \in Bytes
  BY Zenon DEF Bytes, PP!Comma
<1>3. {"G", "LF", "?"} \subseteq Bytes
  BY Zenon DEF Bytes
<1>4. PP!Digits \subseteq IO!ReplyBytes
  <2>1. /\ PP!Digit[1] = "0" /\ PP!Digit[2] = "1" /\ PP!Digit[3] = "2" /\ PP!Digit[4] = "3"
        /\ PP!Digit[5] = "4" /\ PP!Digit[6] = "5" /\ PP!Digit[7] = "6" /\ PP!Digit[8] = "7"
        /\ PP!Digit[9] = "8" /\ PP!Digit[10] = "9"
    BY DEF PP!Digit
  <2>2. ASSUME NEW k \in 1..10
        PROVE  PP!Digit[k] \in IO!ReplyBytes
    <3>1. \/ k = 1 \/ k = 2 \/ k = 3 \/ k = 4 \/ k = 5
          \/ k = 6 \/ k = 7 \/ k = 8 \/ k = 9 \/ k = 10
      OBVIOUS
    <3> QED
      BY <2>1, <3>1 DEF IO!ReplyBytes
  <2> QED
    BY <2>2 DEF PP!Digits
<1> QED
  BY <1>1, <1>2, <1>3, <1>4

\* The bytes a command is made of are not the NUL that ends it.
LEMMA NotNul ==
  /\ PP!Comma # "NUL" /\ "NUL" \notin PP!Digits /\ "NUL" \in Bytes
  /\ \A b \in {"S", "L", "E", "P", "G", "X", "Y"} : b \in Bytes /\ b # "NUL"
<1>1. PP!Comma # "NUL"
  BY Zenon DEF PP!Comma
<1>2. "NUL" \notin PP!Digits
  <2>1. "NUL" \in PP!Blank
    BY DEF PP!Blank
  <2>2. \A b : PP!IsDigit(b) => b \notin PP!Blank
    BY PP!PlainBytes
  <2> QED
    BY <2>1, <2>2, PP!DigitsAre
<1>3. "NUL" \in IO!ReplyBytes /\ {"S", "L", "E", "P", "X", "Y"} \subseteq IO!ReplyBytes
  BY DEF IO!ReplyBytes
<1>4. \A b \in {"S", "L", "E", "P", "G", "X", "Y"} : b \in Bytes /\ b # "NUL"
  BY <1>3, BytesAre
<1> QED
  BY <1>1, <1>2, <1>3, <1>4, BytesAre

\* The digits of a number are bytes.
LEMMA DecimalBytes ==
  ASSUME NEW n, PP!FourDigits(n)
  PROVE  /\ Decimal(n) \in Seq(Bytes) /\ Len(Decimal(n)) \in 1..4
         /\ \A k \in 1..Len(Decimal(n)) : PP!IsDigit(Decimal(n)[k])
         /\ \A k \in 1..Len(Decimal(n)) : Decimal(n)[k] # "NUL"
<1> DEFINE s == Decimal(n)
<1>1. /\ PP!AllDigits(s) /\ Len(s) \in 1..4 /\ DOMAIN s = 1..Len(s)
  BY DecimalDigits
<1>5. s = [k \in 1..Places(n) |-> DigitOf(n, Places(n) - k + 1)]
  BY Zenon DEF Decimal
<1> HIDE DEF s
<1>2. ASSUME NEW k \in 1..Len(s)
      PROVE  PP!IsDigit(s[k]) /\ s[k] \in Bytes /\ s[k] # "NUL"
  <2>1. PP!IsDigit(s[k])
    BY <1>1 DEF PP!AllDigits
  <2>2. s[k] \in PP!Digits
    BY <2>1, PP!DigitsAre
  <2> QED
    BY <2>1, <2>2, BytesAre, NotNul
<1>3. s \in Seq(Bytes)
  <2>1. s = [k \in DOMAIN s |-> s[k]]
    BY <1>5
  <2>2. s = [k \in 1..Len(s) |-> s[k]]
    BY <1>1, <2>1
  <2>3. Len(s) \in Nat
    BY <1>1
  <2>4. s \in [1..Len(s) -> Bytes]
    BY <1>2, <2>2, Zenon
  <2> QED
    BY <2>3, <2>4
<1> QED
  BY <1>1, <1>2, <1>3, Zenon DEF s

\* The two calls without a number.
LEMMA ShortTexts ==
  /\ \A a \in {"X", "Y"} :
       /\ GetText(a) \in Seq(Bytes) /\ Len(GetText(a)) = 3
       /\ GetText(a)[1] = "G" /\ GetText(a)[2] = "S" /\ GetText(a)[3] = a
  /\ \A d \in {"0", "1"} :
       /\ SSE(d) \in Seq(Bytes) /\ Len(SSE(d)) = 4
       /\ SSE(d)[1] = "S" /\ SSE(d)[2] = "S" /\ SSE(d)[3] = "E" /\ SSE(d)[4] = d
       /\ SLE(d) \in Seq(Bytes) /\ Len(SLE(d)) = 4
       /\ SLE(d)[1] = "S" /\ SLE(d)[2] = "L" /\ SLE(d)[3] = "E" /\ SLE(d)[4] = d
  /\ LightOff \in Seq(Bytes) /\ Len(LightOff) = 6
  /\ LightOff[1] = "S" /\ LightOff[2] = "L" /\ LightOff[3] = "P" /\ LightOff[4] = "2"
  /\ LightOff[5] = "5" /\ LightOff[6] = "5"
  /\ LightOn \in Seq(Bytes) /\ Len(LightOn) = 4
  /\ LightOn[1] = "S" /\ LightOn[2] = "L" /\ LightOn[3] = "P" /\ LightOn[4] = "0"
<1>1. "0" \in Bytes /\ "1" \in Bytes /\ "2" \in Bytes /\ "5" \in Bytes
  <2>1. {"0", "1", "2", "5"} \subseteq IO!ReplyBytes
    BY DEF IO!ReplyBytes
  <2> QED
    BY <2>1, BytesAre
<1>2. "S" \in Bytes /\ "L" \in Bytes /\ "E" \in Bytes /\ "P" \in Bytes
      /\ "G" \in Bytes /\ "X" \in Bytes /\ "Y" \in Bytes
  BY NotNul
<1>3. ASSUME NEW a \in {"X", "Y"}
      PROVE  /\ GetText(a) \in Seq(Bytes) /\ Len(GetText(a)) = 3
             /\ GetText(a)[1] = "G" /\ GetText(a)[2] = "S" /\ GetText(a)[3] = a
  BY <1>2 DEF GetText
<1>4. ASSUME NEW d \in {"0", "1"}
      PROVE  /\ SSE(d) \in Seq(Bytes) /\ Len(SSE(d)) = 4
             /\ SSE(d)[1] = "S" /\ SSE(d)[2] = "S" /\ SSE(d)[3] = "E" /\ SSE(d)[4] = d
  BY <1>1, <1>2 DEF SSE
<1>5. ASSUME NEW d \in {"0", "1"}
      PROVE  /\ SLE(d) \in Seq(Bytes) /\ Len(SLE(d)) = 4
             /\ SLE(d)[1] = "S" /\ SLE(d)[2] = "L" /\ SLE(d)[3] = "E" /\ SLE(d)[4] = d
  BY <1>1, <1>2 DEF SLE
<1>6. /\ LightOff \in Seq(Bytes) /\ Len(LightOff) = 6
      /\ LightOff[1] = "S" /\ LightOff[2] = "L" /\ LightOff[3] = "P" /\ LightOff[4] = "2"
      /\ LightOff[5] = "5" /\ LightOff[6] = "5"
  BY <1>1, <1>2 DEF LightOff
<1>7. /\ LightOn \in Seq(Bytes) /\ Len(LightOn) = 4
      /\ LightOn[1] = "S" /\ LightOn[2] = "L" /\ LightOn[3] = "P" /\ LightOn[4] = "0"
  BY <1>1, <1>2 DEF LightOn
<1> QED
  BY <1>3, <1>4, <1>5, <1>6, <1>7

\* The text of setServos: a head, a number, a comma and a number.
LEMMA SetTextParts ==
  ASSUME NEW x, PP!FourDigits(x), NEW y, PP!FourDigits(y)
  PROVE  /\ SetText(x, y) \in Seq(Bytes)
         /\ Len(SetText(x, y)) = 4 + Len(Decimal(x)) + Len(Decimal(y))
         /\ SetText(x, y)[1] = "S" /\ SetText(x, y)[2] = "S" /\ SetText(x, y)[3] = "P"
         /\ SetText(x, y)[4 + Len(Decimal(x))] = PP!Comma
         /\ \A k \in 1..Len(Decimal(x)) : SetText(x, y)[3 + k] = Decimal(x)[k]
         /\ \A k \in 1..Len(Decimal(y)) :
              SetText(x, y)[4 + Len(Decimal(x)) + k] = Decimal(y)[k]
<1> DEFINE h == <<"S", "S", "P">>
           u == Decimal(x)
           v == Decimal(y)
           m == SetText(x, y)
<1>1. m = h \o u \o <<PP!Comma>> \o v
  BY Zenon DEF SetText, PP!Comma
<1>2. h \in Seq(Bytes) /\ Len(h) = 3 /\ h[1] = "S" /\ h[2] = "S" /\ h[3] = "P"
  <2>1. "S" \in Bytes /\ "P" \in Bytes
    BY NotNul
  <2> QED
    BY <2>1
<1>3. u \in Seq(Bytes) /\ Len(u) \in 1..4 /\ v \in Seq(Bytes) /\ Len(v) \in 1..4
  BY DecimalBytes
<1>4. PP!Comma \in Bytes
  BY BytesAre
<1> HIDE DEF h, u, v, m
<1>5. /\ m \in Seq(Bytes) /\ Len(m) = Len(h) + Len(u) + 1 + Len(v)
      /\ \A k \in 1..Len(h) : m[k] = h[k]
      /\ \A k \in 1..Len(u) : m[Len(h) + k] = u[k]
      /\ m[Len(h) + Len(u) + 1] = PP!Comma
      /\ \A k \in 1..Len(v) : m[Len(h) + Len(u) + 1 + k] = v[k]
  <2>1. h \in Seq(Bytes) /\ u \in Seq(Bytes) /\ v \in Seq(Bytes)
    BY <1>2, <1>3, Zenon
  <2> QED
    BY <1>1, <1>4, <2>1
<1>6. /\ m \in Seq(Bytes) /\ Len(m) = 4 + Len(u) + Len(v)
      /\ m[1] = "S" /\ m[2] = "S" /\ m[3] = "P" /\ m[4 + Len(u)] = PP!Comma
      /\ \A k \in 1..Len(u) : m[3 + k] = u[k]
      /\ \A k \in 1..Len(v) : m[4 + Len(u) + k] = v[k]
  <2>1. 3 + Len(u) + 1 = 4 + Len(u) /\ 3 + Len(u) + 1 + Len(v) = 4 + Len(u) + Len(v)
    BY <1>3
  <2>2. m[1] = "S" /\ m[2] = "S" /\ m[3] = "P"
    BY <1>2, <1>5
  <2>3. m[4 + Len(u)] = PP!Comma
    BY <1>2, <1>5, <2>1
  <2>4. \A k \in 1..Len(v) : m[4 + Len(u) + k] = v[k]
    BY <1>2, <1>5, <2>1
  <2> QED
    BY <1>2, <1>5, <2>1, <2>2, <2>3, <2>4
<1> QED
  BY <1>6, Zenon DEF m, u, v

\* What a call writes.
IsGet(op) == op.op = "get" /\ op.axis \in {"X", "Y"} /\ Text(op) = GetText(op.axis)
IsEnable(op) == op.op = "enable" /\ op.en \in {"0", "1"} /\ Text(op) = SSE(op.en)
IsSet(op) == /\ op.op = "set" /\ PP!FourDigits(op.x) /\ PP!FourDigits(op.y)
             /\ Text(op) = SetText(op.x, op.y)

\* A call is one of the three kinds.
LEMMA CallKinds ==
  ASSUME NEW op \in Calls
  PROVE  IsGet(op) \/ IsEnable(op) \/ IsSet(op)
<1>1. CASE op \in {GetCall("X"), GetCall("Y")}
  <2>1. op.op = "get" /\ op.axis \in {"X", "Y"}
    BY <1>1 DEF GetCall
  <2> QED
    BY <2>1 DEF IsGet, Text
<1>2. CASE op \in {EnableCall("0"), EnableCall("1")}
  <2>1. op.op = "enable" /\ op.en \in {"0", "1"}
    BY <1>2 DEF EnableCall
  <2> QED
    BY <2>1 DEF IsEnable, Text
<1>3. CASE /\ op = SetCall(op.x, op.y)
           /\ op.x \in Nat /\ op.x <= 9999 /\ op.y \in Nat /\ op.y <= 9999
  <2>1. op.op = "set"
    <3>1. PICK x, y : op = SetCall(x, y)
      BY <1>3
    <3> QED
      BY <3>1 DEF SetCall
  <2>2. PP!FourDigits(op.x) /\ PP!FourDigits(op.y)
    BY <1>3 DEF PP!FourDigits
  <2> QED
    BY <2>1, <2>2 DEF IsSet, Text
<1> QED
  BY <1>1, <1>2, <1>3, CallsAssumption

\* A call's text: three to twelve bytes, none of them NUL.
LEMMA TextTyped ==
  ASSUME NEW op \in Calls
  PROVE  /\ Text(op) \in Seq(Bytes) /\ Len(Text(op)) \in 3..12
         /\ \A k \in 1..Len(Text(op)) : Text(op)[k] # "NUL"
<1>1. CASE IsGet(op)
  <2> DEFINE m == Text(op)
  <2>1. /\ m \in Seq(Bytes) /\ Len(m) = 3
        /\ m[1] = "G" /\ m[2] = "S" /\ m[3] \in {"X", "Y"}
    BY <1>1, ShortTexts DEF IsGet
  <2> HIDE DEF m
  <2>2. \A k \in 1..Len(m) : m[k] # "NUL"
    BY <2>1
  <2> QED
    BY <2>1, <2>2 DEF m
<1>2. CASE IsEnable(op)
  <2> DEFINE m == Text(op)
  <2>1. /\ m \in Seq(Bytes) /\ Len(m) = 4
        /\ m[1] = "S" /\ m[2] = "S" /\ m[3] = "E" /\ m[4] \in {"0", "1"}
    BY <1>2, ShortTexts DEF IsEnable
  <2> HIDE DEF m
  <2>2. \A k \in 1..Len(m) : m[k] # "NUL"
    BY <2>1
  <2> QED
    BY <2>1, <2>2 DEF m
<1>3. CASE IsSet(op)
  <2> DEFINE m == Text(op)
             u == Decimal(op.x)
             v == Decimal(op.y)
  <2>1. /\ m \in Seq(Bytes) /\ Len(m) = 4 + Len(u) + Len(v)
        /\ m[1] = "S" /\ m[2] = "S" /\ m[3] = "P" /\ m[4 + Len(u)] = PP!Comma
        /\ \A k \in 1..Len(u) : m[3 + k] = u[k]
        /\ \A k \in 1..Len(v) : m[4 + Len(u) + k] = v[k]
    <3>1. PP!FourDigits(op.x) /\ PP!FourDigits(op.y) /\ m = SetText(op.x, op.y)
      BY <1>3 DEF IsSet
    <3> HIDE DEF m
    <3>2. PICK x, y : x = op.x /\ y = op.y
      OBVIOUS
    <3>3. PP!FourDigits(x) /\ PP!FourDigits(y) /\ m = SetText(x, y)
          /\ u = Decimal(x) /\ v = Decimal(y)
      BY <3>1, <3>2, Zenon DEF u, v
    <3> HIDE DEF u, v
    <3>4. /\ SetText(x, y) \in Seq(Bytes)
          /\ Len(SetText(x, y)) = 4 + Len(Decimal(x)) + Len(Decimal(y))
          /\ SetText(x, y)[1] = "S" /\ SetText(x, y)[2] = "S" /\ SetText(x, y)[3] = "P"
          /\ SetText(x, y)[4 + Len(Decimal(x))] = PP!Comma
          /\ \A k \in 1..Len(Decimal(x)) : SetText(x, y)[3 + k] = Decimal(x)[k]
          /\ \A k \in 1..Len(Decimal(y)) :
               SetText(x, y)[4 + Len(Decimal(x)) + k] = Decimal(y)[k]
      <4>1. PP!FourDigits(x) /\ PP!FourDigits(y)
        BY <3>3, Zenon
      <4> HIDE DEF m
      <4> QED
        BY <4>1, SetTextParts
    <3> QED
      BY <3>3, <3>4
  <2>2. /\ Len(u) \in 1..4 /\ \A k \in 1..Len(u) : u[k] # "NUL"
        /\ Len(v) \in 1..4 /\ \A k \in 1..Len(v) : v[k] # "NUL"
    BY <1>3, DecimalBytes DEF IsSet
  <2>4. PP!Comma # "NUL"
    BY NotNul
  <2> HIDE DEF m, u, v
  <2>3. ASSUME NEW k \in 1..Len(m)
        PROVE  m[k] # "NUL"
    <3>1. CASE k \in 1..3
      BY <2>1, <3>1
    <3>2. CASE k \in 4..(3 + Len(u))
      <4>1. k - 3 \in 1..Len(u) /\ 3 + (k - 3) = k
        BY <2>2, <3>2
      <4> QED
        BY <2>1, <2>2, <4>1
    <3>3. CASE k = 4 + Len(u)
      BY <2>1, <2>4, <3>3
    <3>4. CASE k \in (5 + Len(u))..Len(m)
      <4>1. k - (4 + Len(u)) \in 1..Len(v) /\ 4 + Len(u) + (k - (4 + Len(u))) = k
        BY <2>1, <2>2, <3>4
      <4> QED
        BY <2>1, <2>2, <4>1
    <3> QED
      BY <2>1, <2>2, <3>1, <3>2, <3>3, <3>4
  <2>5. Len(m) \in 3..12
    <3>1. \A a, b \in 1..4 : 4 + a + b \in 3..12
      OBVIOUS
    <3> QED
      BY <2>1, <2>2, <3>1, Zenon
  <2> QED
    BY <2>1, <2>3, <2>5 DEF m
<1> QED
  BY <1>1, <1>2, <1>3, CallKinds

\* With its NUL: four to thirteen bytes, and the NUL only at the end.
LEMMA CommandTyped ==
  ASSUME NEW op \in Calls
  PROVE  /\ Command(op) \in Seq(Bytes) /\ Len(Command(op)) = Len(Text(op)) + 1
         /\ Len(Command(op)) \in 4..13
         /\ Command(op)[Len(Command(op))] = "NUL"
         /\ \A k \in 1..Len(Text(op)) :
              Command(op)[k] = Text(op)[k] /\ Command(op)[k] # "NUL"
<1> DEFINE t == Text(op)
<1>1. /\ t \in Seq(Bytes) /\ Len(t) \in 3..12
      /\ \A k \in 1..Len(t) : t[k] # "NUL"
  BY TextTyped
<1>2. "NUL" \in Bytes
  BY NotNul
<1>3. Command(op) = t \o <<"NUL">>
  BY DEF Command
<1> HIDE DEF t
<1>4. <<"NUL">> \in Seq(Bytes) /\ Len(<<"NUL">>) = 1 /\ <<"NUL">>[1] = "NUL"
  BY <1>2
<1>5. /\ Command(op) \in Seq(Bytes) /\ Len(Command(op)) = Len(t) + 1
      /\ \A k \in 1..(Len(t) + 1) :
           Command(op)[k] = IF k <= Len(t) THEN t[k] ELSE <<"NUL">>[k - Len(t)]
  BY <1>1, <1>3, <1>4, ConcatProperties
<1>6. Len(t) + 1 \in 4..13 /\ Len(t) + 1 \in 1..(Len(t) + 1) /\ ~(Len(t) + 1 <= Len(t))
      /\ (Len(t) + 1) - Len(t) = 1
  <2>1. \A a \in 3..12 : /\ a + 1 \in 4..13 /\ a + 1 \in 1..(a + 1) /\ ~(a + 1 <= a)
                          /\ (a + 1) - a = 1
    OBVIOUS
  <2> QED
    BY <1>1, <2>1, Zenon
<1>7. Command(op)[Len(t) + 1] = "NUL"
  BY <1>4, <1>5, <1>6
<1>8. ASSUME NEW k \in 1..Len(t)
      PROVE  Command(op)[k] = t[k] /\ Command(op)[k] # "NUL"
  <2>1. k \in 1..(Len(t) + 1) /\ k <= Len(t)
    BY <1>1
  <2> QED
    BY <1>1, <1>5, <2>1
<1>9. /\ Command(op) \in Seq(Bytes) /\ Len(Command(op)) = Len(t) + 1
      /\ Len(Command(op)) \in 4..13
      /\ Command(op)[Len(Command(op))] = "NUL"
      /\ \A k \in 1..Len(t) : Command(op)[k] = t[k] /\ Command(op)[k] # "NUL"
  BY <1>5, <1>6, <1>7, <1>8
<1> QED
  BY <1>9, Zenon DEF t

\* A number that begins in a command is read back.
LEMMA NumberAt ==
  ASSUME NEW m \in Seq(Bytes), NEW n, PP!FourDigits(n), NEW b \in Nat,
         b + Len(Decimal(n)) <= Len(m),
         \A k \in 1..Len(Decimal(n)) : m[b + k] = Decimal(n)[k]
  PROVE  /\ Parser!ToInt(SubSeq(m, b + 1, b + Len(Decimal(n)))) = n
         /\ \A k \in (b + 1)..(b + Len(Decimal(n))) : PP!IsDigit(m[k])
<1> DEFINE u == Decimal(n)
           s == SubSeq(m, b + 1, b + Len(u))
<1>1. /\ u \in Seq(Bytes) /\ Len(u) \in 1..4
      /\ \A k \in 1..Len(u) : PP!IsDigit(u[k])
      /\ Parser!ToInt(u) = n
  BY DecimalBytes, DecimalDigits
<1>0. b + Len(u) <= Len(m) /\ \A k \in 1..Len(u) : m[b + k] = u[k]
  OBVIOUS
<1> HIDE DEF u
<1>2. /\ s \in Seq(Bytes) /\ Len(s) = Len(u) /\ \A k \in 1..Len(u) : s[k] = m[b + k]
  <2>0. b + 1 \in Int /\ b + Len(u) \in Int
    BY <1>1
  <2>1. \A k \in (b + 1)..(b + Len(u)) : m[k] \in Bytes
    BY <1>0, <1>1
  <2>2. /\ s \in Seq(Bytes)
        /\ Len(s) = IF b + 1 <= b + Len(u) THEN (b + Len(u)) - (b + 1) + 1 ELSE 0
        /\ \A k \in 1..((b + Len(u)) - (b + 1) + 1) : s[k] = m[(b + 1) + k - 1]
    BY <2>0, <2>1, SubSeqProperties
  <2>3. (b + Len(u)) - (b + 1) + 1 = Len(u) /\ b + 1 <= b + Len(u)
    <3>1. \A c \in 1..4 : (b + c) - (b + 1) + 1 = c /\ b + 1 <= b + c
      OBVIOUS
    <3> QED
      BY <1>1, <3>1, Zenon
  <2>4. \A k \in 1..Len(u) : (b + 1) + k - 1 = b + k
    BY <1>1
  <2> HIDE DEF s
  <2> QED
    BY <2>2, <2>3, <2>4
<1> HIDE DEF s
<1>3. s = u
  BY <1>0, <1>1, <1>2, SeqEqual
<1>4. ASSUME NEW k \in (b + 1)..(b + Len(u))
      PROVE  PP!IsDigit(m[k])
  <2>1. k - b \in 1..Len(u) /\ b + (k - b) = k
    BY <1>1
  <2> QED
    BY <1>0, <1>1, <2>1
<1> QED
  BY <1>1, <1>3, <1>4 DEF s, u

--------------------------------------------------------------------------------
(* What the byte loop makes of those texts                                    *)

\* The value of a command that ends in one digit.
LEMMA OneDigit ==
  ASSUME NEW m \in Seq(Bytes), Len(m) = 4, NEW n \in 0..9, m[4] = PP!Digit[n + 1]
  PROVE  Parser!ToInt(SubSeq(m, 4, Len(m))) = n /\ PP!IsDigit(m[4])
<1> DEFINE s == SubSeq(m, 4, 4)
           d == [k \in 1..1 |-> n]
<1>1. Len(s) = 1 /\ s[1] = m[4]
  OBVIOUS
<1>2. d[1] = n /\ \A k \in 1..1 : d[k] \in 0..9
  OBVIOUS
<1>3. PP!Value(d, 1) = d[1]
  BY DEF PP!Value
<1> HIDE DEF s, d
<1>4. \A k \in 1..1 : s[k] = PP!Digit[d[1 - k + 1] + 1]
  <2>1. \A k \in 1..1 : k = 1 /\ 1 - k + 1 = 1
    OBVIOUS
  <2>2. s[1] = PP!Digit[d[1] + 1]
    BY <1>1, <1>2
  <2> QED
    BY <2>1, <2>2
<1>5. PP!AllDigits(s) /\ PP!ToInt(s) = PP!Value(d, 1)
  BY <1>1, <1>2, <1>4, PP!ToIntOfFew
<1>6. PP!IsDigit(s[1])
  BY <1>1, <1>5 DEF PP!AllDigits
<1> QED
  BY <1>1, <1>2, <1>3, <1>5, <1>6, SameToInt DEF s

\* LightOff ends in three.
LEMMA ThreeDigits ==
  Parser!ToInt(SubSeq(LightOff, 4, Len(LightOff))) = 255
  /\ \A k \in 4..6 : PP!IsDigit(LightOff[k])
<1> DEFINE m == LightOff
           s == SubSeq(m, 4, 6)
           d == [k \in 1..3 |-> IF k = 3 THEN 2 ELSE 5]
<1>1. m \in Seq(Bytes) /\ Len(m) = 6 /\ m[4] = "2" /\ m[5] = "5" /\ m[6] = "5"
  BY ShortTexts
<1>2. d[1] = 5 /\ d[2] = 5 /\ d[3] = 2 /\ \A k \in 1..3 : d[k] \in 0..9
  OBVIOUS
<1>3. PP!Digit[3] = "2" /\ PP!Digit[6] = "5"
  BY DEF PP!Digit
<1> HIDE DEF m
<1>4. Len(s) = 3 /\ s[1] = m[4] /\ s[2] = m[5] /\ s[3] = m[6]
  BY <1>1
<1> HIDE DEF s, d
<1>5. PP!Value(d, 3) = 255
  BY <1>2 DEF PP!Value
<1>6. \A k \in 1..3 : s[k] = PP!Digit[d[3 - k + 1] + 1]
  <2>1. s[1] = PP!Digit[d[3] + 1] /\ s[2] = PP!Digit[d[2] + 1] /\ s[3] = PP!Digit[d[1] + 1]
    BY <1>1, <1>2, <1>3, <1>4
  <2>2. \A k \in 1..3 : k = 1 \/ k = 2 \/ k = 3
    OBVIOUS
  <2>3. 3 - 1 + 1 = 3 /\ 3 - 2 + 1 = 2 /\ 3 - 3 + 1 = 1
    OBVIOUS
  <2> QED
    BY <2>1, <2>2, <2>3, Zenon
<1>7. PP!AllDigits(s) /\ PP!ToInt(s) = 255
  BY <1>2, <1>4, <1>5, <1>6, PP!ToIntOfFew
<1>8. PP!IsDigit(m[4]) /\ PP!IsDigit(m[5]) /\ PP!IsDigit(m[6])
  BY <1>4, <1>7 DEF PP!AllDigits
<1>9. \A k \in 4..6 : k = 4 \/ k = 5 \/ k = 6
  OBVIOUS
<1>10. Parser!ToInt(SubSeq(m, 4, Len(m))) = 255
  BY <1>1, <1>7, SameToInt DEF s
<1>11. \A k \in 4..6 : PP!IsDigit(m[k])
  BY <1>8, <1>9
<1> QED
  BY <1>10, <1>11, Zenon DEF m

\* What the byte loop makes of the texts without a comma.
LEMMA ParsesShort ==
  /\ \A a \in {"X", "Y"} : \A p : p = Parser!Parse(GetText(a)) =>
       /\ p.ret = "G" /\ p.flags = 3 /\ p.device = "servo"
       /\ p.type = IF a = "X" THEN "pwm_x" ELSE "pwm_y"
  /\ \A n \in {0, 1} : \A p : p = Parser!Parse(SSE(Parser!Digit[n + 1])) =>
       /\ p.ret = "S" /\ p.flags = 3 /\ p.device = "servo" /\ p.type = "en" /\ p.v0 = n
  /\ \A n \in {0, 1} : \A p : p = Parser!Parse(SLE(Parser!Digit[n + 1])) =>
       /\ p.ret = "S" /\ p.flags = 3 /\ p.device = "led" /\ p.type = "en" /\ p.v0 = n
  /\ \A p : p = Parser!Parse(LightOff) =>
     /\ p.ret = "S" /\ p.flags = 3 /\ p.device = "led" /\ p.type = "pwm" /\ p.v0 = 255
  /\ \A p : p = Parser!Parse(LightOn) =>
     /\ p.ret = "S" /\ p.flags = 3 /\ p.device = "led" /\ p.type = "pwm" /\ p.v0 = 0
<1>1. /\ PP!DeviceOf["S"] = "servo" /\ PP!DeviceOf["L"] = "led"
      /\ PP!TypeOf["E"] = "en" /\ PP!TypeOf["P"] = "pwm"
      /\ PP!TypeOf["X"] = "pwm_x" /\ PP!TypeOf["Y"] = "pwm_y"
  BY DEF PP!DeviceOf, PP!TypeOf
<1>2. PP!Digit[1] = "0" /\ PP!Digit[2] = "1"
  BY DEF PP!Digit
\* One value, whatever the text.
<1>3. ASSUME NEW m \in Seq(Bytes), Len(m) >= 3, m[1] \in {"G", "S"}, m[2] \in {"L", "S"},
             m[3] \in {"E", "P", "X", "Y"}, \A k \in 4..Len(m) : PP!IsDigit(m[k]),
             NEW p, p = Parser!Parse(m)
      PROVE  /\ p.ret = m[1] /\ p.flags = 3
             /\ p.device = PP!DeviceOf[m[2]] /\ p.type = PP!TypeOf[m[3]]
             /\ p.v0 = Parser!ToInt(SubSeq(m, 4, Len(m)))
  <2> DEFINE q == PP!Parse(m)
  <2>1. /\ q.ret = m[1] /\ q.flags = 3
        /\ q.device = PP!DeviceOf[m[2]] /\ q.type = PP!TypeOf[m[3]]
        /\ q.v0 = PP!ToInt(SubSeq(m, 4, Len(m)))
    BY <1>3, PP!ReadsOneValue
  <2>2. p = q
    BY <1>3, SameParse
  <2> HIDE DEF q
  <2> QED
    BY <2>1, <2>2, SameToInt
<1>4. ASSUME NEW a \in {"X", "Y"}, NEW p, p = Parser!Parse(GetText(a))
      PROVE  /\ p.ret = "G" /\ p.flags = 3 /\ p.device = "servo"
             /\ p.type = IF a = "X" THEN "pwm_x" ELSE "pwm_y"
  <2> DEFINE m == GetText(a)
  <2>1. /\ m \in Seq(Bytes) /\ Len(m) = 3
        /\ m[1] = "G" /\ m[2] = "S" /\ m[3] = a /\ p = Parser!Parse(m)
    BY <1>4, ShortTexts
  <2> HIDE DEF m
  <2> QED
    BY <1>1, <1>3, <2>1
<1>5. ASSUME NEW n \in {0, 1}, NEW p, p = Parser!Parse(SSE(Parser!Digit[n + 1]))
      PROVE  /\ p.ret = "S" /\ p.flags = 3 /\ p.device = "servo" /\ p.type = "en" /\ p.v0 = n
  <2> DEFINE d == Parser!Digit[n + 1]
             m == SSE(d)
  <2>1. d \in {"0", "1"} /\ d = PP!Digit[n + 1]
    BY <1>2, SameTables
  <2>2. p = Parser!Parse(m)
    BY <1>5, Zenon
  <2> HIDE DEF d
  <2>3. /\ m \in Seq(Bytes) /\ Len(m) = 4
        /\ m[1] = "S" /\ m[2] = "S" /\ m[3] = "E" /\ m[4] = d
    BY <2>1, ShortTexts
  <2> HIDE DEF m
  <2>4. n \in 0..9
    OBVIOUS
  <2>5. Parser!ToInt(SubSeq(m, 4, Len(m))) = n /\ PP!IsDigit(m[4])
    BY <2>1, <2>3, <2>4, OneDigit
  <2>6. \A k \in 4..Len(m) : PP!IsDigit(m[k])
    <3>1. \A k \in 4..Len(m) : k = 4
      BY <2>3
    <3> QED
      BY <2>5, <3>1
  <2>7. /\ p.ret = m[1] /\ p.flags = 3
        /\ p.device = PP!DeviceOf[m[2]] /\ p.type = PP!TypeOf[m[3]]
        /\ p.v0 = Parser!ToInt(SubSeq(m, 4, Len(m)))
    <3>1. /\ m \in Seq(Bytes) /\ Len(m) >= 3 /\ m[1] \in {"G", "S"} /\ m[2] \in {"L", "S"}
          /\ m[3] \in {"E", "P", "X", "Y"} /\ p = Parser!Parse(m)
      BY <2>2, <2>3
    <3> QED
      BY <1>3, <2>6, <3>1, Zenon
  <2> QED
    BY <1>1, <2>3, <2>5, <2>7
<1>6. ASSUME NEW n \in {0, 1}, NEW p, p = Parser!Parse(SLE(Parser!Digit[n + 1]))
      PROVE  /\ p.ret = "S" /\ p.flags = 3 /\ p.device = "led" /\ p.type = "en" /\ p.v0 = n
  <2> DEFINE d == Parser!Digit[n + 1]
             m == SLE(d)
  <2>1. d \in {"0", "1"} /\ d = PP!Digit[n + 1]
    BY <1>2, SameTables
  <2>2. p = Parser!Parse(m)
    BY <1>6, Zenon
  <2> HIDE DEF d
  <2>3. /\ m \in Seq(Bytes) /\ Len(m) = 4
        /\ m[1] = "S" /\ m[2] = "L" /\ m[3] = "E" /\ m[4] = d
    BY <2>1, ShortTexts
  <2> HIDE DEF m
  <2>4. n \in 0..9
    OBVIOUS
  <2>5. Parser!ToInt(SubSeq(m, 4, Len(m))) = n /\ PP!IsDigit(m[4])
    BY <2>1, <2>3, <2>4, OneDigit
  <2>6. \A k \in 4..Len(m) : PP!IsDigit(m[k])
    <3>1. \A k \in 4..Len(m) : k = 4
      BY <2>3
    <3> QED
      BY <2>5, <3>1
  <2>7. /\ p.ret = m[1] /\ p.flags = 3
        /\ p.device = PP!DeviceOf[m[2]] /\ p.type = PP!TypeOf[m[3]]
        /\ p.v0 = Parser!ToInt(SubSeq(m, 4, Len(m)))
    <3>1. /\ m \in Seq(Bytes) /\ Len(m) >= 3 /\ m[1] \in {"G", "S"} /\ m[2] \in {"L", "S"}
          /\ m[3] \in {"E", "P", "X", "Y"} /\ p = Parser!Parse(m)
      BY <2>2, <2>3
    <3> QED
      BY <1>3, <2>6, <3>1, Zenon
  <2> QED
    BY <1>1, <2>3, <2>5, <2>7
<1>7. ASSUME NEW p, p = Parser!Parse(LightOff)
      PROVE  /\ p.ret = "S" /\ p.flags = 3 /\ p.device = "led" /\ p.type = "pwm" /\ p.v0 = 255
  <2> DEFINE m == LightOff
  <2>1. /\ m \in Seq(Bytes) /\ Len(m) = 6 /\ p = Parser!Parse(m)
        /\ m[1] = "S" /\ m[2] = "L" /\ m[3] = "P"
    BY <1>7, ShortTexts
  <2>2. Parser!ToInt(SubSeq(m, 4, Len(m))) = 255 /\ \A k \in 4..6 : PP!IsDigit(m[k])
    BY ThreeDigits
  <2> HIDE DEF m
  <2>6. \A k \in 4..Len(m) : PP!IsDigit(m[k])
    BY <2>1, <2>2
  <2>7. /\ p.ret = m[1] /\ p.flags = 3
        /\ p.device = PP!DeviceOf[m[2]] /\ p.type = PP!TypeOf[m[3]]
        /\ p.v0 = Parser!ToInt(SubSeq(m, 4, Len(m)))
    <3>1. /\ m \in Seq(Bytes) /\ Len(m) >= 3 /\ m[1] \in {"G", "S"} /\ m[2] \in {"L", "S"}
          /\ m[3] \in {"E", "P", "X", "Y"} /\ p = Parser!Parse(m)
      BY <2>1
    <3> QED
      BY <1>3, <2>6, <3>1, Zenon
  <2> QED
    BY <1>1, <2>1, <2>2, <2>7
<1>8. ASSUME NEW p, p = Parser!Parse(LightOn)
      PROVE  /\ p.ret = "S" /\ p.flags = 3 /\ p.device = "led" /\ p.type = "pwm" /\ p.v0 = 0
  <2> DEFINE m == LightOn
  <2>1. /\ m \in Seq(Bytes) /\ Len(m) = 4 /\ p = Parser!Parse(m)
        /\ m[1] = "S" /\ m[2] = "L" /\ m[3] = "P" /\ m[4] = PP!Digit[0 + 1]
    BY <1>2, <1>8, ShortTexts
  <2> HIDE DEF m
  <2>2. 0 \in 0..9
    OBVIOUS
  <2>3. Parser!ToInt(SubSeq(m, 4, Len(m))) = 0 /\ PP!IsDigit(m[4])
    BY <2>1, <2>2, OneDigit
  <2>6. \A k \in 4..Len(m) : PP!IsDigit(m[k])
    <3>1. \A k \in 4..Len(m) : k = 4
      BY <2>1
    <3> QED
      BY <2>3, <3>1
  <2>7. /\ p.ret = m[1] /\ p.flags = 3
        /\ p.device = PP!DeviceOf[m[2]] /\ p.type = PP!TypeOf[m[3]]
        /\ p.v0 = Parser!ToInt(SubSeq(m, 4, Len(m)))
    <3>1. /\ m \in Seq(Bytes) /\ Len(m) >= 3 /\ m[1] \in {"G", "S"} /\ m[2] \in {"L", "S"}
          /\ m[3] \in {"E", "P", "X", "Y"} /\ p = Parser!Parse(m)
      BY <2>1
    <3> QED
      BY <1>3, <2>6, <3>1, Zenon
  <2> QED
    BY <1>1, <2>1, <2>3, <2>7
<1> QED
  BY <1>4, <1>5, <1>6, <1>7, <1>8, Zenon

\* What setServos writes is parsed back to its two positions: for all positions
\* of up to four digits no digit is lost, added or read as the other number's,
\* through Integer.toString, the byte loop of receiveI2c and toInt.
THEOREM MoveParsed ==
  ASSUME NEW x, PP!FourDigits(x), NEW y, PP!FourDigits(y),
         NEW p, p = Parser!Parse(SetText(x, y))
  PROVE  /\ p.ret = "S" /\ p.flags = 4 /\ p.device = "servo" /\ p.type = "pwm"
         /\ p.v0 = x /\ p.v1 = y
<1> DEFINE m == SetText(x, y)
<1>1. /\ m \in Seq(Bytes) /\ Len(m) = 4 + Len(Decimal(x)) + Len(Decimal(y))
      /\ m[1] = "S" /\ m[2] = "S" /\ m[3] = "P" /\ m[4 + Len(Decimal(x))] = PP!Comma
      /\ \A k \in 1..Len(Decimal(x)) : m[3 + k] = Decimal(x)[k]
      /\ \A k \in 1..Len(Decimal(y)) : m[4 + Len(Decimal(x)) + k] = Decimal(y)[k]
  BY SetTextParts
<1>2. p = PP!Parse(m)
  BY SameParse
<1> HIDE DEF m
<1>3. PICK a, b : a = Len(Decimal(x)) /\ b = Len(Decimal(y))
  OBVIOUS
<1>4. a \in 1..4 /\ b \in 1..4
  BY <1>3, DecimalBytes
<1>5. PICK c : c = 4 + a
  OBVIOUS
<1>6. /\ c \in Int /\ 4 <= c /\ c <= Len(m) /\ m[c] = PP!Comma /\ c \in Nat
      /\ c - 1 = 3 + a /\ Len(m) = c + b /\ 3 \in Nat
  BY <1>1, <1>3, <1>4, <1>5
<1>7. /\ Parser!ToInt(SubSeq(m, 3 + 1, 3 + a)) = x
      /\ \A k \in (3 + 1)..(3 + a) : PP!IsDigit(m[k])
  <2>1. 3 + a <= Len(m)
    BY <1>4, <1>5, <1>6
  <2> QED
    BY <1>1, <1>3, <1>6, <2>1, NumberAt
<1>8. /\ Parser!ToInt(SubSeq(m, c + 1, c + b)) = y
      /\ \A k \in (c + 1)..(c + b) : PP!IsDigit(m[k])
  <2>1. c + b <= Len(m)
    BY <1>4, <1>6
  <2>2. \A k \in 1..Len(Decimal(y)) : m[c + k] = Decimal(y)[k]
    BY <1>1, <1>3, <1>5
  <2> QED
    BY <1>1, <1>3, <1>6, <2>1, <2>2, NumberAt
<1>9. /\ Parser!ToInt(SubSeq(m, 4, c - 1)) = x /\ \A k \in 4..(c - 1) : PP!IsDigit(m[k])
      /\ Parser!ToInt(SubSeq(m, c + 1, Len(m))) = y
      /\ \A k \in (c + 1)..Len(m) : PP!IsDigit(m[k])
  <2>1. 3 + 1 = 4
    OBVIOUS
  <2> QED
    BY <1>6, <1>7, <1>8, <2>1
<1>10. /\ p.ret = m[1] /\ p.flags = 4
       /\ p.device = PP!DeviceOf[m[2]] /\ p.type = PP!TypeOf[m[3]]
       /\ p.v0 = PP!ToInt(SubSeq(m, 4, c - 1))
       /\ p.v1 = PP!ToInt(SubSeq(m, c + 1, Len(m)))
  <2> DEFINE q == PP!Parse(m)
  <2>1. /\ q.ret = m[1] /\ q.flags = 4
        /\ q.device = PP!DeviceOf[m[2]] /\ q.type = PP!TypeOf[m[3]]
        /\ q.v0 = PP!ToInt(SubSeq(m, 4, c - 1))
        /\ q.v1 = PP!ToInt(SubSeq(m, c + 1, Len(m)))
    <3>1. /\ m[1] \in {"G", "S"} /\ m[2] \in {"L", "S"} /\ m[3] \in {"E", "P", "X", "Y"}
          /\ m \in Seq(Bytes)
      BY <1>1
    <3> QED
      BY <1>6, <1>9, <3>1, PP!ReadsTwoValues
  <2> QED
    BY <1>2, <2>1, Zenon
<1>11. PP!DeviceOf["S"] = "servo" /\ PP!TypeOf["P"] = "pwm"
  BY DEF PP!DeviceOf, PP!TypeOf
<1> QED
  BY <1>1, <1>9, <1>10, <1>11, SameToInt

--------------------------------------------------------------------------------
(* The C strings of the server                                                *)

\* A set of natural numbers that is not empty has a least element.
LEMMA MinOf ==
  ASSUME NEW S, S \subseteq Nat, S # {}
  PROVE  Min(S) \in S /\ \A x \in S : Min(S) <= x
<1>1. \E x \in S : \A y \in S : ~(<<y, x>> \in OpToRel(<, Nat))
  BY NatLessThanWellFounded, WFMin
<1>2. \A x, y \in Nat : y < x => <<y, x>> \in OpToRel(<, Nat)
  BY DEF OpToRel
<1>3. \E x \in S : \A y \in S : x <= y
  <2>1. PICK x \in S : \A y \in S : ~(<<y, x>> \in OpToRel(<, Nat))
    BY <1>1
  <2>2. \A y \in S : ~(y < x)
    BY <1>2, <2>1
  <2> QED
    BY <2>2
<1> QED
  BY <1>3, Zenon DEF Min

\* The length of the string in cmd.
LEMMA StrLenIs ==
  ASSUME NEW b
  PROVE  /\ StrLen(b) \in 0..16
         /\ \A k \in Cells : k < StrLen(b) => b[k] # "NUL"
         /\ StrLen(b) \in Cells => b[StrLen(b)] = "NUL"
<1> DEFINE S == {k \in Cells : b[k] = "NUL"} \cup {16}
<1>1. S \subseteq Nat /\ S # {} /\ \A x \in S : x \in 0..16
  BY DEF Cells
<1>2. Min(S) \in S /\ \A x \in S : Min(S) <= x
  BY <1>1, MinOf, Zenon
<1>3. StrLen(b) = Min(S)
  BY Zenon DEF StrLen
<1>4. StrLen(b) \in 0..16
  BY <1>1, <1>2, <1>3
<1>5. ASSUME NEW k \in Cells, k < StrLen(b)
      PROVE  b[k] # "NUL"
  <2>1. k \in S => StrLen(b) <= k
    BY <1>2, <1>3
  <2>2. k \in Int /\ StrLen(b) \in Int
    BY <1>4 DEF Cells
  <2> QED
    BY <1>5, <2>1, <2>2
<1>6. ASSUME StrLen(b) \in Cells
      PROVE  b[StrLen(b)] = "NUL"
  <2>1. 16 \notin Cells
    BY DEF Cells
  <2> QED
    BY <1>2, <1>3, <1>6, <2>1
<1> QED
  BY <1>4, <1>5, <1>6

\* A string written into cmd.
LEMMA PutTyped ==
  ASSUME NEW b \in [Cells -> Bytes], NEW k \in Int, NEW s \in Seq(Bytes)
  PROVE  Put(b, k, s) \in [Cells -> Bytes]
<1>1. ASSUME NEW n \in Cells, n \in k..(k + Len(s) - 1)
      PROVE  s[n - k + 1] \in Bytes
  <2>1. n - k + 1 \in 1..Len(s)
    BY <1>1 DEF Cells
  <2> QED
    BY <2>1
<1> QED
  BY <1>1 DEF Put

\* The string in cmd, as a sequence.
LEMMA CStringLength ==
  ASSUME NEW b
  PROVE  Len(CString(b)) = StrLen(b) /\ Len(CString(b)) \in Nat
<1>1. StrLen(b) \in Nat
  BY StrLenIs
<1> QED
  BY <1>1 DEF CString

--------------------------------------------------------------------------------
\* Every 13 bytes in a row hold a NUL: no command is longer.
NulWithin(s) == \A k \in 1..(Len(s) - 12) : \E n \in k..(k + 12) : s[n] = "NUL"
Ends(s) == s = <<>> \/ s[Len(s)] = "NUL"

\* What recv leaves on the wire, and what it takes, keep the terminators apart.
LEMMA NulWithinPart ==
  ASSUME NEW s \in Seq(Bytes), NulWithin(s),
         NEW m \in 1..(Len(s) + 1), NEW n \in (m - 1)..Len(s)
  PROVE  /\ SubSeq(s, m, n) \in Seq(Bytes) /\ NulWithin(SubSeq(s, m, n))
         /\ n = Len(s) /\ Ends(s) => Ends(SubSeq(s, m, n))
<1> DEFINE t == SubSeq(s, m, n)
<1>1. /\ t \in Seq(Bytes) /\ Len(t) = n - m + 1
      /\ \A k \in 1..(n - m + 1) : t[k] = s[m + k - 1]
  <2>1. m \in Int /\ n \in Int /\ \A k \in m..n : s[k] \in Bytes
    OBVIOUS
  <2>2. Len(t) = IF m <= n THEN n - m + 1 ELSE 0
    BY <2>1, SubSeqProperties
  <2>3. n - m + 1 = IF m <= n THEN n - m + 1 ELSE 0
    OBVIOUS
  <2>4. t \in Seq(Bytes) /\ \A k \in 1..(n - m + 1) : t[k] = s[m + k - 1]
    BY <2>1, SubSeqProperties
  <2> QED
    BY <2>2, <2>3, <2>4
<1> HIDE DEF t
<1>2. ASSUME NEW k \in 1..(Len(t) - 12)
      PROVE  \E l \in k..(k + 12) : t[l] = "NUL"
  <2>1. m + k - 1 \in 1..(Len(s) - 12)
    BY <1>1
  <2>2. PICK l \in (m + k - 1)..(m + k - 1 + 12) : s[l] = "NUL"
    BY <2>1 DEF NulWithin
  <2>3. l - m + 1 \in k..(k + 12) /\ l - m + 1 \in 1..(n - m + 1)
        /\ m + (l - m + 1) - 1 = l
    BY <1>1, <1>2
  <2>4. t[l - m + 1] = "NUL"
    BY <1>1, <2>2, <2>3
  <2> QED
    BY <2>3, <2>4
<1>3. ASSUME n = Len(s), Ends(s)
      PROVE  Ends(t)
  <2>1. CASE Len(t) = 0
    BY <1>1, <2>1 DEF Ends
  <2>2. CASE Len(t) # 0
    <3>1. s # <<>> /\ n - m + 1 \in 1..(n - m + 1) /\ m + (n - m + 1) - 1 = n
      BY <1>1, <1>3, <2>2
    <3>2. s[n] = "NUL"
      BY <1>3, <3>1 DEF Ends
    <3> QED
      BY <1>1, <3>1, <3>2 DEF Ends
  <2> QED
    BY <2>1, <2>2
<1> QED
  BY <1>1, <1>2, <1>3 DEF t, NulWithin

\* A command of at most 12 bytes and its terminator keeps them apart.
LEMMA NulWithinMore ==
  ASSUME NEW s \in Seq(Bytes), NulWithin(s), Ends(s),
         NEW t \in Seq(Bytes), Len(t) \in 1..13, t[Len(t)] = "NUL"
  PROVE  s \o t \in Seq(Bytes) /\ NulWithin(s \o t) /\ Ends(s \o t)
<1> DEFINE u == s \o t
           a == Len(s)
           b == Len(t)
<1>1. /\ u \in Seq(Bytes) /\ Len(u) = a + b
      /\ \A k \in 1..(a + b) : u[k] = IF k <= a THEN s[k] ELSE t[k - a]
  BY ConcatProperties
<1>2. a \in Nat /\ b \in 1..13 /\ t[b] = "NUL"
  OBVIOUS
<1>3. a # 0 => s[a] = "NUL"
  BY DEF Ends
<1> HIDE DEF u
<1>4. u[a + b] = "NUL"
  <2> HIDE DEF a, b
  <2>1. a + b \in 1..(a + b) /\ ~(a + b <= a) /\ (a + b) - a = b
    BY <1>2
  <2> QED
    BY <1>1, <1>2, <2>1
<1>5. a # 0 => u[a] = "NUL"
  <2> HIDE DEF a, b
  <2>1. a # 0 => a \in 1..(a + b) /\ a <= a
    BY <1>2
  <2> QED
    BY <1>1, <1>3, <2>1
<1>6. ASSUME NEW k \in 1..(Len(u) - 12)
      PROVE  \E n \in k..(k + 12) : u[n] = "NUL"
  <2>1. CASE k + 12 <= a
    <3>1. k \in 1..(Len(s) - 12)
      BY <1>2, <2>1
    <3>2. PICK n \in k..(k + 12) : s[n] = "NUL"
      BY <3>1 DEF NulWithin
    <3>3. n \in 1..(a + b) /\ n <= a
      BY <1>2, <2>1, <3>2
    <3> QED
      BY <1>1, <3>2, <3>3
  <2>2. CASE k + 12 > a /\ k <= a
    <3>1. a \in k..(k + 12) /\ a # 0
      BY <1>2, <2>2
    <3> QED
      BY <1>5, <3>1
  <2>3. CASE k > a
    <3>1. a + b \in k..(k + 12)
      <4>1. k \in 1..((a + b) - 12)
        BY <1>1
      <4> HIDE DEF a, b
      <4> QED
        BY <1>2, <2>3, <4>1
    <3> QED
      BY <1>4, <3>1
  <2> QED
    BY <1>2, <2>1, <2>2, <2>3
<1>7. Ends(u)
  BY <1>1, <1>4 DEF Ends
<1> QED
  BY <1>1, <1>6, <1>7 DEF u, NulWithin

\* The copying loop of main's recv.
LEMMA CopiedTyped ==
  ASSUME cmd \in [Cells -> Bytes], j \in Cells,
         NEW piece \in Seq(Bytes), piece # <<>>, NulWithin(piece)
  PROVE  Copied(piece).cmd \in [Cells -> Bytes] /\ Copied(piece).j \in Cells
<1> DEFINE S == Stops(piece)
           k == Min(S)
<1>1. Len(piece) \in Nat /\ j \in Int
  BY DEF Cells
<1>2. CASE S = {}
  <2>1. Len(piece) <= 12
    <3>1. SUFFICES ASSUME Len(piece) > 12  PROVE FALSE
      BY <1>1
    <3>2. 1 \in 1..(Len(piece) - 12)
      BY <1>1, <3>1
    <3>3. PICK n \in 1..(1 + 12) : piece[n] = "NUL"
      BY <3>2 DEF NulWithin
    <3>4. n - 1 \in 0..(Len(piece) - 1) /\ (n - 1) + 1 = n
      BY <1>1, <3>1, <3>3
    <3>5. n - 1 \in S
      BY <3>3, <3>4 DEF Stops
    <3> QED
      BY <1>2, <3>5
  <2>2. Len(piece) \in Cells
    <3>1. \A n \in Nat : n <= 12 => n \in Cells
      BY DEF Cells
    <3> QED
      BY <1>1, <2>1, <3>1
  <2>3. Copied(piece) = [cmd |-> Put(cmd, j, piece), j |-> Len(piece), done |-> FALSE]
    BY <1>2, Zenon DEF Copied
  <2> QED
    BY <1>1, <2>2, <2>3, PutTyped
<1>3. CASE S # {}
  <2>1. S \subseteq Nat /\ \A x \in S : x \in 0..(Len(piece) - 1)
    BY DEF Stops
  <2>2. k \in S
    BY <1>3, <2>1, MinOf, Zenon
  <2> HIDE DEF S
  <2>3. k \in 0..(Len(piece) - 1)
    BY <2>1, <2>2
  <2>4. Copied(piece) = IF k + j > 15
          THEN [cmd |-> Put(cmd, j, SubSeq(piece, 1, k)), j |-> 0, done |-> FALSE]
          ELSE [cmd |-> Put(cmd, j, SubSeq(piece, 1, k + 1)), j |-> 0, done |-> TRUE]
    BY <1>3, Zenon DEF Copied, S
  <2> HIDE DEF k
  <2>5. SubSeq(piece, 1, k) \in Seq(Bytes) /\ SubSeq(piece, 1, k + 1) \in Seq(Bytes)
    <3>1. k \in Int /\ k + 1 \in Int /\ \A n \in 1..k : piece[n] \in Bytes
      BY <1>1, <2>3
    <3>2. \A n \in 1..(k + 1) : piece[n] \in Bytes
      BY <1>1, <2>3
    <3> QED
      BY <3>1, <3>2, SubSeqProperties
  <2>6. 0 \in Cells
    BY DEF Cells
  <2>7. /\ Put(cmd, j, SubSeq(piece, 1, k)) \in [Cells -> Bytes]
        /\ Put(cmd, j, SubSeq(piece, 1, k + 1)) \in [Cells -> Bytes]
    BY <1>1, <2>5, PutTyped, Zenon
  <2> QED
    BY <2>4, <2>6, <2>7
<1> QED
  BY <1>2, <1>3

--------------------------------------------------------------------------------
(* What the firmware makes of the server's commands.                           *)

\* A parsed command that sets register r to v.
Sets(p, r, v) ==
  /\ p.ret = "S" /\ p.flags = 3
  /\ IO!Register(p.device, p.type) = r /\ r # "none"
  /\ p.v0 = v /\ IO!Accepts(r, v)

\* The four commands of startup, park and exit each set one register.
LEMMA ScriptedCommands ==
  /\ Sets(Parser!Parse(SSE("0")), "servo_en", 0)
  /\ Sets(Parser!Parse(LightOff), "led_pwm", 255)
  /\ Sets(Parser!Parse(SLE("1")), "led_en", 1)
  /\ Sets(Parser!Parse(SLE("0")), "led_en", 0)
<1>1. /\ IO!Register("servo", "en") = "servo_en"
      /\ IO!Register("led", "en") = "led_en"
      /\ IO!Register("led", "pwm") = "led_pwm"
  BY DEF IO!Register
<1>2. /\ IO!Accepts("servo_en", 0) /\ IO!Accepts("led_pwm", 255)
      /\ IO!Accepts("led_en", 0) /\ IO!Accepts("led_en", 1)
  BY DEF IO!Accepts
<1>3. Parser!Digit[0 + 1] = "0" /\ Parser!Digit[1 + 1] = "1"
  BY DEF Parser!Digit
<1>4. Sets(Parser!Parse(SSE("0")), "servo_en", 0)
  <2>1. PICK p : p = Parser!Parse(SSE(Parser!Digit[0 + 1]))
    OBVIOUS
  <2>2. /\ p.ret = "S" /\ p.flags = 3 /\ p.device = "servo" /\ p.type = "en" /\ p.v0 = 0
    BY <2>1, ParsesShort
  <2> QED
    BY <1>1, <1>2, <1>3, <2>1, <2>2 DEF Sets
<1>5. ASSUME NEW n \in {0, 1}
      PROVE  Sets(Parser!Parse(SLE(Parser!Digit[n + 1])), "led_en", n)
  <2>1. PICK p : p = Parser!Parse(SLE(Parser!Digit[n + 1]))
    OBVIOUS
  <2>2. /\ p.ret = "S" /\ p.flags = 3 /\ p.device = "led" /\ p.type = "en" /\ p.v0 = n
    BY <2>1, ParsesShort
  <2> QED
    BY <1>1, <1>2, <2>1, <2>2 DEF Sets
<1>6. Sets(Parser!Parse(LightOff), "led_pwm", 255)
  <2>1. PICK p : p = Parser!Parse(LightOff)
    OBVIOUS
  <2>2. /\ p.ret = "S" /\ p.flags = 3 /\ p.device = "led" /\ p.type = "pwm" /\ p.v0 = 255
    BY <2>1, ParsesShort
  <2> QED
    BY <1>1, <1>2, <2>1, <2>2 DEF Sets
<1>7. Sets(Parser!Parse(SLE("0")), "led_en", 0) /\ Sets(Parser!Parse(SLE("1")), "led_en", 1)
  BY <1>3, <1>5
<1> QED
  BY <1>4, <1>6, <1>7

\* receiveI2c carries such a command out and touches no other register.
LEMMA CarriedOut ==
  ASSUME NEW p, NEW r, NEW v, Sets(p, r, v), IO!ReceiveI2c(p)
  PROVE  reg' = [reg EXCEPT ![r] = v]
<1>1. ~IO!GetRegister(p)
  BY DEF Sets, IO!GetRegister
<1>2. ~IO!SetBothAxes(p)
  BY DEF Sets, IO!SetBothAxes
<1>3. ~IO!RejectCommand(p)
  BY DEF Sets, IO!RejectCommand
<1>4. IO!SetRegister(p)
  BY <1>1, <1>2, <1>3 DEF IO!ReceiveI2c
<1> QED
  BY <1>4 DEF Sets, IO!SetRegister

\* A write of anything keeps the set of registers, and it reaches the firmware
\* unless it is counted as lost.
LEMMA BusKeepsRegisters ==
  ASSUME NEW text, OnBus(text), lostWrites \in Nat
  PROVE  /\ DOMAIN reg' = DOMAIN reg
         /\ lostWrites' \in Nat
         /\ lostWrites' = 0 => lostWrites = 0 /\ IO!ReceiveI2c(Parser!Parse(text))
<1>1. CASE lostWrites' = lostWrites + 1 /\ UNCHANGED firmware
  BY <1>1 DEF firmware
<1>2. CASE IO!ReceiveI2c(Parser!Parse(text)) /\ UNCHANGED lostWrites
  <2> DEFINE p == Parser!Parse(text)
  <2>1. CASE IO!GetRegister(p)
    BY <1>2, <2>1 DEF IO!GetRegister
  <2>2. CASE IO!SetRegister(p)
    BY <1>2, <2>2 DEF IO!SetRegister
  <2>3. CASE IO!SetBothAxes(p)
    BY <1>2, <2>3 DEF IO!SetBothAxes
  <2>4. CASE IO!RejectCommand(p)
    BY <1>2, <2>4 DEF IO!RejectCommand, IO!Reject
  <2> QED
    BY <1>2, <2>1, <2>2, <2>3, <2>4 DEF IO!ReceiveI2c
<1> QED
  BY <1>1, <1>2 DEF OnBus

--------------------------------------------------------------------------------
(* The invariant: where the server is, and how much of the part it is in has   *)
(* reached the registers.                                                      *)

Where ==
  /\ pc \in {"script", "read", "accept", "recv", "process", "reply", "exited"}
  /\ phase \in {"startup", "greet", "serve", "park", "exit"}
  /\ pc = "accept" => phase \in {"startup", "park"} /\ todo = <<>>
  /\ pc \in {"recv", "process", "reply"} => phase = "serve"
  /\ phase = "serve" => todo = <<>>
  /\ pc = "script" => todo # <<>>
  /\ pc = "exited" /\ phase \in {"park", "exit"} => todo = <<>>

\* Of the script that stops the servos, puts out the light and sets its driver
\* to en, the commands that are not in todo any more have been carried out.
Resting(en) ==
  \/ todo = <<SSE("0"), LightOff, SLE(en)>>
  \/ todo = <<LightOff, SLE(en)>> /\ reg["servo_en"] = 0
  \/ todo = <<SLE(en)>> /\ reg["servo_en"] = 0 /\ reg["led_pwm"] = 255
  \/ /\ todo = <<>> /\ reg["servo_en"] = 0 /\ reg["led_pwm"] = 255
     /\ reg["led_en"] = IF en = "1" THEN 1 ELSE 0

Inv ==
  /\ DOMAIN reg = IO!Registers
  /\ lostWrites \in Nat
  /\ Where
  /\ lostWrites = 0 => /\ phase \in {"startup", "park"} => Resting("1")
                       /\ phase = "exit" => Resting("0")

\* The server starts with nothing of its first script written.
LEMMA InitInv == Init => Inv
<1> SUFFICES ASSUME Init  PROVE Inv
  OBVIOUS
<1>1. DOMAIN reg = IO!Registers
  BY DEF Init, IO!Init
<1>2. StartupScript # <<>>
  BY DEF StartupScript
<1>3. Where
  BY <1>2 DEF Init, Where
<1>4. Resting("1")
  BY DEF Init, StartupScript, Resting
<1> QED
  BY <1>1, <1>3, <1>4 DEF Inv, Init

\* One command of such a script more.
LEMMA RestsFurther ==
  ASSUME NEW en \in {"0", "1"}, DOMAIN reg = IO!Registers, Resting(en),
         todo # <<>>, IO!ReceiveI2c(Parser!Parse(Head(todo))),
         todo' = Tail(todo)
  PROVE  Resting(en)'
<1>1. Sets(Parser!Parse(SLE(en)), "led_en", IF en = "1" THEN 1 ELSE 0)
  BY ScriptedCommands
<1>2. {"servo_en", "led_pwm", "led_en"} \subseteq DOMAIN reg
  BY DEF IO!Registers
<1>3. CASE todo = <<SSE("0"), LightOff, SLE(en)>>
  <2>1. Head(todo) = SSE("0") /\ todo' = <<LightOff, SLE(en)>>
    BY <1>3
  <2>2. reg' = [reg EXCEPT !["servo_en"] = 0]
    BY <2>1, ScriptedCommands, CarriedOut
  <2> QED
    BY <1>2, <2>1, <2>2 DEF Resting
<1>4. CASE todo = <<LightOff, SLE(en)>> /\ reg["servo_en"] = 0
  <2>1. Head(todo) = LightOff /\ todo' = <<SLE(en)>>
    BY <1>4
  <2>2. reg' = [reg EXCEPT !["led_pwm"] = 255]
    BY <2>1, ScriptedCommands, CarriedOut
  <2> QED
    BY <1>2, <1>4, <2>1, <2>2 DEF Resting
<1>5. CASE todo = <<SLE(en)>> /\ reg["servo_en"] = 0 /\ reg["led_pwm"] = 255
  <2>1. Head(todo) = SLE(en) /\ todo' = <<>>
    BY <1>5
  <2>2. reg' = [reg EXCEPT !["led_en"] = IF en = "1" THEN 1 ELSE 0]
    BY <1>1, <2>1, CarriedOut
  <2> QED
    BY <1>2, <1>5, <2>1, <2>2 DEF Resting
<1> QED
  BY <1>3, <1>4, <1>5 DEF Resting

\* Nothing is lost of it while the registers and todo stay.
LEMMA RestingKept ==
  ASSUME NEW en, Resting(en), UNCHANGED <<todo, reg>>
  PROVE  Resting(en)'
BY DEF Resting

\* Every step of the server, the bus and the clients keeps the invariant: a
\* client's command is written only in phase serve.
LEMMA NextInv == Inv /\ [Next]_vars => Inv'
<1> SUFFICES ASSUME Inv, [Next]_vars  PROVE Inv'
  OBVIOUS
<1> USE DEF Inv
\* The steps that leave phase, todo and the registers as they are.
<1>1. ASSUME UNCHANGED <<phase, todo, reg, lostWrites>>, Where'
      PROVE  Inv'
  BY <1>1, RestingKept
<1>2. CASE WriteScripted
  <2>1. todo # <<>> /\ phase' = phase /\ pc' = "read" /\ todo' = Tail(todo)
        /\ OnBus(Head(todo))
    BY <1>2 DEF WriteScripted, WriteI2c, Where
  <2>2. Where'
    BY <2>1 DEF Where
  <2>3. /\ DOMAIN reg' = DOMAIN reg
        /\ lostWrites' \in Nat
        /\ lostWrites' = 0 =>
             lostWrites = 0 /\ IO!ReceiveI2c(Parser!Parse(Head(todo)))
    BY <2>1, BusKeepsRegisters
  <2>4. ASSUME lostWrites' = 0
        PROVE  /\ phase' \in {"startup", "park"} => Resting("1")'
               /\ phase' = "exit" => Resting("0")'
    <3>1. CASE phase \in {"startup", "park"}
      BY <2>1, <2>3, <2>4, <3>1, RestsFurther
    <3>2. CASE phase = "exit"
      BY <2>1, <2>3, <2>4, <3>2, RestsFurther
    <3> QED
      BY <2>1, <3>1, <3>2
  <2> QED
    BY <2>1, <2>2, <2>3, <2>4
<1>3. CASE ReadI2c
  <2>0. /\ todo # <<>> => AfterExchange = "script"
        /\ todo = <<>> /\ phase = "serve" => AfterExchange = "reply"
        /\ todo = <<>> /\ phase = "greet" => AfterExchange = "recv"
        /\ todo = <<>> /\ phase = "exit" => AfterExchange = "exited"
        /\ todo = <<>> /\ phase \in {"startup", "park"} => AfterExchange = "accept"
    BY DEF AfterExchange
  <2>1. phase' = phase \/ phase' = "serve"
    BY <1>3 DEF ReadI2c
  <2>3. UNCHANGED <<todo, reg, lostWrites>>
    BY <1>3 DEF ReadI2c, IO!SendI2c, bounds
  <2>2. Where'
    BY <1>3, <2>0 DEF ReadI2c, Where
  <2> QED
    BY <2>1, <2>2, <2>3, RestingKept
<1>4. CASE Process
  <2> USE <1>4 DEF Process, WriteI2c
  <2>1. phase = "serve" /\ phase' = "serve"
    BY DEF Where
  <2>2. Where'
    BY <2>1 DEF Where
  <2>3. DOMAIN reg' = DOMAIN reg /\ lostWrites' \in Nat
    BY BusKeepsRegisters
  <2> QED
    BY <2>1, <2>2, <2>3
<1>5. CASE Accept
  <2>1. GreetScript # <<>>
    BY DEF GreetScript
  <2>2. phase' = "greet" /\ Where' /\ UNCHANGED <<reg, lostWrites>>
    BY <1>5, <2>1 DEF Accept, Begin, Where, firmware, bounds
  <2> QED
    BY <2>2
<1>6. CASE Disconnected
  <2>1. ParkScript # <<>>
    BY DEF ParkScript
  <2>2. phase' = "park" /\ Where' /\ UNCHANGED <<reg, lostWrites>>
    BY <1>6, <2>1 DEF Disconnected, Begin, Where, firmware, bounds
  <2>3. Resting("1")'
    BY <1>6 DEF Disconnected, Begin, ParkScript, Resting
  <2> QED
    BY <2>2, <2>3
<1>7. CASE Start
  <2>1. StartupScript # <<>>
    BY DEF StartupScript
  <2>2. phase' = "startup" /\ Where' /\ UNCHANGED <<reg, lostWrites>>
    BY <1>7, <2>1 DEF Start, Begin, Where, firmware, bounds
  <2>3. Resting("1")'
    BY <1>7 DEF Start, Begin, StartupScript, Resting
  <2> QED
    BY <2>2, <2>3
<1>8. CASE Stop
  <2>1. UNCHANGED <<reg, lostWrites>>
    BY <1>8 DEF Stop, firmware
  <2>2. CASE phase = "startup" /\ pc # "accept"
    <3>1. Where' /\ UNCHANGED <<phase, todo>>
      BY <1>8, <2>2 DEF Stop, Where
    <3> QED
      BY <1>1, <2>1, <3>1
  <2>3. CASE ~(phase = "startup" /\ pc # "accept")
    <3>1. ExitScript # <<>>
      BY DEF ExitScript
    <3>2. phase' = "exit" /\ Where'
      BY <1>8, <2>3, <3>1 DEF Stop, Begin, Where
    <3>3. Resting("0")'
      BY <1>8, <2>3 DEF Stop, Begin, ExitScript, Resting
    <3> QED
      BY <2>1, <3>2, <3>3
  <2> QED
    BY <2>2, <2>3
<1>9. CASE AcceptFails
  BY <1>1, <1>9 DEF AcceptFails, Where, firmware, bounds
<1>10. CASE Recv
  BY <1>1, <1>10 DEF Recv, Where, firmware, bounds
<1>11. CASE SendReply
  BY <1>1, <1>11 DEF SendReply, Where, firmware, bounds
<1>12. CASE ReadFails
  BY <1>1, <1>12 DEF ReadFails, Where, firmware
<1>13. CASE CameraStarts
  BY <1>1, <1>13 DEF CameraStarts, Where, firmware, bounds
<1>14. ASSUME NEW c \in Clients, Client(c)  PROVE Inv'
  <2>1. UNCHANGED <<pc, phase, todo, reg, lostWrites>>
    BY <1>14 DEF Client, Connect, Return, Close, Crash, Break, Invoke, server,
                 firmware, bounds
  <2> QED
    BY <1>1, <2>1 DEF Where
<1>15. CASE UNCHANGED vars
  BY <1>1, <1>15 DEF vars, firmware, server, bounds, Where
<1> QED
  BY <1>2, <1>3, <1>4, <1>5, <1>6, <1>7, <1>8, <1>9, <1>10, <1>11, <1>12,
     <1>13, <1>14, <1>15 DEF Next, Server

\* In every reachable state the commands already written of the script in
\* progress hold in the registers, unless a write was lost.
THEOREM Invariance == Spec => []Inv
BY InitInv, NextInv, PTL DEF Spec

\* Whenever the server waits in accept, and when an accept that fails between two
\* sessions ends it, the servos are off and the light is off with its driver
\* enabled, if no write was lost: whatever phones connected, sent and left, and
\* however often the server was stopped and started.
THEOREM RestProof == Spec => [](lostWrites = 0 => RestsBetweenSessions)
<1>1. Inv => (lostWrites = 0 => RestsBetweenSessions)
  <2> SUFFICES ASSUME Inv, lostWrites = 0, pc = "accept" \/ (pc = "exited" /\ phase = "park")
               PROVE  reg["servo_en"] = 0 /\ reg["led_pwm"] = 255 /\ reg["led_en"] = 1
    BY DEF RestsBetweenSessions
  <2>1. todo = <<>> /\ phase \in {"startup", "park"}
    BY DEF Inv, Where
  <2> QED
    BY <2>1 DEF Inv, Resting
<1> QED
  BY <1>1, Invariance, PTL

\* A server that a signal stopped (beforeExit) leaves servos, light and driver
\* off if no write was lost, wherever in an exchange the signal caught it.
THEOREM StopProof == Spec => [](lostWrites = 0 => OffAfterStop)
<1>1. Inv => (lostWrites = 0 => OffAfterStop)
  BY DEF Inv, Where, Resting, OffAfterStop
<1> QED
  BY <1>1, Invariance, PTL

--------------------------------------------------------------------------------
(* Type correctness                                                           *)

Scripted == {SSE("0"), SSE("1"), SLE("0"), SLE("1"), LightOff, LightOn}

\* The answer has been read to its end.
Whole == reply # <<>> /\ reply[Len(reply)] = "NUL"

\* i counts the bytes read of this answer and the reads that failed.
Reading ==
  /\ nacks \in 0..MaxNacks
  /\ i \in 0..16
  /\ pc = "read" => i <= nacks \/ (~Whole /\ i <= Len(reply) + nacks)

Wires ==
  /\ link \in [Clients -> {"new", "open", "closed"}]
  /\ up \in [Clients -> Seq(Bytes)]
  /\ \A c \in Clients : NulWithin(up[c]) /\ (link[c] # "closed" => Ends(up[c]))

Sockets ==
  /\ sock \in Clients \cup {NoClient}
  /\ backlog \in Seq(Clients)
  /\ phase \in {"greet", "serve"} => sock \in Clients

Locals ==
  /\ cmd \in [Cells -> Bytes] /\ j \in Cells /\ flag \in BOOLEAN
  /\ camera \in {"off", "starting", "on"}
  /\ todo \in Seq(Scripted)

Typed == SP!IInv /\ Reading /\ Wires /\ Sockets /\ Locals

\* The scripts are made of the six commands, each of four to six bytes.
LEMMA ScriptedTyped ==
  /\ \A t \in Scripted : t \in Seq(Bytes) /\ Len(t) \in 4..6
  /\ StartupScript \in Seq(Scripted) /\ GreetScript \in Seq(Scripted)
  /\ ParkScript \in Seq(Scripted) /\ ExitScript \in Seq(Scripted)
<1>1. \A t \in Scripted : t \in Seq(Bytes) /\ Len(t) \in 4..6
  BY ShortTexts DEF Scripted
<1>2. /\ SSE("0") \in Scripted /\ SSE("1") \in Scripted /\ SLE("0") \in Scripted
      /\ SLE("1") \in Scripted /\ LightOff \in Scripted /\ LightOn \in Scripted
  BY Zenon DEF Scripted
<1>3. \A a, b, c \in Scripted : <<a, b, c>> \in Seq(Scripted)
  OBVIOUS
<1> QED
  BY <1>1, <1>2, <1>3, Zenon DEF StartupScript, GreetScript, ParkScript, ExitScript

\* The initial state has its types.
LEMMA TypedInit == Init => Typed
<1> SUFFICES ASSUME Init  PROVE Typed
  OBVIOUS
<1>1. SP!IInv
  <2>1. SP!Init
    BY SameInit DEF Init
  <2> QED
    BY <2>1, SP!InitInv, SuperIOAssumptions DEF SP!PulseAssumption, SP!ParsedAssumption
<1>2. Reading
  BY BoundsAssumption DEF Init, Reading
<1>3. Wires
  <2>1. NulWithin(<<>>) /\ Ends(<<>>) /\ <<>> \in Seq(Bytes)
    BY DEF NulWithin, Ends
  <2> QED
    BY <2>1 DEF Init, Wires
<1>4. Sockets
  BY DEF Init, Sockets
<1>5. Locals
  <2>1. "?" \in Bytes
    BY BytesAre
  <2>2. cmd \in [Cells -> Bytes]
    BY <2>1 DEF Init
  <2>3. todo \in Seq(Scripted)
    BY ScriptedTyped DEF Init
  <2>4. j \in Cells /\ flag \in BOOLEAN /\ camera \in {"off", "starting", "on"}
    <3>1. j \in Cells
      BY DEF Init, Cells
    <3>2. flag \in BOOLEAN /\ camera \in {"off", "starting", "on"}
      BY Zenon DEF Init
    <3> QED
      BY <3>1, <3>2
  <2> QED
    BY <2>2, <2>3, <2>4 DEF Locals
<1> QED
  BY <1>1, <1>2, <1>3, <1>4, <1>5 DEF Typed

\* The firmware keeps its invariant in every step.
LEMMA FirmwareKept ==
  ASSUME Typed, Where, Next
  PROVE  SP!IInv'
<1>0. SP!IInv /\ todo \in Seq(Scripted)
  BY DEF Typed, Locals
<1>1. CASE WriteScripted
  <2>1. OnBus(Head(todo)) /\ todo # <<>>
    BY <1>1 DEF WriteScripted, WriteI2c, Where
  <2>2. Head(todo) \in Scripted
    BY <1>0, <2>1
  <2>3. Len(Head(todo)) \in Nat
    BY <2>2, ScriptedTyped
  <2> QED
    BY <1>0, <2>1, <2>3, WriteKeepsFirmware
<1>2. CASE Process
  <2>1. OnBus(CString(cmd))
    BY <1>2 DEF Process, WriteI2c
  <2> QED
    BY <1>0, <2>1, CStringLength, WriteKeepsFirmware
<1>3. CASE ReadI2c
  BY <1>0, <1>3, ReadKeepsFirmware DEF ReadI2c
<1>4. CASE UNCHANGED firmware
  BY <1>0, <1>4, FirmwareStays
<1>5. CASE Accept \/ AcceptFails \/ Recv \/ SendReply \/ Disconnected
  BY <1>4, <1>5 DEF Accept, AcceptFails, Recv, SendReply, Disconnected
<1>6. CASE ReadFails \/ CameraStarts \/ Stop \/ Start
  BY <1>4, <1>6 DEF ReadFails, CameraStarts, Stop, Start
<1>7. ASSUME NEW c \in Clients, Client(c)
      PROVE  SP!IInv'
  BY <1>4, <1>7 DEF Client, Connect, Return, Close, Crash, Break, Invoke
<1> QED
  BY <1>1, <1>2, <1>3, <1>5, <1>6, <1>7 DEF Next, Server

\* A byte read is a byte more of the answer, unless it was whole.
LEMMA ByteRead ==
  ASSUME IO!SendI2c, reply \in Seq(IO!ReplyBytes), reply' \in Seq(IO!ReplyBytes)
  PROVE  /\ reply' # <<>> /\ reply'[Len(reply')] \in IO!ReplyBytes
         /\ Whole => reply' = reply
         /\ ~Whole => Len(reply') = Len(reply) + 1
<1>1. PICK b : IO!WireWrite(b)
  BY DEF IO!SendI2c, IO!SendHeader, IO!SendDigit, IO!SendResult, IO!SendEnd
<1>2. reply' = IF Whole THEN reply ELSE Append(reply, b)
  BY <1>1 DEF IO!WireWrite, Whole
<1>3. Len(reply) \in Nat
  OBVIOUS
<1>4. CASE Whole
  BY <1>2, <1>4 DEF Whole
<1>5. CASE ~Whole
  <2>1. Len(reply') = Len(reply) + 1
    BY <1>2, <1>5
  <2> QED
    BY <1>3, <1>5, <2>1
<1> QED
  BY <1>4, <1>5

\* The count of the bytes of an answer never passes the 16 bytes of cmd.
LEMMA ReadingKept ==
  ASSUME Typed, Typed => SP!IInv', Where, Next
  PROVE  Reading'
<1>0. /\ Reading /\ MaxNacks \in 0..8 /\ SP!IInv' /\ IO!TypeOK
  BY BoundsAssumption, FirmwareFacts DEF Typed
<1>1. CASE UNCHANGED <<nacks, i, reply>> /\ (pc' = "read" => pc = "read")
  <2>1. Whole' = Whole
    BY <1>1 DEF Whole
  <2> QED
    BY <1>0, <1>1, <2>1 DEF Reading
<1>2. CASE WriteScripted \/ Process
  <2>1. i' = 0 /\ nacks' = nacks
    BY <1>2 DEF WriteScripted, Process, WriteI2c
  <2> QED
    BY <1>0, <2>1 DEF Reading
<1>3. CASE ReadI2c
  <2>1. pc = "read" /\ i' = i + 1 /\ nacks' = nacks
        /\ (pc' = "read" => reply'[Len(reply')] # "NUL")
    <3>1. AfterExchange # "read"
      BY DEF AfterExchange
    <3> QED
      BY <1>3, <3>1 DEF ReadI2c, bounds
  <2>2. reply \in Seq(IO!ReplyBytes) /\ reply' \in Seq(IO!ReplyBytes)
    <3>1. IO!TypeOK'
      BY <1>0, FirmwareFactsNext
    <3> QED
      BY <1>0, <3>1 DEF IO!TypeOK
  <2>3. /\ reply' # <<>> /\ (Whole => reply' = reply)
        /\ (~Whole => Len(reply') = Len(reply) + 1)
    BY <1>3, <2>2, ByteRead DEF ReadI2c
  <2>4. Len(reply) \in Nat /\ Len(reply') \in 1..8
    <3>1. IO!ReplyIsOwed'
      BY <1>0, FirmwareFactsNext
    <3>2. Len(reply') <= 8
      BY <3>1 DEF IO!ReplyIsOwed
    <3>3. Len(reply) \in Nat /\ Len(reply') \in Nat /\ Len(reply') # 0
      BY <2>2, <2>3
    <3>4. \A n \in Nat : n # 0 /\ n <= 8 => n \in 1..8
      OBVIOUS
    <3> QED
      BY <3>2, <3>3, <3>4, Zenon
  <2>5. i' <= Len(reply') + nacks /\ i' \in Nat
    BY <1>0, <2>1, <2>3, <2>4 DEF Reading
  <2>6. i' \in 0..16
    <3>1. nacks \in 0..8
      BY <1>0 DEF Reading
    <3>2. \A n \in 1..8, k \in 0..8, l \in Nat : l <= n + k => l \in 0..16
      OBVIOUS
    <3> QED
      BY <2>4, <2>5, <3>1, <3>2, Zenon
  <2>7. pc' = "read" => ~Whole'
    BY <2>1 DEF Whole
  <2> QED
    BY <1>0, <2>1, <2>5, <2>6, <2>7 DEF Reading
<1>4. CASE ReadFails
  <2>1. pc = "read" /\ nacks < MaxNacks /\ nacks' = nacks + 1 /\ i' = i + 1
        /\ reply' = reply
    BY <1>4 DEF ReadFails, firmware
  <2>2. Whole' = Whole
    BY <2>1 DEF Whole
  <2>3. Len(reply) \in Nat /\ (~Whole => Len(reply) <= 7)
    <3>1. /\ IO!OwedLength \in 2..8 /\ Len(reply) \in 0..IO!OwedLength
          /\ Len(reply) = IO!OwedLength => reply[Len(reply)] = "NUL"
      BY OwedNul DEF Typed
    <3> QED
      BY <3>1 DEF Whole
  <2>4. i' \in 0..16
    <3>1. nacks \in 0..7 /\ i \in Nat /\ i <= nacks + 7
      BY <1>0, <2>1, <2>3 DEF Reading
    <3> QED
      BY <2>1, <3>1
  <2>5. i' <= nacks' \/ (~Whole' /\ i' <= Len(reply') + nacks')
    BY <1>0, <2>1, <2>2, <2>3 DEF Reading
  <2> QED
    BY <1>0, <2>1, <2>4, <2>5 DEF Reading
<1>5. CASE Accept \/ AcceptFails \/ Recv \/ SendReply \/ Disconnected
  BY <1>1, <1>5 DEF Accept, AcceptFails, Recv, SendReply, Disconnected, Begin,
       firmware, bounds
<1>6. CASE CameraStarts \/ Stop
  BY <1>1, <1>6 DEF CameraStarts, Stop, Begin, firmware, bounds
<1>7. CASE Start
  BY <1>0, <1>7 DEF Start, Begin, bounds, Reading
<1>8. ASSUME NEW c \in Clients, Client(c)
      PROVE  Reading'
  BY <1>1, <1>8 DEF Client, Connect, Return, Close, Crash, Break, Invoke, server,
       firmware, bounds
<1> QED
  BY <1>2, <1>3, <1>4, <1>5, <1>6, <1>7, <1>8 DEF Next, Server

\* What is on the wire to the server.
LEMMA WiresKept ==
  ASSUME Typed, Where, Next
  PROVE  Wires'
<1>0. Wires
  BY DEF Typed
<1>1. CASE UNCHANGED <<link, up>>
  BY <1>0, <1>1 DEF Wires
<1>2. CASE Recv
  <2>1. sock \in Clients /\ link' = link
    BY <1>2 DEF Recv, Typed, Sockets, Where
  <2>2. PICK n \in 1..Len(up[sock]) :
          up' = [up EXCEPT ![sock] = SubSeq(up[sock], n + 1, Len(up[sock]))]
    BY <1>2 DEF Recv
  <2>3. up[sock] \in Seq(Bytes) /\ NulWithin(up[sock])
        /\ (link[sock] # "closed" => Ends(up[sock]))
    BY <1>0, <2>1 DEF Wires
  <2>4. n + 1 \in 1..(Len(up[sock]) + 1) /\ Len(up[sock]) \in ((n + 1) - 1)..Len(up[sock])
    BY <2>3
  <2>5. up'[sock] \in Seq(Bytes) /\ NulWithin(up'[sock])
        /\ (link[sock] # "closed" => Ends(up'[sock]))
    <3>1. up'[sock] = SubSeq(up[sock], n + 1, Len(up[sock]))
      BY <1>0, <2>1, <2>2 DEF Wires
    <3> QED
      BY <2>3, <2>4, <3>1, NulWithinPart
  <2> QED
    BY <1>0, <2>1, <2>2, <2>5 DEF Wires
<1>3. ASSUME NEW c \in Clients, NEW op \in Calls, Invoke(c, op)
      PROVE  Wires'
  <2>1. link[c] = "open" /\ link' = link /\ up' = [up EXCEPT ![c] = up[c] \o Command(op)]
    BY <1>3 DEF Invoke
  <2>2. up[c] \in Seq(Bytes) /\ NulWithin(up[c]) /\ Ends(up[c])
    BY <1>0, <2>1 DEF Wires
  <2>3. /\ Command(op) \in Seq(Bytes) /\ Len(Command(op)) \in 1..13
        /\ Command(op)[Len(Command(op))] = "NUL"
    BY CommandTyped
  <2>4. up'[c] \in Seq(Bytes) /\ NulWithin(up'[c]) /\ Ends(up'[c])
    <3>1. up'[c] = up[c] \o Command(op)
      BY <1>0, <2>1 DEF Wires
    <3> QED
      BY <2>2, <2>3, <3>1, NulWithinMore
  <2> QED
    BY <1>0, <2>1, <2>4 DEF Wires
<1>4. ASSUME NEW c \in Clients, Crash(c)
      PROVE  Wires'
  <2>1. PICK n \in 0..Len(up[c]) : up' = [up EXCEPT ![c] = SubSeq(up[c], 1, n)]
    BY <1>4 DEF Crash
  <2>2. link' = [link EXCEPT ![c] = "closed"]
    BY <1>4 DEF Crash
  <2>3. up[c] \in Seq(Bytes) /\ NulWithin(up[c])
    BY <1>0 DEF Wires
  <2>4. 1 \in 1..(Len(up[c]) + 1) /\ n \in (1 - 1)..Len(up[c])
    BY <2>3
  <2>5. up'[c] \in Seq(Bytes) /\ NulWithin(up'[c])
    <3>1. up'[c] = SubSeq(up[c], 1, n)
      BY <1>0, <2>1 DEF Wires
    <3> QED
      BY <2>3, <2>4, <3>1, NulWithinPart
  <2> QED
    BY <1>0, <2>1, <2>2, <2>5 DEF Wires
<1>5. ASSUME NEW c \in Clients, Close(c) \/ Break(c)
      PROVE  Wires'
  BY <1>0, <1>5 DEF Close, Break, Wires
<1>6. ASSUME NEW c \in Clients, Connect(c)
      PROVE  Wires'
  <2>1. link[c] = "new" /\ up' = up /\ link' = [link EXCEPT ![c] = "open"]
    BY <1>6 DEF Connect
  <2> QED
    BY <1>0, <2>1 DEF Wires
<1>7. CASE WriteScripted \/ ReadI2c \/ Accept \/ AcceptFails
  BY <1>1, <1>7 DEF WriteScripted, ReadI2c, Accept, AcceptFails, clients
<1>8. CASE Process \/ SendReply \/ Disconnected
  BY <1>1, <1>8 DEF Process, SendReply, Disconnected, clients
<1>9. CASE ReadFails \/ CameraStarts \/ Stop \/ Start
  BY <1>1, <1>9 DEF ReadFails, CameraStarts, Stop, Start, clients
<1>10. ASSUME NEW c \in Clients, Return(c)
       PROVE  Wires'
  BY <1>1, <1>10 DEF Return
<1> QED
  BY <1>2, <1>3, <1>4, <1>5, <1>6, <1>7, <1>8, <1>9, <1>10 DEF Next, Server, Client

\* Who is being served, and who waits.
LEMMA SocketsKept ==
  ASSUME Typed, Where, Next
  PROVE  Sockets'
<1>0. Sockets
  BY DEF Typed
<1>1. CASE UNCHANGED <<sock, backlog>> /\ (phase' \in {"greet", "serve"} =>
                                          phase \in {"greet", "serve"})
  BY <1>0, <1>1 DEF Sockets
<1>2. CASE Accept
  <2>1. /\ backlog # <<>> /\ sock' = Head(backlog) /\ backlog' = Tail(backlog)
    BY <1>2 DEF Accept
  <2> QED
    BY <1>0, <2>1 DEF Sockets
<1>3. CASE AcceptFails
  <2>1. /\ sock' = NoClient /\ backlog' = <<>> /\ phase' = phase
        /\ phase \notin {"greet", "serve"}
    BY <1>3 DEF AcceptFails, Where
  <2> QED
    BY <2>1 DEF Sockets
<1>4. CASE Disconnected
  <2>1. sock' = NoClient /\ backlog' = backlog /\ phase' = "park"
    BY <1>4 DEF Disconnected, Begin
  <2> QED
    BY <1>0, <2>1 DEF Sockets
<1>5. CASE Start
  <2>1. sock' = NoClient /\ backlog' = <<>> /\ phase' = "startup"
    BY <1>5 DEF Start, Begin
  <2> QED
    BY <2>1 DEF Sockets
<1>6. CASE Stop
  <2>1. UNCHANGED <<sock, backlog>> /\ (phase' = phase \/ phase' = "exit")
    BY <1>6 DEF Stop, Begin
  <2> QED
    BY <1>1, <2>1
<1>7. CASE ReadI2c
  <2>1. UNCHANGED <<sock, backlog>>
        /\ (phase' = phase \/ (phase' = "serve" /\ pc' = "recv"))
    <3>1. UNCHANGED <<sock, backlog>>
      BY <1>7 DEF ReadI2c
    <3>2. phase' = IF pc' = "recv" THEN "serve" ELSE phase
      BY <1>7, Zenon DEF ReadI2c
    <3>3. phase' = phase \/ (phase' = "serve" /\ pc' = "recv")
      BY <3>2, Zenon
    <3> QED
      BY <3>1, <3>3, Zenon
  <2>2. pc' = "recv" => phase = "greet"
    BY <1>7 DEF ReadI2c, AfterExchange, Where
  <2> QED
    BY <1>1, <2>1, <2>2
<1>8. CASE WriteScripted \/ Recv \/ Process \/ SendReply \/ ReadFails \/ CameraStarts
  BY <1>1, <1>8 DEF WriteScripted, Recv, Process, SendReply, ReadFails, CameraStarts
<1>9. ASSUME NEW c \in Clients, Connect(c)
      PROVE  Sockets'
  <2>1. backlog' = Append(backlog, c) /\ sock' = sock /\ phase' = phase
    BY <1>9 DEF Connect
  <2> QED
    BY <1>0, <2>1 DEF Sockets
<1>10. ASSUME NEW c \in Clients, Client(c), ~Connect(c)
       PROVE  Sockets'
  BY <1>1, <1>10 DEF Client, Return, Close, Crash, Break, Invoke, server
<1> QED
  BY <1>2, <1>3, <1>4, <1>5, <1>6, <1>7, <1>8, <1>9, <1>10 DEF Next, Server

\* The server's locals.
LEMMA LocalsKept ==
  ASSUME Typed, SP!IInv', Where, Next
  PROVE  Locals'
<1>0. Locals
  BY DEF Typed
<1>1. CASE UNCHANGED <<cmd, j, flag, camera, todo>>
  BY <1>0, <1>1 DEF Locals
<1>2. CASE WriteScripted
  <2>1. /\ todo # <<>> /\ todo' = Tail(todo) /\ UNCHANGED <<j, flag, camera>>
        /\ cmd' = cmd \/ cmd' = Put(cmd, 0, Head(todo) \o <<"NUL">>)
    BY <1>2 DEF WriteScripted, Where
  <2>2. Head(todo) \in Scripted /\ todo' \in Seq(Scripted)
    BY <1>0, <2>1 DEF Locals
  <2>3. Head(todo) \o <<"NUL">> \in Seq(Bytes)
    BY <2>2, ScriptedTyped, NotNul
  <2>4. cmd' \in [Cells -> Bytes]
    <3>1. 0 \in Int /\ cmd \in [Cells -> Bytes]
      BY <1>0 DEF Locals
    <3>2. Put(cmd, 0, Head(todo) \o <<"NUL">>) \in [Cells -> Bytes]
      BY <2>3, <3>1, PutTyped, Zenon
    <3> QED
      BY <2>1, <3>1, <3>2
  <2> QED
    BY <1>0, <2>1, <2>2, <2>4 DEF Locals
<1>3. CASE ReadI2c
  <2>1. /\ UNCHANGED <<todo, flag, j, camera>>
        /\ cmd' = cmd \/ cmd' = Put(cmd, i, <<reply'[Len(reply')]>>)
    BY <1>3 DEF ReadI2c
  <2>2. reply'[Len(reply')] \in Bytes
    <3>1. reply \in Seq(IO!ReplyBytes) /\ reply' \in Seq(IO!ReplyBytes)
      BY FirmwareFacts, FirmwareFactsNext DEF Typed, IO!TypeOK
    <3> QED
      BY <1>3, <3>1, ByteRead, BytesAre DEF ReadI2c
  <2>3. i \in Int /\ <<reply'[Len(reply')]>> \in Seq(Bytes)
    BY <2>2 DEF Typed, Reading
  <2>4. cmd' \in [Cells -> Bytes]
    BY <1>0, <2>1, <2>3, PutTyped DEF Locals
  <2> QED
    BY <1>0, <2>1, <2>4 DEF Locals
<1>4. CASE Recv
  <2>1. /\ sock \in Clients /\ up[sock] # <<>> /\ UNCHANGED <<todo, flag, camera>>
        /\ \E n \in 1..Len(up[sock]) :
             /\ cmd' = Copied(SubSeq(up[sock], 1, n)).cmd
             /\ j' = Copied(SubSeq(up[sock], 1, n)).j
    BY <1>4 DEF Recv, Typed, Sockets, Where
  <2>2. PICK n \in 1..Len(up[sock]) : /\ cmd' = Copied(SubSeq(up[sock], 1, n)).cmd
                                      /\ j' = Copied(SubSeq(up[sock], 1, n)).j
    BY <2>1
  <2>3. up[sock] \in Seq(Bytes) /\ NulWithin(up[sock])
    BY <2>1 DEF Typed, Wires
  <2>4. 1 \in 1..(Len(up[sock]) + 1) /\ n \in (1 - 1)..Len(up[sock])
    BY <2>3
  <2>5. SubSeq(up[sock], 1, n) \in Seq(Bytes) /\ NulWithin(SubSeq(up[sock], 1, n))
    BY <2>3, <2>4, NulWithinPart
  <2>6. SubSeq(up[sock], 1, n) # <<>>
    <3>1. Len(SubSeq(up[sock], 1, n)) = n
      BY <2>3
    <3> QED
      BY <3>1
  <2>7. cmd' \in [Cells -> Bytes] /\ j' \in Cells
    BY <1>0, <2>2, <2>5, <2>6, CopiedTyped DEF Locals
  <2> QED
    BY <1>0, <2>1, <2>7 DEF Locals
<1>5. CASE Process
  <2>1. UNCHANGED <<todo, cmd, j, camera>> /\ flag' = (Parser!ToUpper(cmd[0]) = "G")
    BY <1>5 DEF Process
  <2>2. flag' \in BOOLEAN
    BY <2>1, Zenon
  <2> QED
    BY <1>0, <2>1, <2>2 DEF Locals
<1>6. CASE SendReply
  <2>1. UNCHANGED <<todo, flag, j, camera>>
        /\ cmd' = Put(cmd, IF flag THEN StrLen(cmd) ELSE 1, <<"LF">>)
    BY <1>6 DEF SendReply
  <2>2. (IF flag THEN StrLen(cmd) ELSE 1) \in Int /\ <<"LF">> \in Seq(Bytes)
    BY StrLenIs, BytesAre
  <2>3. cmd' \in [Cells -> Bytes]
    BY <1>0, <2>1, <2>2, PutTyped DEF Locals
  <2> QED
    BY <1>0, <2>1, <2>3 DEF Locals
<1>7. CASE Accept \/ Disconnected
  <2>1. /\ UNCHANGED <<cmd, j, flag>> /\ todo' \in {GreetScript, ParkScript}
        /\ camera' \in {camera, "starting", "off"}
    BY <1>7 DEF Accept, Disconnected, Begin
  <2>2. todo' \in Seq(Scripted)
    BY <2>1, ScriptedTyped
  <2> QED
    BY <1>0, <2>1, <2>2 DEF Locals
<1>8. CASE Start
  <2>1. cmd' = [k \in Cells |-> "?"] /\ flag' = FALSE /\ j' = 0 /\ camera' = camera
        /\ todo' = StartupScript
    BY <1>8 DEF Start, Begin
  <2>2. cmd' \in [Cells -> Bytes]
    BY <2>1, BytesAre
  <2>3. todo' \in Seq(Scripted)
    BY <2>1, ScriptedTyped
  <2>4. 0 \in Cells
    BY DEF Cells
  <2> QED
    BY <1>0, <2>1, <2>2, <2>3, <2>4 DEF Locals
<1>9. CASE Stop
  <2>1. UNCHANGED <<cmd, j, flag, camera>> /\ (todo' = todo \/ todo' = ExitScript)
    BY <1>9 DEF Stop, Begin
  <2>2. todo' \in Seq(Scripted)
    BY <1>0, <2>1, ScriptedTyped DEF Locals
  <2> QED
    BY <1>0, <2>1, <2>2 DEF Locals
<1>10. CASE CameraStarts
  <2>1. UNCHANGED <<cmd, j, flag, todo>> /\ camera' = "on"
    BY <1>10 DEF CameraStarts
  <2> QED
    BY <1>0, <2>1 DEF Locals
<1>11. CASE AcceptFails \/ ReadFails
  BY <1>1, <1>11 DEF AcceptFails, ReadFails
<1>12. ASSUME NEW c \in Clients, Client(c)
       PROVE  Locals'
  BY <1>1, <1>12 DEF Client, Connect, Return, Close, Crash, Break, Invoke, server
<1> QED
  BY <1>2, <1>3, <1>4, <1>5, <1>6, <1>7, <1>8, <1>9, <1>10, <1>11, <1>12 DEF Next, Server

\* Every step keeps them.
LEMMA TypedNext == Typed /\ Inv /\ [Next]_vars => Typed'
<1> SUFFICES ASSUME Typed, Inv, [Next]_vars  PROVE Typed'
  OBVIOUS
<1>1. CASE Next
  <2>1. Where
    BY DEF Inv
  <2>2. SP!IInv'
    BY <1>1, <2>1, FirmwareKept
  <2>3. Reading'
    BY <1>1, <2>1, <2>2, ReadingKept
  <2>4. Wires' /\ Sockets' /\ Locals'
    BY <1>1, <2>1, <2>2, WiresKept, SocketsKept, LocalsKept
  <2> QED
    BY <2>2, <2>3, <2>4 DEF Typed
<1>2. CASE UNCHANGED vars
  <2>1. UNCHANGED <<pc, phase, todo, cmd, flag, i, j, sock, backlog, camera, link, up, nacks>>
        /\ UNCHANGED firmware
    BY <1>2 DEF vars, server, clients, bounds
  <2>2. SP!IInv'
    BY <2>1, FirmwareStays DEF Typed
  <2>3. Reading' /\ Wires' /\ Sockets' /\ Locals'
    BY <2>1 DEF firmware, Typed, Reading, Whole, Wires, Sockets, Locals
  <2> QED
    BY <2>2, <2>3 DEF Typed
<1> QED
  BY <1>1, <1>2

\* So they hold always: what the theorems below are read from.
LEMMA TypedAlways == Spec => []Typed
BY TypedInit, TypedNext, Invariance, PTL DEF Spec

\* Every variable keeps its type; i, with which cmd is written, stays inside its
\* 16 bytes however an exchange with the firmware goes, and j too.
THEOREM TypeCorrect == Spec => []TypeOK
<1>1. Typed /\ Inv => TypeOK
  <2> SUFFICES ASSUME Typed, Inv  PROVE TypeOK
    OBVIOUS
  <2>1. IO!TypeOK
    BY FirmwareFacts DEF Typed
  <2> QED
    BY <2>1 DEF TypeOK, Typed, Reading, Wires, Sockets, Locals, Inv, Where
<1> QED
  BY <1>1, TypedAlways, Invariance, PTL

\* Whatever phones send and however the bus fails, no command takes a register
\* or the output behind it out of its range.
THEOREM RangesKept == Spec => []IO!RegistersInRange
<1>1. Typed => IO!RegistersInRange
  BY FirmwareFacts DEF Typed
<1> QED
  BY <1>1, TypedAlways, PTL

\* What the server reads is the beginning of the answer the firmware owes to
\* the last command that reached it.
THEOREM AnswersOwed == Spec => [](IO!ProgressAgrees /\ IO!ReplyIsOwed)
<1>1. Typed => IO!ProgressAgrees /\ IO!ReplyIsOwed
  BY FirmwareFacts DEF Typed
<1> QED
  BY <1>1, TypedAlways, PTL

================================================================================
