---------------------------- MODULE SuperIOProofs ----------------------------
(****************************************************************************)
(* Theorems of SuperIO, for every pair of pulse limits the assumptions      *)
(* allow and every set of parsed commands.                                  *)
(*                                                                          *)
(* The argument: Register, Accepts and Width are case analyses over the     *)
(* five registers (lemmas RegisterNamed, WidthBounds, AcceptedInRange).     *)
(* Types and ranges are each inductive together with nothing but types.     *)
(* ReplyIsOwed is not: which byte sendI2c writes next depends on i2c_ret    *)
(* and get_bytes_c, which byte is owed depends on the length of the reply,  *)
(* and ProgressAgrees is what ties the two together.                        *)
(****************************************************************************)
EXTENDS SuperIO, TLAPS

\* What receiveI2c and sendI2c keep true together.
IInv == TypeOK /\ RegistersInRange /\ ProgressAgrees /\ ReplyIsOwed

----------------------------------------------------------------------------
\* A device and a type name one of the five registers, or none.
LEMMA RegisterNamed ==
  ASSUME NEW d, NEW t
  PROVE  Register(d, t) \in Registers \cup {"none"}
BY DEF Register, Registers

\* An answer has one, three or four digits.
LEMMA WidthBounds ==
  ASSUME NEW r \in Registers
  PROVE  Width(r) \in {1, 3, 4}
BY DEF Width

\* The values receiveI2c accepts for a register are in the register's range.
LEMMA AcceptedInRange ==
  ASSUME NEW r \in Registers, NEW v \in Int, Accepts(r, v)
  PROVE  /\ r \in {"led_en", "servo_en"} => v \in 0..1
         /\ r = "led_pwm" => v \in 0..255
         /\ r \in {"servo_pwm_x", "servo_pwm_y"} => Pulse(v)
BY DEF Registers, Accepts

\* An int is an integer.
LEMMA Int16IsInt == Int16s \subseteq Int
BY DEF Int16s

DigitChars == {"0", "1", "2", "3", "4", "5", "6", "7", "8", "9"}

\* itoa of a digit gives a character.
LEMMA DigitIsChar ==
  ASSUME NEW n \in Int, NEW d \in {1, 10, 100, 1000}
  PROVE  DigitAt(n, d) \in DigitChars
<1> DEFINE m == n \div d
           k == (m % 10) + 1
<1>1. m \in Int
  BY Z3
<1>2. k \in 1..10
  <2> HIDE DEF m
  <2>1. m % 10 \in 0..9
    BY <1>1
  <2>2. QED
    BY <2>1
<1>3. Char[k] \in DigitChars
  <2> HIDE DEF k
  <2>1. QED
    BY <1>2 DEF Char, DigitChars
<1>4. QED
  BY <1>3 DEF DigitAt

\* The divider is a power of ten as long as there is a digit to send.
LEMMA DividerIsPower ==
  ASSUME NEW n \in 1..4
  PROVE  Divider[n] \in {1, 10, 100, 1000}
BY DEF Divider

\* The letters of a header are bytes of a reply.
LEMMA LetterIsByte ==
  ASSUME NEW x \in Devices \cup Types
  PROVE  Letter(x) \in ReplyBytes
BY DEF Devices, Types, Letter, ReplyBytes

\* Recording a byte keeps the reply a sequence of bytes.
LEMMA WireWriteTyped ==
  ASSUME reply \in Seq(ReplyBytes), NEW b \in ReplyBytes, WireWrite(b)
  PROVE  reply' \in Seq(ReplyBytes)
BY DEF WireWrite

----------------------------------------------------------------------------
\* A parsed command is dispatched to exactly typed results.
LEMMA ReceiveTyped ==
  ASSUME TypeOK, NEW p \in Parsed, ReceiveI2c(p)
  PROVE  TypeOK'
<1> USE DEF TypeOK
<1>1. p \in ParseResults /\ p.v0 \in Int16s /\ p.v1 \in Int16s
  BY ParsedAssumption DEF ParseResults
<1>2. device' \in Devices /\ type' \in Types
  BY <1>1 DEF ReceiveI2c, Named, ParseResults
<1>3. CASE GetRegister(p)
  <2>1. Register(p.device, p.type) \in Registers
    BY <1>3, RegisterNamed DEF GetRegister
  <2>2. get_bytes_c' \in 0..4
    BY <1>3, <2>1, WidthBounds DEF GetRegister
  <2>3. QED
    BY <1>2, <1>3, <2>1, <2>2 DEF GetRegister, Answer
<1>4. CASE SetRegister(p)
  <2>1. Register(p.device, p.type) \in Registers
    BY <1>4, RegisterNamed DEF SetRegister
  <2>2. reg' \in [Registers -> Int16s] /\ out' \in [Registers -> Int16s]
    BY <1>1, <1>4, <2>1 DEF SetRegister
  <2>3. QED
    BY <1>2, <1>4, <2>2 DEF SetRegister, Answer
<1>5. CASE SetBothAxes(p)
  <2>1. reg' \in [Registers -> Int16s] /\ out' \in [Registers -> Int16s]
    BY <1>1, <1>5 DEF SetBothAxes, Registers
  <2>2. /\ i2c_ret' \in {"S", "F"}
        /\ asked' \in {"ack", "fail"}
        /\ reply' = <<>>
        /\ get_bytes_c' = get_bytes_c
    BY <1>5 DEF SetBothAxes, Answer
  <2>3. QED
    BY <1>2, <2>1, <2>2
<1>6. CASE RejectCommand(p)
  BY <1>2, <1>6 DEF RejectCommand, Reject, Answer
<1>7. QED
  BY <1>3, <1>4, <1>5, <1>6 DEF ReceiveI2c

\* A command is accepted only with values in range.
LEMMA ReceiveInRange ==
  ASSUME TypeOK, RegistersInRange, NEW p \in Parsed, ReceiveI2c(p)
  PROVE  RegistersInRange'
<1>1. p.v0 \in Int /\ p.v1 \in Int
  BY ParsedAssumption, Int16IsInt DEF ParseResults
<1>2. CASE GetRegister(p)
  BY <1>2 DEF GetRegister, RegistersInRange
<1>3. CASE SetRegister(p)
  <2> DEFINE r == Register(p.device, p.type)
  <2>1. r \in Registers /\ Accepts(r, p.v0)
    BY <1>3, RegisterNamed DEF SetRegister
  <2>2. /\ reg' = [reg EXCEPT ![r] = p.v0]
        /\ out' = [out EXCEPT ![r] = p.v0]
    BY <1>3 DEF SetRegister
  <2> HIDE DEF r
  <2>3. /\ r \in {"led_en", "servo_en"} => p.v0 \in 0..1
        /\ r = "led_pwm" => p.v0 \in 0..255
        /\ r \in {"servo_pwm_x", "servo_pwm_y"} => Pulse(p.v0)
    BY <1>1, <2>1, AcceptedInRange
  <2>4. \A q \in Registers : reg'[q] = IF q = r THEN p.v0 ELSE reg[q]
    BY <2>1, <2>2 DEF TypeOK
  <2>5. out' = reg'
    BY <2>2 DEF RegistersInRange
  <2>6. QED
    BY <2>3, <2>4, <2>5 DEF RegistersInRange, Registers, Pulse
<1>4. CASE SetBothAxes(p)
  <2>1. out' = reg'
    BY <1>4 DEF SetBothAxes, RegistersInRange
  <2>2. /\ reg'["servo_pwm_x"] = IF Pulse(p.v0) THEN p.v0 ELSE reg["servo_pwm_x"]
        /\ reg'["servo_pwm_y"] = IF Pulse(p.v1) THEN p.v1 ELSE reg["servo_pwm_y"]
        /\ \A q \in {"led_en", "led_pwm", "servo_en"} : reg'[q] = reg[q]
    BY <1>4 DEF SetBothAxes, TypeOK, Registers
  <2>3. QED
    BY <2>1, <2>2 DEF RegistersInRange, Pulse
<1>5. CASE RejectCommand(p)
  BY <1>5 DEF RejectCommand, Reject, RegistersInRange
<1>6. QED
  BY <1>2, <1>3, <1>4, <1>5 DEF ReceiveI2c

\* A command starts an answer of which nothing has been sent.
LEMMA ReceiveStartsAnswer ==
  ASSUME TypeOK, NEW p \in Parsed, ReceiveI2c(p)
  PROVE  ProgressAgrees' /\ reply' = <<>>
<1>1. reply' = <<>> /\ Len(reply') = 0
  BY DEF ReceiveI2c, GetRegister, SetRegister, SetBothAxes, RejectCommand,
         Reject, Answer
<1>2. CASE GetRegister(p)
  <2>1. device' = p.device /\ type' = p.type
    BY <1>2, ParsedAssumption DEF GetRegister, ReceiveI2c, Named
  <2>2. /\ asked' = Register(device', type')
        /\ asked' \in Registers
        /\ i2c_ret' = "G"
        /\ get_bytes_c' = Width(asked')
    BY <1>2, <2>1, RegisterNamed DEF GetRegister, Answer
  <2>3. QED
    BY <1>1, <2>2 DEF ProgressAgrees
<1>3. CASE asked' = "ack" /\ i2c_ret' = "S"
  BY <1>1, <1>3 DEF ProgressAgrees, Registers
<1>4. CASE asked' = "fail" /\ i2c_ret' = "F"
  BY <1>1, <1>4 DEF ProgressAgrees, Registers
<1>5. QED
  BY <1>2, <1>3, <1>4
  DEF ReceiveI2c, SetRegister, SetBothAxes, RejectCommand, Reject, Answer

----------------------------------------------------------------------------
\* The letters of the answer name the register that was asked for.
LEMMA HeaderLetters ==
  ASSUME NEW d \in Devices, NEW t \in Types, Register(d, t) \in Registers
  PROVE  /\ Letter(d) = IF Register(d, t) \in {"led_en", "led_pwm"} THEN "L" ELSE "S"
         /\ Letter(t) = CASE Register(d, t) \in {"led_en", "servo_en"} -> "E"
                          [] Register(d, t) = "led_pwm"                -> "P"
                          [] Register(d, t) = "servo_pwm_x"            -> "X"
                          [] Register(d, t) = "servo_pwm_y"            -> "Y"
BY DEF Devices, Types, Registers, Register, Letter

\* Every answer has between 2 and 8 bytes.
LEMMA OwedLengthBounds ==
  ASSUME TypeOK
  PROVE  /\ OwedLength \in 2..8
         /\ asked \in Registers => OwedLength = 4 + Width(asked)
                                  /\ Width(asked) \in 1..4
BY WidthBounds DEF TypeOK, OwedLength

\* The digits of a register's value.
LEMMA OwedDigit ==
  ASSUME TypeOK, asked \in Registers, NEW n \in 1..Width(asked)
  PROVE  /\ OwedByte(OwedLength - n) = DigitAt(reg[asked], Divider[n])
         /\ DigitAt(reg[asked], Divider[n]) \in DigitChars
<1>1. /\ OwedLength = 4 + Width(asked)
      /\ Width(asked) \in 1..4
      /\ n \in 1..4
  BY OwedLengthBounds
<1>2. reg[asked] \in Int
  BY Int16IsInt DEF TypeOK
<1>3. DigitAt(reg[asked], Divider[n]) \in DigitChars
  BY <1>1, <1>2, DividerIsPower, DigitIsChar
<1>4. OwedLength - n >= 4 /\ OwedLength - n # OwedLength
      /\ OwedLength - (OwedLength - n) = n
  BY <1>1
<1>5. QED
  BY <1>3, <1>4 DEF OwedByte

\* Only the last byte of an answer is NUL, and all of them are bytes.
LEMMA OwedByteKinds ==
  ASSUME TypeOK, NEW k \in 1..OwedLength
  PROVE  OwedByte(k) \in ReplyBytes /\ (OwedByte(k) = "NUL" <=> k = OwedLength)
<1>1. OwedLength \in 2..8
  BY OwedLengthBounds
<1>2. CASE k = OwedLength
  BY <1>2 DEF OwedByte, ReplyBytes
<1>3. CASE k # OwedLength /\ asked \notin Registers
  BY <1>3 DEF OwedByte, ReplyBytes
<1>4. CASE k # OwedLength /\ asked \in Registers /\ k < 4
  <2>1. k \in 1..3
    BY <1>1, <1>4
  <2>2. QED
    BY <1>4, <2>1 DEF OwedByte, ReplyBytes, Registers
<1>5. CASE k # OwedLength /\ asked \in Registers /\ k >= 4
  <2>1. OwedLength - k \in 1..Width(asked) /\ k = OwedLength - (OwedLength - k)
    BY <1>1, <1>5, OwedLengthBounds
  <2>2. OwedByte(k) \in DigitChars
    BY <1>5, <2>1, OwedDigit
  <2>3. QED
    BY <1>5, <2>2 DEF DigitChars, ReplyBytes
<1>6. QED
  BY <1>1, <1>2, <1>3, <1>4, <1>5

\* The next byte of the answer, and nothing once its NUL has been recorded.
WritesNext ==
  IF Len(reply) = OwedLength THEN reply' = reply
  ELSE reply' = Append(reply, OwedByte(Len(reply) + 1))

\* A reply that is a beginning of the answer ends in NUL only when it is whole.
LEMMA WriteOwed ==
  ASSUME TypeOK, ReplyIsOwed, NEW b \in ReplyBytes, WireWrite(b),
         Len(reply) # OwedLength => b = OwedByte(Len(reply) + 1)
  PROVE  WritesNext
<1>1. Len(reply) \in 0..OwedLength /\ OwedLength \in 2..8
  BY OwedLengthBounds DEF TypeOK, ReplyIsOwed
<1>2. CASE Len(reply) = 0
  <2>1. reply = <<>>
    BY <1>2 DEF TypeOK
  <2>2. QED
    BY <1>1, <1>2, <2>1 DEF WireWrite, WritesNext
<1>3. CASE Len(reply) # 0
  <2>1. Len(reply) \in 1..OwedLength
    BY <1>1, <1>3
  <2>2. reply[Len(reply)] = "NUL" <=> Len(reply) = OwedLength
    BY <2>1, OwedByteKinds DEF ReplyIsOwed
  <2>3. reply # <<>>
    BY <1>3
  <2>4. QED
    BY <2>2, <2>3 DEF WireWrite, WritesNext
<1>4. QED
  BY <1>2, <1>3

\* A byte that is recorded makes the reply longer by one, and stays right.
LEMMA WriteGrows ==
  ASSUME TypeOK, ReplyIsOwed, WritesNext, Len(reply) # OwedLength
  PROVE  Len(reply') = Len(reply) + 1
<1> DEFINE b == OwedByte(Len(reply) + 1)
<1>1. Len(reply) + 1 \in 1..OwedLength
  BY OwedLengthBounds DEF TypeOK, ReplyIsOwed
<1>2. b \in ReplyBytes
  BY <1>1, OwedByteKinds
<1>3. reply \in Seq(ReplyBytes) /\ reply' = Append(reply, b)
  BY DEF TypeOK, WritesNext
<1> HIDE DEF b
<1>4. QED
  BY <1>2, <1>3

\* Sending the header: R, then the two letters.
LEMMA HeaderStep ==
  ASSUME IInv, SendI2c, SendHeader
  PROVE  WritesNext /\ ProgressAgrees'
<1> USE DEF IInv
<1>1. asked \in Registers /\ asked' = asked
  BY DEF SendI2c, SendHeader, ProgressAgrees
<1>2. /\ OwedLength = 4 + Width(asked) /\ Width(asked) \in 1..4
      /\ OwedLength \in 2..8
  BY <1>1, OwedLengthBounds
<1>3. device \in Devices /\ type \in Types /\ Register(device, type) = asked
  BY <1>1 DEF TypeOK, ProgressAgrees
<1>4. UNCHANGED <<device, type, get_bytes_c>>
  BY DEF SendI2c, SendHeader
<1>5. CASE i2c_ret = "G"
  <2>1. Len(reply) = 0 /\ get_bytes_c = Width(asked)
    BY <1>1, <1>5 DEF ProgressAgrees
  <2>2. WireWrite("R") /\ i2c_ret' = "D"
    BY <1>5 DEF SendHeader
  <2>3. "R" \in ReplyBytes /\ OwedByte(1) = "R"
    BY <1>1, <1>2 DEF ReplyBytes, OwedByte
  <2>4. WritesNext
    BY <2>1, <2>2, <2>3, WriteOwed
  <2>5. Len(reply') = 1
    BY <1>2, <2>1, <2>4, WriteGrows
  <2>6. QED
    BY <1>1, <1>3, <1>4, <2>1, <2>2, <2>4, <2>5 DEF ProgressAgrees
<1>6. CASE i2c_ret = "D"
  <2>1. Len(reply) = 1 /\ get_bytes_c = Width(asked)
    BY <1>1, <1>6 DEF ProgressAgrees
  <2>2. WireWrite(Letter(device)) /\ i2c_ret' = "W"
    BY <1>6 DEF SendHeader
  <2>3. Letter(device) \in ReplyBytes /\ OwedByte(2) = Letter(device)
    BY <1>1, <1>2, <1>3, HeaderLetters, LetterIsByte DEF OwedByte
  <2>4. WritesNext
    BY <2>1, <2>2, <2>3, WriteOwed
  <2>5. Len(reply') = 2
    BY <1>2, <2>1, <2>4, WriteGrows
  <2>6. QED
    BY <1>1, <1>3, <1>4, <2>1, <2>2, <2>4, <2>5 DEF ProgressAgrees
<1>7. CASE i2c_ret = "W"
  <2>1. Len(reply) = 2 /\ get_bytes_c = Width(asked)
    BY <1>1, <1>7 DEF ProgressAgrees
  <2>2. WireWrite(Letter(type)) /\ i2c_ret' = "B"
    BY <1>7 DEF SendHeader
  <2>3. Letter(type) \in ReplyBytes /\ OwedByte(3) = Letter(type)
    <3>1. Letter(type) = CASE asked \in {"led_en", "servo_en"} -> "E"
                           [] asked = "led_pwm"                -> "P"
                           [] asked = "servo_pwm_x"            -> "X"
                           [] asked = "servo_pwm_y"            -> "Y"
      BY <1>1, <1>3, HeaderLetters
    <3>2. 3 # OwedLength
      BY <1>2
    <3>3. OwedByte(3) = Letter(type)
      BY <1>1, <3>1, <3>2 DEF OwedByte, Registers
    <3>4. QED
      BY <1>3, <3>3, LetterIsByte
  <2>4. WritesNext
    BY <2>1, <2>2, <2>3, WriteOwed
  <2>5. Len(reply') = 3
    BY <1>2, <2>1, <2>4, WriteGrows
  <2>6. get_bytes_c' \in 1..Width(asked)
        /\ 3 = 3 + Width(asked) - get_bytes_c'
    BY <1>2, <1>4, <2>1
  <2>7. QED
    BY <1>1, <1>3, <1>4, <2>2, <2>4, <2>5, <2>6 DEF ProgressAgrees
<1>8. QED
  BY <1>5, <1>6, <1>7 DEF SendHeader

\* Sending a digit: the one get_bytes_c points at, until none is left.
LEMMA DigitStep ==
  ASSUME IInv, SendI2c, SendDigit
  PROVE  WritesNext /\ ProgressAgrees' /\ get_bytes_c' \in 0..4
<1> USE DEF IInv
<1>1. asked \in Registers /\ asked' = asked
  BY DEF SendI2c, SendDigit, ProgressAgrees
<1>2. /\ Register(device, type) = asked /\ asked # "none"
      /\ get_bytes_c \in 1..Width(asked)
      /\ Len(reply) = 3 + Width(asked) - get_bytes_c
  BY <1>1 DEF SendDigit, ProgressAgrees, Registers
<1>3. /\ OwedLength = 4 + Width(asked) /\ OwedLength' = OwedLength
      /\ Width(asked) \in 1..4
  BY <1>1, OwedLengthBounds DEF OwedLength
<1>4. Len(reply) + 1 = OwedLength - get_bytes_c /\ Len(reply) # OwedLength
  BY <1>2, <1>3
<1>5. /\ WireWrite(DigitAt(reg[asked], Divider[get_bytes_c]))
      /\ get_bytes_c' = get_bytes_c - 1
      /\ i2c_ret' = IF get_bytes_c = 1 THEN "0" ELSE "B"
  BY <1>2 DEF SendDigit
<1>6. /\ OwedByte(Len(reply) + 1) = DigitAt(reg[asked], Divider[get_bytes_c])
      /\ DigitAt(reg[asked], Divider[get_bytes_c]) \in ReplyBytes
  BY <1>1, <1>2, <1>4, OwedDigit DEF DigitChars, ReplyBytes
<1>7. WritesNext
  BY <1>5, <1>6, WriteOwed
<1>8. Len(reply') = 4 + Width(asked) - get_bytes_c
  BY <1>2, <1>3, <1>4, <1>7, WriteGrows
<1>9. UNCHANGED <<device, type>>
  BY DEF SendI2c
<1>10. CASE get_bytes_c = 1
  BY <1>1, <1>2, <1>3, <1>5, <1>7, <1>8, <1>9, <1>10 DEF ProgressAgrees
<1>11. CASE get_bytes_c # 1
  <2>1. /\ get_bytes_c' \in 1..Width(asked)
        /\ Len(reply') = 3 + Width(asked) - get_bytes_c'
        /\ i2c_ret' = "B"
    BY <1>2, <1>3, <1>5, <1>8, <1>11
  <2>2. QED
    BY <1>1, <1>2, <1>3, <1>7, <1>9, <2>1 DEF ProgressAgrees
<1>12. QED
  BY <1>10, <1>11

\* Sending the T or F of a command that is not a Get.
LEMMA ResultStep ==
  ASSUME IInv, SendI2c, SendResult
  PROVE  WritesNext /\ ProgressAgrees'
<1> USE DEF IInv
<1>1. /\ asked \in {"ack", "fail"} /\ asked' = asked /\ asked \notin Registers
      /\ Len(reply) = 0
      /\ asked = "ack" <=> i2c_ret = "S"
  BY DEF SendI2c, SendResult, ProgressAgrees, TypeOK, Registers
<1>2. OwedLength = 2
  BY <1>1 DEF OwedLength
<1>3. WireWrite(IF i2c_ret = "S" THEN "T" ELSE "F") /\ i2c_ret' = "0"
  BY DEF SendResult
<1>4. /\ OwedByte(1) = IF i2c_ret = "S" THEN "T" ELSE "F"
      /\ OwedByte(1) \in ReplyBytes
  BY <1>1, <1>2 DEF OwedByte, ReplyBytes
<1>5. WritesNext
  BY <1>1, <1>3, <1>4, WriteOwed
<1>6. Len(reply') = 1
  BY <1>1, <1>2, <1>5, WriteGrows
<1>7. QED
  BY <1>1, <1>3, <1>5, <1>6 DEF ProgressAgrees

\* Sending the NUL, and sending it again.
LEMMA EndStep ==
  ASSUME IInv, SendI2c, SendEnd
  PROVE  WritesNext /\ ProgressAgrees'
<1> USE DEF IInv
<1>1. /\ i2c_ret = "0" /\ i2c_ret' = "0" /\ WireWrite("NUL")
      /\ UNCHANGED <<device, type, get_bytes_c, asked>>
  BY DEF SendI2c, SendEnd
<1>2. OwedLength \in 2..8 /\ OwedLength' = OwedLength
  BY <1>1, OwedLengthBounds DEF OwedLength
<1>3. Len(reply) \in OwedLength - 1..OwedLength
  <2>1. CASE asked \in Registers
    <3>1. OwedLength = 4 + Width(asked) /\ Width(asked) \in 1..4
      BY <2>1, OwedLengthBounds
    <3>2. Len(reply) \in 3 + Width(asked)..OwedLength
      BY <1>1, <2>1 DEF ProgressAgrees
    <3>3. QED
      BY <3>1, <3>2
  <2>2. CASE asked \notin Registers
    <3>1. OwedLength = 2
      BY <2>2 DEF OwedLength
    <3>2. Len(reply) \in 1..2
      BY <1>1, <2>2 DEF ProgressAgrees
    <3>3. QED
      BY <3>1, <3>2
  <2>3. QED
    BY <2>1, <2>2
<1>4. OwedByte(OwedLength) = "NUL" /\ "NUL" \in ReplyBytes
  BY DEF OwedByte, ReplyBytes
<1>5. Len(reply) # OwedLength => "NUL" = OwedByte(Len(reply) + 1)
  BY <1>2, <1>3, <1>4
<1>6. WritesNext
  BY <1>1, <1>4, <1>5, WriteOwed
<1>7. Len(reply') = OwedLength
  BY <1>2, <1>3, <1>6, WriteGrows DEF WritesNext
<1>8. CASE asked \in Registers
  <2>1. OwedLength = 4 + Width(asked) /\ Width(asked) \in 1..4
    BY <1>8, OwedLengthBounds
  <2>2. QED
    BY <1>1, <1>2, <1>6, <1>7, <1>8, <2>1 DEF ProgressAgrees
<1>9. CASE asked \notin Registers
  <2>1. OwedLength = 2
    BY <1>9 DEF OwedLength
  <2>2. QED
    BY <1>1, <1>6, <1>7, <1>9, <2>1 DEF ProgressAgrees
<1>10. QED
  BY <1>8, <1>9

----------------------------------------------------------------------------
\* A recorded byte of the answer keeps the reply a beginning of the answer.
LEMMA WriteKeepsReply ==
  ASSUME TypeOK, ReplyIsOwed, WritesNext, UNCHANGED <<asked, reg>>
  PROVE  ReplyIsOwed' /\ reply' \in Seq(ReplyBytes)
<1>1. OwedLength' = OwedLength /\ \A k : OwedByte(k)' = OwedByte(k)
  BY DEF OwedLength, OwedByte
<1>2. /\ OwedLength \in 2..8
      /\ reply \in Seq(ReplyBytes)
      /\ Len(reply) \in 0..OwedLength
      /\ \A k \in 1..Len(reply) : reply[k] = OwedByte(k)
  BY OwedLengthBounds DEF TypeOK, ReplyIsOwed
<1>3. CASE Len(reply) = OwedLength
  BY <1>1, <1>2, <1>3 DEF WritesNext, ReplyIsOwed
<1>4. CASE Len(reply) # OwedLength
  <2> DEFINE b == OwedByte(Len(reply) + 1)
  <2>1. Len(reply) + 1 \in 1..OwedLength
    BY <1>2, <1>4
  <2>2. b \in ReplyBytes
    BY <2>1, OwedByteKinds
  <2>3. reply' = Append(reply, b)
    BY <1>4 DEF WritesNext
  <2>4. /\ reply' \in Seq(ReplyBytes)
        /\ Len(reply') = Len(reply) + 1
        /\ \A k \in 1..Len(reply) : reply'[k] = reply[k]
        /\ reply'[Len(reply) + 1] = b
    <3> HIDE DEF b
    <3>1. QED
      BY <1>2, <2>2, <2>3
  <2>5. \A k \in 1..Len(reply') : reply'[k] = OwedByte(k)
    <3>1. SUFFICES ASSUME NEW k \in 1..Len(reply')
                   PROVE  reply'[k] = OwedByte(k)
      OBVIOUS
    <3>2. k \in 1..Len(reply) \/ k = Len(reply) + 1
      BY <1>2, <2>4
    <3>3. QED
      BY <1>2, <2>4, <3>2
  <2>6. Len(reply') <= OwedLength /\ Len(reply') <= 8
    BY <1>2, <2>1, <2>4
  <2>7. QED
    BY <1>1, <2>4, <2>5, <2>6 DEF ReplyIsOwed
<1>5. QED
  BY <1>3, <1>4

\* A byte sent keeps the invariant.
LEMMA SendKeepsInv ==
  ASSUME IInv, SendI2c
  PROVE  IInv'
<1>1. WritesNext /\ ProgressAgrees' /\ get_bytes_c' \in 0..4
  <2>1. CASE SendDigit
    BY <2>1, DigitStep
  <2>2. CASE SendHeader
    BY <2>2, HeaderStep DEF SendHeader, IInv, TypeOK
  <2>3. CASE SendResult
    BY <2>3, ResultStep DEF SendResult, IInv, TypeOK
  <2>4. CASE SendEnd
    BY <2>4, EndStep DEF SendEnd, IInv, TypeOK
  <2>5. QED
    BY <2>1, <2>2, <2>3, <2>4 DEF SendI2c
<1>2. UNCHANGED <<device, type, reg, out, asked>>
  BY DEF SendI2c
<1>3. ReplyIsOwed' /\ reply' \in Seq(ReplyBytes)
  BY <1>1, <1>2, WriteKeepsReply DEF IInv
<1>4. i2c_ret' \in {"init", "G", "D", "W", "B", "S", "F", "0"}
  BY DEF IInv, TypeOK, SendI2c, SendHeader, SendDigit, SendResult, SendEnd
<1>5. TypeOK'
  BY <1>1, <1>2, <1>3, <1>4 DEF IInv, TypeOK
<1>6. RegistersInRange'
  BY <1>2 DEF IInv, RegistersInRange
<1>7. QED
  BY <1>1, <1>3, <1>5, <1>6 DEF IInv

\* A command received keeps the invariant: it resets the reply.
LEMMA ReceiveKeepsInv ==
  ASSUME IInv, NEW p \in Parsed, ReceiveI2c(p)
  PROVE  IInv'
<1>1. TypeOK' /\ RegistersInRange'
  BY ReceiveTyped, ReceiveInRange DEF IInv
<1>2. ProgressAgrees' /\ reply' = <<>>
  BY ReceiveStartsAnswer DEF IInv
<1>3. OwedLength' \in 2..8
  BY <1>1, WidthBounds DEF TypeOK, OwedLength
<1>4. ReplyIsOwed'
  BY <1>2, <1>3 DEF ReplyIsOwed
<1>5. QED
  BY <1>1, <1>2, <1>4 DEF IInv

----------------------------------------------------------------------------
\* setup() establishes the invariant.
LEMMA InitInv == Init => IInv
<1>1. SUFFICES ASSUME Init PROVE IInv
  OBVIOUS
<1>2. TypeOK
  BY <1>1 DEF Init, TypeOK, Devices, Types, Registers, Int16s, IntMin, IntMax
<1>3. RegistersInRange
  <2>1. /\ reg["led_en"] = 0 /\ reg["led_pwm"] = 255 /\ reg["servo_en"] = 0
        /\ reg["servo_pwm_x"] = 1480 /\ reg["servo_pwm_y"] = 1150
        /\ out = reg
    BY <1>1 DEF Init, Registers
  <2>2. \A n \in {1150, 1480} : SERVO_PULSE_MIN < n /\ n < SERVO_PULSE_MAX
    BY PulseAssumption
  <2>3. QED
    BY <2>1, <2>2 DEF RegistersInRange
<1>4. ProgressAgrees
  BY <1>1 DEF Init, ProgressAgrees, Registers
<1>5. ReplyIsOwed
  BY <1>1, <1>2, OwedLengthBounds DEF Init, ReplyIsOwed
<1>6. QED
  BY <1>2, <1>3, <1>4, <1>5 DEF IInv

\* Every step of the firmware keeps it.
LEMMA NextInv == IInv /\ [Next]_vars => IInv'
<1>1. SUFFICES ASSUME IInv, [Next]_vars PROVE IInv'
  OBVIOUS
<1>2. ASSUME NEW p \in Parsed, ReceiveI2c(p) PROVE IInv'
  BY <1>1, <1>2, ReceiveKeepsInv
<1>3. CASE SendI2c
  BY <1>1, <1>3, SendKeepsInv
<1>4. CASE UNCHANGED vars
  <2>1. TypeOK'
    BY <1>1, <1>4 DEF vars, IInv, TypeOK
  <2>2. RegistersInRange'
    BY <1>1, <1>4 DEF vars, IInv, RegistersInRange
  <2>3. OwedLength' = OwedLength /\ \A k : OwedByte(k)' = OwedByte(k)
    BY <1>4 DEF vars, OwedLength, OwedByte
  <2>4. ProgressAgrees'
    BY <1>1, <1>4, <2>3 DEF vars, IInv, ProgressAgrees
  <2>5. ReplyIsOwed'
    BY <1>1, <1>4, <2>3 DEF vars, IInv, ReplyIsOwed
  <2>6. QED
    BY <2>1, <2>2, <2>4, <2>5 DEF IInv
<1>5. QED
  BY <1>1, <1>2, <1>3, <1>4 DEF Next

\* The invariant holds of the firmware, whatever the bus master does.
THEOREM Invariance == Spec => []IInv
BY InitInv, NextInv, PTL DEF Spec

\* Type correctness; get_bytes_c stays between 0 and 4.
THEOREM TypeCorrect == Spec => []TypeOK
<1>1. IInv => TypeOK
  BY DEF IInv
<1>2. QED
  BY <1>1, Invariance, PTL

\* No command takes a register, or the output behind it, out of its range.
THEOREM RangeSafety == Spec => []RegistersInRange
<1>1. IInv => RegistersInRange
  BY DEF IInv
<1>2. QED
  BY <1>1, Invariance, PTL

\* i2c_ret, get_bytes_c and the bytes sent agree, and no digit is sent for a
\* count of zero.
THEOREM ProgressAgreement == Spec => []ProgressAgrees
<1>1. IInv => ProgressAgrees
  BY DEF IInv
<1>2. QED
  BY <1>1, Invariance, PTL

\* Every byte sendI2c writes is the next one of the answer owed.
THEOREM ReplyCorrect == Spec => []ReplyIsOwed
<1>1. IInv => ReplyIsOwed
  BY DEF IInv
<1>2. QED
  BY <1>1, Invariance, PTL

\* A refused command moves one axis at most: of a pair that is refused, the
\* value that is not a pulse leaves its axis where it was.
THEOREM RefusalBounded == Spec => RefusalMovesOneAxisAtMost
<1> DEFINE changed == {r \in Registers : reg'[r] # reg[r]}
           OneAtMost == \/ changed = {}
                        \/ changed = {"servo_pwm_x"}
                        \/ changed = {"servo_pwm_y"}
<1>1. TypeOK /\ [Next]_vars => (i2c_ret' = "F" => OneAtMost)
  <2>1. SUFFICES ASSUME TypeOK, [Next]_vars, i2c_ret' = "F"
                 PROVE  OneAtMost
    OBVIOUS
  <2>2. CASE reg' = reg
    BY <2>2
  <2>3. ASSUME NEW p \in Parsed, SetBothAxes(p) PROVE OneAtMost
    <3>1. /\ reg'["servo_pwm_x"] = IF Pulse(p.v0) THEN p.v0 ELSE reg["servo_pwm_x"]
          /\ reg'["servo_pwm_y"] = IF Pulse(p.v1) THEN p.v1 ELSE reg["servo_pwm_y"]
          /\ \A q \in {"led_en", "led_pwm", "servo_en"} : reg'[q] = reg[q]
      BY <2>1, <2>3 DEF SetBothAxes, TypeOK, Registers
    <3>2. ~Pulse(p.v0) \/ ~Pulse(p.v1)
      BY <2>1, <2>3 DEF SetBothAxes, Answer
    <3>3. \/ reg'["servo_pwm_x"] = reg["servo_pwm_x"]
          \/ reg'["servo_pwm_y"] = reg["servo_pwm_y"]
      BY <3>1, <3>2
    <3>4. QED
      BY <3>1, <3>3 DEF Registers
  <2>4. QED
    BY <2>1, <2>2, <2>3
    DEF Next, ReceiveI2c, GetRegister, SetRegister, RejectCommand, Reject, Answer,
        SendI2c, vars
<1>2. QED
  BY <1>1, TypeCorrect, PTL DEF Spec, RefusalMovesOneAxisAtMost

=============================================================================
