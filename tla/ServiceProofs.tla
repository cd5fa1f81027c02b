--------------------------- MODULE ServiceProofs ---------------------------
(****************************************************************************)
(* The control path (ControlPath) is the service it promises a phone        *)
(* (ServoService), for any phones, calls, crashes, stops and lost writes;   *)
(* and a move the phone is told has succeeded has moved the head.           *)
(*                                                                          *)
(* The assumptions, under which alone they hold: no read of an answer has   *)
(* failed (nacks = 0; the server does not look at the result of read, and a *)
(* failure leaves a hole in the answer), and a command arrives in at most   *)
(* two pieces (MaxPieces <= 2; the server would put a third one at the      *)
(* length of the second).  What a phone is told also needs that nobody has  *)
(* stopped the server (stops = 0).                                          *)
(*                                                                          *)
(* The argument is the invariant SInv, which follows one call from phone to *)
(* servo and back.  Links: what each connection holds.  Queue: of a phone   *)
(* that waits to be accepted nothing has been read.  Collecting: while the  *)
(* command of the phone being served arrives, what is in cmd and what is    *)
(* still under way are the command together, or come to a command that the  *)
(* firmware refuses.  Serving: from there to the reply the phone waits and  *)
(* nothing of it is under way, and the answer the firmware owes, then the   *)
(* one in cmd, is the answer to its call.  Exchange: the server comes out   *)
(* of every exchange on the bus with the whole answer.                      *)
(****************************************************************************)
EXTENDS ControlPathProofs

--------------------------------------------------------------------------------
(* What a phone sends, and what it is told                                    *)

\* A byte no command begins with.
Bad(b) == b \notin {"G", "S", "LF"}

\* What is on its way from c is the command of its call from byte n + 1 on, or,
\* if the phone died, the beginning of that.
Ahead(c, n) ==
  \E m \in n..Len(Command(call[c])) : up[c] = SubSeq(Command(call[c]), n + 1, m)

\* The server has read nothing of c's call.
Untouched(c) == effect[c] = Waiting => pieces[c] = 0 /\ Ahead(c, 0)

\* What c's method makes of an answer, and what it should.
Told(c, line) ==
  CASE call[c].op = "get"    -> ParseInt(line)
    [] call[c].op = "set"    -> IF line # <<>> /\ line[1] = "T" THEN Yes ELSE Failed
    [] call[c].op = "enable" -> Yes

Due(c) == IF call[c].op = "enable" THEN Yes ELSE effect[c]

\* s is one line, and tells c what its call did.
Answers(c, s) ==
  /\ s \in Seq(Bytes) /\ s # <<>> /\ s[Len(s)] = "LF"
  /\ \A k \in 1..(Len(s) - 1) : s[k] # "LF"
  /\ Told(c, SubSeq(s, 1, Len(s) - 1)) = Due(c)

\* The five results a client can have are different.
LEMMA Results ==
  /\ Waiting # Idle /\ Waiting # Lost /\ Waiting # Yes /\ Waiting # Failed
  /\ Idle # Lost /\ Idle # Yes /\ Idle # Failed
  /\ Lost # Yes /\ Lost # Failed /\ Yes # Failed
  /\ \A n : Service!Value(n) \notin {Waiting, Idle, Lost, Yes, Failed}
BY DEF Waiting, Idle, Lost, Yes, Failed, Service!Value, Service!Waiting, Service!Idle,
       Service!Lost, Service!Yes, Service!Failed

\* A digit is not a letter a command begins with, nor the end of a line.
LEMMA DigitsAreBad ==
  /\ \A b : PP!IsDigit(b) => Bad(b)
  /\ Bad(PP!Comma) /\ Bad("NUL") /\ Bad("T") /\ Bad("F")
  /\ \A b \in {"E", "P", "X", "Y"} : Bad(b)
<1>1. ASSUME NEW b, PP!IsDigit(b)
      PROVE  b \notin {"G", "S", "LF"}
  BY <1>1 DEF PP!IsDigit, PP!Digit
<1>2. PP!Comma \notin {"G", "S", "LF"}
  BY Zenon DEF PP!Comma
<1> QED
  BY <1>1, <1>2 DEF Bad

\* The text of a move after its head: digits and a comma.
LEMMA SetShape ==
  ASSUME NEW x, PP!FourDigits(x), NEW y, PP!FourDigits(y)
  PROVE  /\ SetText(x, y)[1] = "S"
         /\ \A k \in 3..Len(SetText(x, y)) : Bad(SetText(x, y)[k])
<1> DEFINE m == SetText(x, y)
           u == Decimal(x)
           v == Decimal(y)
<1>1. /\ m \in Seq(Bytes) /\ Len(m) = 4 + Len(u) + Len(v)
      /\ m[1] = "S" /\ m[2] = "S" /\ m[3] = "P" /\ m[4 + Len(u)] = PP!Comma
      /\ \A k \in 1..Len(u) : m[3 + k] = u[k]
      /\ \A k \in 1..Len(v) : m[4 + Len(u) + k] = v[k]
  BY SetTextParts
<1>2. /\ Len(u) \in 1..4 /\ \A k \in 1..Len(u) : PP!IsDigit(u[k])
      /\ Len(v) \in 1..4 /\ \A k \in 1..Len(v) : PP!IsDigit(v[k])
  BY DecimalBytes
<1> HIDE DEF m, u, v
<1>3. ASSUME NEW k \in 3..Len(m)
      PROVE  Bad(m[k])
  <2>1. CASE k = 3
    BY <1>1, <2>1, DigitsAreBad
  <2>2. CASE k - 3 \in 1..Len(u)
    <3>1. 3 + (k - 3) = k
      OBVIOUS
    <3>2. m[k] = u[k - 3]
      BY <1>1, <2>2, <3>1
    <3> QED
      BY <1>2, <2>2, <3>2, DigitsAreBad
  <2>3. CASE k = 4 + Len(u)
    BY <1>1, <2>3, DigitsAreBad
  <2>4. CASE k - 4 - Len(u) \in 1..Len(v)
    <3>1. 4 + Len(u) + (k - 4 - Len(u)) = k
      BY <1>2
    <3>2. m[k] = v[k - 4 - Len(u)]
      BY <1>1, <2>4, <3>1
    <3> QED
      BY <1>2, <2>4, <3>2, DigitsAreBad
  <2>5. \/ k = 3 \/ k - 3 \in 1..Len(u) \/ k = 4 + Len(u) \/ k - 4 - Len(u) \in 1..Len(v)
    BY <1>1, <1>2
  <2> QED
    BY <2>1, <2>2, <2>3, <2>4, <2>5
<1> QED
  BY <1>1, <1>3, Zenon DEF m

\* No command but for its two first bytes has a byte a command begins with.
LEMMA TextShape ==
  ASSUME NEW op \in Calls
  PROVE  /\ Text(op)[1] = IF op.op = "get" THEN "G" ELSE "S"
         /\ \A k \in 3..Len(Text(op)) : Bad(Text(op)[k])
<1> DEFINE m == Text(op)
<1>1. CASE IsGet(op)
  <2>1. /\ m \in Seq(Bytes) /\ Len(m) = 3
        /\ m[1] = "G" /\ m[2] = "S" /\ m[3] \in {"X", "Y"}
    BY <1>1, ShortTexts DEF IsGet
  <2> HIDE DEF m
  <2>2. \A k \in 3..Len(m) : k = 3
    BY <2>1
  <2> QED
    BY <1>1, <2>1, <2>2, DigitsAreBad DEF m, IsGet
<1>2. CASE IsEnable(op)
  <2>1. op.en \in {"0", "1"}
    BY <1>2 DEF IsEnable
  <2>2. /\ m \in Seq(Bytes) /\ Len(m) = 4
        /\ m[1] = "S" /\ m[2] = "S" /\ m[3] = "E" /\ m[4] = op.en
    BY <1>2, ShortTexts DEF IsEnable
  <2>3. PP!IsDigit(op.en)
    BY <2>1 DEF PP!IsDigit, PP!Digit
  <2> HIDE DEF m
  <2>4. \A k \in 3..Len(m) : k = 3 \/ k = 4
    BY <2>2
  <2> QED
    BY <1>2, <2>2, <2>3, <2>4, DigitsAreBad DEF m, IsEnable
<1>3. CASE IsSet(op)
  <2>1. PICK x, y : PP!FourDigits(x) /\ PP!FourDigits(y) /\ m = SetText(x, y)
    BY <1>3 DEF IsSet
  <2>2. m[1] = "S" /\ \A k \in 3..Len(m) : Bad(m[k])
    BY <2>1, SetShape, Zenon
  <2> HIDE DEF m
  <2> QED
    BY <1>3, <2>2 DEF m, IsSet
<1> QED
  BY <1>1, <1>2, <1>3, CallKinds

\* The same of the command with its NUL.
LEMMA CommandShape ==
  ASSUME NEW op \in Calls
  PROVE  \A k \in 3..Len(Command(op)) : Bad(Command(op)[k])
<1>1. /\ Len(Command(op)) = Len(Text(op)) + 1
      /\ Len(Text(op)) \in 3..12
      /\ Command(op)[Len(Command(op))] = "NUL"
      /\ \A k \in 1..Len(Text(op)) : Command(op)[k] = Text(op)[k]
  BY CommandTyped, TextTyped
<1>2. ASSUME NEW k \in 3..Len(Command(op))
      PROVE  Bad(Command(op)[k])
  <2>1. k = Len(Command(op)) \/ k \in 3..Len(Text(op))
    BY <1>1
  <2>2. CASE k = Len(Command(op))
    BY <1>1, <2>2, DigitsAreBad
  <2>3. CASE k \in 3..Len(Text(op))
    <3>1. Command(op)[k] = Text(op)[k]
      BY <1>1, <2>3
    <3> QED
      BY <2>3, <3>1, TextShape
  <2> QED
    BY <2>1, <2>2, <2>3
<1> QED
  BY <1>2

\* A byte of the wire is its own upper case.
LEMMA BadByte ==
  ASSUME NEW b \in Bytes, Bad(b)
  PROVE  /\ b # "NUL" => b \notin PP!Blank
         /\ Parser!ToUpper(b) = b /\ ~PP!Method(b)
<1>1. b # " " /\ \A a \in {"g", "s", "l", "e", "p", "x", "y"} : b # a
  BY Zenon DEF Bytes, IO!ReplyBytes
<1>2. b # "NUL" => b \notin PP!Blank
  BY <1>1 DEF PP!Blank, Bad
<1>3. Parser!ToUpper(b) = b /\ PP!ToUpper(b) = b
  BY <1>1 DEF Parser!ToUpper, PP!ToUpper, Parser!LowerCase, PP!LowerCase
<1> QED
  BY <1>2, <1>3 DEF PP!Method, Bad

--------------------------------------------------------------------------------
(* How the server copies a piece into cmd                                     *)

\* The register behind an axis.
Position(axis) == IF axis = "X" THEN "servo_pwm_x" ELSE "servo_pwm_y"

\* What receiveI2c does with each kind of call, and with anything else.
LEMMA GetCarried ==
  ASSUME NEW a \in {"X", "Y"}, NEW p, p.ret = "G", p.flags = 3, p.device = "servo",
         p.type = IF a = "X" THEN "pwm_x" ELSE "pwm_y", IO!ReceiveI2c(p)
  PROVE  asked' = Position(a) /\ reply' = <<>> /\ reg' = reg
<1>1. IO!Register(p.device, p.type) = Position(a) /\ Position(a) # "none"
  BY DEF IO!Register, Position
<1>2. ~IO!SetRegister(p) /\ ~IO!SetBothAxes(p)
  BY DEF IO!SetRegister, IO!SetBothAxes
<1>3. ~IO!RejectCommand(p)
  BY <1>1 DEF IO!RejectCommand
<1>4. IO!GetRegister(p)
  BY <1>2, <1>3 DEF IO!ReceiveI2c
<1> QED
  BY <1>1, <1>4 DEF IO!GetRegister, IO!Answer

\* receiveI2c switches the servos as SSE says, and owes an ack.
LEMMA SwitchCarried ==
  ASSUME NEW v \in {0, 1}, NEW p, p.ret = "S", p.flags = 3, p.device = "servo",
         p.type = "en", p.v0 = v, IO!ReceiveI2c(p)
  PROVE  asked' = "ack" /\ reply' = <<>> /\ reg' = [reg EXCEPT !["servo_en"] = v]
<1>1. IO!Register(p.device, p.type) = "servo_en" /\ IO!Accepts("servo_en", v)
  BY DEF IO!Register, IO!Accepts
<1>2. ~IO!GetRegister(p) /\ ~IO!SetBothAxes(p)
  BY DEF IO!GetRegister, IO!SetBothAxes
<1>3. ~IO!RejectCommand(p)
  BY <1>1 DEF IO!RejectCommand
<1>4. IO!SetRegister(p)
  BY <1>2, <1>3 DEF IO!ReceiveI2c
<1> QED
  BY <1>1, <1>4 DEF IO!SetRegister, IO!Answer

\* receiveI2c sets each position that is a pulse, and acks only if both are.
LEMMA MoveCarried ==
  ASSUME NEW x \in Nat, NEW y \in Nat, DOMAIN reg = IO!Registers,
         NEW p, p.ret = "S", p.flags = 4, p.device = "servo",
         p.type = "pwm", p.v0 = x, p.v1 = y, IO!ReceiveI2c(p)
  PROVE  /\ asked' = IF IO!Pulse(x) /\ IO!Pulse(y) THEN "ack" ELSE "fail"
         /\ reply' = <<>>
         /\ reg'["servo_pwm_x"] = IF IO!Pulse(x) THEN x ELSE reg["servo_pwm_x"]
         /\ reg'["servo_pwm_y"] = IF IO!Pulse(y) THEN y ELSE reg["servo_pwm_y"]
<1>1. ~IO!GetRegister(p) /\ ~IO!SetRegister(p)
  BY DEF IO!GetRegister, IO!SetRegister
<1>2. ~IO!RejectCommand(p)
  BY DEF IO!RejectCommand
<1>3. IO!SetBothAxes(p)
  BY <1>1, <1>2 DEF IO!ReceiveI2c
<1>4. /\ reg' = [reg EXCEPT
                   !["servo_pwm_x"] = IF IO!Pulse(x) THEN x ELSE @,
                   !["servo_pwm_y"] = IF IO!Pulse(y) THEN y ELSE @]
      /\ IF \A v \in {x, y} : IO!Pulse(v) \/ v = -1
         THEN IO!Answer("S", "ack") ELSE IO!Answer("F", "fail")
  BY <1>3 DEF IO!SetBothAxes
<1>5. (\A v \in {x, y} : IO!Pulse(v) \/ v = -1) <=> (IO!Pulse(x) /\ IO!Pulse(y))
  <2>1. x # -1 /\ y # -1
    OBVIOUS
  <2> QED
    BY <2>1, Zenon
<1>6. {"servo_pwm_x", "servo_pwm_y"} \subseteq DOMAIN reg
  BY DEF IO!Registers
<1>7. asked' = (IF IO!Pulse(x) /\ IO!Pulse(y) THEN "ack" ELSE "fail") /\ reply' = <<>>
  BY <1>4, <1>5 DEF IO!Answer
<1>8. /\ reg'["servo_pwm_x"] = IF IO!Pulse(x) THEN x ELSE reg["servo_pwm_x"]
      /\ reg'["servo_pwm_y"] = IF IO!Pulse(y) THEN y ELSE reg["servo_pwm_y"]
  BY <1>4, <1>6
<1> QED
  BY <1>7, <1>8

\* A command the byte loop refuses changes no register, and is owed a fail.
LEMMA RestRejected ==
  ASSUME NEW p, p.ret = "F", IO!ReceiveI2c(p)
  PROVE  asked' = "fail" /\ reply' = <<>> /\ reg' = reg
<1>1. ~IO!GetRegister(p) /\ ~IO!SetRegister(p) /\ ~IO!SetBothAxes(p)
  BY DEF IO!GetRegister, IO!SetRegister, IO!SetBothAxes
<1>2. IO!RejectCommand(p)
  BY <1>1 DEF IO!ReceiveI2c
<1> QED
  BY <1>2 DEF IO!RejectCommand, IO!Reject, IO!Answer

\* A string in cmd that begins with a byte no command begins with.
LEMMA BadText ==
  ASSUME cmd \in [Cells -> Bytes], Bad(cmd[0]), StrLen(cmd) >= 3
  PROVE  /\ Parser!Parse(CString(cmd)).ret = "F"
         /\ Parser!ToUpper(cmd[0]) # "G"
<1> DEFINE m == CString(cmd)
<1>1. StrLen(cmd) \in 3..16 /\ 0 \in Cells /\ 0 < StrLen(cmd)
  BY StrLenIs DEF Cells
<1>2. /\ m \in Seq(Bytes) /\ Len(m) = StrLen(cmd) /\ m[1] = cmd[0]
  <2>1. \A k \in 1..StrLen(cmd) : k - 1 \in Cells
    BY <1>1 DEF Cells
  <2>2. m = [k \in 1..StrLen(cmd) |-> cmd[k - 1]]
    BY Zenon DEF CString
  <2>3. PICK n : n = StrLen(cmd)
    OBVIOUS
  <2>4. n \in Nat /\ n >= 1 /\ m = [k \in 1..n |-> cmd[k - 1]]
    BY <1>1, <2>2, <2>3
  <2>5. \A k \in 1..n : cmd[k - 1] \in Bytes
    BY <2>1, <2>3
  <2> HIDE DEF m
  <2>6. m \in Seq(Bytes) /\ Len(m) = n /\ m[1] = cmd[0]
    BY <2>4, <2>5
  <2> QED
    BY <2>3, <2>6
<1>3. cmd[0] # "NUL" /\ cmd[0] \in Bytes
  BY <1>1, StrLenIs
<1>4. /\ cmd[0] \notin PP!Blank /\ ~PP!Method(cmd[0])
      /\ Parser!ToUpper(cmd[0]) = cmd[0] /\ cmd[0] # "G"
  BY <1>3, BadByte DEF Bad
<1> HIDE DEF m
<1>5. PP!Parse(m).ret = "F"
  BY <1>1, <1>2, <1>4, PP!BadMethodFails
<1> QED
  BY <1>4, <1>5, SameParse DEF m

\* How the copying loop ends: with the piece, out of room, or at a NUL.
AllCopied(piece, new) ==
  /\ \A n \in 1..Len(piece) : piece[n] # "NUL" /\ n - 1 + j <= 15
  /\ new.cmd = Put(cmd, j, piece) /\ new.j = Len(piece) /\ new.done = FALSE

OutOfRoom(piece, new) ==
  \E k \in 0..(Len(piece) - 1) :
    /\ \A n \in 1..k : piece[n] # "NUL"
    /\ k + j > 15
    /\ new.cmd = Put(cmd, j, SubSeq(piece, 1, k)) /\ new.j = 0 /\ new.done = FALSE

AtNul(piece, new) ==
  \E k \in 0..(Len(piece) - 1) :
    /\ \A n \in 1..k : piece[n] # "NUL"
    /\ k + j <= 15 /\ piece[k + 1] = "NUL"
    /\ new.cmd = Put(cmd, j, SubSeq(piece, 1, k + 1)) /\ new.j = 0 /\ new.done = TRUE

\* A piece is copied to its end, to the end of cmd's room, or to its NUL.
LEMMA CopiedCases ==
  ASSUME j \in Cells, NEW piece \in Seq(Bytes), piece # <<>>,
         NEW new, new = Copied(piece)
  PROVE  AllCopied(piece, new) \/ OutOfRoom(piece, new) \/ AtNul(piece, new)
<1> DEFINE S == Stops(piece)
           k == Min(S)
<1>1. Len(piece) \in Nat /\ Len(piece) >= 1 /\ j \in Int
  BY DEF Cells
<1>2. \A n \in 0..(Len(piece) - 1) : n \in S <=> n + j > 15 \/ piece[n + 1] = "NUL"
  BY DEF Stops
<1>3. CASE S = {}
  <2>1. new = [cmd |-> Put(cmd, j, piece), j |-> Len(piece), done |-> FALSE]
    BY <1>3, Zenon DEF Copied
  <2>2. ASSUME NEW n \in 1..Len(piece)
        PROVE  piece[n] # "NUL" /\ n - 1 + j <= 15
    <3>1. n - 1 \in 0..(Len(piece) - 1) /\ n - 1 + 1 = n /\ n - 1 + j \in Int
      BY <1>1
    <3>2. n - 1 \notin S
      BY <1>3
    <3> QED
      BY <1>2, <3>1, <3>2
  <2> QED
    BY <2>1, <2>2 DEF AllCopied
<1>4. CASE S # {}
  <2>1. S \subseteq Nat /\ \A x \in S : x \in 0..(Len(piece) - 1)
    BY DEF Stops
  <2>2. k \in S /\ \A x \in S : k <= x
    BY <1>4, <2>1, MinOf, Zenon
  <2>3. new = IF k + j > 15
          THEN [cmd |-> Put(cmd, j, SubSeq(piece, 1, k)), j |-> 0, done |-> FALSE]
          ELSE [cmd |-> Put(cmd, j, SubSeq(piece, 1, k + 1)), j |-> 0, done |-> TRUE]
    BY <1>4, Zenon DEF Copied
  <2> HIDE DEF S, k
  <2>4. k \in 0..(Len(piece) - 1)
    BY <2>1, <2>2
  <2>5. \A n \in 1..k : piece[n] # "NUL"
    <3>1. ASSUME NEW n \in 1..k, piece[n] = "NUL"
          PROVE  FALSE
      <4>1. n - 1 \in 0..(Len(piece) - 1) /\ n - 1 + 1 = n /\ ~(k <= n - 1)
        BY <1>1, <2>4
      <4>2. n - 1 \in S
        BY <1>2, <3>1, <4>1
      <4> QED
        BY <2>2, <4>1, <4>2
    <3> QED
      BY <3>1
  <2>6. k + j > 15 \/ piece[k + 1] = "NUL"
    BY <1>2, <2>2, <2>4
  <2>7. CASE k + j > 15
    BY <2>3, <2>4, <2>5, <2>7 DEF OutOfRoom
  <2>8. CASE ~(k + j > 15)
    <3>1. k + j <= 15 /\ piece[k + 1] = "NUL"
      BY <1>1, <2>4, <2>6, <2>8
    <3> QED
      BY <2>3, <2>4, <2>5, <2>8, <3>1 DEF AtNul
  <2> QED
    BY <2>7, <2>8
<1> QED
  BY <1>3, <1>4

\* What a string written into cmd leaves there.
LEMMA PutAt ==
  ASSUME NEW b, NEW k, NEW s, NEW n \in Cells
  PROVE  Put(b, k, s)[n] = IF n \in k..(k + Len(s) - 1) THEN s[n - k + 1] ELSE b[n]
BY DEF Put

\* A piece that does not go on where a command left off: its first byte, or
\* the one that is already there, is the first of what the server reads.
LEMMA OtherPiece ==
  ASSUME cmd \in [Cells -> Bytes], j \in Cells,
         NEW piece \in Seq(Bytes), piece # <<>>, NEW new, new = Copied(piece)
  PROVE  /\ j > 0 => new.cmd[0] = cmd[0]
         /\ j = 0 /\ new.done => new.cmd[0] = piece[1]
         /\ new.done => new.j = 0 /\ \E n \in 1..Len(piece) : piece[n] = "NUL"
         /\ \/ new.done
            \/ new.j = Len(piece)
            \/ new.j = 0 /\ Len(piece) + j > 15
         /\ new.done \in BOOLEAN
<1>0. Len(piece) \in Nat /\ Len(piece) >= 1 /\ j \in 0..15 /\ 0 \in Cells
  BY DEF Cells
<1>1. ASSUME NEW s, j > 0
      PROVE  Put(cmd, j, s)[0] = cmd[0]
  <2>1. 0 \notin j..(j + Len(s) - 1)
    BY <1>0, <1>1
  <2> QED
    BY <1>0, <2>1, PutAt
<1>2. CASE AllCopied(piece, new)
  BY <1>1, <1>2 DEF AllCopied
<1>3. ASSUME NEW k \in 0..(Len(piece) - 1), k + j > 15,
             new.cmd = Put(cmd, j, SubSeq(piece, 1, k)), new.j = 0, new.done = FALSE
      PROVE  new.j = 0 /\ Len(piece) + j > 15 /\ (j > 0 => new.cmd[0] = cmd[0])
  BY <1>0, <1>1, <1>3
<1>4. ASSUME NEW k \in 0..(Len(piece) - 1), piece[k + 1] = "NUL",
             new.cmd = Put(cmd, j, SubSeq(piece, 1, k + 1)), new.j = 0, new.done = TRUE
      PROVE  /\ \E n \in 1..Len(piece) : piece[n] = "NUL"
             /\ j > 0 => new.cmd[0] = cmd[0]
             /\ j = 0 => new.cmd[0] = piece[1]
  <2>1. k + 1 \in 1..Len(piece)
    BY <1>0
  <2>2. ASSUME j = 0
        PROVE  new.cmd[0] = piece[1]
    <3> DEFINE s == SubSeq(piece, 1, k + 1)
    <3>1. Len(s) = k + 1 /\ s[1] = piece[1]
      BY <2>1
    <3> HIDE DEF s
    <3>2. 0 \in 0..(0 + Len(s) - 1) /\ 0 - 0 + 1 = 1
      BY <3>1
    <3>3. Put(cmd, 0, s)[0] = s[0 - 0 + 1]
      BY <1>0, <3>2, PutAt
    <3> QED
      BY <1>4, <2>2, <3>1, <3>2, <3>3 DEF s
  <2> QED
    BY <1>1, <1>4, <2>1, <2>2
<1>5. CASE OutOfRoom(piece, new)
  BY <1>3, <1>5 DEF OutOfRoom
<1>6. CASE AtNul(piece, new)
  BY <1>4, <1>6 DEF AtNul
<1> QED
  BY <1>2, <1>5, <1>6, CopiedCases

--------------------------------------------------------------------------------
(* The string in cmd                                                          *)

\* A string in cmd is told by its bytes and the first NUL.
LEMMA CStringIs ==
  ASSUME NEW b, NEW t \in Seq(Bytes), Len(t) \in 0..15,
         \A k \in 1..Len(t) : b[k - 1] = t[k] /\ t[k] # "NUL",
         b[Len(t)] = "NUL"
  PROVE  StrLen(b) = Len(t) /\ CString(b) = t
<1>1. StrLen(b) = Len(t)
  <2>1. PICK s, n : s = StrLen(b) /\ n = Len(t)
    OBVIOUS
  <2>2. s \in 0..16 /\ n \in 0..15 /\ n \in Cells
    BY <2>1, StrLenIs DEF Cells
  <2>3. ASSUME s < n
        PROVE  FALSE
    <3>1. s \in Cells /\ s + 1 \in 1..n /\ (s + 1) - 1 = s
      BY <2>2, <2>3 DEF Cells
    <3>2. b[s] = "NUL"
      BY <2>1, <3>1, StrLenIs
    <3>3. b[(s + 1) - 1] # "NUL"
      BY <2>1, <3>1
    <3> QED
      BY <3>1, <3>2, <3>3
  <2>4. ASSUME n < s
        PROVE  FALSE
    BY <2>1, <2>2, <2>4, StrLenIs
  <2> QED
    BY <2>1, <2>2, <2>3, <2>4
<1>2. CString(b) = [k \in 1..Len(t) |-> b[k - 1]]
  BY <1>1, Zenon DEF CString
<1>3. t = [k \in 1..Len(t) |-> t[k]]
  OBVIOUS
<1> QED
  BY <1>1, <1>2, <1>3

\* The string t is in b up to its byte n.
Holds(b, t, n) == \A k \in 1..n : b[k - 1] = t[k]

\* t is the string u and its NUL, L bytes in all.
Terminated(t, u, L) ==
  /\ Len(t) = L /\ t[L] = "NUL" /\ Len(u) = L - 1
  /\ \A k \in 1..(L - 1) : t[k] = u[k] /\ t[k] # "NUL"

\* piece is the part of t behind its byte m, n bytes long.
Segment(piece, t, m, n) ==
  /\ Len(piece) = n
  /\ \A k \in 1..n : piece[k] = t[m + k]

\* What is in b once a piece of t is, too.
LEMMA PieceHolds ==
  ASSUME NEW b, NEW t, NEW m \in 0..15, NEW n \in 1..16, m + n <= 16,
         Holds(b, t, m), NEW s, Segment(s, t, m, n)
  PROVE  Holds(Put(b, m, s), t, m + n)
<1> SUFFICES ASSUME NEW k \in 1..(m + n)
             PROVE  Put(b, m, s)[k - 1] = t[k]
  BY DEF Holds
<1>1. k - 1 \in Cells
  BY DEF Cells
<1>2. Len(s) = n
  BY DEF Segment
<1>3. CASE k <= m
  <2>1. k - 1 \notin m..(m + Len(s) - 1) /\ k \in 1..m
    BY <1>2, <1>3
  <2>2. b[k - 1] = t[k]
    BY <2>1 DEF Holds
  <2> QED
    BY <1>1, <2>1, <2>2, PutAt
<1>4. CASE k > m
  <2>1. k - 1 \in m..(m + Len(s) - 1) /\ (k - 1) - m + 1 = k - m /\ k - m \in 1..n
        /\ m + (k - m) = k
    BY <1>2, <1>4
  <2>2. Put(b, m, s)[k - 1] = s[k - m]
    BY <1>1, <2>1, PutAt
  <2>3. s[k - m] = t[m + (k - m)]
    BY <2>1 DEF Segment
  <2> QED
    BY <2>1, <2>2, <2>3
<1> QED
  BY <1>3, <1>4

\* The whole of t is in b: b holds the string.
LEMMA WholeString ==
  ASSUME NEW b, NEW t, NEW u \in Seq(Bytes), NEW L \in 4..13,
         Terminated(t, u, L), Holds(b, t, L)
  PROVE  StrLen(b) = L - 1 /\ CString(b) = u
<1>1. L \in 1..L /\ L - 1 \in 3..12 /\ \A k \in 1..(L - 1) : k \in 1..L
  OBVIOUS
<1>2. b[L - 1] = "NUL" /\ \A k \in 1..(L - 1) : b[k - 1] = u[k] /\ u[k] # "NUL"
  BY <1>1 DEF Terminated, Holds
<1>3. PICK h \in 3..12 : h = L - 1 /\ Len(u) = h
  BY <1>1 DEF Terminated
<1>4. Len(u) \in 0..15 /\ b[Len(u)] = "NUL"
      /\ \A k \in 1..Len(u) : b[k - 1] = u[k] /\ u[k] # "NUL"
  BY <1>2, <1>3
<1>5. StrLen(b) = Len(u) /\ CString(b) = u
  BY <1>4, CStringIs
<1> QED
  BY <1>3, <1>5

\* More bytes of the command are in cmd, or all of them.
More(new, t, m) ==
  new.done = FALSE /\ Holds(new.cmd, t, m)

Complete(new, u) ==
  /\ new.done = TRUE /\ new.j = 0
  /\ StrLen(new.cmd) >= 3 /\ CString(new.cmd) = u

\* What is short of the end of a command is short of the end of cmd.
LEMMA WithinCells ==
  ASSUME NEW k \in 0..15, NEW n \in 1..13, NEW L \in 4..13, k + n <= L
  PROVE  k \in 0..12 /\ k \in 0..15 /\ k + n <= 16 /\ n \in 1..16 /\ k + n \in 1..L
OBVIOUS

\* A piece that goes on where the last one left off.
LEMMA NextPiece ==
  ASSUME cmd \in [Cells -> Bytes], j \in Cells,
         NEW t, NEW u \in Seq(Bytes), NEW L \in 4..13, Terminated(t, u, L),
         Holds(cmd, t, j),
         NEW n \in 1..13, j + n <= L,
         NEW piece \in Seq(Bytes), Segment(piece, t, j, n),
         NEW new, new = Copied(piece)
  PROVE  \/ j + n < L /\ More(new, t, j + n) /\ new.j = n
         \/ j + n = L /\ Complete(new, u)
<1>1. j \in 0..12 /\ j \in 0..15 /\ j + n <= 16 /\ n \in 1..16 /\ j + n \in 1..L
  BY WithinCells, Zenon DEF Cells
<1>2. Len(piece) = n /\ piece # <<>>
  BY DEF Segment
<1>3. \A k \in 1..n : j + k \in 1..L /\ (j + k < L => j + k \in 1..(L - 1))
  BY <1>1
<1>4. \A k \in 1..n : piece[k] = "NUL" <=> j + k = L
  BY <1>3 DEF Segment, Terminated
<1>5. CASE AllCopied(piece, new)
  <2>1. \A m \in 1..n : piece[m] # "NUL"
    BY <1>2, <1>5 DEF AllCopied
  <2>2. j + n < L
    <3>1. n \in 1..n
      BY <1>1
    <3>2. j + n # L
      BY <1>4, <2>1, <3>1
    <3> QED
      BY <1>1, <3>2
  <2>3. new.cmd = Put(cmd, j, piece) /\ new.j = n /\ new.done = FALSE
    BY <1>2, <1>5 DEF AllCopied
  <2>4. Holds(new.cmd, t, j + n)
    BY <1>1, <2>3, PieceHolds
  <2> QED
    BY <2>2, <2>3, <2>4 DEF More
<1>6. CASE OutOfRoom(piece, new)
  <2>1. PICK k \in 0..(n - 1) : k + j > 15
    BY <1>2, <1>6 DEF OutOfRoom
  <2>2. FALSE
    BY <1>1, <2>1
  <2> QED
    BY <2>2
<1>7. CASE AtNul(piece, new)
  <2>1. PICK k \in 0..(n - 1) :
          /\ piece[k + 1] = "NUL"
          /\ new.cmd = Put(cmd, j, SubSeq(piece, 1, k + 1)) /\ new.j = 0 /\ new.done = TRUE
    BY <1>2, <1>7 DEF AtNul
  <2>2. k + 1 \in 1..n
    BY <1>1
  <2>3. j + (k + 1) = L
    BY <1>4, <2>1, <2>2
  <2>4. k + 1 = n /\ j + n = L
    BY <1>1, <2>3
  <2>5. SubSeq(piece, 1, k + 1) = piece
    BY <1>2, <2>4
  <2>6. Holds(new.cmd, t, L)
    BY <1>1, <2>1, <2>4, <2>5, PieceHolds
  <2>7. StrLen(new.cmd) = L - 1 /\ CString(new.cmd) = u
    BY <2>6, WholeString
  <2> QED
    BY <2>1, <2>4, <2>7 DEF Complete
<1> QED
  BY <1>2, <1>5, <1>6, <1>7, CopiedCases

\* Every call's command is such a string.
LEMMA CommandTerminated ==
  ASSUME NEW op \in Calls
  PROVE  /\ Len(Command(op)) \in 4..13
         /\ Terminated(Command(op), Text(op), Len(Command(op)))
         /\ Text(op) \in Seq(Bytes)
<1> DEFINE t == Command(op)
           u == Text(op)
<1>1. /\ t \in Seq(Bytes) /\ Len(t) = Len(u) + 1
      /\ Len(t) \in 4..13
      /\ t[Len(t)] = "NUL"
      /\ \A k \in 1..Len(u) : t[k] = u[k] /\ t[k] # "NUL"
  BY CommandTyped
<1>2. u \in Seq(Bytes) /\ Len(u) \in Nat
  BY TextTyped
<1> HIDE DEF t, u
<1>3. PICK L, h \in Nat : L = Len(t) /\ h = Len(u) /\ L = h + 1
  BY <1>1, <1>2
<1>4. L - 1 = h
  BY <1>3
<1>5. Terminated(t, u, Len(t))
  BY <1>1, <1>3, <1>4 DEF Terminated
<1> QED
  BY <1>1, <1>2, <1>5 DEF t, u

--------------------------------------------------------------------------------
(* The line the server sends back                                             *)

\* The bytes of an answer, and that it ends with its first NUL.
LEMMA AnswerBytes ==
  ASSUME SP!IInv
  PROVE  /\ IO!OwedLength \in 2..8
         /\ \A k \in 1..IO!OwedLength : IO!OwedByte(k) = "NUL" <=> k = IO!OwedLength
         /\ Whole <=> Len(reply) = IO!OwedLength
         /\ \A k \in 1..Len(reply) : reply[k] = IO!OwedByte(k)
<1>1. /\ IO!OwedLength \in 2..8 /\ Len(reply) \in 0..IO!OwedLength
      /\ Len(reply) = IO!OwedLength => reply[Len(reply)] = "NUL"
  BY OwedNul
<1>2. IO!ReplyIsOwed /\ reply \in Seq(IO!ReplyBytes)
  BY FirmwareFacts DEF IO!TypeOK
<1>3. \A k \in 1..IO!OwedLength : IO!OwedByte(k) = "NUL" <=> k = IO!OwedLength
  <2>1. SP!TypeOK
    BY DEF SP!IInv
  <2>2. \A k \in 1..SP!OwedLength : SP!OwedByte(k) = "NUL" <=> k = SP!OwedLength
    BY <2>1, SP!OwedByteKinds, SuperIOAssumptions DEF SP!PulseAssumption, SP!ParsedAssumption
  <2> QED
    BY <2>2, SameOwed
<1>4. \A k \in 1..Len(reply) : reply[k] = IO!OwedByte(k)
  BY <1>2 DEF IO!ReplyIsOwed
<1>5. PICK l, n : l = Len(reply) /\ n = IO!OwedLength
  OBVIOUS
<1>6. l \in 0..n /\ n \in 2..8
  BY <1>1, <1>5
<1>7. Whole => l = n
  <2>1. ASSUME Whole
        PROVE  l = n
    <3>1. l # 0
      BY <1>2, <1>5, <2>1 DEF Whole
    <3>2. l \in 1..l /\ l \in 1..n
      BY <1>6, <3>1
    <3>3. IO!OwedByte(l) = "NUL"
      BY <1>4, <1>5, <2>1, <3>2 DEF Whole
    <3> QED
      BY <1>3, <1>5, <3>2, <3>3
  <2> QED
    BY <2>1
<1>8. l = n => Whole
  <2>1. l = n => reply # <<>>
    <3>1. l = n => Len(reply) # 0
      BY <1>5, <1>6
    <3> QED
      BY <3>1
  <2> QED
    BY <1>1, <1>5, <2>1 DEF Whole
<1> QED
  BY <1>1, <1>3, <1>4, <1>5, <1>7, <1>8

\* A string in cmd is as long as its first NUL says.
LEMMA StrLenAt ==
  ASSUME NEW b, NEW n \in Cells, b[n] = "NUL",
         \A k \in Cells : k < n => b[k] # "NUL"
  PROVE  StrLen(b) = n
<1>1. PICK s : s = StrLen(b)
  OBVIOUS
<1>2. s \in 0..16 /\ n \in 0..15
  BY <1>1, StrLenIs DEF Cells
<1>3. ASSUME s < n
      PROVE  FALSE
  <2>1. s \in Cells
    BY <1>2, <1>3 DEF Cells
  <2> QED
    BY <1>1, <1>3, <2>1, StrLenIs
<1>4. ~(n < s)
  BY <1>1, StrLenIs
<1> QED
  BY <1>1, <1>2, <1>3, <1>4

\* The position registers are answered with four digits.
Pulses == {"servo_pwm_x", "servo_pwm_y"}

\* A pulse has at most four digits.
LEMMA NumberOfFour ==
  ASSUME NEW n, n \in Int, NEW l, l \in Int, NEW h, h \in Int,
         0 <= l, h <= 10000, l < n, n < h
  PROVE  PP!FourDigits(n)
BY DEF PP!FourDigits

\* A position is answered by its four digits.
LEMMA PulseNumber ==
  ASSUME SP!IInv, asked \in Pulses
  PROVE  /\ IO!OwedLength = 8 /\ asked \in IO!Registers
         /\ PP!FourDigits(reg[asked])
         /\ \A n \in 1..4 : IO!OwedByte(8 - n) = IO!DigitAt(reg[asked], IO!Divider[n])
<1>1. asked \in IO!Registers /\ IO!Width(asked) = 4
  BY DEF Pulses, IO!Registers, IO!Width
<1>2. IO!OwedLength = 8
  BY <1>1 DEF IO!OwedLength
<1>3. PP!FourDigits(reg[asked])
  <2>1. IO!RegistersInRange /\ IO!TypeOK
    BY FirmwareFacts
  <2>2. SERVO_PULSE_MIN < reg[asked] /\ reg[asked] < SERVO_PULSE_MAX
    BY <2>1 DEF IO!RegistersInRange, Pulses
  <2>3. reg[asked] \in Int
    <3>1. reg[asked] \in IO!Int16s
      BY <1>1, <2>1 DEF IO!TypeOK
    <3>2. IO!Int16s \subseteq Int
      BY DEF IO!Int16s, IO!IntMin, IO!IntMax
    <3> QED
      BY <3>1, <3>2
  <2> HIDE DEF Pulses
  <2>4. PICK n, l, h : n = reg[asked] /\ l = SERVO_PULSE_MIN /\ h = SERVO_PULSE_MAX
    OBVIOUS
  <2>5. n \in Int /\ l \in Int /\ 0 <= l /\ h \in Int /\ h <= 10000 /\ l < n /\ n < h
    <3>1. l \in Int /\ 0 <= l
      BY <2>4, PulseAssumption
    <3>2. h \in Int /\ h <= 10000
      BY <2>4, PulseAssumption
    <3> QED
      BY <2>2, <2>3, <2>4, <3>1, <3>2
  <2>6. PP!FourDigits(n)
    BY <2>5, NumberOfFour
  <2> QED
    BY <2>4, <2>6, Zenon
<1>4. ASSUME NEW n \in 1..4
      PROVE  IO!OwedByte(8 - n) = IO!DigitAt(reg[asked], IO!Divider[n])
  <2>1. 8 - n # 8 /\ 8 - (8 - n) = n /\ 8 - n \notin {1, 2, 3}
    OBVIOUS
  <2> QED
    BY <1>1, <1>2, <2>1 DEF IO!OwedByte
<1> QED
  BY <1>1, <1>2, <1>3, <1>4

\* parseInt of its four digits gives the number back.
LEMMA DigitsParsed ==
  ASSUME NEW n, PP!FourDigits(n), NEW s, Len(s) = 4, s # <<>>,
         \A k \in 1..4 : s[k] = IO!DigitAt(n, IO!Divider[5 - k])
  PROVE  /\ ParseInt(s) = Service!Value(n)
         /\ \A k \in 1..4 : PP!IsDigit(s[k])
<1>1. PICK d : d = [k \in 1..4 |-> (n \div IO!Divider[k]) % 10]
  BY Zenon
<1>0. \A k \in 1..4 : d[k] = (n \div IO!Divider[k]) % 10
  BY <1>1, Zenon
<1>2. /\ IO!Divider[1] = 1 /\ IO!Divider[2] = 10 /\ IO!Divider[3] = 100
      /\ IO!Divider[4] = 1000
  BY DEF IO!Divider
<1>3. /\ d[1] = n % 10 /\ d[2] = (n \div 10) % 10
      /\ d[3] = (n \div 100) % 10 /\ d[4] = (n \div 1000) % 10
  <2>1. n \div 1 = n
    BY DEF PP!FourDigits
  <2>2. 1 \in 1..4 /\ 2 \in 1..4 /\ 3 \in 1..4 /\ 4 \in 1..4
    OBVIOUS
  <2>3. /\ d[1] = (n \div IO!Divider[1]) % 10 /\ d[2] = (n \div IO!Divider[2]) % 10
        /\ d[3] = (n \div IO!Divider[3]) % 10 /\ d[4] = (n \div IO!Divider[4]) % 10
    BY <1>0, <2>2, Zenon
  <2> QED
    BY <1>2, <2>1, <2>3
<1>4. PP!Value(d, 4) = n /\ \A k \in 1..4 : d[k] \in 0..9
  <2>1. n \in Nat /\ n < 10000
    BY DEF PP!FourDigits
  <2> QED
    BY <1>3, <2>1, PP!ValueOfDigits
<1>5. \A k \in 1..4 : s[k] = PP!Digit[d[4 - k + 1] + 1]
  <2>1. \A k \in 1..4 : 4 - k + 1 = 5 - k /\ 5 - k \in 1..4
    OBVIOUS
  <2>2. PP!Digit = IO!Char
    BY DEF PP!Digit, IO!Char
  <2>3. ASSUME NEW k \in 1..4
        PROVE  s[k] = PP!Digit[d[4 - k + 1] + 1]
    <3>1. d[5 - k] = (n \div IO!Divider[5 - k]) % 10
      BY <1>0, <2>1, Zenon
    <3>2. s[k] = IO!Char[((n \div IO!Divider[5 - k]) % 10) + 1]
      BY Zenon DEF IO!DigitAt
    <3>3. s[k] = PP!Digit[d[5 - k] + 1]
      BY <2>2, <3>1, <3>2, Zenon
    <3>4. 4 - k + 1 = 5 - k
      BY <2>1
    <3> QED
      BY <3>3, <3>4, Zenon
  <2> QED
    BY <2>3
<1>6. PP!AllDigits(s) /\ PP!ToInt(s) = n
  <2>1. 4 \in 1..4 /\ Len(s) = 4
    OBVIOUS
  <2> QED
    BY <1>4, <1>5, <2>1, PP!ToIntOfFew
<1>7. \A k \in 1..Len(s) : PP!IsDigit(s[k])
  BY <1>6, Zenon DEF PP!AllDigits
<1>8. \A k \in 1..Len(s) : Parser!IsDigit(s[k])
  <2>1. \A b : PP!IsDigit(b) => Parser!IsDigit(b)
    BY SameTables, Zenon DEF PP!IsDigit, Parser!IsDigit
  <2> QED
    BY <1>7, <2>1
<1>9. Parser!ToInt(s) = n
  BY <1>6, SameToInt, Zenon
<1>10. ParseInt(s) = Service!Value(n)
  <2>1. s # <<>> /\ \A k \in 1..Len(s) : Parser!IsDigit(s[k])
    BY <1>8
  <2> QED
    BY <1>9, <2>1, Zenon DEF ParseInt
<1>11. \A k \in 1..4 : PP!IsDigit(s[k])
  BY <1>7
<1> QED
  BY <1>10, <1>11

\* All but the last of two and of five bytes.
LEMMA FirstOfTwo ==
  ASSUME NEW B, NEW b \in B, NEW a \in B
  PROVE  SubSeq(<<b, a>>, 1, 1) = <<b>>
<1> DEFINE t == SubSeq(<<b, a>>, 1, 1)
<1>1. <<b, a>> \in Seq(B) /\ Len(<<b, a>>) = 2 /\ <<b, a>>[1] = b
  OBVIOUS
<1>2. t \in Seq(B) /\ Len(t) = 1 /\ t[1] = b
  BY <1>1
<1> HIDE DEF t
<1>3. t = <<b>>
  BY <1>2
<1> QED
  BY <1>3 DEF t

\* All but the last of five bytes are the first four.
LEMMA FirstOfFive ==
  ASSUME NEW B, NEW s \in Seq(B), Len(s) = 5
  PROVE  /\ Len(SubSeq(s, 1, 4)) = 4 /\ SubSeq(s, 1, 4) # <<>>
         /\ \A k \in 1..4 : SubSeq(s, 1, 4)[k] = s[k]
         /\ Len(s) - 1 = 4 /\ s # <<>>
<1> DEFINE d == SubSeq(s, 1, 4)
<1>1. Len(d) = 4 /\ \A k \in 1..4 : d[k] = s[k]
  OBVIOUS
<1>2. d # <<>> /\ s # <<>> /\ Len(s) - 1 = 4
  <2> HIDE DEF d
  <2>1. Len(d) # 0 /\ Len(s) # 0 /\ Len(s) - 1 = 4
    BY <1>1
  <2>2. Len(<<>>) = 0
    OBVIOUS
  <2> QED
    BY <2>1, <2>2, Zenon
<1> QED
  BY <1>1, <1>2 DEF d

\* The answer to a Set is T or F; nothing at all reads as F.
LEMMA ShortAnswer ==
  ASSUME NEW c, NEW b \in Bytes, b # "LF", ~PP!IsDigit(b),
         call[c].op \in {"get", "set", "enable"},
         \/ b = "T" /\ effect[c] = Yes /\ call[c].op # "get"
         \/ b # "T" /\ effect[c] = Failed
  PROVE  Answers(c, <<b, "LF">>)
<1> DEFINE s == <<b, "LF">>
<1>1. s \in Seq(Bytes) /\ Len(s) = 2 /\ s[1] = b /\ s[2] = "LF" /\ s # <<>>
  BY BytesAre
<1>2. SubSeq(s, 1, 1) = <<b>>
  BY BytesAre, FirstOfTwo
<1> HIDE DEF s
<1>3. ParseInt(<<b>>) = Failed
  <2>1. ~Parser!IsDigit(b)
    BY SameTables DEF PP!IsDigit, Parser!IsDigit
  <2>2. ~(\A k \in 1..Len(<<b>>) : Parser!IsDigit(<<b>>[k]))
    <3>1. 1 \in 1..Len(<<b>>) /\ <<b>>[1] = b
      OBVIOUS
    <3> QED
      BY <2>1, <3>1
  <2> QED
    BY <2>2, Zenon DEF ParseInt
<1>4. Told(c, <<b>>) = Due(c)
  <2>0. <<b>> # <<>> /\ <<b>>[1] = b
    OBVIOUS
  <2>1. CASE call[c].op = "get"
    BY <1>3, <2>0, <2>1, Results DEF Told, Due
  <2>2. CASE call[c].op = "set"
    BY <2>0, <2>2, Results DEF Told, Due
  <2>3. CASE call[c].op = "enable"
    BY <2>0, <2>3, Results DEF Told, Due
  <2> QED
    BY <2>1, <2>2, <2>3
<1>5. \A k \in 1..(Len(s) - 1) : s[k] # "LF"
  <2>1. \A k \in 1..(2 - 1) : k = 1
    OBVIOUS
  <2> QED
    BY <1>1, <2>1
<1>6. Len(s) - 1 = 1
  BY <1>1
<1>7. Answers(c, s)
  BY <1>1, <1>2, <1>4, <1>5, <1>6 DEF Answers
<1> QED
  BY <1>7 DEF s

\* The answer to a Get is the number.
LEMMA NumberAnswer ==
  ASSUME NEW c, NEW n, PP!FourDigits(n), NEW s \in Seq(Bytes), Len(s) = 5, s[5] = "LF",
         \A k \in 1..4 : s[k] = IO!DigitAt(n, IO!Divider[5 - k]),
         call[c].op = "get", effect[c] = Service!Value(n)
  PROVE  Answers(c, s)
<1> DEFINE d == SubSeq(s, 1, 4)
<1>1. /\ Len(d) = 4 /\ d # <<>> /\ \A k \in 1..4 : d[k] = s[k]
      /\ Len(s) - 1 = 4 /\ s # <<>>
  BY FirstOfFive
<1> HIDE DEF d
<1>2. \A k \in 1..4 : d[k] = IO!DigitAt(n, IO!Divider[5 - k])
  BY <1>1
<1>3. ParseInt(d) = Service!Value(n) /\ \A k \in 1..4 : PP!IsDigit(d[k])
  BY <1>1, <1>2, DigitsParsed
<1>4. \A k \in 1..(Len(s) - 1) : s[k] # "LF"
  <2>1. \A k \in 1..(5 - 1) : k \in 1..4
    OBVIOUS
  <2>2. \A k \in 1..4 : Bad(d[k])
    BY <1>3, DigitsAreBad
  <2> QED
    BY <1>1, <2>1, <2>2 DEF Bad
<1>5. Told(c, d) = Due(c)
  BY <1>3, Zenon DEF Told, Due
<1>7. SubSeq(s, 1, Len(s) - 1) = d
  BY <1>1 DEF d
<1> QED
  BY <1>1, <1>4, <1>5, <1>7 DEF Answers

\* What is in cmd when the exchange for c's call is over: a NUL only, the
\* number asked for, or the result.
Nothing(c) == cmd[0] = "NUL" /\ effect[c] = Failed

Number(c) ==
  /\ flag /\ call[c].op = "get" /\ asked \in Pulses
  /\ effect[c] = Service!Value(reg[asked])

Verdict(c) ==
  /\ ~flag
  /\ \/ asked = "ack" /\ effect[c] = Yes /\ call[c].op # "get"
     \/ asked = "fail" /\ effect[c] = Failed

InCmd == Whole /\ Holds(cmd, reply, Len(reply))

Came(c) == Nothing(c) \/ (InCmd /\ (Number(c) \/ Verdict(c)))

\* None of them begins as a line would, or not with a digit.
LEMMA NoDigits ==
  /\ ~PP!IsDigit("NUL") /\ ~PP!IsDigit("T") /\ ~PP!IsDigit("F")
  /\ {"NUL", "T", "F"} \subseteq Bytes
<1>1. ~PP!IsDigit("NUL") /\ ~PP!IsDigit("T") /\ ~PP!IsDigit("F")
  BY DEF PP!IsDigit, PP!Digit
<1>2. {"NUL", "T", "F"} \subseteq IO!ReplyBytes
  BY DEF IO!ReplyBytes
<1> QED
  BY <1>1, <1>2, BytesAre

\* The line that goes out tells c what its call did, or does not go out.
LEMMA LineAnswers ==
  ASSUME SP!IInv, cmd \in [Cells -> Bytes], flag \in BOOLEAN,
         NEW c, call[c] \in Calls, Came(c)
  PROVE  Line(cmd, flag) = <<>> \/ Answers(c, Line(cmd, flag))
<1>0. call[c].op \in {"get", "set", "enable"}
  BY CallKinds DEF IsGet, IsSet, IsEnable
<1>1. CASE Nothing(c)
  <2>1. StrLen(cmd) = 0
    <3>1. 0 \in Cells /\ \A k \in Cells : ~(k < 0)
      BY DEF Cells
    <3> QED
      BY <1>1, <3>1, StrLenAt DEF Nothing
  <2>2. CASE flag
    <3>1. Line(cmd, flag) = [k \in 1..(0 - 2) |-> IF k + 2 = 0 THEN "LF" ELSE cmd[k + 2]]
      BY <2>1, <2>2, Zenon DEF Line
    <3>2. 1..(0 - 2) = {}
      OBVIOUS
    <3>3. Line(cmd, flag) = <<>>
      BY <3>1, <3>2
    <3> QED
      BY <3>3
  <2>3. CASE ~flag
    <3>1. Line(cmd, flag) = <<cmd[0], "LF">>
      BY <2>3, Zenon DEF Line
    <3>2. Answers(c, <<"NUL", "LF">>)
      BY <1>0, <1>1, NoDigits, ShortAnswer DEF Nothing
    <3> QED
      BY <1>1, <3>1, <3>2 DEF Nothing
  <2> QED
    BY <2>2, <2>3
<1>2. CASE InCmd /\ Number(c)
  <2>1. /\ IO!OwedLength = 8 /\ PP!FourDigits(reg[asked])
        /\ \A n \in 1..4 : IO!OwedByte(8 - n) = IO!DigitAt(reg[asked], IO!Divider[n])
    BY <1>2, PulseNumber DEF Number
  <2>2. /\ Len(reply) = 8
        /\ \A k \in 1..8 : reply[k] = IO!OwedByte(k) /\ (reply[k] = "NUL" <=> k = 8)
    BY <1>2, <2>1, AnswerBytes DEF InCmd, Number
  <2>3. \A k \in 1..8 : cmd[k - 1] = reply[k]
    BY <1>2, <2>2 DEF InCmd, Number, Holds
  <2>4. StrLen(cmd) = 7
    <3>1. 7 \in Cells /\ 8 \in 1..8 /\ 8 - 1 = 7
      BY DEF Cells
    <3>2. ASSUME NEW k \in Cells, k < 7
          PROVE  cmd[k] # "NUL"
      <4>1. k + 1 \in 1..8 /\ (k + 1) - 1 = k /\ k + 1 # 8
        BY <3>2 DEF Cells
      <4>2. reply[k + 1] # "NUL"
        BY <2>2, <4>1
      <4>3. cmd[(k + 1) - 1] = reply[k + 1]
        BY <2>3, <4>1
      <4> QED
        BY <4>1, <4>2, <4>3
    <3>3. cmd[7] = "NUL"
      BY <2>2, <2>3, <3>1
    <3> QED
      BY <3>1, <3>2, <3>3, StrLenAt
  <2> DEFINE s == Line(cmd, flag)
  <2>5. s = [k \in 1..(7 - 2) |-> IF k + 2 = 7 THEN "LF" ELSE cmd[k + 2]]
    BY <1>2, <2>4, Zenon DEF Number, Line
  <2> HIDE DEF s
  <2>6. s = [k \in 1..5 |-> IF k + 2 = 7 THEN "LF" ELSE cmd[k + 2]]
    BY <2>5
  <2>7. \A k \in 1..5 : (IF k + 2 = 7 THEN "LF" ELSE cmd[k + 2]) \in Bytes
    <3>1. \A k \in 1..5 : k + 2 \in Cells
      BY DEF Cells
    <3> QED
      BY <3>1, BytesAre
  <2>8. s \in Seq(Bytes) /\ Len(s) = 5 /\ s[5] = "LF"
    BY <2>6, <2>7
  <2>9. ASSUME NEW k \in 1..4
        PROVE  s[k] = IO!DigitAt(reg[asked], IO!Divider[5 - k])
    <3>1. k + 2 # 7 /\ k \in 1..5 /\ k + 3 \in 1..8 /\ (k + 3) - 1 = k + 2
          /\ 5 - k \in 1..4 /\ 8 - (5 - k) = k + 3
      OBVIOUS
    <3>2. s[k] = cmd[k + 2]
      BY <2>6, <3>1
    <3>3. cmd[k + 2] = IO!OwedByte(k + 3)
      BY <2>2, <2>3, <3>1
    <3>4. IO!OwedByte(8 - (5 - k)) = IO!DigitAt(reg[asked], IO!Divider[5 - k])
      BY <2>1, <3>1
    <3> QED
      BY <3>1, <3>2, <3>3, <3>4
  <2>10. PICK n : n = reg[asked]
    OBVIOUS
  <2>11. Answers(c, s)
    <3>1. /\ PP!FourDigits(n) /\ call[c].op = "get" /\ effect[c] = Service!Value(n)
          /\ \A k \in 1..4 : s[k] = IO!DigitAt(n, IO!Divider[5 - k])
      BY <1>2, <2>1, <2>9, <2>10 DEF Number
    <3> QED
      BY <2>8, <3>1, NumberAnswer
  <2> QED
    BY <2>11 DEF s
<1>3. CASE InCmd /\ Verdict(c)
  <2>1. asked \notin IO!Registers
    BY <1>3 DEF Verdict, IO!Registers
  <2>2. IO!OwedLength = 2 /\ IO!OwedByte(1) = IF asked = "ack" THEN "T" ELSE "F"
    BY <2>1 DEF IO!OwedLength, IO!OwedByte
  <2>3. Len(reply) = 2 /\ reply[1] = IO!OwedByte(1)
    BY <1>3, <2>2, AnswerBytes DEF InCmd, Verdict
  <2>4. cmd[0] = IF asked = "ack" THEN "T" ELSE "F"
    <3>1. 1 \in 1..2 /\ 1 - 1 = 0
      OBVIOUS
    <3> QED
      BY <1>3, <2>2, <2>3, <3>1 DEF InCmd, Verdict, Holds
  <2>5. Line(cmd, flag) = <<cmd[0], "LF">>
    BY <1>3, Zenon DEF Verdict, Line
  <2>6. CASE asked = "ack"
    <3>1. Answers(c, <<"T", "LF">>)
      <4>1. effect[c] = Yes /\ call[c].op # "get"
        BY <1>3, <2>6 DEF Verdict
      <4> QED
        BY <1>0, <4>1, NoDigits, ShortAnswer
    <3> QED
      BY <2>4, <2>5, <2>6, <3>1
  <2>7. CASE asked = "fail"
    <3>1. Answers(c, <<"F", "LF">>)
      <4>1. effect[c] = Failed
        BY <1>3, <2>7 DEF Verdict
      <4> QED
        BY <1>0, <4>1, NoDigits, ShortAnswer
    <3> QED
      BY <2>4, <2>5, <2>7, <3>1
  <2> QED
    BY <1>3, <2>6, <2>7 DEF Verdict
<1> QED
  BY <1>1, <1>2, <1>3 DEF Came

--------------------------------------------------------------------------------
(* The invariant: each phone's connection, and where the command of the phone *)
(* being served is                                                            *)

Tables ==
  /\ DOMAIN call = Clients /\ DOMAIN result = Clients /\ DOMAIN effect = Clients
  /\ DOMAIN pieces = Clients /\ DOMAIN down = Clients

\* A phone and its connection: nothing comes to a phone that has called but
\* the line its call is owed, and nothing is left over when it has returned.
Link(c) ==
  /\ call[c] \in Calls \cup {Service!NoCall}
  /\ pieces[c] \in Nat
  /\ link[c] = "new" => effect[c] = Idle /\ result[c] = Idle /\ down[c] = <<>>
  /\ effect[c] = Waiting => /\ call[c] \in Calls /\ down[c] = <<>>
                            /\ result[c] \in {Waiting, Lost}
  /\ effect[c] # Waiting => up[c] = <<>>
  /\ result[c] \notin {Waiting, Lost} => down[c] = <<>>
  /\ result[c] = Waiting => link[c] = "open" /\ call[c] \in Calls
  /\ result[c] = Lost => link[c] = "closed"
  /\ down[c] # <<>> => Answers(c, down[c])

Links == \A c \in Clients : Link(c)

\* Those the kernel holds back are connected, each once, and nothing they sent
\* has been read.
Queue ==
  /\ \A k, l \in 1..Len(backlog) : backlog[k] = backlog[l] => k = l
  /\ \A k \in 1..Len(backlog) :
       backlog[k] # sock /\ link[backlog[k]] # "new" /\ Untouched(backlog[k])
  /\ sock \in Clients => link[sock] # "new"

\* The answer is being copied to cmd, or there is none: the write was lost.
Transfer ==
  \/ i = 0 /\ Whole
  \/ ~Whole /\ Len(reply) = i /\ Holds(cmd, reply, i)

\* The server comes out of an exchange with the whole answer read, and the last
\* exchange before a phone's first call is not a Get.
Exchange ==
  /\ pc \in {"accept", "recv", "process", "reply"} => Whole
  /\ pc = "script" /\ phase = "greet" => Whole
  /\ pc = "read" /\ phase \in {"greet", "serve"} => Transfer
  /\ pc = "read" /\ phase = "greet" /\ ~Whole => asked \in {"ack", "fail"}

\* cmd holds the first j bytes of the command, and the rest is on its way.
Clean(c) ==
  /\ j \in 1..(Len(Command(call[c])) - 1) /\ Ahead(c, j)
  /\ Holds(cmd, Command(call[c]), j)

\* What comes of the command will be refused, or nothing comes.
Spoiled(c) ==
  \/ up[c] = <<>>
  \/ j = 0 /\ Bad(up[c][1])
  \/ j > 0 /\ Bad(cmd[0])

Receiving(c) ==
  \/ Untouched(c) /\ (j = 0 \/ Bad(cmd[0]))
  \/ effect[c] = Waiting /\ pieces[c] >= 1 /\ (Clean(c) \/ Spoiled(c))

Collecting ==
  /\ j \in 0..12
  /\ phase = "greet" => Untouched(sock)
  /\ pc = "recv" => Receiving(sock)

\* From the end of the command to the reply the phone being served waits, and
\* nothing of it is in either direction.
Busy == pc = "process" \/ pc = "reply" \/ (pc = "read" /\ phase = "serve")

Alone(c) ==
  /\ j = 0 /\ up[c] = <<>> /\ down[c] = <<>>
  /\ result[c] \in {Waiting, Lost} /\ call[c] \in Calls
  /\ effect[c] = Waiting <=> pc = "process"

\* The command is whole and the phone's, or one the firmware refuses.
Ready(c) ==
  /\ StrLen(cmd) >= 3
  /\ CString(cmd) = Text(call[c]) \/ Bad(cmd[0])

\* The firmware knows what it has to answer, or has not heard of it.
Done(c) ==
  \/ Whole /\ effect[c] = Failed
  \/ ~Whole /\ (Number(c) \/ Verdict(c))

Serving ==
  /\ Busy => Alone(sock)
  /\ pc = "process" => Ready(sock)
  /\ pc = "read" /\ phase = "serve" => Done(sock)
  /\ pc = "reply" => Came(sock)

SInv == Tables /\ Links /\ Queue /\ Exchange /\ Collecting /\ Serving

\* An exchange of the server's own, or a step beside the phones: they do not notice.
Same(d) ==
  UNCHANGED <<link[d], up[d], down[d], call[d], result[d], pieces[d], effect[d]>>

\* A phone that nothing touches keeps its place.
LEMMA LinkKept ==
  ASSUME NEW d, Same(d), Link(d)
  PROVE  Link(d)'
BY DEF Same, Link, Answers, Told, Due

\* Nor is anything read of it.
LEMMA UntouchedKept ==
  ASSUME NEW d, Same(d), Untouched(d)
  PROVE  Untouched(d)'
BY DEF Same, Untouched, Ahead

\* A phone, or the server for the phone it serves, changes that phone's
\* connection only.
Acts(c) ==
  \/ Connect(c) \/ Return(c) \/ Close(c) \/ Crash(c) \/ Break(c)
  \/ \E op \in Calls : Invoke(c, op)
  \/ sock = c /\ (Recv \/ Process \/ SendReply)

\* So it leaves every other phone as it was.
LEMMA Elsewhere ==
  ASSUME Tables, Wires, NEW c, Acts(c), NEW d \in Clients, d # c
  PROVE  Same(d)
<1>0. DOMAIN link = Clients /\ DOMAIN up = Clients
  BY DEF Wires
<1> USE <1>0
<1>1. CASE Connect(c)
  BY <1>1 DEF Connect, Same, Tables
<1>2. CASE Return(c)
  BY <1>2 DEF Return, Same, Tables
<1>3. CASE Close(c)
  BY <1>3 DEF Close, Same, Tables
<1>4. CASE Crash(c)
  BY <1>4 DEF Crash, Same, Tables
<1>5. CASE Break(c)
  BY <1>5 DEF Break, Same, Tables
<1>6. ASSUME NEW op \in Calls, Invoke(c, op)
      PROVE  Same(d)
  BY <1>6 DEF Invoke, Same, Tables
<1>7. CASE sock = c /\ Recv
  BY <1>7 DEF Recv, Same, Tables
<1>8. CASE sock = c /\ Process
  BY <1>8 DEF Process, Same, Tables
<1>9. CASE sock = c /\ SendReply
  BY <1>9 DEF SendReply, Same, Tables
<1> QED
  BY <1>1, <1>2, <1>3, <1>4, <1>5, <1>6, <1>7, <1>8, <1>9 DEF Acts

\* The tables stay tables.
LEMMA TablesKept ==
  ASSUME Tables, UNCHANGED clients \/ \E c : Acts(c)
  PROVE  Tables'
<1>1. CASE UNCHANGED clients
  BY <1>1 DEF clients, Tables
<1>2. ASSUME NEW c, Connect(c) \/ Return(c) \/ Close(c)
      PROVE  Tables'
  BY <1>2 DEF Connect, Return, Close, Tables
<1>3. ASSUME NEW c, Crash(c) \/ Break(c)
      PROVE  Tables'
  BY <1>3 DEF Crash, Break, Tables
<1>4. ASSUME NEW c, NEW op \in Calls, Invoke(c, op)
      PROVE  Tables'
  BY <1>4 DEF Invoke, Tables
<1>5. CASE Recv \/ Process \/ SendReply
  BY <1>5 DEF Recv, Process, SendReply, Tables
<1> QED
  BY <1>1, <1>2, <1>3, <1>4, <1>5 DEF Acts

--------------------------------------------------------------------------------
(* What the server's steps and a phone's do to that phone                     *)

\* The client the server is serving is one.
LEMMA SockIsClient ==
  ASSUME Sockets, Where, pc \in {"recv", "process", "reply"}
  PROVE  sock \in Clients /\ phase = "serve"
BY DEF Sockets, Where

\* A line with an LF in it is down to the LF the answer: its last byte.
LEMMA WholeLine ==
  ASSUME NEW s \in Seq(Bytes), s # <<>>, s[Len(s)] = "LF",
         \A k \in 1..(Len(s) - 1) : s[k] # "LF",
         NEW end, end = Min({k \in 1..Len(s) : s[k] = "LF"})
  PROVE  end = Len(s) /\ SubSeq(s, end + 1, Len(s)) = <<>>
<1> DEFINE S == {k \in 1..Len(s) : s[k] = "LF"}
<1>0. Len(s) \in Nat /\ Len(s) # 0 /\ Len(s) \in 1..Len(s)
  <2>1. Len(s) # 0
    OBVIOUS
  <2> QED
    BY <2>1
<1>1. S = {Len(s)}
  <2>1. ASSUME NEW k \in S
        PROVE  k = Len(s)
    <3>1. k \in 1..(Len(s) - 1) \/ k = Len(s)
      BY <1>0
    <3> QED
      BY <3>1
  <2> QED
    BY <1>0, <2>1
<1>2. end \in S
  <2>1. S \subseteq Nat /\ S # {} /\ end = Min(S)
    BY <1>1
  <2> HIDE DEF S
  <2> QED
    BY <2>1, MinOf
<1>3. end = Len(s)
  BY <1>1, <1>2
<1>4. SubSeq(s, Len(s) + 1, Len(s)) = <<>>
  BY <1>0
<1> QED
  BY <1>3, <1>4

\* What the actions of a phone do to its own entries.
LEMMA ConnectOwn ==
  ASSUME Tables, Wires, NEW c \in Clients, Connect(c)
  PROVE  /\ link[c] = "new" /\ link'[c] = "open" /\ backlog' = Append(backlog, c)
         /\ sock' = sock
         /\ UNCHANGED <<up, down, call, result, calls, pieces, effect>>
BY DEF Connect, Wires

\* A call is written behind what is left of earlier ones.
LEMMA InvokeOwn ==
  ASSUME Tables, Wires, NEW c \in Clients, NEW op \in Calls, Invoke(c, op)
  PROVE  /\ link[c] = "open" /\ result[c] # Waiting
         /\ up'[c] = up[c] \o Command(op) /\ pieces'[c] = 0 /\ call'[c] = op
         /\ effect'[c] = Waiting /\ result'[c] = Waiting
         /\ UNCHANGED <<link, down>>
BY DEF Invoke, Wires, Tables

\* A phone closes only between calls.
LEMMA CloseOwn ==
  ASSUME Tables, Wires, NEW c \in Clients, Close(c)
  PROVE  /\ link[c] = "open" /\ result[c] # Waiting /\ link'[c] = "closed"
         /\ UNCHANGED <<up, down, call, result, calls, pieces, effect>>
BY DEF Close, Wires

\* A phone that dies in a call has sent the beginning of its command.
LEMMA CrashOwn ==
  ASSUME Tables, Wires, NEW c \in Clients, Crash(c)
  PROVE  /\ link[c] = "open" /\ result[c] = Waiting
         /\ link'[c] = "closed" /\ result'[c] = Lost
         /\ \E n \in 0..Len(up[c]) : up'[c] = SubSeq(up[c], 1, n)
         /\ UNCHANGED <<down, call, calls, pieces, effect>>
BY DEF Crash, Wires, Tables

\* A phone may find its connection broken, and is told Lost.
LEMMA BreakOwn ==
  ASSUME Tables, Wires, NEW c \in Clients, Break(c)
  PROVE  /\ link[c] = "open" /\ link'[c] = "closed" /\ result'[c] = Lost
         /\ UNCHANGED <<up, down, call, calls, pieces, effect>>
BY DEF Break, Wires, Tables

\* A phone that returns had its one line, and tells what its call did.
LEMMA ReturnOwn ==
  ASSUME Tables, Wires, NEW c \in Clients, Link(c), Return(c)
  PROVE  /\ result[c] = Waiting /\ effect[c] # Waiting
         /\ down'[c] = <<>>
         /\ result' = [result EXCEPT ![c] = Due(c)]
         /\ result'[c] = Due(c) /\ Due(c) = Told(c, SubSeq(down[c], 1, Len(down[c]) - 1))
         /\ UNCHANGED <<link, up, call, calls, pieces, effect>>
<1> DEFINE end == Min({k \in 1..Len(down[c]) : down[c][k] = "LF"})
           line == SubSeq(down[c], 1, end - 1)
<1>1. /\ result[c] = Waiting
      /\ \E k \in 1..Len(down[c]) : down[c][k] = "LF"
      /\ down' = [down EXCEPT ![c] = SubSeq(@, end + 1, Len(@))]
      /\ result' = [result EXCEPT ![c] = Told(c, line)]
      /\ UNCHANGED <<link, up, call, calls, pieces, effect>>
  BY Zenon DEF Return, Told
<1>2. down[c] # <<>>
  BY <1>1
<1>3. Answers(c, down[c])
  BY <1>2 DEF Link
<1>4. end = Len(down[c]) /\ SubSeq(down[c], end + 1, Len(down[c])) = <<>>
  <2>1. PICK s : s = down[c]
    OBVIOUS
  <2>2. /\ s \in Seq(Bytes) /\ s # <<>> /\ s[Len(s)] = "LF"
        /\ \A k \in 1..(Len(s) - 1) : s[k] # "LF"
    BY <1>3, <2>1 DEF Answers
  <2>3. PICK e : e = Min({k \in 1..Len(s) : s[k] = "LF"})
    OBVIOUS
  <2>4. e = Len(s) /\ SubSeq(s, e + 1, Len(s)) = <<>>
    BY <2>2, <2>3, WholeLine
  <2> QED
    BY <2>1, <2>3, <2>4, Zenon
<1> HIDE DEF end
<1>5. line = SubSeq(down[c], 1, Len(down[c]) - 1)
  BY <1>4
<1> HIDE DEF line
<1>6. Told(c, line) = Due(c)
  BY <1>3, <1>5, Zenon DEF Answers
<1>7. effect[c] # Waiting
  BY <1>2 DEF Link
<1>8. down'[c] = <<>> /\ result'[c] = Told(c, line)
  BY <1>1, <1>4 DEF Tables
<1> QED
  BY <1>1, <1>5, <1>6, <1>7, <1>8, Zenon

\* A result is no state of a call.
LEMMA ToldResult ==
  ASSUME NEW c, NEW s, call[c] \in Calls
  PROVE  Told(c, s) \notin {Waiting, Lost, Idle}
<1>1. ParseInt(s) \notin {Waiting, Lost, Idle}
  BY Results, Zenon DEF ParseInt
<1>2. call[c].op \in {"get", "set", "enable"}
  BY CallKinds DEF IsGet, IsSet, IsEnable
<1> QED
  BY <1>1, <1>2, Results DEF Told

\* Every action of a phone keeps what is said of its own connection.
LEMMA OwnLink ==
  ASSUME Tables, Wires, NEW c \in Clients, Link(c), Client(c)
  PROVE  Link(c)'
<1>1. CASE Connect(c)
  BY <1>1, ConnectOwn, Results DEF Link, Answers, Told, Due
<1>2. ASSUME NEW op \in Calls, Invoke(c, op)
      PROVE  Link(c)'
  <2>1. /\ link[c] = "open" /\ result[c] # Waiting /\ call'[c] = op
        /\ effect'[c] = Waiting /\ result'[c] = Waiting /\ pieces'[c] = 0
        /\ link' = link /\ down' = down
    BY <1>2, InvokeOwn
  <2>2. down[c] = <<>>
    BY <2>1 DEF Link
  <2> QED
    BY <2>1, <2>2, Results DEF Link
<1>3. CASE Return(c)
  <2>1. /\ result[c] = Waiting /\ effect[c] # Waiting /\ down'[c] = <<>>
        /\ result'[c] = Told(c, SubSeq(down[c], 1, Len(down[c]) - 1))
        /\ UNCHANGED <<link, up, call, pieces, effect>>
    BY <1>3, ReturnOwn
  <2>2. call[c] \in Calls
    BY <2>1 DEF Link
  <2>3. result'[c] \notin {Waiting, Lost, Idle}
    BY <2>1, <2>2, ToldResult
  <2> QED
    BY <2>1, <2>3, Results DEF Link
<1>4. CASE Close(c)
  BY <1>4, CloseOwn, Results DEF Link, Answers, Told, Due
<1>5. CASE Crash(c)
  <2>1. /\ link'[c] = "closed" /\ result'[c] = Lost
        /\ \E n \in 0..Len(up[c]) : up'[c] = SubSeq(up[c], 1, n)
        /\ UNCHANGED <<down, call, pieces, effect>>
    BY <1>5, CrashOwn
  <2>2. up[c] = <<>> => up'[c] = <<>>
    BY <2>1
  <2> QED
    BY <2>1, <2>2, Results DEF Link, Answers, Told, Due
<1>6. CASE Break(c)
  BY <1>6, BreakOwn, Results DEF Link, Answers, Told, Due
<1> QED
  BY <1>1, <1>2, <1>3, <1>4, <1>5, <1>6 DEF Client

--------------------------------------------------------------------------------
(* Every connection keeps its place                                           *)

\* What recv has handed over of what c sent: the first n bytes, which leave cmd
\* as new says.
Took(c, n, new) ==
  /\ new = Copied(SubSeq(up[c], 1, n))
  /\ pieces[c] + 1 >= MaxPieces => n = Len(up[c])
  /\ up'[c] = SubSeq(up[c], n + 1, Len(up[c]))
  /\ cmd' = new.cmd /\ j' = new.j
  /\ pc' = IF new.done /\ StrLen(new.cmd) >= 3 THEN "process" ELSE "recv"

\* recv takes a piece of what the served phone sent, and touches no one else.
LEMMA RecvOwn ==
  ASSUME Tables, Wires, Sockets, Where, Recv
  PROVE  /\ sock \in Clients /\ phase = "serve" /\ pc = "recv" /\ up[sock] # <<>>
         /\ \E n \in 1..Len(up[sock]) : \E new : Took(sock, n, new)
         /\ pieces'[sock] = pieces[sock] + 1
         /\ UNCHANGED <<firmware, phase, todo, flag, i, sock, backlog, camera, link,
                        down, call, result, calls, effect, bounds>>
<1>1. pc = "recv" /\ up[sock] # <<>> /\ sock \in Clients /\ phase = "serve"
  <2>1. pc = "recv" /\ up[sock] # <<>>
    BY DEF Recv
  <2> QED
    BY <2>1, SockIsClient
<1>2. PICK n \in 1..Len(up[sock]) :
        /\ pieces[sock] + 1 >= MaxPieces => n = Len(up[sock])
        /\ up' = [up EXCEPT ![sock] = SubSeq(up[sock], n + 1, Len(up[sock]))]
        /\ cmd' = Copied(SubSeq(up[sock], 1, n)).cmd
        /\ j' = Copied(SubSeq(up[sock], 1, n)).j
        /\ pc' = IF Copied(SubSeq(up[sock], 1, n)).done
                    /\ StrLen(Copied(SubSeq(up[sock], 1, n)).cmd) >= 3
                 THEN "process" ELSE "recv"
  BY Zenon DEF Recv
<1>3. up'[sock] = SubSeq(up[sock], n + 1, Len(up[sock]))
  BY <1>1, <1>2 DEF Wires
<1>4. \E new : Took(sock, n, new)
  <2>1. PICK new : new = Copied(SubSeq(up[sock], 1, n))
    OBVIOUS
  <2>2. Took(sock, n, new)
    BY <1>2, <1>3, <2>1, Zenon DEF Took
  <2> QED
    BY <2>2
<1>5. pieces'[sock] = pieces[sock] + 1
      /\ UNCHANGED <<firmware, phase, todo, flag, i, sock, backlog, camera, link,
                     down, call, result, calls, effect, bounds>>
  BY <1>1 DEF Recv, Tables
<1> QED
  BY <1>1, <1>2, <1>4, <1>5

\* The command in cmd goes to the firmware, and its outcome is the phone's.
LEMMA ProcessOwn ==
  ASSUME Tables, Wires, Sockets, Where, Process
  PROVE  /\ sock \in Clients /\ phase = "serve" /\ pc = "process" /\ pc' = "read" /\ i' = 0
         /\ OnBus(CString(cmd)) /\ flag' = (Parser!ToUpper(cmd[0]) = "G")
         /\ effect' = [effect EXCEPT ![sock] = Outcome] /\ effect'[sock] = Outcome
         /\ UNCHANGED <<phase, todo, cmd, j, sock, backlog, camera, link, up,
                        down, call, result, calls, pieces, nacks, crashes, stops>>
<1>1. pc = "process" /\ sock \in Clients /\ phase = "serve"
  <2>1. pc = "process"
    BY DEF Process
  <2> QED
    BY <2>1, SockIsClient
<1>2. flag' = (Parser!ToUpper(cmd[0]) = "G") /\ effect' = [effect EXCEPT ![sock] = Outcome]
      /\ OnBus(CString(cmd)) /\ pc' = "read" /\ i' = 0
  BY Zenon DEF Process, WriteI2c
<1>3. effect'[sock] = Outcome
  BY <1>1, <1>2 DEF Tables
<1> QED
  BY <1>1, <1>2, <1>3, Zenon DEF Process

\* The line made of the answer is put behind what the phone has not read.
LEMMA SendReplyOwn ==
  ASSUME Tables, Wires, Sockets, Where, SendReply
  PROVE  /\ sock \in Clients /\ phase = "serve" /\ pc = "reply" /\ pc' = "recv"
         /\ down'[sock] = down[sock] \o Line(cmd, flag)
         /\ UNCHANGED <<firmware, phase, todo, flag, i, j, sock, backlog,
                 camera, link, up, call, result, calls, pieces, effect, bounds>>
<1>1. pc = "reply" /\ sock \in Clients /\ phase = "serve"
  <2>1. pc = "reply"
    BY DEF SendReply
  <2> QED
    BY <2>1, SockIsClient
<1>2. down' = [down EXCEPT ![sock] = down[sock] \o Line(cmd, flag)]
  BY Zenon DEF SendReply
<1>3. down'[sock] = down[sock] \o Line(cmd, flag)
  BY <1>1, <1>2 DEF Tables
<1> QED
  BY <1>1, <1>3, Zenon DEF SendReply

\* A command that has reached the firmware, or is lost, is not waiting any more.
LEMMA OutcomeIs == Outcome # Waiting /\ Outcome # Idle /\ Outcome # Lost
<1>1. \/ Outcome = Failed \/ Outcome = Yes
      \/ Outcome = Service!Value(reg[asked'])
  BY Zenon DEF Outcome
<1> QED
  BY <1>1, Results

\* The steps that leave the phones' connections alone.
Beside ==
  \/ WriteScripted \/ ReadI2c \/ Accept \/ AcceptFails \/ Disconnected
  \/ ReadFails \/ CameraStarts \/ Stop \/ Start

\* The steps that are no phone's leave the phones' records alone.
LEMMA BesideClients ==
  ASSUME Beside
  PROVE  UNCHANGED clients /\ \A d : Same(d)
<1>1. UNCHANGED clients
  <2>1. CASE WriteScripted \/ ReadI2c \/ Accept
    BY <2>1 DEF WriteScripted, ReadI2c, Accept
  <2>2. CASE AcceptFails \/ Disconnected \/ ReadFails
    BY <2>2 DEF AcceptFails, Disconnected, ReadFails
  <2>3. CASE CameraStarts \/ Stop \/ Start
    BY <2>3 DEF CameraStarts, Stop, Start
  <2> QED
    BY <2>1, <2>2, <2>3 DEF Beside
<1> QED
  BY <1>1 DEF clients, Same

\* Every step is one of them, a phone's, or one for the phone being served.
LEMMA StepKinds ==
  ASSUME Next
  PROVE  Beside \/ (\E c \in Clients : Client(c)) \/ Recv \/ Process \/ SendReply
BY DEF Next, Server, Beside

\* A phone's step touches neither the firmware nor the server.
LEMMA ClientActs ==
  ASSUME NEW c, Client(c)
  PROVE  Acts(c) /\ UNCHANGED firmware
         /\ UNCHANGED <<pc, phase, todo, cmd, flag, i, j, sock, nacks, lostWrites>>
         /\ (~Connect(c) => backlog' = backlog)
<1>1. Acts(c)
  BY DEF Client, Acts
<1>2. CASE Connect(c)
  BY <1>1, <1>2 DEF Connect, bounds
<1>3. CASE Return(c) \/ Close(c) \/ Crash(c) \/ Break(c)
  BY <1>1, <1>3 DEF Return, Close, Crash, Break, bounds, server
<1>4. CASE \E op \in Calls : Invoke(c, op)
  BY <1>1, <1>4 DEF Invoke, bounds, server
<1> QED
  BY <1>2, <1>3, <1>4 DEF Client

\* Every step keeps every connection in its place.
LEMMA LinksKept ==
  ASSUME Tables, Links, Queue, Serving, Typed, Where, Next
  PROVE  Links'
<1>0. Wires /\ Sockets /\ SP!IInv /\ Locals
  BY DEF Typed
<1>1. SUFFICES ASSUME NEW d \in Clients  PROVE Link(d)'
  BY DEF Links
<1>2. Link(d)
  BY DEF Links
<1>3. CASE Beside
  BY <1>2, <1>3, BesideClients, LinkKept
<1>4. ASSUME NEW c \in Clients, Client(c)
      PROVE  Link(d)'
  <2>1. CASE d = c
    BY <1>0, <1>2, <1>4, <2>1, OwnLink
  <2>2. CASE d # c
    BY <1>0, <1>2, <1>4, <2>2, ClientActs, Elsewhere, LinkKept
  <2> QED
    BY <2>1, <2>2
<1>5. ASSUME sock # d, Recv \/ Process \/ SendReply
      PROVE  Link(d)'
  <2>1. Acts(sock)
    BY <1>5 DEF Acts
  <2> QED
    BY <1>0, <1>2, <1>5, <2>1, Elsewhere, LinkKept
<1>6. CASE sock = d /\ Recv
  <2>1. up[d] # <<>> /\ pieces'[d] = pieces[d] + 1
        /\ UNCHANGED <<link, down, call, result, effect>>
    BY <1>0, <1>6, RecvOwn
  <2> QED
    BY <1>2, <2>1, Results DEF Link
<1>7. CASE sock = d /\ Process
  <2>1. effect'[d] = Outcome /\ pc = "process"
        /\ UNCHANGED <<link, up, down, call, result, pieces>>
    BY <1>0, <1>7, ProcessOwn
  <2>2. Alone(d) /\ link[d] # "new"
    BY <1>7, <2>1 DEF Serving, Busy, Queue
  <2> QED
    BY <1>2, <2>1, <2>2, OutcomeIs, Results DEF Link, Alone
<1>8. CASE sock = d /\ SendReply
  <2>1. down'[d] = down[d] \o Line(cmd, flag) /\ pc = "reply"
        /\ UNCHANGED <<link, up, call, result, pieces, effect>>
    BY <1>0, <1>8, SendReplyOwn
  <2>2. Alone(d) /\ link[d] # "new" /\ Came(d)
    BY <1>8, <2>1 DEF Serving, Busy, Queue
  <2>3. effect[d] # Waiting /\ down[d] = <<>> /\ call[d] \in Calls /\ up[d] = <<>>
        /\ result[d] \in {Waiting, Lost}
    BY <2>1, <2>2 DEF Alone
  <2>4. Line(cmd, flag) = <<>> \/ Answers(d, Line(cmd, flag))
    BY <1>0, <2>2, <2>3, LineAnswers DEF Locals
  <2>5. down'[d] = Line(cmd, flag)
    BY <2>1, <2>3, <2>4 DEF Answers
  <2>6. down'[d] # <<>> => Answers(d, down[d])'
    BY <2>1, <2>4, <2>5 DEF Answers, Told, Due
  <2> QED
    BY <1>2, <2>1, <2>2, <2>3, <2>6, Results DEF Link
<1> QED
  BY <1>3, <1>4, <1>5, <1>6, <1>7, <1>8, StepKinds

--------------------------------------------------------------------------------
(* Parts of a string: what is left of a command after a recv or a crash       *)

\* The parts of a part of a string.
LEMMA PartIs ==
  ASSUME NEW B, NEW t \in Seq(B), NEW n \in Nat, NEW m \in n..Len(t)
  PROVE  /\ SubSeq(t, n + 1, m) \in Seq(B) /\ Len(SubSeq(t, n + 1, m)) = m - n
         /\ \A k \in 1..(m - n) : SubSeq(t, n + 1, m)[k] = t[n + k]
<1>1. n + 1 \in Int /\ m \in Int /\ \A k \in (n + 1)..m : t[k] \in B
  OBVIOUS
<1>2. /\ SubSeq(t, n + 1, m) \in Seq(B)
      /\ Len(SubSeq(t, n + 1, m)) = IF n + 1 <= m THEN m - (n + 1) + 1 ELSE 0
      /\ \A k \in 1..(m - (n + 1) + 1) : SubSeq(t, n + 1, m)[k] = t[(n + 1) + k - 1]
  BY <1>1, SubSeqProperties
<1>3. /\ m - (n + 1) + 1 = m - n
      /\ (IF n + 1 <= m THEN m - (n + 1) + 1 ELSE 0) = m - n
      /\ \A k \in 1..(m - n) : (n + 1) + k - 1 = n + k
  OBVIOUS
<1> QED
  BY <1>2, <1>3

\* Two strings of the same bytes are one.
LEMMA SameString ==
  ASSUME NEW B, NEW s \in Seq(B), NEW t \in Seq(B), Len(s) = Len(t),
         \A k \in 1..Len(s) : s[k] = t[k]
  PROVE  s = t
OBVIOUS

\* The beginning of a part is a part that begins in the same place.
LEMMA PartBegins ==
  ASSUME NEW B, NEW t \in Seq(B), NEW n \in Nat, NEW m \in n..Len(t),
         NEW s, s = SubSeq(t, n + 1, m), NEW l \in 0..Len(s)
  PROVE  n + l \in n..Len(t) /\ SubSeq(s, 1, l) = SubSeq(t, n + 1, n + l)
<1>1. s \in Seq(B) /\ Len(s) = m - n /\ \A k \in 1..(m - n) : s[k] = t[n + k]
  BY PartIs
<1>2. n + l \in n..Len(t) /\ (n + l) - n = l /\ l <= m - n /\ l \in 0..Len(s)
  BY <1>1
<1>3. PICK u : u = SubSeq(t, n + 1, n + l)
  OBVIOUS
<1>4. u \in Seq(B) /\ Len(u) = l /\ \A k \in 1..l : u[k] = t[n + k]
  <2>1. PICK q : q = n + l
    OBVIOUS
  <2>2. q \in n..Len(t) /\ u = SubSeq(t, n + 1, q) /\ q - n = l
    BY <1>2, <1>3, <2>1
  <2> QED
    BY <2>2, PartIs
<1>5. PICK v : v = SubSeq(s, 1, l)
  OBVIOUS
<1>6. v \in Seq(B) /\ Len(v) = l /\ \A k \in 1..l : v[k] = s[k]
  <2>1. 0 \in Nat /\ 0 + 1 = 1 /\ l - 0 = l /\ \A k \in 1..l : 0 + k = k
    BY <1>2
  <2>2. v = SubSeq(s, 0 + 1, l)
    BY <1>5, <2>1
  <2> QED
    BY <1>1, <1>2, <2>1, <2>2, PartIs
<1>7. \A k \in 1..l : k \in 1..(m - n)
  BY <1>2
<1>8. v = u
  <2>1. \A k \in 1..Len(v) : v[k] = u[k]
    BY <1>1, <1>4, <1>6, <1>7
  <2> QED
    BY <1>4, <1>6, <2>1, SameString
<1> QED
  BY <1>2, <1>3, <1>5, <1>8

\* The rest of a part is a part that ends in the same place.
LEMMA PartEnds ==
  ASSUME NEW B, NEW t \in Seq(B), NEW n \in Nat, NEW m \in n..Len(t),
         NEW s, s = SubSeq(t, n + 1, m), NEW l \in 0..Len(s)
  PROVE  m \in (n + l)..Len(t) /\ SubSeq(s, l + 1, Len(s)) = SubSeq(t, (n + l) + 1, m)
<1>1. s \in Seq(B) /\ Len(s) = m - n /\ \A k \in 1..(m - n) : s[k] = t[n + k]
  BY PartIs
<1>2. m \in (n + l)..Len(t) /\ n + l \in Nat /\ l \in Nat /\ l <= m - n
      /\ Len(s) \in l..Len(s)
  BY <1>1
<1>3. PICK u : u = SubSeq(t, (n + l) + 1, m)
  OBVIOUS
<1>4. u \in Seq(B) /\ Len(u) = m - (n + l) /\ \A k \in 1..(m - (n + l)) : u[k] = t[(n + l) + k]
  <2>1. PICK q : q = n + l
    OBVIOUS
  <2>2. q \in Nat /\ m \in q..Len(t) /\ u = SubSeq(t, q + 1, m)
    BY <1>2, <1>3, <2>1
  <2>3. u \in Seq(B) /\ Len(u) = m - q /\ \A k \in 1..(m - q) : u[k] = t[q + k]
    BY <2>2, PartIs
  <2> QED
    BY <2>1, <2>3
<1>5. PICK v : v = SubSeq(s, l + 1, Len(s))
  OBVIOUS
<1>6. v \in Seq(B) /\ Len(v) = Len(s) - l /\ \A k \in 1..(Len(s) - l) : v[k] = s[l + k]
  BY <1>1, <1>2, <1>5, PartIs
<1>7. m - (n + l) = Len(s) - l
      /\ \A k \in 1..(Len(s) - l) : l + k \in 1..(m - n) /\ n + (l + k) = (n + l) + k
  BY <1>1, <1>2
<1>8. v = u
  <2>1. ASSUME NEW k \in 1..Len(v)
        PROVE  v[k] = u[k]
    <3>1. v[k] = s[l + k] /\ u[k] = t[(n + l) + k]
      BY <1>4, <1>6, <1>7
    <3>2. s[l + k] = t[n + (l + k)]
      BY <1>1, <1>6, <1>7
    <3> QED
      BY <1>6, <1>7, <3>1, <3>2
  <2>2. Len(v) = Len(u)
    BY <1>4, <1>6, <1>7
  <2> QED
    BY <1>4, <1>6, <2>1, <2>2, SameString
<1> QED
  BY <1>2, <1>3, <1>5, <1>8

\* A call writes its command on an empty wire.
LEMMA InvokeAhead ==
  ASSUME Tables, Wires, NEW c \in Clients, Link(c), NEW op \in Calls, Invoke(c, op)
  PROVE  up'[c] = Command(op) /\ Untouched(c)' /\ result[c] \notin {Waiting, Lost}
         /\ effect[c] # Waiting
<1>1. /\ link[c] = "open" /\ result[c] # Waiting
      /\ up'[c] = up[c] \o Command(op) /\ pieces'[c] = 0 /\ call'[c] = op
      /\ effect'[c] = Waiting
  BY InvokeOwn
<1>2. up[c] = <<>> /\ effect[c] # Waiting /\ result[c] \notin {Waiting, Lost}
  BY <1>1 DEF Link
<1>3. PICK t : t = Command(op)
  OBVIOUS
<1>4. t \in Seq(Bytes) /\ Len(t) \in 4..13
  BY <1>3, CommandTyped
<1>5. up'[c] = t /\ t = SubSeq(t, 0 + 1, Len(t))
  <2>1. up'[c] = t
    BY <1>1, <1>2, <1>3, <1>4
  <2>2. t = SubSeq(t, 1, Len(t))
    BY <1>4
  <2> QED
    BY <2>1, <2>2
<1>6. Untouched(c)'
  <2>1. Len(t) \in 0..Len(t)
    BY <1>4
  <2>2. Ahead(c, 0)'
    BY <1>1, <1>3, <1>5, <2>1 DEF Ahead
  <2> QED
    BY <1>1, <2>2 DEF Untouched
<1> QED
  BY <1>2, <1>3, <1>5, <1>6

\* A phone that dies leaves the beginning of what it sent.
LEMMA CrashAhead ==
  ASSUME Tables, Wires, NEW c \in Clients, Crash(c), call[c] \in Calls,
         NEW n \in Nat, Ahead(c, n)
  PROVE  Ahead(c, n)'
<1>1. PICK l \in 0..Len(up[c]) : up'[c] = SubSeq(up[c], 1, l) /\ call' = call
  BY CrashOwn
<1>2. PICK t : t = Command(call[c])
  OBVIOUS
<1>3. t \in Seq(Bytes)
  BY <1>2, CommandTyped
<1>4. PICK m \in n..Len(t) : up[c] = SubSeq(t, n + 1, m)
  BY <1>2 DEF Ahead
<1>5. n + l \in n..Len(t) /\ up'[c] = SubSeq(t, n + 1, n + l)
  <2>1. PICK s : s = up[c]
    OBVIOUS
  <2>2. s = SubSeq(t, n + 1, m) /\ l \in 0..Len(s)
    BY <1>1, <1>4, <2>1
  <2>3. n + l \in n..Len(t) /\ SubSeq(s, 1, l) = SubSeq(t, n + 1, n + l)
    BY <1>3, <2>2, PartBegins
  <2> QED
    BY <1>1, <2>1, <2>3
<1> QED
  BY <1>1, <1>2, <1>5 DEF Ahead

\* No phone's step reads of its call.
LEMMA UntouchedOwn ==
  ASSUME Tables, Wires, NEW c \in Clients, Link(c), Client(c), Untouched(c)
  PROVE  Untouched(c)'
<1>1. ASSUME NEW op \in Calls, Invoke(c, op)
      PROVE  Untouched(c)'
  BY <1>1, InvokeAhead
<1>2. CASE Connect(c)
  BY <1>2, ConnectOwn DEF Untouched, Ahead
<1>3. CASE Return(c)
  BY <1>3, ReturnOwn DEF Untouched
<1>4. CASE Close(c)
  BY <1>4, CloseOwn DEF Untouched, Ahead
<1>5. CASE Break(c)
  BY <1>5, BreakOwn DEF Untouched, Ahead
<1>6. CASE Crash(c)
  <2>1. UNCHANGED <<effect, pieces, call>>
    BY <1>6, CrashOwn
  <2>2. effect[c] = Waiting => call[c] \in Calls /\ Ahead(c, 0)
    BY DEF Link, Untouched
  <2>3. effect[c] = Waiting => Ahead(c, 0)'
    BY <1>6, <2>2, CrashAhead
  <2> QED
    BY <2>1, <2>3 DEF Untouched
<1> QED
  BY <1>1, <1>2, <1>3, <1>4, <1>5, <1>6 DEF Client

\* No step makes a connection new again.
LEMMA LinkOnce ==
  ASSUME Tables, Wires, Next, NEW d \in Clients, link[d] # "new"
  PROVE  link'[d] # "new"
<1>1. CASE Beside
  BY <1>1, BesideClients DEF clients
<1>2. ASSUME NEW c \in Clients, Client(c)
      PROVE  link'[d] # "new"
  <2>1. CASE Connect(c) \/ Close(c) \/ Crash(c) \/ Break(c)
    BY <2>1 DEF Connect, Close, Crash, Break, Wires
  <2>2. CASE Return(c) \/ \E op \in Calls : Invoke(c, op)
    BY <2>2 DEF Return, Invoke
  <2> QED
    BY <1>2, <2>1, <2>2 DEF Client
<1>3. CASE Recv \/ Process \/ SendReply
  BY <1>3 DEF Recv, Process, SendReply
<1> QED
  BY <1>1, <1>2, <1>3, StepKinds

--------------------------------------------------------------------------------
(* The phones the kernel holds back                                           *)

\* What is said of a phone the kernel holds back survives every step.
LEMMA HeldKept ==
  ASSUME Tables, Links, Wires, Sockets, Where, Next,
         NEW d \in Clients, d # sock, link[d] # "new", Untouched(d)
  PROVE  link'[d] # "new" /\ Untouched(d)'
<1>1. link'[d] # "new"
  BY LinkOnce
<1>2. CASE Beside
  <2>1. Same(d)
    BY <1>2, BesideClients
  <2> QED
    BY <1>1, <2>1, UntouchedKept
<1>3. ASSUME NEW c \in Clients, Client(c)
      PROVE  Untouched(d)'
  <2>1. CASE d = c
    BY <1>3, <2>1, UntouchedOwn DEF Links
  <2>2. CASE d # c
    BY <1>3, <2>2, ClientActs, Elsewhere, UntouchedKept
  <2> QED
    BY <2>1, <2>2
<1>4. CASE Recv \/ Process \/ SendReply
  <2>1. Acts(sock)
    BY <1>4 DEF Acts
  <2>2. Same(d)
    BY <2>1, Elsewhere
  <2> QED
    BY <1>1, <2>2, UntouchedKept
<1> QED
  BY <1>1, <1>2, <1>3, <1>4, StepKinds

\* Every step keeps what is said of the phones the kernel holds back.
LEMMA QueueKept ==
  ASSUME Tables, Links, Queue, Typed, Where, Next
  PROVE  Queue'
<1>0. Wires /\ Sockets
  BY DEF Typed
<1>1. /\ backlog \in Seq(Clients) /\ sock \in Clients \cup {NoClient}
      /\ \A k \in 1..Len(backlog) : backlog[k] \in Clients
  BY <1>0 DEF Sockets
<1>2. ASSUME NEW k \in 1..Len(backlog), NEW d, d = backlog[k]
      PROVE  d \in Clients /\ d # sock /\ link'[d] # "new" /\ Untouched(d)'
  <2>1. d \in Clients /\ d # sock /\ link[d] # "new" /\ Untouched(d)
    BY <1>1, <1>2 DEF Queue
  <2> QED
    BY <1>0, <2>1, HeldKept
<1>3. \A k, l \in 1..Len(backlog) : backlog[k] = backlog[l] => k = l
  BY DEF Queue
<1>4. CASE UNCHANGED backlog /\ (sock' = sock \/ sock' = NoClient)
  <2>1. ASSUME NEW k \in 1..Len(backlog'), NEW d, d = backlog'[k]
        PROVE  d # sock' /\ link'[d] # "new" /\ Untouched(d)'
    BY <1>2, <1>4, <2>1, BoundsAssumption
  <2>2. sock' \in Clients => link'[sock'] # "new"
    <3>1. CASE sock' = sock
      <4>1. ASSUME NEW d \in Clients, d = sock
            PROVE  link'[d] # "new"
        <5>1. link[d] # "new"
          BY <4>1 DEF Queue
        <5> QED
          BY <1>0, <5>1, LinkOnce
      <4> QED
        BY <3>1, <4>1
    <3>2. CASE sock' = NoClient
      BY <3>2, BoundsAssumption
    <3> QED
      BY <1>4, <3>1, <3>2
  <2> QED
    BY <1>3, <1>4, <2>1, <2>2 DEF Queue
<1>5. CASE Accept
  <2>1. backlog # <<>> /\ sock' = Head(backlog) /\ backlog' = Tail(backlog)
    BY <1>5 DEF Accept
  <2>2. /\ Len(backlog') = Len(backlog) - 1 /\ sock' = backlog[1] /\ 1 \in 1..Len(backlog)
        /\ \A k \in 1..Len(backlog') : backlog'[k] = backlog[k + 1]
        /\ \A k \in 1..Len(backlog') : k + 1 \in 1..Len(backlog) /\ k + 1 # 1
    BY <1>1, <2>1
  <2>3. ASSUME NEW k \in 1..Len(backlog'), NEW d, d = backlog'[k]
        PROVE  d # sock' /\ link'[d] # "new" /\ Untouched(d)'
    <3>1. k + 1 \in 1..Len(backlog) /\ k + 1 # 1 /\ d = backlog[k + 1]
      BY <2>2, <2>3
    <3> QED
      BY <1>2, <1>3, <2>2, <3>1
  <2>4. \A k, l \in 1..Len(backlog') : backlog'[k] = backlog'[l] => k = l
    <3>1. ASSUME NEW k \in 1..Len(backlog'), NEW l \in 1..Len(backlog'),
                 backlog'[k] = backlog'[l]
          PROVE  k = l
      <4>1. k + 1 = l + 1
        BY <1>3, <2>2, <3>1
      <4> QED
        BY <4>1
    <3> QED
      BY <3>1
  <2>5. link'[sock'] # "new"
    BY <1>2, <2>2
  <2> QED
    BY <2>3, <2>4, <2>5 DEF Queue
<1>6. CASE backlog' = <<>> /\ sock' = NoClient
  <2>1. 1..Len(backlog') = {}
    BY <1>6
  <2> QED
    BY <1>6, <2>1, BoundsAssumption DEF Queue
<1>7. ASSUME NEW c \in Clients, Connect(c)
      PROVE  Queue'
  <2>1. link[c] = "new" /\ link'[c] = "open" /\ backlog' = Append(backlog, c) /\ sock' = sock
        /\ effect' = effect
    BY <1>0, <1>7, ConnectOwn
  <2>2. /\ Len(backlog') = Len(backlog) + 1 /\ backlog'[Len(backlog) + 1] = c
        /\ \A k \in 1..Len(backlog) : backlog'[k] = backlog[k]
        /\ \A k \in 1..Len(backlog') : k \in 1..Len(backlog) \/ k = Len(backlog) + 1
    BY <1>1, <2>1
  <2>3. c # sock /\ \A k \in 1..Len(backlog) : backlog[k] # c
    BY <2>1 DEF Queue
  <2>4. Untouched(c)'
    <3>1. effect[c] = Idle
      BY <2>1 DEF Links, Link
    <3> QED
      BY <2>1, <3>1, Results DEF Untouched
  <2>5. ASSUME NEW k \in 1..Len(backlog'), NEW d, d = backlog'[k]
        PROVE  d # sock' /\ link'[d] # "new" /\ Untouched(d)'
    <3>1. CASE k \in 1..Len(backlog)
      BY <1>2, <2>1, <2>2, <2>5, <3>1
    <3>2. CASE k = Len(backlog) + 1
      <4>1. d = c
        BY <2>2, <2>5, <3>2
      <4> QED
        BY <2>1, <2>3, <2>4, <4>1
    <3> QED
      BY <2>2, <3>1, <3>2
  <2>6. \A k, l \in 1..Len(backlog') : backlog'[k] = backlog'[l] => k = l
    BY <1>3, <2>2, <2>3
  <2>7. sock' \in Clients => link'[sock'] # "new"
    <3>1. ASSUME NEW d \in Clients, d = sock
          PROVE  link'[d] # "new"
      <4>1. link[d] # "new"
        BY <3>1 DEF Queue
      <4> QED
        BY <1>0, <4>1, LinkOnce
    <3> QED
      BY <2>1, <3>1
  <2> QED
    BY <2>5, <2>6, <2>7 DEF Queue
<1>8. ASSUME NEW c \in Clients, Client(c), ~Connect(c)
      PROVE  Queue'
  BY <1>4, <1>8, ClientActs
<1>9. CASE AcceptFails \/ Start
  BY <1>6, <1>9 DEF AcceptFails, Start
<1>10. CASE WriteScripted \/ ReadI2c \/ Disconnected \/ ReadFails \/ CameraStarts \/ Stop
  BY <1>4, <1>10 DEF WriteScripted, ReadI2c, Disconnected, ReadFails, CameraStarts, Stop
<1>11. CASE Recv \/ Process \/ SendReply
  BY <1>4, <1>11 DEF Recv, Process, SendReply
<1> QED
  BY <1>5, <1>7, <1>8, <1>9, <1>10, <1>11, StepKinds DEF Beside

--------------------------------------------------------------------------------
(* The exchange on the bus                                                    *)

\* Each of the server's own commands sets a register that is no position.
LEMMA ScriptedSets ==
  ASSUME NEW t \in Scripted
  PROVE  \E r \in {"servo_en", "led_pwm", "led_en"} : \E v : Sets(Parser!Parse(t), r, v)
<1>1. /\ IO!Register("servo", "en") = "servo_en"
      /\ IO!Register("led", "pwm") = "led_pwm"
      /\ IO!Accepts("servo_en", 1) /\ IO!Accepts("led_pwm", 0)
  BY DEF IO!Register, IO!Accepts
<1>2. Sets(Parser!Parse(LightOn), "led_pwm", 0)
  <2>1. PICK p : p = Parser!Parse(LightOn)
    OBVIOUS
  <2>2. /\ p.ret = "S" /\ p.flags = 3 /\ p.device = "led" /\ p.type = "pwm" /\ p.v0 = 0
    BY <2>1, ParsesShort
  <2> QED
    BY <1>1, <2>1, <2>2 DEF Sets
<1>3. Sets(Parser!Parse(SSE("1")), "servo_en", 1)
  <2>1. Parser!Digit[1 + 1] = "1"
    BY DEF Parser!Digit
  <2>2. PICK p : p = Parser!Parse(SSE(Parser!Digit[1 + 1]))
    OBVIOUS
  <2>3. /\ p.ret = "S" /\ p.flags = 3 /\ p.device = "servo" /\ p.type = "en" /\ p.v0 = 1
    BY <2>2, ParsesShort
  <2> QED
    BY <1>1, <2>1, <2>2, <2>3 DEF Sets
<1> QED
  BY <1>2, <1>3, ScriptedCommands DEF Scripted

\* Such a command is acknowledged and leaves the positions alone, or is lost.
LEMMA ScriptedWritten ==
  ASSUME DOMAIN reg = IO!Registers, NEW t \in Scripted, OnBus(t)
  PROVE  /\ UNCHANGED firmware \/ (reply' = <<>> /\ asked' = "ack")
         /\ reg'["servo_pwm_x"] = reg["servo_pwm_x"]
         /\ reg'["servo_pwm_y"] = reg["servo_pwm_y"]
<1>1. CASE UNCHANGED firmware
  BY <1>1 DEF firmware
<1>2. ASSUME NEW p, p = Parser!Parse(t), IO!ReceiveI2c(p)
      PROVE  /\ reply' = <<>> /\ asked' = "ack"
             /\ reg'["servo_pwm_x"] = reg["servo_pwm_x"]
             /\ reg'["servo_pwm_y"] = reg["servo_pwm_y"]
  <2>1. PICK r \in {"servo_en", "led_pwm", "led_en"} : \E v : Sets(p, r, v)
    BY <1>2, ScriptedSets
  <2>2. PICK v : Sets(p, r, v)
    BY <2>1
  <2>3. reg' = [reg EXCEPT ![r] = v]
    BY <1>2, <2>2, CarriedOut
  <2>4. r # "servo_pwm_x" /\ r # "servo_pwm_y" /\ r # "none"
    BY <2>1
  <2>5. ~IO!GetRegister(p) /\ ~IO!SetBothAxes(p) /\ ~IO!RejectCommand(p)
    BY <2>2 DEF Sets, IO!GetRegister, IO!SetBothAxes, IO!RejectCommand
  <2>6. IO!SetRegister(p)
    BY <1>2, <2>5 DEF IO!ReceiveI2c
  <2>7. reply' = <<>> /\ asked' = "ack"
    BY <2>6 DEF IO!SetRegister, IO!Answer
  <2>8. {"servo_pwm_x", "servo_pwm_y"} \subseteq DOMAIN reg
    BY DEF IO!Registers
  <2> QED
    BY <2>3, <2>4, <2>7, <2>8
<1> QED
  BY <1>1, <1>2 DEF OnBus

\* Any command the firmware hears of starts a new answer.
LEMMA BusTakes ==
  ASSUME NEW text, OnBus(text)
  PROVE  UNCHANGED firmware \/ reply' = <<>>
<1>1. ASSUME NEW p, IO!ReceiveI2c(p)
      PROVE  reply' = <<>>
  BY <1>1 DEF IO!ReceiveI2c, IO!GetRegister, IO!SetRegister, IO!SetBothAxes,
       IO!RejectCommand, IO!Reject, IO!Answer
<1> QED
  BY <1>1 DEF OnBus

\* A byte read goes behind those of the answer that were read before.
LEMMA ByteBehind ==
  ASSUME IO!SendI2c, reply \in Seq(IO!ReplyBytes), reply' \in Seq(IO!ReplyBytes), ~Whole
  PROVE  /\ Len(reply') = Len(reply) + 1
         /\ \A k \in 1..Len(reply) : reply'[k] = reply[k]
         /\ UNCHANGED <<asked, reg>>
<1>1. PICK b : IO!WireWrite(b)
  BY DEF IO!SendI2c, IO!SendHeader, IO!SendDigit, IO!SendResult, IO!SendEnd
<1>2. reply' = Append(reply, b)
  BY <1>1 DEF IO!WireWrite, Whole
<1>3. UNCHANGED <<asked, reg>>
  BY DEF IO!SendI2c
<1> QED
  BY <1>2, <1>3

\* The byte read goes to cmd behind them.
LEMMA TransferKept ==
  ASSUME Typed, SP!IInv', ReadI2c, phase # "exit", Transfer, pc' = "read" \/ ~Whole
  PROVE  /\ ~Whole /\ i' = i + 1 /\ Len(reply') = i' /\ i' \in 1..8
         /\ Holds(cmd', reply', i') /\ UNCHANGED <<asked, reg>>
         /\ cmd' = Put(cmd, i, <<reply'[Len(reply')]>>)
<1>1. reply \in Seq(IO!ReplyBytes) /\ reply' \in Seq(IO!ReplyBytes) /\ Len(reply') <= 8
  BY FirmwareFacts, FirmwareFactsNext DEF Typed, IO!TypeOK, IO!ReplyIsOwed
<1>2. /\ IO!SendI2c /\ cmd' = Put(cmd, i, <<reply'[Len(reply')]>>) /\ i' = i + 1
      /\ pc' = IF reply'[Len(reply')] = "NUL" THEN AfterExchange ELSE "read"
  BY Zenon DEF ReadI2c
<1>3. AfterExchange # "read"
  BY DEF AfterExchange
<1>4. ~Whole
  BY <1>1, <1>2, <1>3, ByteRead DEF Whole
<1>5. Len(reply) = i /\ Holds(cmd, reply, i) /\ i \in Nat
  BY <1>1, <1>4 DEF Transfer
<1>6. /\ Len(reply') = i + 1 /\ \A k \in 1..i : reply'[k] = reply[k]
      /\ UNCHANGED <<asked, reg>>
  BY <1>1, <1>2, <1>4, <1>5, ByteBehind
<1>7. i \in 0..7
  BY <1>1, <1>5, <1>6
<1>8. PICK s : s = <<reply'[Len(reply')]>>
  OBVIOUS
<1>9. Segment(s, reply', i, 1)
  <2>1. Len(s) = 1 /\ s[1] = reply'[i + 1]
    BY <1>6, <1>8
  <2> QED
    BY <2>1 DEF Segment
<1>10. Holds(cmd, reply', i)
  BY <1>5, <1>6 DEF Holds
<1>11. Holds(cmd', reply', i + 1)
  <2>1. i \in 0..15 /\ 1 \in 1..16 /\ i + 1 <= 16
    BY <1>7
  <2>2. PICK t : t = reply'
    OBVIOUS
  <2>3. Holds(Put(cmd, i, s), t, i + 1)
    BY <1>9, <1>10, <2>1, <2>2, PieceHolds
  <2>4. cmd' = Put(cmd, i, s)
    BY <1>2, <1>8
  <2> QED
    BY <2>2, <2>3, <2>4
<1> QED
  BY <1>2, <1>4, <1>6, <1>7, <1>11

\* On a bus whose reads have not failed the server reads every answer to its end.
LEMMA ExchangeKept ==
  ASSUME Typed, SP!IInv', Inv, Exchange, nacks = 0, nacks' = 0, Next
  PROVE  Exchange'
<1>0. /\ Where /\ DOMAIN reg = IO!Registers /\ todo \in Seq(Scripted)
      /\ reply \in Seq(IO!ReplyBytes) /\ reply' \in Seq(IO!ReplyBytes)
  BY FirmwareFacts, FirmwareFactsNext DEF Inv, Typed, Locals, IO!TypeOK
\* The same step of the exchange, or one that begins a part that is not greet.
<1>1. CASE UNCHANGED <<firmware, pc, phase, cmd, i>>
  BY <1>1 DEF firmware, Exchange, Transfer, Whole, Holds
<1>2. CASE WriteScripted
  <2>1. /\ pc = "script" /\ todo # <<>> /\ OnBus(Head(todo)) /\ pc' = "read" /\ i' = 0
        /\ phase' = phase
    BY <1>0, <1>2 DEF WriteScripted, WriteI2c, Where
  <2>2. Head(todo) \in Scripted
    BY <1>0, <2>1
  <2>3. UNCHANGED firmware \/ (reply' = <<>> /\ asked' = "ack")
    BY <1>0, <2>1, <2>2, ScriptedWritten
  <2>4. phase # "serve"
    BY <1>0, <2>1 DEF Where
  <2>5. CASE UNCHANGED firmware
    <3>1. phase = "greet" => Whole'
      BY <2>1, <2>5 DEF Exchange, Whole, firmware
    <3> QED
      BY <2>1, <2>4, <3>1 DEF Exchange, Transfer
  <2>6. CASE reply' = <<>> /\ asked' = "ack"
    <3>1. Transfer'
      BY <2>1, <2>6 DEF Transfer, Whole, Holds
    <3> QED
      BY <2>1, <2>6, <3>1 DEF Exchange
  <2> QED
    BY <2>3, <2>5, <2>6
<1>3. CASE Process
  <2>1. pc = "process" /\ OnBus(CString(cmd)) /\ pc' = "read" /\ i' = 0 /\ phase' = phase
    BY <1>3 DEF Process, WriteI2c
  <2>2. phase = "serve" /\ Whole
    BY <1>0, <2>1 DEF Where, Exchange
  <2>3. UNCHANGED firmware \/ reply' = <<>>
    BY <2>1, BusTakes
  <2>4. Transfer'
    BY <2>1, <2>2, <2>3 DEF Transfer, Whole, Holds, firmware
  <2> QED
    BY <2>1, <2>2, <2>4 DEF Exchange
<1>4. CASE ReadI2c
  <2>1. /\ pc = "read" /\ IO!SendI2c
        /\ pc' = IF reply'[Len(reply')] = "NUL" THEN AfterExchange ELSE "read"
        /\ phase' = IF pc' = "recv" THEN "serve" ELSE phase
    BY <1>4, Zenon DEF ReadI2c
  <2>2. AfterExchange # "read"
    BY DEF AfterExchange
  <2>3. CASE pc' # "read"
    <3>1. Whole'
      BY <1>0, <2>1, <2>3, ByteRead DEF Whole
    <3> QED
      BY <2>3, <3>1 DEF Exchange
  <2>4. CASE pc' = "read"
    <3>1. phase' = phase /\ ~Whole'
      BY <2>1, <2>2, <2>4 DEF Whole
    <3>2. ASSUME phase \in {"greet", "serve"}
          PROVE  Transfer' /\ ~Whole /\ asked' = asked
      <4>1. Transfer /\ phase # "exit"
        BY <2>1, <3>2 DEF Exchange
      <4> QED
        BY <1>4, <2>4, <3>1, <4>1, TransferKept DEF Transfer
    <3> QED
      BY <2>1, <2>4, <3>1, <3>2 DEF Exchange
  <2> QED
    BY <2>3, <2>4
<1>5. ASSUME UNCHANGED firmware, Whole \/ pc' = "exited" \/ phase' # "greet", pc' \notin {"read"},
             Whole \/ pc' \in {"exited", "script"}
      PROVE  Exchange'
  <2>1. Whole' = Whole
    BY <1>5 DEF Whole, firmware
  <2> QED
    BY <1>5, <2>1 DEF Exchange
<1>6. CASE Accept \/ AcceptFails
  <2>1. pc = "accept" /\ UNCHANGED firmware /\ pc' \in {"script", "exited"}
    BY <1>6 DEF Accept, AcceptFails, Begin
  <2> QED
    BY <1>5, <2>1 DEF Exchange
<1>7. CASE Recv \/ SendReply
  <2>1. pc \in {"recv", "reply"} /\ UNCHANGED firmware /\ pc' \in {"recv", "process"}
    BY <1>7 DEF Recv, SendReply
  <2> QED
    BY <1>5, <2>1 DEF Exchange
<1>8. CASE Disconnected \/ Stop \/ Start
  <2>1. UNCHANGED firmware /\ (pc' = "exited" \/ (pc' = "script" /\ phase' # "greet"))
    BY <1>8 DEF Disconnected, Stop, Start, Begin
  <2> QED
    BY <1>5, <2>1
<1>9. CASE ReadFails
  BY <1>9 DEF ReadFails
<1>10. CASE CameraStarts
  BY <1>1, <1>10 DEF CameraStarts
<1>11. ASSUME NEW c \in Clients, Client(c)
       PROVE  Exchange'
  BY <1>1, <1>11, ClientActs
<1> QED
  BY <1>2, <1>3, <1>4, <1>6, <1>7, <1>8, <1>9, <1>10, <1>11 DEF Next, Server

--------------------------------------------------------------------------------
(* What a recv hands over                                                     *)

\* A piece that ends before its command is no longer than one.
LEMMA CopiedLength ==
  ASSUME j \in Cells, NEW piece \in Seq(Bytes), piece # <<>>, NulWithin(piece),
         NEW new, new = Copied(piece)
  PROVE  new.j \in 0..12
<1>1. CASE AllCopied(piece, new)
  <2>1. new.j = Len(piece) /\ \A n \in 1..Len(piece) : piece[n] # "NUL"
    BY <1>1 DEF AllCopied
  <2>2. Len(piece) \in Nat
    OBVIOUS
  <2>3. Len(piece) <= 12
    <3>1. SUFFICES ASSUME Len(piece) > 12  PROVE FALSE
      BY <2>2
    <3>2. 1 \in 1..(Len(piece) - 12)
      BY <2>2, <3>1
    <3>3. PICK n \in 1..(1 + 12) : piece[n] = "NUL"
      BY <3>2 DEF NulWithin
    <3>4. n \in 1..Len(piece)
      BY <2>2, <3>1
    <3> QED
      BY <2>1, <3>3, <3>4
  <2>4. \A l \in Nat : l <= 12 => l \in 0..12
    OBVIOUS
  <2> QED
    BY <2>1, <2>2, <2>3, <2>4, Zenon
<1>2. CASE OutOfRoom(piece, new) \/ AtNul(piece, new)
  BY <1>2 DEF OutOfRoom, AtNul
<1> QED
  BY <1>1, <1>2, CopiedCases

\* What a recv has to do with: the first n bytes of up, and what is left there.
Handed(c, n, new, piece) ==
  /\ n \in 1..Len(up[c]) /\ piece \in Seq(Bytes) /\ Len(piece) = n /\ piece # <<>>
  /\ \A k \in 1..n : piece[k] = up[c][k]
  /\ new = Copied(piece) /\ new.j \in 0..12
  /\ pieces[c] + 1 >= MaxPieces => n = Len(up[c])
  /\ up'[c] = SubSeq(up[c], n + 1, Len(up[c]))
  /\ cmd' = new.cmd /\ j' = new.j
  /\ pc' = IF new.done /\ StrLen(new.cmd) >= 3 THEN "process" ELSE "recv"

\* The phone being served, when something of it arrives.
Hears(c) ==
  /\ sock = c /\ sock' = c /\ phase' = phase /\ c \in Clients
  /\ up[c] \in Seq(Bytes) /\ up[c] # <<>> /\ call[c] \in Calls
  /\ effect[c] = Waiting /\ down[c] = <<>> /\ result[c] \in {Waiting, Lost}
  /\ pieces[c] \in Nat /\ pieces'[c] = pieces[c] + 1
  /\ UNCHANGED <<link, down, call, result, effect>>

\* What recv hands over is a piece of the served phone's command.
LEMMA RecvHands ==
  ASSUME Tables, Links, Typed, Where, Recv, NEW c, c = sock
  PROVE  Hears(c) /\ \E n, new, piece : Handed(c, n, new, piece)
<1>0. Wires /\ Sockets /\ j \in Cells
  BY DEF Typed, Locals
<1>1. /\ c \in Clients /\ up[c] # <<>> /\ pieces'[c] = pieces[c] + 1
      /\ \E n \in 1..Len(up[c]) : \E new : Took(c, n, new)
      /\ UNCHANGED <<sock, phase, link, down, call, result, effect>>
  BY <1>0, RecvOwn
<1>2. Hears(c)
  BY <1>0, <1>1 DEF Hears, Links, Link, Wires
<1>3. PICK n, new : n \in 1..Len(up[c]) /\ Took(c, n, new)
  BY <1>1
<1>4. PICK s : s = up[c]
  OBVIOUS
<1>5. s \in Seq(Bytes) /\ NulWithin(s) /\ n \in 1..Len(s)
  BY <1>0, <1>1, <1>3, <1>4 DEF Wires
<1>6. PICK piece : piece = SubSeq(s, 1, n)
  OBVIOUS
<1>7. piece \in Seq(Bytes) /\ NulWithin(piece)
  <2>1. 1 \in 1..(Len(s) + 1) /\ n \in (1 - 1)..Len(s)
    BY <1>5
  <2> QED
    BY <1>5, <1>6, <2>1, NulWithinPart
<1>8. Len(piece) = n /\ \A k \in 1..n : piece[k] = s[k]
  BY <1>5, <1>6
<1>9. piece # <<>>
  BY <1>5, <1>7, <1>8
<1>10. new = Copied(piece)
  BY <1>3, <1>4, <1>6 DEF Took
<1>11. new.j \in 0..12
  BY <1>0, <1>7, <1>9, <1>10, CopiedLength
<1>12. Handed(c, n, new, piece)
  BY <1>3, <1>4, <1>5, <1>7, <1>8, <1>9, <1>10, <1>11 DEF Handed, Took
<1> QED
  BY <1>2, <1>12

\* Where a recv leads: more to come, or a command.
Led(c) ==
  /\ j' \in 0..12
  /\ pc' = "recv" => Receiving(c)'
  /\ pc' = "process" => Alone(c)' /\ Ready(c)'
  /\ pc' \in {"recv", "process"}

\* The last piece of a command.
LEMMA LastPiece ==
  ASSUME cmd \in [Cells -> Bytes], j \in 0..12, MaxPieces <= 2, MaxPieces \in Nat,
         NEW c, Hears(c), NEW n, NEW new, NEW piece, Handed(c, n, new, piece),
         pieces[c] >= 1, Clean(c) \/ Spoiled(c)
  PROVE  Led(c)
<1>0. j \in Cells
  BY DEF Cells
<1>1. n = Len(up[c]) /\ up'[c] = <<>> /\ pieces'[c] >= 1
  <2>1. pieces[c] + 1 >= MaxPieces
    BY DEF Hears
  <2>2. n = Len(up[c])
    BY <2>1 DEF Handed
  <2>3. up'[c] = SubSeq(up[c], Len(up[c]) + 1, Len(up[c])) /\ up[c] \in Seq(Bytes)
    BY <2>2 DEF Handed, Hears
  <2>4. up'[c] = <<>>
    BY <2>3
  <2> QED
    BY <2>2, <2>4 DEF Hears
<1>2. j' \in 0..12 /\ pc' \in {"recv", "process"}
  BY DEF Handed
<1>3. Receiving(c)'
  BY <1>1 DEF Receiving, Spoiled, Hears
<1>4. ASSUME pc' = "process"
      PROVE  Alone(c)' /\ Ready(c)'
  <2>1. new.done /\ StrLen(new.cmd) >= 3
    BY <1>4 DEF Handed
  <2>2. /\ j > 0 => new.cmd[0] = cmd[0]
        /\ j = 0 => new.cmd[0] = piece[1]
        /\ new.j = 0
    BY <1>0, <2>1, OtherPiece DEF Handed
  <2>3. Alone(c)'
    <3>1. j' = 0
      BY <2>2 DEF Handed
    <3> QED
      BY <1>1, <1>4, <3>1 DEF Alone, Hears
  <2>4. StrLen(cmd') >= 3
    BY <2>1 DEF Handed
  <2>5. CASE Spoiled(c)
    <3>1. (j = 0 /\ Bad(up[c][1])) \/ (j > 0 /\ Bad(cmd[0]))
      BY <2>5 DEF Spoiled, Hears
    <3>2. piece[1] = up[c][1]
      BY DEF Handed
    <3>3. Bad(new.cmd[0])
      BY <2>2, <3>1, <3>2
    <3> QED
      BY <2>3, <2>4, <3>3 DEF Ready, Handed
  <2>6. CASE Clean(c)
    <3>1. PICK t, u, L : t = Command(call[c]) /\ u = Text(call[c]) /\ L = Len(t)
      OBVIOUS
    <3>2. L \in 4..13 /\ Terminated(t, u, L) /\ u \in Seq(Bytes) /\ t \in Seq(Bytes)
      BY <3>1, CommandTerminated, CommandTyped DEF Hears
    <3>3. PICK m \in j..L : up[c] = SubSeq(t, j + 1, m)
      BY <2>6, <3>1 DEF Clean, Ahead
    <3>4. /\ Len(up[c]) = m - j
          /\ \A k \in 1..(m - j) : up[c][k] = t[j + k]
      <4>1. j \in Nat /\ m \in j..Len(t)
        BY <3>1, <3>3
      <4> QED
        BY <3>2, <3>3, <4>1, PartIs
    <3>5. n \in 1..13 /\ j + n <= L /\ n = m - j
      BY <1>1, <3>2, <3>3, <3>4 DEF Handed
    <3>6. Segment(piece, t, j, n)
      BY <3>4, <3>5 DEF Handed, Segment
    <3>7. Holds(cmd, t, j)
      BY <2>6, <3>1 DEF Clean
    <3>8. More(new, t, j + n) \/ Complete(new, u)
      BY <1>0, <3>2, <3>5, <3>6, <3>7, NextPiece DEF Handed
    <3>9. CString(new.cmd) = u
      BY <2>1, <3>8 DEF More, Complete
    <3> QED
      BY <2>3, <2>4, <3>1, <3>9 DEF Ready, Handed, Hears
  <2> QED
    BY <2>5, <2>6
<1> QED
  BY <1>2, <1>3, <1>4 DEF Led

\* The first piece of a command.
LEMMA FirstPiece ==
  ASSUME cmd \in [Cells -> Bytes], j \in 0..12,
         NEW c, Hears(c), NEW n, NEW new, NEW piece, Handed(c, n, new, piece),
         Untouched(c), j = 0 \/ Bad(cmd[0])
  PROVE  Led(c)
<1>0. j \in Cells
  BY DEF Cells
<1>1. PICK t, u, L : t = Command(call[c]) /\ u = Text(call[c]) /\ L = Len(t)
  OBVIOUS
<1>2. L \in 4..13 /\ Terminated(t, u, L) /\ u \in Seq(Bytes) /\ t \in Seq(Bytes)
  BY <1>1, CommandTerminated, CommandTyped DEF Hears
<1>3. PICK m \in 0..L : up[c] = SubSeq(t, 0 + 1, m)
  BY <1>1 DEF Untouched, Ahead, Hears
<1>4. /\ Len(up[c]) = m
      /\ \A k \in 1..m : up[c][k] = t[0 + k]
  <2>1. 0 \in Nat /\ m \in 0..Len(t) /\ m - 0 = m
    BY <1>1, <1>3
  <2> QED
    BY <1>2, <1>3, <2>1, PartIs
<1>5. n \in 1..m /\ n \in 1..13 /\ n <= L /\ n \in Nat
  <2>1. n \in 1..m
    BY <1>4 DEF Handed
  <2>2. \A a \in 4..13 : \A b \in 0..a : \A l \in 1..b : l \in 1..13 /\ l <= a /\ l \in Nat
    OBVIOUS
  <2> QED
    BY <1>2, <1>3, <2>1, <2>2, Zenon
<1>6. up'[c] = SubSeq(t, n + 1, m) /\ m \in n..Len(t)
  <2>1. PICK s : s = up[c]
    OBVIOUS
  <2>2. 0 \in Nat /\ m \in 0..Len(t) /\ s = SubSeq(t, 0 + 1, m) /\ n \in 0..Len(s)
    BY <1>1, <1>3, <1>4, <1>5, <2>1
  <2>3. m \in (0 + n)..Len(t) /\ SubSeq(s, n + 1, Len(s)) = SubSeq(t, (0 + n) + 1, m)
    BY <1>2, <2>2, PartEnds
  <2>4. 0 + n = n
    BY <1>5
  <2> QED
    BY <2>1, <2>3, <2>4 DEF Handed
<1>7. /\ up'[c] \in Seq(Bytes) /\ Len(up'[c]) = m - n
      /\ \A k \in 1..(m - n) : up'[c][k] = t[n + k]
  <2>1. PICK v : v = up'[c]
    OBVIOUS
  <2>2. v = SubSeq(t, n + 1, m)
    BY <1>6, <2>1
  <2>3. /\ v \in Seq(Bytes) /\ Len(v) = m - n
        /\ \A k \in 1..(m - n) : v[k] = t[n + k]
    BY <1>2, <1>5, <1>6, <2>2, PartIs
  <2> QED
    BY <2>1, <2>3
<1>8. up'[c] \in Seq(Bytes) /\ (n = m => up'[c] = <<>>)
  <2>1. up'[c] \in Seq(Bytes)
    BY <1>7
  <2> QED
    BY <1>7, <2>1
<1>9. j' \in 0..12 /\ pc' \in {"recv", "process"} /\ pieces'[c] >= 1 /\ effect'[c] = Waiting
  BY DEF Handed, Hears
\* It is read from its start ...
<1>10. CASE j = 0
  <2>1. Segment(piece, t, j, n)
    <3>1. \A k \in 1..n : k \in 1..m /\ 0 + k = k
      BY <1>5
    <3> QED
      BY <1>4, <1>10, <3>1 DEF Handed, Segment
  <2>2. Holds(cmd, t, j)
    BY <1>10 DEF Holds
  <2>3. j + n = n /\ j + n <= L
    BY <1>5, <1>10
  <2>4. \/ n < L /\ More(new, t, n) /\ new.j = n
        \/ n = L /\ Complete(new, u)
    <3>1. \/ j + n < L /\ More(new, t, j + n) /\ new.j = n
          \/ j + n = L /\ Complete(new, u)
      BY <1>0, <1>2, <1>5, <2>1, <2>2, <2>3, NextPiece DEF Handed
    <3> QED
      BY <2>3, <3>1
  <2>5. CASE n < L /\ More(new, t, n) /\ new.j = n
    <3>1. pc' = "recv" /\ j' = n /\ cmd' = new.cmd
      BY <2>5 DEF More, Handed
    <3>2. Clean(c)'
      <4>1. j' \in 1..(L - 1)
        BY <1>2, <1>5, <2>5, <3>1
      <4>2. Ahead(c, j)'
        BY <1>1, <1>6, <3>1 DEF Ahead, Hears
      <4>3. Holds(cmd', t, j')
        BY <2>5, <3>1 DEF More
      <4>4. call' = call
        BY DEF Hears
      <4> QED
        BY <1>1, <4>1, <4>2, <4>3, <4>4 DEF Clean
    <3>3. Receiving(c)'
      BY <1>9, <3>2 DEF Receiving
    <3> QED
      BY <1>9, <3>1, <3>3 DEF Led
  <2>6. CASE n = L /\ Complete(new, u)
    <3>1. pc' = "process" /\ j' = 0 /\ cmd' = new.cmd
      BY <2>6, Zenon DEF Complete, Handed
    <3>2. up'[c] = <<>>
      BY <1>3, <1>5, <1>8, <2>6
    <3>3. Alone(c)'
      BY <3>1, <3>2 DEF Alone, Hears
    <3>4. Ready(c)'
      BY <1>1, <2>6, <3>1 DEF Ready, Complete, Hears
    <3> QED
      BY <1>9, <3>1, <3>3, <3>4 DEF Led
  <2> QED
    BY <2>4, <2>5, <2>6
\* ... or goes behind what a phone that died left in cmd.
<1>11. CASE j > 0 /\ Bad(cmd[0])
  <2>1. /\ Bad(new.cmd[0])
        /\ new.done => new.j = 0 /\ \E k \in 1..Len(piece) : piece[k] = "NUL"
        /\ new.done \/ new.j = n \/ (new.j = 0 /\ n + j > 15)
    BY <1>0, <1>11, OtherPiece DEF Handed
  <2>2. CASE new.done
    <3>1. PICK k \in 1..n : piece[k] = "NUL"
      BY <2>1, <2>2 DEF Handed
    <3>2. t[k] = "NUL" /\ k \in 1..L
      <4>1. k \in 1..m /\ 0 + k = k /\ k \in 1..L
        <5>1. \A a \in Nat : \A b \in 0..a : \A l \in 1..b : \A x \in 1..l :
                x \in 1..b /\ 0 + x = x /\ x \in 1..a
          OBVIOUS
        <5>2. L \in Nat
          BY <1>2
        <5> QED
          BY <1>3, <1>5, <3>1, <5>1, <5>2, Zenon
      <4>2. piece[k] = up[c][k] /\ up[c][k] = t[0 + k]
        BY <1>4, <3>1, <4>1 DEF Handed
      <4> QED
        BY <3>1, <4>1, <4>2
    <3>3. k = L
      BY <1>2, <3>2 DEF Terminated
    <3>4. up'[c] = <<>>
      BY <1>3, <1>5, <1>8, <3>1, <3>3
    <3>5. j' = 0 /\ cmd' = new.cmd
      BY <2>1, <2>2 DEF Handed
    <3>6. Receiving(c)'
      BY <1>9, <3>4 DEF Receiving, Spoiled
    <3>7. ASSUME pc' = "process"
          PROVE  Alone(c)' /\ Ready(c)'
      <4>1. StrLen(cmd') >= 3
        BY <3>7 DEF Handed
      <4>2. Ready(c)'
        BY <2>1, <3>5, <4>1 DEF Ready
      <4> QED
        BY <3>4, <3>5, <3>7, <4>2 DEF Alone, Hears
    <3> QED
      BY <1>9, <3>6, <3>7 DEF Led
  <2>3. CASE ~new.done
    <3>1. pc' = "recv" /\ cmd' = new.cmd /\ j' = new.j
      BY <2>3 DEF Handed
    <3>2. CASE new.j = n
      <4>1. Spoiled(c)'
        BY <1>5, <2>1, <3>1, <3>2 DEF Spoiled
      <4> QED
        BY <1>9, <3>1, <4>1 DEF Led, Receiving
    <3>3. CASE new.j = 0 /\ n + j > 15
      <4>1. n >= 4 /\ n \in Nat
        BY <1>5, <3>3
      <4>2. Spoiled(c)'
        <5>1. CASE n = m
          BY <1>8, <5>1 DEF Spoiled
        <5>2. CASE n < m
          <6>1. 1 \in 1..(m - n) /\ n + 1 \in 3..L
            <7>1. \A a \in 4..13 : \A b \in 0..a : \A l \in Nat :
                    l >= 4 /\ l < b => 1 \in 1..(b - l) /\ l + 1 \in 3..a
              OBVIOUS
            <7> QED
              BY <1>2, <1>3, <4>1, <5>2, <7>1, Zenon
          <6>2. up'[c][1] = t[n + 1]
            BY <1>7, <6>1
          <6>3. Bad(t[n + 1])
            BY <1>1, <6>1, CommandShape DEF Hears
          <6> QED
            BY <3>1, <3>3, <6>2, <6>3 DEF Spoiled
        <5> QED
          BY <1>3, <1>5, <5>1, <5>2
      <4> QED
        BY <1>9, <3>1, <4>2 DEF Led, Receiving
    <3> QED
      BY <2>1, <2>3, <3>2, <3>3
  <2> QED
    BY <2>2, <2>3
<1> QED
  BY <1>10, <1>11

\* recv keeps the command together, or what is left of it in cmd and on the
\* wire is refused.
LEMMA RecvLeads ==
  ASSUME Tables, Links, Typed, Where, Collecting, MaxPieces <= 2, Recv, NEW c, c = sock
  PROVE  Led(c) /\ sock' = c
<1>1. /\ Hears(c)
      /\ \E n, new, piece : Handed(c, n, new, piece)
  BY RecvHands
<1>2. PICK n, new, piece : Handed(c, n, new, piece)
  BY <1>1
<1>3. cmd \in [Cells -> Bytes] /\ j \in 0..12 /\ MaxPieces \in Nat
  BY BoundsAssumption DEF Typed, Locals, Collecting
<1>4. Receiving(c)
  <2>1. pc = "recv"
    BY DEF Recv
  <2> QED
    BY <2>1 DEF Collecting
<1>5. CASE Untouched(c) /\ (j = 0 \/ Bad(cmd[0]))
  BY <1>1, <1>2, <1>3, <1>5, FirstPiece DEF Hears
<1>6. CASE pieces[c] >= 1 /\ (Clean(c) \/ Spoiled(c))
  BY <1>1, <1>2, <1>3, <1>6, LastPiece DEF Hears
<1> QED
  BY <1>4, <1>5, <1>6 DEF Receiving

--------------------------------------------------------------------------------
(* The command while it arrives                                               *)

\* A phone that does nothing keeps its place.
LEMMA ReceivingSame ==
  ASSUME NEW d, Same(d), UNCHANGED <<cmd, j>>, Receiving(d)
  PROVE  Receiving(d)'
BY DEF Same, Receiving, Untouched, Ahead, Clean, Spoiled

\* So does one that acts while its command arrives.
LEMMA ReceivingOwn ==
  ASSUME Tables, Wires, NEW c \in Clients, Link(c), Client(c), link[c] # "new",
         UNCHANGED <<cmd, j>>, Receiving(c), j \in 0..12
  PROVE  Receiving(c)'
<1>1. CASE Untouched(c) /\ (j = 0 \/ Bad(cmd[0]))
  BY <1>1, UntouchedOwn DEF Receiving
<1>2. CASE effect[c] = Waiting /\ pieces[c] >= 1 /\ (Clean(c) \/ Spoiled(c))
  <2>1. CASE Connect(c)
    BY <2>1 DEF Connect
  <2>2. ASSUME NEW op \in Calls, Invoke(c, op)
        PROVE  FALSE
    BY <1>2, <2>2, InvokeAhead
  <2>3. CASE Return(c)
    BY <1>2, <2>3, ReturnOwn
  <2>4. CASE Close(c)
    <3>1. UNCHANGED <<up, call, effect, pieces>>
      BY <2>4, CloseOwn
    <3> QED
      BY <1>2, <3>1 DEF Receiving, Clean, Spoiled, Ahead
  <2>5. CASE Break(c)
    <3>1. UNCHANGED <<up, call, effect, pieces>>
      BY <2>5, BreakOwn
    <3> QED
      BY <1>2, <3>1 DEF Receiving, Clean, Spoiled, Ahead
  <2>6. CASE Crash(c)
    <3>1. PICK l \in 0..Len(up[c]) : up'[c] = SubSeq(up[c], 1, l)
                                     /\ UNCHANGED <<call, effect, pieces>>
      BY <2>6, CrashOwn
    <3>2. call[c] \in Calls
      BY <1>2 DEF Link
    <3>3. CASE Clean(c)
      <4>1. j \in Nat /\ Ahead(c, j)
        BY <3>3 DEF Clean
      <4>2. \A n \in Nat : Ahead(c, n) => Ahead(c, n)'
        BY <2>6, <3>2, CrashAhead
      <4>3. Ahead(c, j)'
        <5>1. PICK n \in Nat : n = j
          BY <4>1
        <5>2. Ahead(c, n)'
          BY <4>1, <4>2, <5>1
        <5> QED
          BY <5>1, <5>2 DEF Ahead
      <4> QED
        BY <1>2, <3>1, <3>3, <4>3 DEF Receiving, Clean
    <3>4. CASE Spoiled(c)
      <4>1. PICK s : s = up[c]
        OBVIOUS
      <4>2. s \in Seq(Bytes) /\ l \in 0..Len(s) /\ up'[c] = SubSeq(s, 1, l)
        BY <3>1, <4>1 DEF Wires
      <4>3. up'[c] = <<>> \/ (s # <<>> /\ up'[c][1] = s[1])
        <5>1. CASE l = 0
          BY <4>2, <5>1
        <5>2. CASE l # 0
          <6>1. 1 \in 1..l /\ Len(s) # 0
            BY <4>2, <5>2
          <6>2. SubSeq(s, 1, l)[1] = s[1]
            BY <4>2, <6>1
          <6> QED
            BY <4>2, <6>1, <6>2
        <5> QED
          BY <5>1, <5>2
      <4>4. Spoiled(c)'
        BY <3>4, <4>1, <4>3 DEF Spoiled
      <4> QED
        BY <1>2, <3>1, <4>4 DEF Receiving
    <3> QED
      BY <1>2, <3>3, <3>4
  <2> QED
    BY <2>1, <2>2, <2>3, <2>4, <2>5, <2>6 DEF Client
<1> QED
  BY <1>1, <1>2 DEF Receiving

\* Out of the exchanges that wake up the head, cmd begins with no letter.
LEMMA GreetEnds ==
  ASSUME Typed, SP!IInv', Exchange, ReadI2c, phase = "greet", pc' = "recv"
  PROVE  Bad(cmd'[0])
<1>0. /\ reply \in Seq(IO!ReplyBytes) /\ reply' \in Seq(IO!ReplyBytes)
      /\ cmd \in [Cells -> Bytes]
  BY FirmwareFacts, FirmwareFactsNext DEF Typed, Locals, IO!TypeOK
<1>1. /\ pc = "read" /\ IO!SendI2c /\ cmd' = Put(cmd, i, <<reply'[Len(reply')]>>)
      /\ pc' = IF reply'[Len(reply')] = "NUL" THEN AfterExchange ELSE "read"
  BY Zenon DEF ReadI2c
<1>2. Transfer /\ (~Whole => asked \in {"ack", "fail"})
  BY <1>1 DEF Exchange
<1>3. CASE Whole
  <2>1. i = 0 /\ reply'[Len(reply')] = "NUL"
    BY <1>1, <1>2, <1>3 DEF Transfer
  <2>2. cmd' = Put(cmd, 0, <<"NUL">>)
    BY <1>1, <2>1
  <2>3. cmd'[0] = "NUL"
    <3>1. 0 \in Cells /\ 0 \in 0..(0 + Len(<<"NUL">>) - 1) /\ <<"NUL">>[0 - 0 + 1] = "NUL"
      BY DEF Cells
    <3> QED
      BY <2>2, <3>1, PutAt
  <2> QED
    BY <2>3, DigitsAreBad
<1>4. CASE ~Whole
  <2>1. Len(reply') = i' /\ i' \in 1..8 /\ Holds(cmd', reply', i') /\ asked' = asked
    BY <1>2, <1>4, TransferKept
  <2>2. cmd'[0] = reply'[1]
    <3>1. 1 \in 1..i' /\ 1 - 1 = 0
      BY <2>1
    <3> QED
      BY <2>1, <3>1 DEF Holds
  <2>3. reply'[1] = IO!OwedByte(1)'
    <3>1. IO!ReplyIsOwed' /\ 1 \in 1..Len(reply')
      BY <2>1, FirmwareFactsNext
    <3> QED
      BY <3>1 DEF IO!ReplyIsOwed
  <2>4. asked' \notin IO!Registers
    BY <1>2, <1>4, <2>1 DEF IO!Registers
  <2>5. IO!OwedByte(1)' \in {"T", "F", "NUL"}
    BY <2>4 DEF IO!OwedByte
  <2> QED
    BY <2>2, <2>3, <2>5, DigitsAreBad
<1> QED
  BY <1>3, <1>4

\* Every step keeps what is said of the command while it arrives.
LEMMA CollectingKept ==
  ASSUME Tables, Links, Queue, Exchange, Collecting, Serving, Typed, SP!IInv', Where,
         MaxPieces <= 2, nacks = 0, nacks' = 0, Next
  PROVE  Collecting'
<1>0. Wires /\ Sockets /\ j \in 0..12
  BY DEF Typed, Collecting
\* The phone being served, or nobody.
<1>1. ASSUME sock \in Clients, sock' = sock, UNCHANGED <<cmd, j>>,
             phase' = "greet" => phase = "greet",
             pc' = "recv" => pc = "recv",
             Beside \/ \E c \in Clients : Client(c)
      PROVE  Collecting'
  <2>1. ASSUME NEW d \in Clients, d = sock
        PROVE  /\ Untouched(d) => Untouched(d)'
               /\ Receiving(d) => Receiving(d)'
    <3>1. CASE Beside
      <4>1. Same(d)
        BY <3>1, BesideClients
      <4> QED
        BY <1>1, <4>1, UntouchedKept, ReceivingSame
    <3>2. ASSUME NEW c \in Clients, Client(c), c # d
          PROVE  Same(d)
      BY <1>0, <2>1, <3>2, ClientActs, Elsewhere
    <3>3. ASSUME Client(d)
          PROVE  /\ Untouched(d) => Untouched(d)'
                 /\ Receiving(d) => Receiving(d)'
      <4>1. Link(d) /\ link[d] # "new"
        BY <2>1 DEF Links, Queue
      <4> QED
        BY <1>0, <1>1, <2>1, <3>3, <4>1, UntouchedOwn, ReceivingOwn
    <3>4. CASE Same(d)
      BY <1>1, <3>4, UntouchedKept, ReceivingSame
    <3> QED
      BY <1>1, <3>1, <3>2, <3>3, <3>4
  <2>2. PICK d \in Clients : d = sock
    BY <1>1
  <2>3. /\ Untouched(d) => Untouched(d)'
        /\ Receiving(d) => Receiving(d)'
    BY <2>1, <2>2
  <2>4. phase' = "greet" => Untouched(d)'
    BY <1>1, <2>2, <2>3 DEF Collecting
  <2>5. pc' = "recv" => Receiving(d)'
    BY <1>1, <2>2, <2>3 DEF Collecting
  <2>6. sock' = d
    BY <1>1, <2>2
  <2> QED
    BY <1>0, <1>1, <2>4, <2>5, <2>6 DEF Collecting
<1>2. ASSUME j' \in 0..12, phase' # "greet", pc' # "recv"
      PROVE  Collecting'
  BY <1>2 DEF Collecting
<1>3. pc = "recv" \/ phase = "greet" => sock \in Clients
  BY <1>0 DEF Sockets, Where
<1>4. CASE WriteScripted
  <2>1. /\ pc' = "read" /\ phase' = phase /\ sock' = sock /\ j' = j
    BY <1>4 DEF WriteScripted, WriteI2c
  <2>2. ASSUME phase = "greet"
        PROVE  Collecting'
    <3>1. sock \in Clients
      BY <1>3, <2>2
    <3>2. Untouched(sock)
      BY <2>2 DEF Collecting
    <3>3. ASSUME NEW d, d = sock
          PROVE  Untouched(d)'
      <4>1. Same(d) /\ Untouched(d)
        BY <1>4, <3>2, <3>3, BesideClients DEF Beside
      <4> QED
        BY <4>1, UntouchedKept
    <3> QED
      BY <1>0, <2>1, <3>3 DEF Collecting
  <2> QED
    BY <1>0, <1>2, <2>1, <2>2
<1>5. CASE ReadI2c
  <2>1. /\ phase' = IF pc' = "recv" THEN "serve" ELSE phase
        /\ sock' = sock /\ j' = j /\ pc = "read"
        /\ pc' = IF reply'[Len(reply')] = "NUL" THEN AfterExchange ELSE "read"
    BY <1>5, Zenon DEF ReadI2c
  <2>2. pc' = "recv" => phase = "greet"
    BY <2>1 DEF AfterExchange, Where
  <2>3. ASSUME phase = "greet"
        PROVE  Collecting'
    <3>1. ASSUME NEW d, d = sock
          PROVE  Untouched(d)'
      <4>1. Same(d) /\ Untouched(d)
        BY <1>5, <2>3, <3>1, BesideClients DEF Beside, Collecting
      <4> QED
        BY <4>1, UntouchedKept
    <3>2. pc' = "recv" => Bad(cmd'[0])
      BY <1>5, <2>3, GreetEnds
    <3>3. ASSUME NEW d, d = sock
          PROVE  pc' = "recv" => Receiving(d)'
      BY <3>1, <3>2, <3>3 DEF Receiving
    <3> QED
      BY <1>0, <2>1, <3>1, <3>3 DEF Collecting
  <2>4. CASE phase # "greet"
    BY <1>0, <1>2, <2>1, <2>2, <2>4
  <2> QED
    BY <2>3, <2>4
<1>6. CASE Accept
  <2>1. /\ backlog # <<>> /\ sock' = Head(backlog) /\ pc' = "script" /\ j' = j
    BY <1>6 DEF Accept, Begin
  <2>2. sock' = backlog[1] /\ 1 \in 1..Len(backlog)
    BY <1>0, <2>1 DEF Sockets
  <2>3. ASSUME NEW d, d = backlog[1]
        PROVE  Untouched(d)'
    <3>1. Same(d) /\ Untouched(d)
      BY <1>6, <2>2, <2>3, BesideClients DEF Beside, Queue
    <3> QED
      BY <3>1, UntouchedKept
  <2> QED
    BY <1>0, <2>1, <2>2, <2>3 DEF Collecting
<1>7. CASE AcceptFails \/ Disconnected \/ Stop \/ Start
  <2>1. CASE AcceptFails
    BY <1>0, <1>2, <2>1 DEF AcceptFails, Where
  <2>2. CASE Disconnected
    BY <1>0, <1>2, <2>2 DEF Disconnected, Begin
  <2>3. CASE Start
    BY <1>2, <2>3 DEF Start, Begin
  <2>4. CASE Stop /\ phase' # "greet"
    <3>1. pc' # "recv" /\ j' = j
      BY <2>4 DEF Stop, Begin
    <3> QED
      BY <1>0, <1>2, <2>4, <3>1
  <2>5. CASE Stop /\ phase' = "greet"
    BY <2>5 DEF Stop, Begin
  <2> QED
    BY <1>7, <2>1, <2>2, <2>3, <2>4, <2>5
<1>8. CASE ReadFails
  BY <1>8 DEF ReadFails
<1>9. CASE Process
  BY <1>0, <1>2, <1>9, ProcessOwn
<1>10. CASE SendReply
  <2>1. /\ pc = "reply" /\ sock' = sock /\ j' = j /\ phase' = "serve"
        /\ UNCHANGED <<effect, pieces, up, call>>
    BY <1>0, <1>10, SendReplyOwn
  <2>2. j = 0 /\ effect[sock] # Waiting
    BY <2>1 DEF Serving, Busy, Alone
  <2>3. ASSUME NEW d, d = sock
        PROVE  Receiving(d)'
    BY <2>1, <2>2, <2>3 DEF Receiving, Untouched
  <2> QED
    BY <1>0, <2>1, <2>3 DEF Collecting
<1>11. CASE Recv
  <2>1. phase' = "serve"
    BY <1>0, <1>11, RecvOwn
  <2>2. ASSUME NEW d, d = sock
        PROVE  j' \in 0..12 /\ sock' = d /\ (pc' = "recv" => Receiving(d)')
    BY <1>11, <2>2, RecvLeads DEF Led
  <2> QED
    BY <2>1, <2>2 DEF Collecting
<1>12. CASE CameraStarts
  <2>1. UNCHANGED <<cmd, j, sock, phase, pc>> /\ Beside
    BY <1>12 DEF CameraStarts, Beside
  <2>2. CASE pc = "recv" \/ phase = "greet"
    BY <1>1, <1>3, <2>1, <2>2
  <2>3. CASE ~(pc = "recv" \/ phase = "greet")
    BY <1>0, <1>2, <2>1, <2>3
  <2> QED
    BY <2>2, <2>3
<1>13. ASSUME NEW c \in Clients, Client(c)
       PROVE  Collecting'
  <2>1. UNCHANGED <<cmd, j, sock, phase, pc>>
    BY <1>13, ClientActs
  <2>2. CASE pc = "recv" \/ phase = "greet"
    BY <1>1, <1>3, <1>13, <2>1, <2>2
  <2>3. CASE ~(pc = "recv" \/ phase = "greet")
    BY <1>0, <1>2, <2>1, <2>3
  <2> QED
    BY <2>2, <2>3
<1> QED
  BY <1>4, <1>5, <1>6, <1>7, <1>8, <1>9, <1>10, <1>11, <1>12, <1>13 DEF Next, Server

--------------------------------------------------------------------------------
(* What comes of a command                                                    *)

\* What a command comes to: it is lost, refused, or one of the three calls.
Unheard == Whole' /\ Outcome = Failed /\ reg' = reg

Refuses == ~Whole' /\ ~flag' /\ asked' = "fail" /\ Outcome = Failed /\ reg' = reg

Reads(c) ==
  /\ ~Whole' /\ flag' /\ call[c].op = "get" /\ call[c].axis \in {"X", "Y"}
  /\ asked' = Position(call[c].axis) /\ reg' = reg
  /\ Outcome = Service!Value(reg[Position(call[c].axis)])

Switches(c) ==
  /\ ~Whole' /\ ~flag' /\ call[c].op = "enable" /\ asked' = "ack" /\ Outcome = Yes
  /\ reg'["servo_pwm_x"] = reg["servo_pwm_x"]
  /\ reg'["servo_pwm_y"] = reg["servo_pwm_y"]

Moves(c) ==
  /\ ~Whole' /\ ~flag' /\ call[c].op = "set"
  /\ asked' = IF IO!Pulse(call[c].x) /\ IO!Pulse(call[c].y) THEN "ack" ELSE "fail"
  /\ Outcome = IF IO!Pulse(call[c].x) /\ IO!Pulse(call[c].y) THEN Yes ELSE Failed
  /\ reg'["servo_pwm_x"] = IF IO!Pulse(call[c].x) THEN call[c].x ELSE reg["servo_pwm_x"]
  /\ reg'["servo_pwm_y"] = IF IO!Pulse(call[c].y) THEN call[c].y ELSE reg["servo_pwm_y"]

\* What the service says of it follows from the answer the firmware owes.
LEMMA OutcomeOf ==
  ASSUME lostWrites' = lostWrites
  PROVE  /\ asked' = "ack" => Outcome = Yes
         /\ asked' = "fail" => Outcome = Failed
         /\ asked' \in Pulses => Outcome = Service!Value(reg[asked'])
<1>1. Outcome = CASE asked' = "ack"  -> Yes
                  [] asked' = "fail" -> Failed
                  [] OTHER           -> Service!Value(reg[asked'])
  BY Zenon DEF Outcome
<1>2. "ack" # "fail" /\ "ack" \notin Pulses /\ "fail" \notin Pulses
  BY DEF Pulses
<1>3. asked' = "ack" => Outcome = Yes
  BY <1>1, <1>2
<1>4. asked' = "fail" => Outcome = Failed
  BY <1>1, <1>2
<1>5. asked' \in Pulses => Outcome = Service!Value(reg[asked'])
  <2>1. asked' \in Pulses => asked' # "ack" /\ asked' # "fail"
    BY <1>2
  <2> QED
    BY <1>1, <2>1
<1> QED
  BY <1>3, <1>4, <1>5

\* Whether a command is a Get is seen from its first byte.
LEMMA FirstByte ==
  ASSUME NEW op \in Calls, CString(cmd) = Text(op), StrLen(cmd) >= 3
  PROVE  (Parser!ToUpper(cmd[0]) = "G") <=> op.op = "get"
<1>1. StrLen(cmd) \in 0..16 /\ 1 \in 1..StrLen(cmd)
  BY StrLenIs
<1>2. CString(cmd)[1] = cmd[0]
  BY <1>1 DEF CString
<1>3. cmd[0] = IF op.op = "get" THEN "G" ELSE "S"
  BY <1>2, TextShape
<1>4. Parser!ToUpper("G") = "G" /\ Parser!ToUpper("S") = "S"
  <2>1. "G" \notin DOMAIN Parser!LowerCase /\ "S" \notin DOMAIN Parser!LowerCase
    BY DEF Parser!LowerCase
  <2> QED
    BY <2>1 DEF Parser!ToUpper
<1> QED
  BY <1>3, <1>4

\* A whole command is lost on the bus, refused, or carried out.
LEMMA ProcessResult ==
  ASSUME Typed, Inv, Whole, Process, NEW c, c = sock, call[c] \in Calls, Ready(c)
  PROVE  Unheard \/ Refuses \/ Reads(c) \/ Switches(c) \/ Moves(c)
<1>0. /\ cmd \in [Cells -> Bytes] /\ DOMAIN reg = IO!Registers /\ lostWrites \in Nat
      /\ StrLen(cmd) >= 3
  BY DEF Typed, Locals, Inv, Ready
<1>1. OnBus(CString(cmd)) /\ (flag' <=> Parser!ToUpper(cmd[0]) = "G")
  BY Zenon DEF Process, WriteI2c
<1>2. CASE lostWrites' = lostWrites + 1 /\ UNCHANGED firmware
  <2>1. Outcome = Failed
    BY <1>0, <1>2 DEF Outcome
  <2> QED
    BY <1>2, <2>1 DEF Unheard, Whole, firmware
<1>3. ASSUME NEW p, p = Parser!Parse(CString(cmd)), IO!ReceiveI2c(p), lostWrites' = lostWrites
      PROVE  Refuses \/ Reads(c) \/ Switches(c) \/ Moves(c)
  <2>1. CASE Bad(cmd[0])
    <3>1. p.ret = "F" /\ ~flag'
      BY <1>0, <1>1, <1>3, <2>1, BadText
    <3>2. asked' = "fail" /\ reply' = <<>> /\ reg' = reg
      BY <1>3, <3>1, RestRejected
    <3>3. Outcome = Failed
      BY <1>3, <3>2, OutcomeOf
    <3> QED
      BY <3>1, <3>2, <3>3 DEF Refuses, Whole
  <2>2. ASSUME CString(cmd) = Text(call[c])
        PROVE  Reads(c) \/ Switches(c) \/ Moves(c)
    <3>1. PICK op \in Calls : op = call[c]
      OBVIOUS
    <3>2. flag' <=> op.op = "get"
      BY <1>0, <1>1, <2>2, <3>1, FirstByte
    <3>3. CASE IsGet(op)
      <4>1. PICK a \in {"X", "Y"} : a = op.axis
        BY <3>3 DEF IsGet
      <4>2. p = Parser!Parse(GetText(a))
        BY <1>3, <2>2, <3>1, <3>3, <4>1 DEF IsGet
      <4>3. /\ p.ret = "G" /\ p.flags = 3 /\ p.device = "servo"
            /\ p.type = IF a = "X" THEN "pwm_x" ELSE "pwm_y"
        BY <4>2, ParsesShort
      <4>4. asked' = Position(a) /\ reply' = <<>> /\ reg' = reg
        BY <1>3, <4>3, GetCarried
      <4>5. asked' \in Pulses
        BY <4>4 DEF Position, Pulses
      <4>6. Outcome = Service!Value(reg[Position(a)])
        BY <1>3, <4>4, <4>5, OutcomeOf
      <4>7. ~Whole'
        BY <4>4 DEF Whole
      <4> QED
        BY <3>1, <3>2, <3>3, <4>1, <4>4, <4>6, <4>7 DEF Reads, IsGet
    <3>4. CASE IsEnable(op)
      <4>1. PICK v \in {0, 1} : op.en = Parser!Digit[v + 1]
        BY <3>4 DEF IsEnable, Parser!Digit
      <4>2. p = Parser!Parse(SSE(Parser!Digit[v + 1]))
        BY <1>3, <2>2, <3>1, <3>4, <4>1 DEF IsEnable
      <4>3. /\ p.ret = "S" /\ p.flags = 3 /\ p.device = "servo" /\ p.type = "en" /\ p.v0 = v
        BY <4>2, ParsesShort
      <4>4. asked' = "ack" /\ reply' = <<>> /\ reg' = [reg EXCEPT !["servo_en"] = v]
        BY <1>3, <4>3, SwitchCarried
      <4>5. Outcome = Yes
        BY <1>3, <4>4, OutcomeOf
      <4>6. ~Whole' /\ op.op = "enable" /\ ~flag'
        BY <3>2, <3>4, <4>4 DEF Whole, IsEnable
      <4>7. {"servo_pwm_x", "servo_pwm_y"} \subseteq DOMAIN reg
        BY <1>0 DEF IO!Registers
      <4> QED
        BY <3>1, <4>4, <4>5, <4>6, <4>7 DEF Switches
    <3>5. CASE IsSet(op)
      <4>1. PICK x, y : x = op.x /\ y = op.y
        OBVIOUS
      <4>2. PP!FourDigits(x) /\ PP!FourDigits(y) /\ op.op = "set" /\ Text(op) = SetText(x, y)
        BY <3>5, <4>1 DEF IsSet
      <4>3. x \in Nat /\ y \in Nat
        BY <4>2 DEF PP!FourDigits
      <4>4. /\ p.ret = "S" /\ p.flags = 4 /\ p.device = "servo" /\ p.type = "pwm"
            /\ p.v0 = x /\ p.v1 = y
        <5>1. p = Parser!Parse(SetText(x, y))
          BY <1>3, <2>2, <3>1, <4>2, Zenon
        <5> QED
          BY <4>2, <5>1, MoveParsed
      <4>5. /\ asked' = IF IO!Pulse(x) /\ IO!Pulse(y) THEN "ack" ELSE "fail"
            /\ reply' = <<>>
            /\ reg'["servo_pwm_x"] = IF IO!Pulse(x) THEN x ELSE reg["servo_pwm_x"]
            /\ reg'["servo_pwm_y"] = IF IO!Pulse(y) THEN y ELSE reg["servo_pwm_y"]
        BY <1>0, <1>3, <4>3, <4>4, MoveCarried
      <4>6. Outcome = IF IO!Pulse(x) /\ IO!Pulse(y) THEN Yes ELSE Failed
        BY <1>3, <4>5, OutcomeOf
      <4>7. ~Whole' /\ ~flag'
        BY <3>2, <4>2, <4>5 DEF Whole
      <4> QED
        BY <3>1, <4>1, <4>2, <4>5, <4>6, <4>7 DEF Moves
    <3> QED
      BY <3>3, <3>4, <3>5, CallKinds
  <2> QED
    BY <2>1, <2>2 DEF Ready
<1> QED
  BY <1>1, <1>2, <1>3 DEF OnBus

--------------------------------------------------------------------------------
(* From the end of the command to the reply                                   *)

\* After the write the firmware owes the answer that tells what became of it.
LEMMA ProcessDone ==
  ASSUME NEW c, Unheard \/ Refuses \/ Reads(c) \/ Switches(c) \/ Moves(c),
         effect'[c] = Outcome, call' = call
  PROVE  Done(c)'
<1>1. CASE Unheard
  BY <1>1 DEF Unheard, Done
<1>2. CASE Refuses
  BY <1>2 DEF Refuses, Done, Verdict
<1>3. CASE Reads(c)
  <2>1. asked' \in Pulses /\ effect'[c] = Service!Value(reg'[asked'])
    BY <1>3 DEF Reads, Position, Pulses
  <2> QED
    BY <1>3, <2>1 DEF Reads, Done, Number
<1>4. CASE Switches(c)
  BY <1>4 DEF Switches, Done, Verdict
<1>5. CASE Moves(c)
  <2>1. /\ ~Whole' /\ ~flag' /\ call'[c].op = "set"
        /\ (asked' = "ack" /\ effect'[c] = Yes) \/ (asked' = "fail" /\ effect'[c] = Failed)
    BY <1>5 DEF Moves
  <2> QED
    BY <2>1 DEF Done, Verdict
<1> QED
  BY <1>1, <1>2, <1>3, <1>4, <1>5

\* Byte by byte the answer comes to cmd.
LEMMA ReadServes ==
  ASSUME Typed, SP!IInv', Where, Exchange, ReadI2c, phase = "serve",
         NEW c, c = sock, Alone(c), Done(c)
  PROVE  /\ Alone(c)' /\ sock' = c /\ phase' = phase
         /\ \/ pc' = "read" /\ Done(c)'
            \/ pc' = "reply" /\ Came(c)'
<1>0. /\ reply \in Seq(IO!ReplyBytes) /\ reply' \in Seq(IO!ReplyBytes)
  BY FirmwareFacts, FirmwareFactsNext DEF Typed, IO!TypeOK
<1>1. /\ pc = "read" /\ IO!SendI2c /\ cmd' = Put(cmd, i, <<reply'[Len(reply')]>>)
      /\ pc' = IF reply'[Len(reply')] = "NUL" THEN AfterExchange ELSE "read"
      /\ phase' = IF pc' = "recv" THEN "serve" ELSE phase
      /\ UNCHANGED <<sock, flag, j>>
  BY Zenon DEF ReadI2c
<1>2. AfterExchange = "reply"
  BY DEF AfterExchange, Where
<1>3. phase' = phase /\ (pc' = IF reply'[Len(reply')] = "NUL" THEN "reply" ELSE "read")
  BY <1>1, <1>2, Zenon
<1>4. UNCHANGED clients
  BY BesideClients DEF Beside
<1>5. Alone(c)'
  BY <1>1, <1>3, <1>4 DEF clients, Alone
<1>6. Transfer
  BY <1>1 DEF Exchange
<1>7. CASE Whole
  <2>1. i = 0 /\ effect[c] = Failed /\ reply' = reply /\ reply'[Len(reply')] = "NUL"
    <3>1. reply' = reply
      BY <1>0, <1>1, <1>7, ByteRead
    <3> QED
      BY <1>6, <1>7, <3>1 DEF Transfer, Done, Whole
  <2>2. cmd'[0] = "NUL"
    <3>1. 0 \in Cells /\ 0 \in 0..(0 + Len(<<"NUL">>) - 1) /\ <<"NUL">>[0 - 0 + 1] = "NUL"
      BY DEF Cells
    <3>2. cmd' = Put(cmd, 0, <<"NUL">>)
      BY <1>1, <2>1
    <3> QED
      BY <3>1, <3>2, PutAt
  <2>3. Came(c)'
    BY <1>4, <2>1, <2>2 DEF Came, Nothing, clients
  <2> QED
    BY <1>1, <1>3, <1>5, <2>1, <2>3
<1>8. CASE ~Whole
  <2>1. /\ Len(reply') = i' /\ i' \in 1..8 /\ Holds(cmd', reply', i')
        /\ UNCHANGED <<asked, reg>>
    BY <1>6, <1>8, TransferKept
  <2>2. Number(c)' \/ Verdict(c)'
    <3>1. Number(c) \/ Verdict(c)
      BY <1>8 DEF Done
    <3>2. flag' = flag /\ call' = call /\ effect' = effect
      BY <1>1, <1>4 DEF clients
    <3> QED
      BY <2>1, <3>1, <3>2 DEF Number, Verdict
  <2>3. CASE reply'[Len(reply')] = "NUL"
    <3>1. Whole'
      BY <2>1, <2>3 DEF Whole
    <3>2. Came(c)'
      BY <2>1, <2>2, <3>1 DEF Came, InCmd
    <3> QED
      BY <1>1, <1>3, <1>5, <2>3, <3>2
  <2>4. CASE reply'[Len(reply')] # "NUL"
    <3>1. Done(c)'
      BY <2>2, <2>4 DEF Done, Whole
    <3> QED
      BY <1>1, <1>3, <1>5, <2>4, <3>1
  <2> QED
    BY <2>3, <2>4
<1> QED
  BY <1>7, <1>8

\* No phone's step disturbs what the server does for the one it serves.
LEMMA ServedOwn ==
  ASSUME Tables, Wires, NEW c \in Clients, Link(c), Client(c), link[c] # "new",
         Alone(c), pc' = pc, j' = j
  PROVE  Alone(c)' /\ call' = call /\ effect' = effect
<1>1. down[c] = <<>> /\ result[c] \in {Waiting, Lost}
  BY DEF Alone
<1>2. CASE Connect(c)
  BY <1>2 DEF Connect
<1>3. ASSUME NEW op \in Calls, Invoke(c, op)
      PROVE  FALSE
  BY <1>1, <1>3, InvokeAhead
<1>4. CASE Return(c)
  <2>1. \E k \in 1..Len(down[c]) : down[c][k] = "LF"
    BY <1>4 DEF Return
  <2>2. 1..Len(down[c]) = {}
    BY <1>1
  <2> QED
    BY <2>1, <2>2
<1>5. CASE Close(c)
  <2>1. UNCHANGED <<up, down, call, result, effect>>
    BY <1>5, CloseOwn
  <2> QED
    BY <2>1 DEF Alone
<1>6. CASE Break(c)
  <2>1. result'[c] = Lost /\ UNCHANGED <<up, down, call, effect>>
    BY <1>6, BreakOwn
  <2> QED
    BY <2>1 DEF Alone
<1>7. CASE Crash(c)
  <2>1. /\ result'[c] = Lost /\ UNCHANGED <<down, call, effect>>
        /\ \E n \in 0..Len(up[c]) : up'[c] = SubSeq(up[c], 1, n)
    BY <1>7, CrashOwn
  <2>2. up'[c] = <<>>
    BY <2>1 DEF Alone
  <2> QED
    BY <2>1, <2>2 DEF Alone
<1> QED
  BY <1>2, <1>3, <1>4, <1>5, <1>6, <1>7 DEF Client

\* A step beside the phone being served keeps what is said of its call.
LEMMA ServingSame ==
  ASSUME NEW d, d = sock, sock' = sock, UNCHANGED <<firmware, pc, phase, cmd, flag, j>>,
         Busy => /\ Alone(d)' /\ call'[d] = call[d] /\ effect'[d] = effect[d],
         Serving
  PROVE  Serving'
<1>1. CASE ~Busy
  BY <1>1 DEF Busy, Serving
<1>2. CASE Busy
  <2>1. call'[d] = call[d] /\ effect'[d] = effect[d] /\ Alone(d)' /\ Busy'
    BY <1>2 DEF Busy
  <2>2. UNCHANGED <<reg, asked, reply>>
    BY DEF firmware
  <2>3. Ready(d) => Ready(d)'
    BY <2>1 DEF Ready
  <2>4. Done(d) => Done(d)'
    BY <2>1, <2>2 DEF Done, Whole, Number, Verdict
  <2>5. Came(d) => Came(d)'
    BY <2>1, <2>2 DEF Came, Nothing, InCmd, Whole, Holds, Number, Verdict
  <2>6. sock' = d
    OBVIOUS
  <2> QED
    BY <2>1, <2>3, <2>4, <2>5, <2>6 DEF Serving
<1> QED
  BY <1>1, <1>2

\* Every step keeps what is said of a call from its command to its reply.
LEMMA ServingKept ==
  ASSUME Tables, Links, Queue, Exchange, Collecting, Serving, Typed, SP!IInv', Inv,
         MaxPieces <= 2, nacks = 0, nacks' = 0, Next
  PROVE  Serving'
<1>0. Wires /\ Sockets /\ Where
  BY DEF Typed, Inv
<1>1. ASSUME pc' \notin {"process", "reply"}, pc' = "read" => phase' # "serve"
      PROVE  Serving'
  BY <1>1 DEF Serving, Busy
<1>2. CASE WriteScripted
  <2>1. pc = "script" /\ pc' = "read" /\ phase' = phase
    BY <1>2 DEF WriteScripted, WriteI2c
  <2>2. phase # "serve"
    BY <1>0, <2>1 DEF Where
  <2> QED
    BY <1>1, <2>1, <2>2
<1>3. CASE ReadI2c
  <2>1. /\ pc = "read" /\ pc' = IF reply'[Len(reply')] = "NUL" THEN AfterExchange ELSE "read"
        /\ phase' = IF pc' = "recv" THEN "serve" ELSE phase
    BY <1>3, Zenon DEF ReadI2c
  <2>2. CASE phase # "serve"
    <3>1. AfterExchange \notin {"process", "reply", "read"}
      BY <1>0, <2>2 DEF AfterExchange, Where
    <3> QED
      BY <1>1, <2>1, <2>2, <3>1
  <2>3. CASE phase = "serve"
    <3>1. PICK d : d = sock
      OBVIOUS
    <3>2. Alone(d) /\ Done(d)
      BY <2>1, <2>3, <3>1 DEF Serving, Busy
    <3>3. /\ Alone(d)' /\ sock' = d /\ phase' = phase
          /\ \/ pc' = "read" /\ Done(d)'
             \/ pc' = "reply" /\ Came(d)'
      BY <1>0, <1>3, <2>3, <3>1, <3>2, ReadServes
    <3> QED
      BY <3>3 DEF Serving, Busy
  <2> QED
    BY <2>2, <2>3
<1>4. CASE Process
  <2>1. PICK d : d = sock
    OBVIOUS
  <2>2. /\ pc = "process" /\ pc' = "read" /\ phase' = "serve" /\ sock' = d
        /\ effect'[d] = Outcome /\ UNCHANGED <<up, down, call, result, j>>
    BY <1>0, <1>4, <2>1, ProcessOwn
  <2>3. Alone(d) /\ Ready(d) /\ Whole
    BY <2>1, <2>2 DEF Serving, Busy, Exchange
  <2>4. call[d] \in Calls
    BY <2>3 DEF Alone
  <2>5. Unheard \/ Refuses \/ Reads(d) \/ Switches(d) \/ Moves(d)
    BY <1>4, <2>1, <2>3, <2>4, ProcessResult
  <2>6. Done(d)'
    BY <2>2, <2>5, ProcessDone
  <2>7. Alone(d)'
    BY <2>2, <2>3, OutcomeIs DEF Alone
  <2> QED
    BY <2>2, <2>6, <2>7 DEF Serving, Busy
<1>5. CASE Recv
  <2>1. PICK d : d = sock
    OBVIOUS
  <2>2. Led(d) /\ sock' = d
    BY <1>0, <1>5, <2>1, RecvLeads
  <2> QED
    BY <2>2 DEF Led, Serving, Busy
<1>6. CASE SendReply \/ Accept \/ AcceptFails \/ Disconnected
  BY <1>1, <1>6 DEF SendReply, Accept, AcceptFails, Disconnected, Begin
<1>7. CASE Stop \/ Start
  BY <1>1, <1>7 DEF Stop, Start, Begin
<1>8. CASE ReadFails
  BY <1>8 DEF ReadFails
<1>9. CASE CameraStarts
  <2>1. PICK d : d = sock
    OBVIOUS
  <2>2. UNCHANGED <<firmware, pc, phase, cmd, flag, j, sock, clients>>
    BY <1>9 DEF CameraStarts
  <2>3. Alone(d) => Alone(d)'
    BY <2>2 DEF clients, Alone
  <2>4. Busy => Alone(d)' /\ call'[d] = call[d] /\ effect'[d] = effect[d]
    BY <2>1, <2>2, <2>3 DEF clients, Serving
  <2> QED
    BY <2>1, <2>2, <2>4, ServingSame
<1>10. ASSUME NEW c \in Clients, Client(c)
       PROVE  Serving'
  <2>1. UNCHANGED <<firmware, pc, phase, cmd, flag, j, sock>>
    BY <1>10, ClientActs
  <2>2. PICK d : d = sock
    OBVIOUS
  <2>3. ASSUME Busy
        PROVE  Alone(d)' /\ call'[d] = call[d] /\ effect'[d] = effect[d]
    <3>1. Alone(d) /\ d \in Clients
      BY <1>0, <2>2, <2>3 DEF Serving, Sockets, Busy, Where
    <3>2. CASE c = d
      <4>1. Link(d) /\ link[d] # "new"
        BY <2>2, <3>1 DEF Links, Queue
      <4>2. Alone(d)' /\ call' = call /\ effect' = effect
        BY <1>0, <1>10, <2>1, <3>1, <3>2, <4>1, ServedOwn
      <4> QED
        BY <4>2
    <3>3. CASE c # d
      <4>1. Same(d)
        BY <1>0, <1>10, <3>1, <3>3, ClientActs, Elsewhere
      <4> QED
        BY <2>1, <3>1, <4>1 DEF Same, Alone
    <3> QED
      BY <3>2, <3>3
  <2> QED
    BY <2>1, <2>2, <2>3, ServingSame
<1> QED
  BY <1>2, <1>3, <1>4, <1>5, <1>6, <1>7, <1>8, <1>9, <1>10 DEF Next, Server

--------------------------------------------------------------------------------
(* The control path implements the service                                    *)

\* The invariant holds of the states the program starts in.
LEMMA SInvInit == Init => SInv
<1> SUFFICES ASSUME Init  PROVE SInv
  OBVIOUS
<1>1. Tables
  BY DEF Init, Tables
<1>2. Links
  <2>1. ASSUME NEW c \in Clients
        PROVE  Link(c)
    <3>1. /\ link[c] = "new" /\ effect[c] = Idle /\ result[c] = Idle /\ pieces[c] = 0
          /\ down[c] = <<>> /\ up[c] = <<>> /\ call[c] = Service!NoCall
      BY <2>1 DEF Init
    <3> QED
      BY <3>1, Results DEF Link
  <2> QED
    BY <2>1 DEF Links
<1>3. Queue
  <2>1. backlog = <<>> /\ sock = NoClient
    BY DEF Init
  <2>2. 1..Len(backlog) = {}
    BY <2>1
  <2> QED
    BY <2>1, <2>2, BoundsAssumption DEF Queue
<1>4. Exchange
  BY DEF Init, Exchange
<1>5. Collecting
  BY DEF Init, Collecting
<1>6. Serving
  BY DEF Init, Serving, Busy
<1> QED
  BY <1>1, <1>2, <1>3, <1>4, <1>5, <1>6 DEF SInv

\* A stutter keeps it.
LEMMA SInvStays ==
  ASSUME SInv, UNCHANGED vars
  PROVE  SInv'
<1>0. /\ UNCHANGED firmware /\ UNCHANGED server /\ UNCHANGED clients
  BY DEF vars
<1>1. UNCHANGED <<pc, phase, cmd, flag, i, j, sock, backlog>>
  BY <1>0 DEF server
<1>2. UNCHANGED <<link, up, down, call, result, pieces, effect>>
  BY <1>0 DEF clients
<1>3. UNCHANGED <<reg, asked, reply>>
  BY <1>0 DEF firmware
<1>4. Tables'
  BY <1>2 DEF SInv, Tables
<1>5. Links'
  BY <1>2 DEF SInv, Links, Link, Answers, Told, Due
<1>6. Queue'
  BY <1>1, <1>2 DEF SInv, Queue, Untouched, Ahead
<1>7. Exchange'
  BY <1>1, <1>3 DEF SInv, Exchange, Transfer, Whole, Holds
<1>8. Collecting'
  BY <1>1, <1>2 DEF SInv, Collecting, Receiving, Untouched, Ahead, Clean, Spoiled, Holds
<1>9. Serving'
  BY <1>1, <1>2, <1>3 DEF SInv, Serving, Busy, Alone, Ready, Done, Came, Nothing, InCmd,
       Number, Verdict, Whole, Holds
<1> QED
  BY <1>4, <1>5, <1>6, <1>7, <1>8, <1>9 DEF SInv

\* Every step keeps the invariant in which no read of the bus has failed.
LEMMA SInvNext ==
  ASSUME MaxPieces <= 2, SInv, Typed, Typed', Inv, nacks = 0, nacks' = 0, [Next]_vars
  PROVE  SInv'
<1>1. CASE UNCHANGED vars
  BY <1>1, SInvStays
<1>2. CASE Next
  <2>1. /\ Tables /\ Links /\ Queue /\ Exchange /\ Collecting /\ Serving
        /\ Where /\ Wires /\ SP!IInv'
    BY DEF SInv, Inv, Typed
  <2>2. Tables'
    <3>1. UNCHANGED clients \/ \E c : Acts(c)
      BY <1>2, StepKinds, BesideClients, ClientActs DEF Acts
    <3> QED
      BY <2>1, <3>1, TablesKept
  <2>3. Links'
    BY <1>2, <2>1, LinksKept
  <2>4. Queue'
    BY <1>2, <2>1, QueueKept
  <2>5. Exchange'
    BY <1>2, <2>1, ExchangeKept
  <2>6. Collecting'
    BY <1>2, <2>1, CollectingKept
  <2>7. Serving'
    BY <1>2, <2>1, ServingKept
  <2> QED
    BY <2>2, <2>3, <2>4, <2>5, <2>6, <2>7 DEF SInv
<1> QED
  BY <1>1, <1>2

\* The failed reads and the stops are counted, and never forgotten.
LEMMA CountsGrow ==
  ASSUME [Next]_vars
  PROVE  /\ nacks' = nacks \/ nacks' = nacks + 1
         /\ stops' = stops \/ stops' = stops + 1
<1>1. CASE UNCHANGED vars
  BY <1>1 DEF vars, bounds
<1>2. CASE Server
  <2>1. CASE WriteScripted \/ Process
    BY <2>1 DEF WriteScripted, Process
  <2>2. CASE Recv
    BY <2>2 DEF Recv, bounds
  <2>3. CASE ReadI2c \/ Accept \/ AcceptFails \/ SendReply \/ Disconnected
    BY <2>3 DEF ReadI2c, Accept, AcceptFails, SendReply, Disconnected, bounds
  <2> QED
    BY <1>2, <2>1, <2>2, <2>3 DEF Server
<1>3. CASE ReadFails \/ CameraStarts \/ Stop \/ Start
  BY <1>3 DEF ReadFails, CameraStarts, Stop, Start, bounds
<1>4. ASSUME NEW c \in Clients, Client(c)
      PROVE  nacks' = nacks /\ stops' = stops
  BY <1>4 DEF Client, Connect, Return, Close, Crash, Break, Invoke, bounds
<1> QED
  BY <1>1, <1>2, <1>3, <1>4 DEF Next

\* So it holds as long as none has.
SoFar == nacks = 0 => SInv

LEMMA SInvAlways ==
  ASSUME MaxPieces <= 2
  PROVE  Spec => []SoFar
<1>1. SoFar /\ Typed /\ Typed' /\ Inv /\ [Next]_vars => SoFar'
  <2> SUFFICES ASSUME SoFar, Typed, Typed', Inv, [Next]_vars, nacks' = 0
               PROVE  SInv'
    BY DEF SoFar
  <2>1. nacks \in Nat
    BY BoundsAssumption DEF Typed, Reading
  <2>2. nacks = 0
    BY <2>1, CountsGrow
  <2> QED
    BY <2>2, SInvNext DEF SoFar
<1>2. Init => SoFar
  BY SInvInit DEF SoFar
<1> QED
  BY <1>1, <1>2, TypedAlways, Invariance, PTL DEF Spec

\* The two positions begin where the service has them.
LEMMA ServiceInit == Init => Service!Init
<1> SUFFICES ASSUME Init  PROVE Service!Init
  OBVIOUS
<1>1. reg["servo_pwm_x"] = 1480 /\ reg["servo_pwm_y"] = 1150
  BY DEF Init, IO!Init, IO!Registers
<1> QED
  BY <1>1 DEF Init, Idle, Service!Init

\* The positions stay but for a command of a phone's.
PositionsStay ==
  /\ reg'["servo_pwm_x"] = reg["servo_pwm_x"]
  /\ reg'["servo_pwm_y"] = reg["servo_pwm_y"]

\* No step but a phone's command moves a position.
LEMMA BesidePositions ==
  ASSUME Typed, Inv, Beside
  PROVE  PositionsStay
<1>1. CASE WriteScripted
  <2>1. OnBus(Head(todo)) /\ Head(todo) \in Scripted /\ DOMAIN reg = IO!Registers
    BY <1>1 DEF WriteScripted, WriteI2c, Inv, Where, Typed, Locals
  <2> QED
    BY <2>1, ScriptedWritten DEF PositionsStay
<1>2. CASE ReadI2c
  BY <1>2 DEF ReadI2c, IO!SendI2c, PositionsStay
<1>3. CASE UNCHANGED firmware
  BY <1>3 DEF firmware, PositionsStay
<1>4. CASE Accept \/ AcceptFails \/ Disconnected \/ ReadFails
  BY <1>3, <1>4 DEF Accept, AcceptFails, Disconnected, ReadFails
<1>5. CASE CameraStarts \/ Stop \/ Start
  BY <1>3, <1>5 DEF CameraStarts, Stop, Start
<1> QED
  BY <1>1, <1>2, <1>4, <1>5 DEF Beside

\* A command that is written is the instant at which the service acts.
LEMMA ProcessServes ==
  ASSUME SInv, Typed, Inv, Process
  PROVE  \E c \in Clients : Service!Read(c) \/ Service!Move(c) \/ Service!Switch(c)
                            \/ Service!Refuse(c)
<1>1. PICK c : c = sock
  OBVIOUS
<1>2. /\ Tables /\ Wires /\ Sockets /\ Where /\ Exchange /\ Serving
  BY DEF SInv, Typed, Inv
<1>3. /\ c \in Clients /\ pc = "process"
      /\ effect' = [effect EXCEPT ![c] = Outcome] /\ UNCHANGED <<call, result>>
  BY <1>1, <1>2, ProcessOwn
<1>4. Alone(c) /\ Ready(c) /\ Whole
  BY <1>1, <1>2, <1>3 DEF Serving, Busy, Exchange
<1>5. effect[c] = Waiting /\ call[c] \in Calls
  BY <1>3, <1>4 DEF Alone
<1>6. Unheard \/ Refuses \/ Reads(c) \/ Switches(c) \/ Moves(c)
  BY <1>1, <1>4, <1>5, ProcessResult
<1>7. CASE Unheard \/ Refuses
  <2>1. Service!Refuse(c)
    BY <1>3, <1>5, <1>7 DEF Unheard, Refuses, Service!Refuse, Service!Becomes, Failed, Waiting
  <2> QED
    BY <1>3, <2>1
<1>8. CASE Reads(c)
  <2>1. Outcome = Service!Value([X |-> reg["servo_pwm_x"],
                                 Y |-> reg["servo_pwm_y"]][call[c].axis])
    BY <1>8 DEF Reads, Position
  <2>2. Service!Read(c)
    BY <1>3, <1>5, <1>8, <2>1
       DEF Reads, Service!Read, Service!Becomes, Service!Pending, Waiting
  <2> QED
    BY <1>3, <2>2
<1>9. CASE Switches(c)
  <2>1. Service!Switch(c)
    BY <1>3, <1>5, <1>9
       DEF Switches, Service!Switch, Service!Becomes, Service!Pending, Waiting, Yes
  <2> QED
    BY <1>3, <2>1
<1>10. CASE Moves(c)
  <2>1. \A v : Service!Pulse(v) <=> IO!Pulse(v)
    BY DEF Service!Pulse, IO!Pulse
  <2>2. Service!Move(c)
    BY <1>3, <1>5, <1>10, <2>1
       DEF Moves, Service!Move, Service!Becomes, Service!Pending, Waiting, Yes, Failed
  <2> QED
    BY <1>3, <2>2
<1> QED
  BY <1>6, <1>7, <1>8, <1>9, <1>10

\* Every step is a step of the service, or one it does not see.
LEMMA StepServes == SInv /\ Typed /\ Inv /\ [Next]_vars => [Service!Next]_Service!vars
<1> SUFFICES ASSUME SInv, Typed, Inv, [Next]_vars
             PROVE  Service!Next \/ UNCHANGED Service!vars
  OBVIOUS
<1>0. Tables /\ Links /\ Wires
  BY DEF SInv, Typed
<1>1. ASSUME PositionsStay, UNCHANGED <<call, effect, result>>
      PROVE  UNCHANGED Service!vars
  BY <1>1 DEF PositionsStay, Service!vars
<1>2. CASE UNCHANGED vars
  BY <1>1, <1>2 DEF vars, firmware, clients, PositionsStay
<1>3. CASE Beside
  BY <1>1, <1>3, BesidePositions, BesideClients DEF clients
<1>4. CASE Recv \/ SendReply
  BY <1>1, <1>4 DEF Recv, SendReply, firmware, PositionsStay
<1>5. CASE Process
  BY <1>5, ProcessServes DEF Service!Next
<1>6. ASSUME NEW c \in Clients, Client(c)
      PROVE  Service!Next \/ UNCHANGED Service!vars
  <2>1. reg' = reg
    BY <1>6, ClientActs DEF firmware
  <2>2. Link(c)
    BY <1>0 DEF Links
  <2>3. CASE Connect(c)
    BY <1>0, <1>1, <2>1, <2>3, ConnectOwn DEF PositionsStay
  <2>4. CASE Close(c)
    BY <1>0, <1>1, <2>1, <2>4, CloseOwn DEF PositionsStay
  <2>5. CASE Return(c)
    <3>1. /\ result[c] = Waiting /\ effect[c] # Waiting /\ UNCHANGED <<call, effect>>
          /\ result' = [result EXCEPT ![c] = Due(c)]
      BY <1>0, <2>2, <2>5, ReturnOwn
    <3>2. Service!Return(c)
      BY <2>1, <3>1 DEF Due, Service!Return, Waiting, Yes
    <3> QED
      BY <3>2 DEF Service!Next
  <2>6. CASE Crash(c) \/ Break(c)
    <3>1. result' = [result EXCEPT ![c] = Lost] /\ UNCHANGED <<call, effect>>
      BY <2>6 DEF Crash, Break
    <3>2. Service!Lose(c)
      BY <2>1, <3>1 DEF Service!Lose, Lost
    <3> QED
      BY <3>2 DEF Service!Next
  <2>7. ASSUME NEW op \in Calls, Invoke(c, op)
        PROVE  Service!Next
    <3>1. result[c] \notin {Waiting, Lost}
      BY <1>0, <2>2, <2>7, InvokeAhead
    <3>2. Service!Invoke(c, op)
      BY <2>1, <2>7, <3>1 DEF Invoke, Service!Invoke, Waiting, Lost
    <3> QED
      BY <3>2 DEF Service!Next
  <2> QED
    BY <1>6, <2>3, <2>4, <2>5, <2>6, <2>7 DEF Client
<1> QED
  BY <1>2, <1>3, <1>4, <1>5, <1>6, StepKinds

\* The control path implements the service it promises a phone: a call takes
\* effect at most once, at one instant, as it was asked, and the answer to it is
\* its own.  The path is the methods of ZClientService and z_server.c's loop of
\* recv, exchange on the bus and send, for any phones, calls, crashes, stops and
\* lost writes.  The reads of the bus do not fail (z_server.c ignores their
\* results), and a command comes in at most two recvs: z_server.c sets j to the
\* length of the piece, not to what cmd holds, and would misplace a third.
THEOREM Refinement ==
  ASSUME MaxNacks = 0, MaxPieces <= 2
  PROVE  Spec => ImplementsService
<1>1. SInv /\ Typed /\ Inv /\ [Next]_vars => [Service!Next]_Service!vars
  BY StepServes
<1>2. Spec => []SoFar
  BY SInvAlways
<1>3. SoFar /\ Typed => SInv
  BY BoundsAssumption DEF SoFar, Typed, Reading
<1> QED
  BY <1>1, <1>2, <1>3, ServiceInit, TypedAlways, Invariance, PTL
     DEF Spec, ImplementsService, Service!Spec

--------------------------------------------------------------------------------
(* When a phone is told that it moved the head                                *)

\* A phone whose call has been carried out, and that has not been told, is the
\* one being served, and nothing has moved the head since.
Stands(c) == call[c].op = "set" /\ effect[c] = Yes => Moved(c)

Untold(c) == result[c] = Waiting /\ effect[c] # Waiting

Served(c) == sock = c /\ phase = "serve" /\ pc # "exited" /\ Stands(c)

Standing == \A c \in Clients : Untold(c) => Served(c)

\* What the server does beside the phones leaves a served call where it is.
LEMMA StandingBeside ==
  ASSUME Inv, Links, stops = 0, stops' = 0, Beside, NEW c \in Clients,
         Served(c), Untold(c)
  PROVE  Served(c)'
<1>0. /\ Where /\ sock = c /\ phase = "serve" /\ pc # "exited" /\ Stands(c)
      /\ todo = <<>> /\ link[c] = "open"
  BY DEF Inv, Where, Served, Untold, Links, Link
<1>1. Same(c)
  BY BesideClients
<1>2. CASE WriteScripted \/ Accept \/ AcceptFails \/ Start
  BY <1>0, <1>2 DEF WriteScripted, Accept, AcceptFails, Start, Where
<1>3. CASE Disconnected
  BY <1>0, <1>3 DEF Disconnected
<1>4. CASE Stop
  BY <1>4 DEF Stop
<1>5. CASE ReadI2c
  <2>1. /\ pc' = IF reply'[Len(reply')] = "NUL" THEN AfterExchange ELSE "read"
        /\ phase' = IF pc' = "recv" THEN "serve" ELSE phase
        /\ sock' = sock /\ reg' = reg
    BY <1>5, Zenon DEF ReadI2c, IO!SendI2c
  <2>2. AfterExchange = "reply"
    BY <1>0 DEF AfterExchange
  <2>3. pc' # "exited" /\ phase' = "serve"
    BY <1>0, <2>1, <2>2
  <2> QED
    BY <1>0, <1>1, <2>1, <2>3 DEF Served, Stands, Moved, Same
<1>6. CASE ReadFails \/ CameraStarts
  <2>1. UNCHANGED <<firmware, pc, phase, sock>>
    BY <1>6 DEF ReadFails, CameraStarts
  <2> QED
    BY <1>0, <1>1, <2>1 DEF firmware, Served, Stands, Moved, Same
<1> QED
  BY <1>2, <1>3, <1>4, <1>5, <1>6 DEF Beside

\* While it is not stopped the server moves the head for no other phone before
\* the one it serves has read its line.
LEMMA StandingNext ==
  ASSUME Standing, SInv, Typed, Inv, stops = 0, stops' = 0, [Next]_vars
  PROVE  Standing'
<1>0. /\ Tables /\ Links /\ Exchange /\ Serving /\ Wires /\ Sockets /\ Where
  BY DEF SInv, Typed, Inv
<1>1. ASSUME NEW c \in Clients, Untold(c)'
      PROVE  Served(c)'
  <2>1. ASSUME Same(c)
        PROVE  Untold(c) /\ Served(c)
    BY <1>1, <2>1 DEF Same, Untold, Standing
  <2>2. CASE UNCHANGED vars
    BY <2>1, <2>2 DEF vars, firmware, server, clients, Same, Served, Stands, Moved
  <2>3. CASE Beside
    BY <1>0, <2>1, <2>3, BesideClients, StandingBeside DEF Standing
  <2>4. ASSUME c # sock, Recv \/ Process \/ SendReply
        PROVE  FALSE
    <3>1. Same(c)
      <4>1. Acts(sock)
        BY <2>4 DEF Acts
      <4> QED
        BY <1>0, <2>4, <4>1, Elsewhere
    <3> QED
      BY <2>1, <2>4, <3>1 DEF Served
  <2>5. CASE c = sock /\ Recv
    <3>1. Hears(c)
      BY <1>0, <2>5, RecvHands
    <3> QED
      BY <1>1, <3>1 DEF Hears, Untold
  <2>6. CASE c = sock /\ Process
    <3>1. /\ pc = "process" /\ pc' = "read" /\ phase' = "serve" /\ sock' = c
          /\ effect'[c] = Outcome /\ call' = call
      BY <1>0, <2>6, ProcessOwn
    <3>2. Alone(c) /\ Ready(c) /\ Whole /\ call[c] \in Calls
      BY <1>0, <2>6, <3>1 DEF Serving, Busy, Exchange, Alone
    <3>3. Unheard \/ Refuses \/ Reads(c) \/ Switches(c) \/ Moves(c)
      BY <2>6, <3>2, ProcessResult
    <3>4. Stands(c)'
      <4>1. CASE Unheard \/ Refuses
        BY <3>1, <4>1, Results DEF Unheard, Refuses, Stands, Moved
      <4>2. CASE Reads(c) \/ Switches(c)
        BY <3>1, <4>2 DEF Reads, Switches, Stands, Moved
      <4>3. CASE Moves(c)
        BY <3>1, <4>3, Results DEF Moves, Stands, Moved
      <4> QED
        BY <3>3, <4>1, <4>2, <4>3
    <3> QED
      BY <3>1, <3>4 DEF Served
  <2>7. CASE c = sock /\ SendReply
    <3>1. /\ pc' = "recv"
          /\ UNCHANGED <<firmware, phase, sock, call, result, effect>>
      BY <1>0, <2>7, SendReplyOwn
    <3>2. Served(c)
      BY <1>1, <3>1 DEF Untold, Standing
    <3> QED
      BY <3>1, <3>2 DEF firmware, Served, Stands, Moved
  <2>8. ASSUME NEW d \in Clients, Client(d)
        PROVE  Served(c)'
    <3>1. UNCHANGED <<firmware, pc, phase, sock>>
      BY <2>8, ClientActs
    <3>2. Untold(c) /\ Served(c) /\ call'[c] = call[c] /\ effect'[c] = effect[c]
      <4>1. CASE c # d
        <5>1. Same(c)
          BY <1>0, <2>8, <4>1, ClientActs, Elsewhere
        <5> QED
          BY <2>1, <5>1 DEF Same
      <4>2. CASE Connect(d) \/ Close(d)
        <5>1. UNCHANGED <<call, result, effect>>
          BY <4>2 DEF Connect, Close
        <5> QED
          BY <1>1, <5>1 DEF Untold, Standing
      <4>3. ASSUME c = d, Crash(d) \/ Break(d)
            PROVE  FALSE
        <5>1. result'[c] = Lost
          BY <1>0, <4>3, CrashOwn, BreakOwn
        <5> QED
          BY <1>1, <5>1, Results DEF Untold
      <4>4. ASSUME c = d, Return(d)
            PROVE  FALSE
        <5>1. Link(c) /\ call[c] \in Calls
          BY <1>0, <4>4 DEF Links, Link, Return
        <5>2. result'[c] = Told(c, SubSeq(down[c], 1, Len(down[c]) - 1))
          BY <1>0, <4>4, <5>1, ReturnOwn
        <5> QED
          BY <1>1, <5>1, <5>2, ToldResult DEF Untold
      <4>5. ASSUME NEW op \in Calls, c = d, Invoke(d, op)
            PROVE  FALSE
        BY <1>0, <1>1, <4>5, InvokeOwn DEF Untold
      <4> QED
        BY <2>8, <4>1, <4>2, <4>3, <4>4, <4>5 DEF Client
    <3> QED
      BY <3>1, <3>2 DEF firmware, Served, Stands, Moved
  <2> QED
    BY <2>2, <2>3, <2>4, <2>5, <2>6, <2>7, <2>8, StepKinds
<1> QED
  BY <1>1 DEF Standing

\* At the start no phone is waiting to be told.
LEMMA StandingInit == Init => Standing
BY Results DEF Init, Standing, Untold

\* The result true is that of a call that moved the head.
TrueStep ==
  \A c \in Clients :
    result[c] = Waiting /\ result'[c] = Yes /\ call[c].op = "set" => Moved(c)

\* So a phone that is told true reads it while the head is where it asked.
LEMMA StandingTrue == Standing /\ SInv /\ Typed /\ [Next]_vars => TrueStep \/ UNCHANGED vars
<1> SUFFICES ASSUME Standing, SInv, Typed, Next,
                    NEW c \in Clients, result[c] = Waiting, result'[c] = Yes,
                    call[c].op = "set"
             PROVE  Moved(c)
  BY DEF TrueStep
<1>0. Tables /\ Links /\ Wires
  BY DEF SInv, Typed
<1>1. result'[c] # result[c] /\ result'[c] # Lost /\ result'[c] # Waiting
  BY Results
<1>2. ~Beside
  BY <1>1, BesideClients DEF clients
<1>3. ~(Recv \/ Process \/ SendReply)
  BY <1>1 DEF Recv, Process, SendReply
<1>4. PICK d \in Clients : Client(d)
  BY <1>2, <1>3, StepKinds
<1>5. d = c
  BY <1>0, <1>1, <1>4, ClientActs, Elsewhere DEF Same
<1>6. Return(c)
  <2>1. ~Connect(c) /\ ~Close(c)
    BY <1>1 DEF Connect, Close
  <2>2. ~Crash(c) /\ ~Break(c)
    BY <1>0, <1>1, CrashOwn, BreakOwn
  <2>3. \A op \in Calls : ~Invoke(c, op)
    BY <1>0, <1>1, InvokeOwn
  <2> QED
    BY <1>4, <1>5, <2>1, <2>2, <2>3 DEF Client
<1>7. effect[c] # Waiting /\ effect[c] = Yes
  <2>1. Link(c)
    BY <1>0 DEF Links
  <2>2. effect[c] # Waiting /\ result'[c] = Due(c)
    BY <1>0, <1>6, <2>1, ReturnOwn
  <2> QED
    BY <2>2 DEF Due
<1>8. Stands(c)
  BY <1>7 DEF Standing, Untold, Served
<1> QED
  BY <1>7, <1>8 DEF Stands

\* A step keeps that, as long as no read has failed and nobody has stopped the
\* server.
Calm == nacks = 0 /\ stops = 0

Undisturbed == stops \in Nat /\ (Calm => Standing)

LEMMA UndisturbedNext ==
  ASSUME Undisturbed, SoFar, Typed, Inv, [Next]_vars
  PROVE  Undisturbed'
<1>1. nacks \in Nat
  BY BoundsAssumption DEF Typed, Reading
<1>2. stops \in Nat /\ stops' \in Nat
  BY CountsGrow DEF Undisturbed
<1>3. ASSUME nacks' = 0, stops' = 0
      PROVE  Standing'
  <2>1. nacks = 0 /\ stops = 0
    BY <1>1, <1>2, <1>3, CountsGrow
  <2> QED
    BY <1>3, <2>1, StandingNext DEF Undisturbed, Calm, SoFar
<1> QED
  BY <1>2, <1>3 DEF Undisturbed, Calm

\* As long as no read of the bus has failed and the server has not been stopped,
\* setServos returns true only when the servos are where it sent them, even if
\* writes on the bus are lost: the ack is the firmware's, the phone reads no line
\* but its own, and z_server.c serves no other phone while this one is connected.
\* A failed read leaves a hole in an answer, and the line that a stopped server
\* left behind may be read after the next one has moved the head for another phone.
\* As for Refinement, a command comes in at most two recvs.
THEOREM TrueProof ==
  ASSUME MaxPieces <= 2
  PROVE  Spec => TrueMeansMoved
<1>1. Spec => []SoFar
  BY SInvAlways
<1>2. Undisturbed /\ SoFar /\ Typed /\ Inv /\ [Next]_vars => Undisturbed'
  BY UndisturbedNext
<1>3. Init => Undisturbed
  BY StandingInit DEF Init, Undisturbed
<1>4. Undisturbed /\ SoFar /\ Typed /\ [Next]_vars => (Calm => TrueStep) \/ UNCHANGED vars
  BY StandingTrue DEF Undisturbed, Calm, SoFar
<1>5. Spec => [][Calm => TrueStep]_vars
  BY <1>1, <1>2, <1>3, <1>4, TypedAlways, Invariance, PTL DEF Spec
<1>6. (Calm => TrueStep) =>
        \A c \in Clients :
          /\ result[c] = Waiting /\ result'[c] = Yes /\ call[c].op = "set"
          /\ nacks = 0 /\ stops = 0
          => Moved(c)
  BY DEF Calm, TrueStep
<1> QED
  BY <1>5, <1>6, PTL DEF TrueMeansMoved
================================================================================
