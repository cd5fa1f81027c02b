-------------------------- MODULE CommandParserProofs --------------------------
(****************************************************************************)
(* The byte loop of receiveI2c against the grammar of its commands, for a   *)
(* command of any length over any alphabet.                                 *)
(*                                                                          *)
(* The loop, toInt and the definitions they are compared with are recursive *)
(* functions.  SetInduction is induction over the numbers in a form whose   *)
(* hypothesis is a set; RecursionExists gives from it that a recursive      *)
(* function is what its equation says.  The loop's variables and the bytes  *)
(* seen so far are then related by Relates, which every byte preserves.     *)
(****************************************************************************)
EXTENDS MCCommandParser, SequenceTheorems, WellFoundedInduction, TLAPS

----------------------------------------------------------------------------
(* Induction, and functions defined by recursion.                           *)

\* Every nonempty set of numbers has a least element.
LEMMA LessIsWellFounded ==
  IsWellFoundedOn({ss \in Nat \X Nat : ss[1] < ss[2]}, Nat)
BY NatLessThanWellFounded DEF OpToRel

\* A set with 0 and the successor of each of its numbers has all numbers.
LEMMA SetInduction ==
  ASSUME NEW S, 0 \in S, \A n \in Nat : n \in S => n + 1 \in S
  PROVE  Nat \subseteq S
<1> DEFINE Out == Nat \ S
           R == {ss \in Nat \X Nat : ss[1] < ss[2]}
<1>1. SUFFICES ASSUME Out # {}
               PROVE  FALSE
  OBVIOUS
<1>2. PICK m \in Out : \A k \in Out : ~(<<k, m>> \in R)
  <2>1. \E m \in Out : \A k \in Out : ~(<<k, m>> \in R)
    BY <1>1, LessIsWellFounded, WFMin
  <2> QED
    BY <2>1
<1>3. m \in Nat /\ m # 0 /\ m \notin S
  OBVIOUS
<1>4. m - 1 \in Nat /\ m - 1 < m
  BY <1>3
<1>5. <<m - 1, m>> \in R
  BY <1>3, <1>4
<1>6. m - 1 \in S
  BY <1>2, <1>4, <1>5
<1> QED
  BY <1>3, <1>4, <1>6

\* The same up to a bound.
LEMMA BoundedInduction ==
  ASSUME NEW N \in Nat, NEW S, 0 \in S,
         \A n \in 0..N : n \in S /\ n < N => n + 1 \in S
  PROVE  0..N \subseteq S
<1> DEFINE T == {n \in Nat : n <= N => n \in S}
<1>1. 0 \in T
  OBVIOUS
<1>2. \A n \in Nat : n \in T => n + 1 \in T
  OBVIOUS
<1> HIDE DEF T
<1>3. Nat \subseteq T
  BY <1>1, <1>2, SetInduction
<1> QED
  BY <1>3 DEF T

Steps(step, S, N) == step \in [1..N -> [S -> S]]

Runs(f, S, N, a, step) ==
  /\ f \in [0..N -> S]
  /\ f[0] = a
  /\ \A n \in 1..N : f[n] = step[n][f[n - 1]]

\* A function defined from its value at the number before exists.
LEMMA RecursionExists ==
  ASSUME NEW S, NEW N, N \in Nat, NEW a, a \in S, NEW step, Steps(step, S, N)
  PROVE  \E f : Runs(f, S, N, a, step)
<1> USE DEF Steps
<1> DEFINE Upto(n, f) == f[0] = a /\ \A k \in 1..n : f[k] = step[k][f[k - 1]]
           T == {n \in 0..N : \E f \in [0..N -> S] : Upto(n, f)}
<1>1. 0 \in T
  <2> DEFINE g == [k \in 0..N |-> a]
  <2>1. g \in [0..N -> S] /\ Upto(0, g)
    OBVIOUS
  <2>2. 0 \in 0..N
    OBVIOUS
  <2> HIDE DEF g
  <2> QED
    BY <2>1, <2>2
<1>2. ASSUME NEW n \in 0..N, n \in T, n < N
      PROVE  n + 1 \in T
  <2>1. PICK f \in [0..N -> S] : Upto(n, f)
    BY <1>2
  <2> DEFINE b == step[n + 1][f[n]]
             g == [f EXCEPT ![n + 1] = b]
  <2>2. b \in S
    <3>1. n + 1 \in 1..N /\ f[n] \in S
      BY <1>2
    <3>2. step[n + 1] \in [S -> S]
      BY <3>1
    <3> QED
      BY <3>1, <3>2
  <2>3. g \in [0..N -> S] /\ g[n + 1] = b /\ \A k \in 0..n : g[k] = f[k]
    <3>1. n + 1 \in 0..N
      BY <1>2
    <3> HIDE DEF b
    <3> QED
      BY <2>2, <3>1
  <2> HIDE DEF g
  <2>4. g[0] = a
    BY <2>1, <2>3
  <2>5. ASSUME NEW k \in 1..(n + 1)
        PROVE  g[k] = step[k][g[k - 1]]
    <3>1. CASE k = n + 1
      BY <2>3, <3>1
    <3>2. CASE k \in 1..n
      BY <2>1, <2>3, <3>2
    <3> QED
      BY <3>1, <3>2
  <2>6. n + 1 \in 0..N
    BY <1>2
  <2> QED
    BY <2>3, <2>4, <2>5, <2>6
<1> HIDE DEF T
<1>3. 0..N \subseteq T
  BY <1>1, <1>2, BoundedInduction
<1>4. PICK f \in [0..N -> S] : Upto(N, f)
  BY <1>3 DEF T
<1> QED
  BY <1>4 DEF Runs

\* Its values stay in S, whatever its equation says of values outside.
LEMMA RunsInside ==
  ASSUME NEW S, NEW N, N \in Nat, NEW a, a \in S, NEW step, Steps(step, S, N),
         NEW f, f = [n \in 0..N |-> f[n]], f[0] = a,
         \A n \in 1..N : f[n - 1] \in S => f[n] = step[n][f[n - 1]]
  PROVE  Runs(f, S, N, a, step)
<1> DEFINE T == {n \in 0..N : f[n] \in S}
<1>1. 0 \in T
  OBVIOUS
<1>2. ASSUME NEW n \in 0..N, n \in T, n < N
      PROVE  n + 1 \in T
  <2>1. n + 1 \in 1..N /\ (n + 1) - 1 = n
    BY <1>2
  <2>2. f[n + 1] = step[n + 1][f[n]]
    BY <1>2, <2>1
  <2>3. step[n + 1] \in [S -> S]
    BY <2>1 DEF Steps
  <2> QED
    BY <1>2, <2>1, <2>2, <2>3
<1> HIDE DEF T
<1>3. 0..N \subseteq T
  BY <1>1, <1>2, BoundedInduction
<1>4. \A n \in 0..N : f[n] \in S
  BY <1>3 DEF T
<1>5. f \in [0..N -> S]
  BY <1>4
<1>6. \A n \in 1..N : f[n] = step[n][f[n - 1]]
  <2>1. \A n \in 1..N : n - 1 \in 0..N
    OBVIOUS
  <2> QED
    BY <1>4, <2>1
<1> QED
  BY <1>5, <1>6 DEF Runs

----------------------------------------------------------------------------
(* Digits and their values.                                                 *)

Digits == {Digit[k] : k \in 1..10}

\* A byte is a digit if it is one of the ten.
LEMMA DigitsAre == \A b : IsDigit(b) <=> b \in Digits
BY DEF IsDigit, Digits

\* Neither the comma nor a letter is one of them.
LEMMA CommaIsNoDigit == ~IsDigit(",")
<1>0. /\ Digit[1] # "," /\ Digit[2] # "," /\ Digit[3] # "," /\ Digit[4] # ","
      /\ Digit[5] # "," /\ Digit[6] # "," /\ Digit[7] # "," /\ Digit[8] # ","
      /\ Digit[9] # "," /\ Digit[10] # ","
  BY DEF Digit
<1>1. ASSUME NEW k \in 1..10
      PROVE  Digit[k] # ","
  <2>1. \/ k = 1 \/ k = 2 \/ k = 3 \/ k = 4 \/ k = 5
        \/ k = 6 \/ k = 7 \/ k = 8 \/ k = 9 \/ k = 10
    OBVIOUS
  <2> QED
    BY <1>0, <2>1
<1> QED
  BY <1>1 DEF IsDigit

\* A digit is worth 0 to 9.
LEMMA DigitValueRange ==
  ASSUME NEW b, IsDigit(b)
  PROVE  DigitValue(b) \in 0..9
<1>1. \E k \in 1..10 : Digit[k] = b
  BY DEF IsDigit
<1>2. (CHOOSE k \in 1..10 : Digit[k] = b) \in 1..10
  BY <1>1
<1> QED
  BY <1>2 DEF DigitValue

\* An int of the AVR has its range.
LEMMA Int16Range ==
  \A n \in Int :
    /\ Int16(n) \in Int
    /\ -32768 <= Int16(n) /\ Int16(n) <= 32767
BY DEF Int16

\* The cut to 16 bits takes off a multiple of 2^16.
LEMMA Int16Multiple ==
  ASSUME NEW n \in Int
  PROVE  \E q \in Int : Int16(n) = n + 65536 * q
<1> DEFINE d == (n + 32768) \div 65536
           r == (n + 32768) % 65536
<1>1. d \in Int /\ r \in Int /\ n + 32768 = 65536 * d + r
  OBVIOUS
<1>2. Int16(n) = r - 32768
  BY DEF Int16
<1> HIDE DEF d, r
<1>3. Int16(n) = n + 65536 * (-d) /\ -d \in Int
  BY <1>1, <1>2
<1> QED
  BY <1>3

\* Cutting at every digit is cutting once.
LEMMA Int16Horner ==
  ASSUME NEW n \in Int, NEW d \in Int
  PROVE  Int16(10 * Int16(n) + d) = Int16(10 * n + d)
<1>1. PICK q \in Int : Int16(n) = n + 65536 * q
  BY Int16Multiple
<1>2. 10 * Int16(n) + d = (10 * n + d) + 65536 * (10 * q)
  BY <1>1
<1>4. Int16((10 * n + d) + 65536 * (10 * q)) = Int16(10 * n + d)
  <2> DEFINE x == 10 * n + d
             y == 10 * q
             z == x + 65536 * y
  <2>1. x \in Int /\ y \in Int /\ z \in Int /\ z = x + 65536 * y
    OBVIOUS
  <2> HIDE DEF x, y, z
  <2>2. Int16(z) = Int16(x)
    BY <2>1 DEF Int16
  <2> QED
    BY <2>2 DEF x, y, z
<1> QED
  BY <1>2, <1>4

\* toInt's running value.
LEMMA ToIntRuns ==
  ASSUME NEW str, Len(str) \in Nat, AllDigits(str)
  PROVE  \E f \in [0..Len(str) -> Int] :
           /\ f[0] = 0
           /\ \A n \in 1..Len(str) :
                f[n] = Int16(10 * f[n - 1] + DigitValue(str[n]))
           /\ ToInt(str) = f[Len(str)]
<1> DEFINE N == Len(str)
           step == [n \in 1..N |-> [v \in Int |-> Int16(10 * v + DigitValue(str[n]))]]
           Eq(f) == f = [n \in 0..N |->
                           IF n = 0 THEN 0
                           ELSE Int16(10 * f[n - 1] + DigitValue(str[n]))]
<1>1. Steps(step, Int, N)
  <2>1. ASSUME NEW n \in 1..N, NEW v \in Int
        PROVE  Int16(10 * v + DigitValue(str[n])) \in Int
    <3>1. DigitValue(str[n]) \in Int
      BY DigitValueRange DEF AllDigits
    <3> DEFINE x == 10 * v + DigitValue(str[n])
    <3>2. x \in Int
      BY <3>1
    <3> HIDE DEF x
    <3>3. Int16(x) \in Int
      BY <3>2, Int16Range
    <3> QED
      BY <3>3 DEF x
  <2> QED
    BY <2>1 DEF Steps
<1>2. PICK g : Runs(g, Int, N, 0, step)
  <2> HIDE DEF step
  <2>1. 0 \in Int /\ N \in Nat
    OBVIOUS
  <2> HIDE DEF N
  <2> QED
    BY <1>1, <2>1, RecursionExists, Zenon
<1>3. Eq(g)
  <2>1. ASSUME NEW n \in 1..N
        PROVE  step[n][g[n - 1]] = Int16(10 * g[n - 1] + DigitValue(str[n]))
    <3>1. n - 1 \in 0..N
      OBVIOUS
    <3>2. g[n - 1] \in Int
      BY <1>2, <3>1 DEF Runs
    <3> QED
      BY <3>2
  <2> HIDE DEF step
  <2> DEFINE h == [n \in 0..N |->
                     IF n = 0 THEN 0 ELSE Int16(10 * g[n - 1] + DigitValue(str[n]))]
  <2>2. \A n \in 0..N : g[n] = h[n]
    <3>1. g[0] = h[0]
      BY <1>2 DEF Runs
    <3>2. ASSUME NEW n \in 1..N
          PROVE  g[n] = h[n]
      BY <1>2, <2>1 DEF Runs
    <3>3. \A n \in 0..N : n = 0 \/ n \in 1..N
      OBVIOUS
    <3> HIDE DEF h
    <3> QED
      BY <3>1, <3>2, <3>3
  <2>3. g = [n \in 0..N |-> g[n]] /\ h = [n \in 0..N |-> h[n]]
    BY <1>2 DEF Runs
  <2>4. g = h
    <3> HIDE DEF h
    <3> QED
      BY <2>2, <2>3
  <2> QED
    BY <2>4
<1>4. ToInt(str) = (CHOOSE f : Eq(f))[N]
  BY Zenon DEF ToInt
<1>5. PICK f : Eq(f) /\ ToInt(str) = f[N]
  <2> HIDE DEF Eq
  <2> QED
    BY <1>3, <1>4
<1>7. Runs(f, Int, N, 0, step)
  <2>1. /\ f = [n \in 0..N |-> f[n]]
        /\ f[0] = 0
        /\ \A n \in 1..N : f[n - 1] \in Int => f[n] = step[n][f[n - 1]]
    <3>1. f = [n \in 0..N |-> f[n]] /\ f[0] = 0
      BY <1>5
    <3>2. ASSUME NEW n \in 1..N, f[n - 1] \in Int
          PROVE  f[n] = step[n][f[n - 1]]
      <4>1. f[n] = Int16(10 * f[n - 1] + DigitValue(str[n]))
        BY <1>5
      <4> QED
        BY <3>2, <4>1
    <3> QED
      BY <3>1, <3>2
  <2>2. 0 \in Int /\ N \in Nat
    OBVIOUS
  <2> HIDE DEF N, step, Eq
  <2> QED
    BY <1>1, <2>1, <2>2, RunsInside, Zenon
<1>8. f[0] = 0 /\ \A n \in 1..N : f[n] = Int16(10 * f[n - 1] + DigitValue(str[n]))
  BY <1>5
<1> QED
  BY <1>5, <1>7, <1>8, Zenon DEF Runs

----------------------------------------------------------------------------
(* The byte loop.                                                           *)

\* The byte b is one the loop can take in state s.
Fits(s, b) ==
  \/ s.need_flags = 0 /\ ToUpper(b) \in {"G", "S"}
  \/ s.need_flags = 1 /\ ToUpper(b) \in DOMAIN DeviceOf
  \/ s.need_flags = 2 /\ ToUpper(b) \in DOMAIN TypeOf
  \/ s.need_flags \in {3, 4} /\ IsDigit(b)
  \/ s.need_flags = 3 /\ b = ","

\* What one turn of the loop does, case by case.
LEMMA Turns ==
  ASSUME NEW s \in LoopStates, NEW b, b \notin Blank, s.i2c_ret # "F"
  PROVE  /\ s.need_flags = 0 /\ ToUpper(b) \in {"G", "S"} =>
              ReadByte(b)[s] = [s EXCEPT !.i2c_ret = ToUpper(b), !.need_flags = 1]
         /\ s.need_flags = 1 /\ ToUpper(b) \in DOMAIN DeviceOf =>
              ReadByte(b)[s] =
                [s EXCEPT !.device = DeviceOf[ToUpper(b)], !.need_flags = 2]
         /\ s.need_flags = 2 /\ ToUpper(b) \in DOMAIN TypeOf =>
              ReadByte(b)[s] =
                [s EXCEPT !.type = TypeOf[ToUpper(b)], !.need_flags = 3]
         /\ s.need_flags \in {3, 4} /\ IsDigit(b) =>
              ReadByte(b)[s] = [s EXCEPT !.tmp_str = Append(s.tmp_str, b)]
         /\ s.need_flags = 3 /\ b = "," =>
              ReadByte(b)[s] = [s EXCEPT !.val_0 = ToInt(s.tmp_str),
                                         !.need_flags = 4, !.tmp_str = <<>>]
         /\ ~Fits(s, b) => ReadByte(b)[s] = Fail(s)
<1> DEFINE c == ToUpper(b)
           A1 == s.need_flags = 0 /\ c \in {"G", "S"}
           A2 == s.need_flags = 1 /\ c \in DOMAIN DeviceOf
           A3 == s.need_flags = 2 /\ c \in DOMAIN TypeOf
           A4 == s.need_flags \in {3, 4} /\ IsDigit(b)
           A5 == s.need_flags = 3 /\ b = ","
           Method == [s EXCEPT !.i2c_ret = c, !.need_flags = 1]
           Device == [s EXCEPT !.device = DeviceOf[c], !.need_flags = 2]
           Type == [s EXCEPT !.type = TypeOf[c], !.need_flags = 3]
           More == [s EXCEPT !.tmp_str = Append(@, b)]
           Comma == [s EXCEPT !.val_0 = ToInt(s.tmp_str), !.need_flags = 4,
                              !.tmp_str = <<>>]
<1>1. ReadByte(b)[s] = CASE A1 -> Method [] A2 -> Device [] A3 -> Type
                         [] A4 -> More [] A5 -> Comma [] OTHER -> Fail(s)
  BY Zenon DEF ReadByte
<1>2. More = [s EXCEPT !.tmp_str = Append(s.tmp_str, b)]
  OBVIOUS
<1>3. /\ A1 => ~A2 /\ ~A3 /\ ~A4 /\ ~A5
      /\ A2 => ~A1 /\ ~A3 /\ ~A4 /\ ~A5
      /\ A3 => ~A1 /\ ~A2 /\ ~A4 /\ ~A5
      /\ A4 => ~A1 /\ ~A2 /\ ~A3 /\ ~A5
      /\ A5 => ~A1 /\ ~A2 /\ ~A3 /\ ~A4
  <2>1. /\ A1 => s.need_flags = 0
        /\ A2 => s.need_flags = 1
        /\ A3 => s.need_flags = 2
        /\ A4 => s.need_flags \in {3, 4} /\ IsDigit(b)
        /\ A5 => s.need_flags = 3 /\ ~IsDigit(b)
    BY CommaIsNoDigit, Zenon
  <2> HIDE DEF A1, A2, A3, A4, A5
  <2> QED
    BY <2>1
<1> HIDE DEF A1, A2, A3, A4, A5, Method, Device, Type, More, Comma
<1>4. /\ A1 => ReadByte(b)[s] = Method
      /\ A2 => ReadByte(b)[s] = Device
      /\ A3 => ReadByte(b)[s] = Type
      /\ A4 => ReadByte(b)[s] = More
      /\ A5 => ReadByte(b)[s] = Comma
      /\ ~(A1 \/ A2 \/ A3 \/ A4 \/ A5) => ReadByte(b)[s] = Fail(s)
  BY <1>1, <1>3
<1> QED
  BY <1>2, <1>4, Zenon
     DEF A1, A2, A3, A4, A5, Method, Device, Type, More, Comma, Fits

\* What it skips.
LEMMA Skips ==
  ASSUME NEW s \in LoopStates, NEW b, b \in Blank \/ s.i2c_ret = "F"
  PROVE  ReadByte(b)[s] = s
BY Zenon DEF ReadByte

\* toInt gives an int of 16 bits.
LEMMA ToIntTyped ==
  ASSUME NEW str \in Seq(Digits)
  PROVE  /\ ToInt(str) \in Int
         /\ -32768 <= ToInt(str) /\ ToInt(str) <= 32767
<1>1. Len(str) \in Nat /\ AllDigits(str)
  BY DigitsAre DEF AllDigits
<1>2. PICK f \in [0..Len(str) -> Int] :
        /\ f[0] = 0
        /\ \A n \in 1..Len(str) : f[n] = Int16(10 * f[n - 1] + DigitValue(str[n]))
        /\ ToInt(str) = f[Len(str)]
  BY <1>1, ToIntRuns
<1>3. CASE Len(str) = 0
  BY <1>2, <1>3
<1>4. CASE Len(str) # 0
  <2> DEFINE n == Len(str)
             x == 10 * f[n - 1] + DigitValue(str[n])
  <2>1. n \in 1..Len(str) /\ n - 1 \in 0..Len(str)
    BY <1>1, <1>4
  <2>2. DigitValue(str[n]) \in 0..9
    BY <1>1, <2>1, DigitValueRange DEF AllDigits
  <2>3. f[n - 1] \in Int
    BY <1>2, <2>1
  <2>4. x \in Int
    BY <2>2, <2>3
  <2>5. ToInt(str) = Int16(x)
    BY <1>2, <2>1
  <2> HIDE DEF x
  <2> QED
    BY <2>4, <2>5, Int16Range
<1> QED
  BY <1>3, <1>4

\* An assignment to two or three of the loop's variables, one at a time.
LEMMA Assigned ==
  ASSUME NEW s \in LoopStates, NEW x
  PROVE  /\ [s EXCEPT !.i2c_ret = x, !.need_flags = 1] =
              [[s EXCEPT !.i2c_ret = x] EXCEPT !.need_flags = 1]
         /\ [s EXCEPT !.device = x, !.need_flags = 2] =
              [[s EXCEPT !.device = x] EXCEPT !.need_flags = 2]
         /\ [s EXCEPT !.type = x, !.need_flags = 3] =
              [[s EXCEPT !.type = x] EXCEPT !.need_flags = 3]
         /\ [s EXCEPT !.val_0 = x, !.need_flags = 4, !.tmp_str = <<>>] =
              [[[s EXCEPT !.val_0 = x] EXCEPT !.need_flags = 4] EXCEPT !.tmp_str = <<>>]
OBVIOUS

\* Each of them keeps its type.
LEMMA AssignedTyped ==
  ASSUME NEW s \in LoopStates, NEW x
  PROVE  /\ x \in {"N", "G", "S", "F"} => [s EXCEPT !.i2c_ret = x] \in LoopStates
         /\ x \in 0..4 => [s EXCEPT !.need_flags = x] \in LoopStates
         /\ x \in {"led", "servo"} => [s EXCEPT !.device = x] \in LoopStates
         /\ x \in {"en", "pwm", "pwm_x", "pwm_y"} =>
              [s EXCEPT !.type = x] \in LoopStates
         /\ x \in Seq(Digits) => [s EXCEPT !.tmp_str = x] \in LoopStates
         /\ x \in Int => [s EXCEPT !.val_0 = x] \in LoopStates
<1>1. x \in {"N", "G", "S", "F"} => [s EXCEPT !.i2c_ret = x] \in LoopStates
  BY DEF LoopStates
<1>2. x \in 0..4 => [s EXCEPT !.need_flags = x] \in LoopStates
  BY DEF LoopStates
<1>3. x \in {"led", "servo"} => [s EXCEPT !.device = x] \in LoopStates
  BY DEF LoopStates
<1>4. x \in {"en", "pwm", "pwm_x", "pwm_y"} => [s EXCEPT !.type = x] \in LoopStates
  BY DEF LoopStates
<1>5. x \in Seq(Digits) => [s EXCEPT !.tmp_str = x] \in LoopStates
  BY DEF LoopStates, Digits
<1>6. x \in Int => [s EXCEPT !.val_0 = x] \in LoopStates
  BY DEF LoopStates
<1> QED
  BY <1>1, <1>2, <1>3, <1>4, <1>5, <1>6, Zenon

\* The loop's variables keep their types.
LEMMA ReadByteTyped ==
  ASSUME NEW b
  PROVE  ReadByte(b) \in [LoopStates -> LoopStates]
<1>1. ASSUME NEW s \in LoopStates
      PROVE  ReadByte(b)[s] \in LoopStates
  <2>1. CASE b \in Blank \/ s.i2c_ret = "F"
    BY <2>1, Skips
  <2>2. CASE b \notin Blank /\ s.i2c_ret # "F"
    <3>1. CASE s.need_flags = 0 /\ ToUpper(b) \in {"G", "S"}
      <4>1. [s EXCEPT !.i2c_ret = ToUpper(b), !.need_flags = 1] \in LoopStates
        <5> DEFINE t == [s EXCEPT !.i2c_ret = ToUpper(b)]
        <5>1. t \in LoopStates
          BY <3>1, AssignedTyped
        <5>2. [s EXCEPT !.i2c_ret = ToUpper(b), !.need_flags = 1] =
                [t EXCEPT !.need_flags = 1]
          BY Assigned, Zenon
        <5> HIDE DEF t
        <5>3. [t EXCEPT !.need_flags = 1] \in LoopStates
          <6>1. 1 \in 0..4
            OBVIOUS
          <6> QED
            BY <5>1, <6>1, AssignedTyped, Zenon
        <5> QED
          BY <5>2, <5>3
      <4> QED
        BY <2>2, <3>1, <4>1, Turns
    <3>2. CASE s.need_flags = 1 /\ ToUpper(b) \in DOMAIN DeviceOf
      <4>1. DeviceOf[ToUpper(b)] \in {"led", "servo"}
        BY <3>2 DEF DeviceOf
      <4>2. [s EXCEPT !.device = DeviceOf[ToUpper(b)], !.need_flags = 2] \in LoopStates
        <5> DEFINE x == DeviceOf[ToUpper(b)]
                   t == [s EXCEPT !.device = x]
        <5>1. t \in LoopStates
          BY <4>1, AssignedTyped, Zenon
        <5>2. [s EXCEPT !.device = x, !.need_flags = 2] = [t EXCEPT !.need_flags = 2]
          BY Assigned, Zenon
        <5> HIDE DEF t
        <5>3. [t EXCEPT !.need_flags = 2] \in LoopStates
          <6>1. 2 \in 0..4
            OBVIOUS
          <6> QED
            BY <5>1, <6>1, AssignedTyped, Zenon
        <5> QED
          BY <5>2, <5>3
      <4> QED
        BY <2>2, <3>2, <4>2, Turns
    <3>3. CASE s.need_flags = 2 /\ ToUpper(b) \in DOMAIN TypeOf
      <4>1. TypeOf[ToUpper(b)] \in {"en", "pwm", "pwm_x", "pwm_y"}
        BY <3>3 DEF TypeOf
      <4>2. [s EXCEPT !.type = TypeOf[ToUpper(b)], !.need_flags = 3] \in LoopStates
        <5> DEFINE x == TypeOf[ToUpper(b)]
                   t == [s EXCEPT !.type = x]
        <5>1. t \in LoopStates
          BY <4>1, AssignedTyped, Zenon
        <5>2. [s EXCEPT !.type = x, !.need_flags = 3] = [t EXCEPT !.need_flags = 3]
          BY Assigned, Zenon
        <5> HIDE DEF t
        <5>3. [t EXCEPT !.need_flags = 3] \in LoopStates
          <6>1. 3 \in 0..4
            OBVIOUS
          <6> QED
            BY <5>1, <6>1, AssignedTyped, Zenon
        <5> QED
          BY <5>2, <5>3
      <4> QED
        BY <2>2, <3>3, <4>2, Turns
    <3>4. CASE s.need_flags \in {3, 4} /\ IsDigit(b)
      <4>1. s.tmp_str \in Seq(Digits) /\ b \in Digits
        BY <3>4, DigitsAre DEF LoopStates, Digits
      <4>2. Append(s.tmp_str, b) \in Seq(Digits)
        BY <4>1, AppendProperties
      <4>3. [s EXCEPT !.tmp_str = Append(s.tmp_str, b)] \in LoopStates
        BY <4>2 DEF LoopStates, Digits
      <4> QED
        BY <2>2, <3>4, <4>3, Turns
    <3>5. CASE s.need_flags = 3 /\ b = ","
      <4>1. s.tmp_str \in Seq(Digits)
        BY DEF LoopStates, Digits
      <4>2. ToInt(s.tmp_str) \in Int
        BY <4>1, ToIntTyped
      <4>3. <<>> \in Seq(Digits)
        OBVIOUS
      <4>4. [s EXCEPT !.val_0 = ToInt(s.tmp_str), !.need_flags = 4, !.tmp_str = <<>>]
              \in LoopStates
        <5> DEFINE x == ToInt(s.tmp_str)
                   t == [s EXCEPT !.val_0 = x]
                   u == [t EXCEPT !.need_flags = 4]
        <5>1. t \in LoopStates
          BY <4>2, AssignedTyped, Zenon
        <5>2. u \in LoopStates
          <6> HIDE DEF t
          <6>1. 4 \in 0..4
            OBVIOUS
          <6> QED
            BY <5>1, <6>1, AssignedTyped, Zenon
        <5>3. [s EXCEPT !.val_0 = x, !.need_flags = 4, !.tmp_str = <<>>] =
                [u EXCEPT !.tmp_str = <<>>]
          BY Assigned, Zenon
        <5> HIDE DEF u
        <5>4. [u EXCEPT !.tmp_str = <<>>] \in LoopStates
          BY <4>3, <5>2, AssignedTyped
        <5> QED
          BY <5>3, <5>4
      <4> QED
        BY <2>2, <3>5, <4>4, Turns
    <3>6. CASE ~Fits(s, b)
      <4>1. Fail(s) \in LoopStates
        BY DEF Fail, LoopStates
      <4> QED
        BY <2>2, <3>6, <4>1, Turns
    <3> QED
      BY <3>1, <3>2, <3>3, <3>4, <3>5, <3>6 DEF Fits
  <2> QED
    BY <2>1, <2>2
<1> DEFINE c == ToUpper(b)
           Turn(s) ==
             IF b \in Blank \/ s.i2c_ret = "F" THEN s
             ELSE CASE s.need_flags = 0 /\ c \in {"G", "S"} ->
                         [s EXCEPT !.i2c_ret = c, !.need_flags = 1]
                    [] s.need_flags = 1 /\ c \in DOMAIN DeviceOf ->
                         [s EXCEPT !.device = DeviceOf[c], !.need_flags = 2]
                    [] s.need_flags = 2 /\ c \in DOMAIN TypeOf ->
                         [s EXCEPT !.type = TypeOf[c], !.need_flags = 3]
                    [] s.need_flags \in {3, 4} /\ IsDigit(b) ->
                         [s EXCEPT !.tmp_str = Append(@, b)]
                    [] s.need_flags = 3 /\ b = "," ->
                         [s EXCEPT !.val_0 = ToInt(s.tmp_str), !.need_flags = 4,
                                   !.tmp_str = <<>>]
                    [] OTHER -> Fail(s)
<1>2. ReadByte(b) = [s \in LoopStates |-> Turn(s)]
  BY Zenon DEF ReadByte
<1> HIDE DEF Turn
<1> QED
  BY <1>1, <1>2

\* It starts in its types.
LEMMA StartTyped == Start \in LoopStates
<1>1. <<>> \in Seq(Digits)
  OBVIOUS
<1> QED
  BY <1>1 DEF Start, LoopStates, Digits

\* The loop's variables after each byte.
LEMMA AtEndRuns ==
  ASSUME NEW m, Len(m) \in Nat
  PROVE  \E f \in [0..Len(m) -> LoopStates] :
           /\ f[0] = Start
           /\ \A n \in 1..Len(m) : f[n] = ReadByte(m[n])[f[n - 1]]
           /\ AtEnd(m) = f[Len(m)]
<1> DEFINE N == Len(m)
           step == [n \in 1..N |-> ReadByte(m[n])]
           Eq(f) == f = [n \in 0..N |->
                           IF n = 0 THEN Start ELSE ReadByte(m[n])[f[n - 1]]]
<1>1. Steps(step, LoopStates, N)
  <2>1. \A n \in 1..N : ReadByte(m[n]) \in [LoopStates -> LoopStates]
    BY ReadByteTyped
  <2> HIDE DEF N
  <2> QED
    BY <2>1 DEF Steps
<1>2. PICK g : Runs(g, LoopStates, N, Start, step)
  <2> HIDE DEF step
  <2>1. N \in Nat
    OBVIOUS
  <2> HIDE DEF N
  <2> QED
    BY <1>1, <2>1, StartTyped, RecursionExists, Zenon
<1>3. Eq(g)
  <2> DEFINE h == [n \in 0..N |-> IF n = 0 THEN Start ELSE ReadByte(m[n])[g[n - 1]]]
  <2>1. \A n \in 1..N : step[n] = ReadByte(m[n])
    OBVIOUS
  <2>2. g[0] = Start /\ \A n \in 1..N : g[n] = step[n][g[n - 1]]
    <3> HIDE DEF step
    <3> QED
      BY <1>2 DEF Runs
  <2> HIDE DEF step
  <2>3. \A n \in 0..N : g[n] = h[n]
    <3>1. \A n \in 0..N : n = 0 \/ n \in 1..N
      OBVIOUS
    <3>2. ASSUME NEW n \in 1..N
          PROVE  g[n] = h[n]
      BY <2>1, <2>2
    <3>3. g[0] = h[0]
      BY <2>2
    <3> HIDE DEF h
    <3> QED
      BY <3>1, <3>2, <3>3
  <2>4. g = [n \in 0..N |-> g[n]] /\ h = [n \in 0..N |-> h[n]]
    BY <1>2 DEF Runs
  <2>5. g = h
    <3> HIDE DEF h
    <3> QED
      BY <2>3, <2>4
  <2> QED
    BY <2>5
<1>4. AtEnd(m) = (CHOOSE f : Eq(f))[N]
  BY Zenon DEF AtEnd
<1>5. PICK f : Eq(f) /\ AtEnd(m) = f[N]
  <2> HIDE DEF Eq
  <2> QED
    BY <1>3, <1>4
<1>6. f[0] = Start /\ \A n \in 1..N : f[n] = ReadByte(m[n])[f[n - 1]]
  BY <1>5
<1>7. Runs(f, LoopStates, N, Start, step)
  <2>1. f = [n \in 0..N |-> f[n]]
    BY <1>5
  <2>2. \A n \in 1..N : f[n - 1] \in LoopStates => f[n] = step[n][f[n - 1]]
    <3>1. \A n \in 1..N : step[n] = ReadByte(m[n])
      OBVIOUS
    <3> HIDE DEF step
    <3> QED
      BY <1>6, <3>1
  <2>3. N \in Nat
    OBVIOUS
  <2> HIDE DEF N, step, Eq
  <2> QED
    BY <1>1, <1>6, <2>1, <2>2, <2>3, StartTyped, RunsInside, Zenon
<1> QED
  BY <1>5, <1>6, <1>7, Zenon DEF Runs

\* The bytes seen after each byte.
LEMMA VisibleRuns ==
  ASSUME NEW B, NEW m \in Seq(B)
  PROVE  \E f \in [0..Len(m) -> Seq(B)] :
           /\ f[0] = <<>>
           /\ \A n \in 1..Len(m) :
                f[n] = IF m[n] \in Blank THEN f[n - 1] ELSE Append(f[n - 1], m[n])
           /\ Visible(m) = f[Len(m)]
<1> DEFINE N == Len(m)
           step == [n \in 1..N |->
                      [v \in Seq(B) |-> IF m[n] \in Blank THEN v ELSE Append(v, m[n])]]
           Eq(f) == f = [n \in 0..N |->
                           IF n = 0 THEN <<>>
                           ELSE IF m[n] \in Blank THEN f[n - 1]
                                ELSE Append(f[n - 1], m[n])]
<1>0. N \in Nat /\ <<>> \in Seq(B) /\ \A n \in 1..N : m[n] \in B
  OBVIOUS
<1>1. Steps(step, Seq(B), N)
  <2>1. ASSUME NEW n \in 1..N, NEW v \in Seq(B)
        PROVE  (IF m[n] \in Blank THEN v ELSE Append(v, m[n])) \in Seq(B)
    BY <1>0, AppendProperties
  <2> HIDE DEF N
  <2> QED
    BY <2>1 DEF Steps
<1>2. PICK g : Runs(g, Seq(B), N, <<>>, step)
  <2> HIDE DEF step
  <2> HIDE DEF N
  <2> QED
    BY <1>0, <1>1, RecursionExists, Zenon
<1>3. Eq(g)
  <2> DEFINE h == [n \in 0..N |->
                     IF n = 0 THEN <<>>
                     ELSE IF m[n] \in Blank THEN g[n - 1] ELSE Append(g[n - 1], m[n])]
  <2>1. ASSUME NEW n \in 1..N
        PROVE  step[n][g[n - 1]] =
                 IF m[n] \in Blank THEN g[n - 1] ELSE Append(g[n - 1], m[n])
    <3>1. n - 1 \in 0..N
      OBVIOUS
    <3>2. g[n - 1] \in Seq(B)
      BY <1>2, <3>1 DEF Runs
    <3> QED
      BY <3>2
  <2> HIDE DEF step
  <2>2. g[0] = <<>> /\ \A n \in 1..N : g[n] = step[n][g[n - 1]]
    BY <1>2 DEF Runs
  <2>3. \A n \in 0..N : g[n] = h[n]
    <3>1. \A n \in 0..N : n = 0 \/ n \in 1..N
      OBVIOUS
    <3>2. ASSUME NEW n \in 1..N
          PROVE  g[n] = h[n]
      BY <2>1, <2>2
    <3>3. g[0] = h[0]
      BY <2>2
    <3> HIDE DEF h
    <3> QED
      BY <3>1, <3>2, <3>3
  <2>4. g = [n \in 0..N |-> g[n]] /\ h = [n \in 0..N |-> h[n]]
    BY <1>2 DEF Runs
  <2>5. g = h
    <3> HIDE DEF h
    <3> QED
      BY <2>3, <2>4
  <2> QED
    BY <2>5
<1>4. Visible(m) = (CHOOSE f : Eq(f))[N]
  BY Zenon DEF Visible
<1>5. PICK f : Eq(f) /\ Visible(m) = f[N]
  <2> HIDE DEF Eq
  <2> QED
    BY <1>3, <1>4
<1>6. f[0] = <<>> /\ \A n \in 1..N :
        f[n] = IF m[n] \in Blank THEN f[n - 1] ELSE Append(f[n - 1], m[n])
  <2>1. f[0] = <<>>
    BY <1>0, <1>5
  <2>2. ASSUME NEW n \in 1..N
        PROVE  f[n] = IF m[n] \in Blank THEN f[n - 1] ELSE Append(f[n - 1], m[n])
    <3>1. n \in 0..N /\ n # 0
      OBVIOUS
    <3> QED
      BY <1>5, <3>1, Zenon
  <2> QED
    BY <2>1, <2>2
<1>7. Runs(f, Seq(B), N, <<>>, step)
  <2>1. f = [n \in 0..N |-> f[n]]
    BY <1>5
  <2>2. \A n \in 1..N : f[n - 1] \in Seq(B) => f[n] = step[n][f[n - 1]]
    BY <1>6
  <2> HIDE DEF N, step, Eq
  <2> QED
    BY <1>0, <1>1, <1>6, <2>1, <2>2, RunsInside, Zenon
<1> QED
  BY <1>5, <1>6, <1>7, Zenon DEF Runs

----------------------------------------------------------------------------
(* The value of a string of digits.                                         *)

TimesTen(f, N) ==
  /\ f \in [0..N -> Int]
  /\ f[0] = 1
  /\ \A n \in 1..N : f[n] = 10 * f[n - 1]

SumsUp(f, N, str, power) ==
  /\ f \in [0..N -> Int]
  /\ f[0] = 0
  /\ \A k \in 1..N : f[k] = f[k - 1] + DigitValue(str[k]) * power[N - k]

\* The powers of ten.
LEMMA PowersOfTen ==
  ASSUME NEW N \in Nat
  PROVE  TimesTen(CHOOSE f : f = [n \in 0..N |-> IF n = 0 THEN 1 ELSE 10 * f[n - 1]], N)
<1> DEFINE step == [n \in 1..N |-> [v \in Int |-> 10 * v]]
           Eq(f) == f = [n \in 0..N |-> IF n = 0 THEN 1 ELSE 10 * f[n - 1]]
<1>1. Steps(step, Int, N)
  <2>1. \A v \in Int : 10 * v \in Int
    OBVIOUS
  <2> QED
    BY <2>1 DEF Steps
<1>2. PICK g : Runs(g, Int, N, 1, step)
  <2> HIDE DEF step
  <2>1. 1 \in Int
    OBVIOUS
  <2> QED
    BY <1>1, <2>1, RecursionExists, Zenon
<1>3. Eq(g)
  <2> DEFINE h == [n \in 0..N |-> IF n = 0 THEN 1 ELSE 10 * g[n - 1]]
  <2>1. ASSUME NEW n \in 1..N
        PROVE  step[n][g[n - 1]] = 10 * g[n - 1]
    <3>1. n - 1 \in 0..N
      OBVIOUS
    <3>2. g[n - 1] \in Int
      BY <1>2, <3>1 DEF Runs
    <3> QED
      BY <3>2
  <2> HIDE DEF step
  <2>2. g[0] = 1 /\ \A n \in 1..N : g[n] = step[n][g[n - 1]]
    BY <1>2 DEF Runs
  <2>3. \A n \in 0..N : g[n] = h[n]
    <3>1. \A n \in 0..N : n = 0 \/ n \in 1..N
      OBVIOUS
    <3>2. ASSUME NEW n \in 1..N
          PROVE  g[n] = h[n]
      BY <2>1, <2>2
    <3>3. g[0] = h[0]
      BY <2>2
    <3> HIDE DEF h
    <3> QED
      BY <3>1, <3>2, <3>3
  <2>4. g = [n \in 0..N |-> g[n]] /\ h = [n \in 0..N |-> h[n]]
    BY <1>2 DEF Runs
  <2>5. g = h
    <3> HIDE DEF h
    <3> QED
      BY <2>3, <2>4
  <2> QED
    BY <2>5
<1> DEFINE f == CHOOSE p : Eq(p)
<1>4. Eq(f)
  <2> HIDE DEF Eq
  <2> QED
    BY <1>3
<1> HIDE DEF f
<1>5. f[0] = 1 /\ \A n \in 1..N : f[n] = 10 * f[n - 1]
  BY <1>4
<1>6. Runs(f, Int, N, 1, step)
  <2>1. f = [n \in 0..N |-> f[n]] /\ 1 \in Int
    BY <1>4
  <2>2. \A n \in 1..N : f[n - 1] \in Int => f[n] = step[n][f[n - 1]]
    BY <1>5
  <2> HIDE DEF step, Eq
  <2> QED
    BY <1>1, <1>5, <2>1, <2>2, RunsInside, Zenon
<1>7. TimesTen(f, N)
  BY <1>5, <1>6, Zenon DEF Runs, TimesTen
<1> QED
  BY <1>7, Zenon DEF f

\* The sum that Decimal takes.
LEMMA DecimalSums ==
  ASSUME NEW str, Len(str) \in Nat, AllDigits(str)
  PROVE  \E power, sum :
           /\ TimesTen(power, Len(str))
           /\ SumsUp(sum, Len(str), str, power)
           /\ Decimal(str) = sum[Len(str)]
<1> DEFINE N == Len(str)
           power == CHOOSE f : f = [n \in 0..N |-> IF n = 0 THEN 1 ELSE 10 * f[n - 1]]
           step == [k \in 1..N |->
                      [v \in Int |-> v + DigitValue(str[k]) * power[N - k]]]
           Eq(f) == f = [k \in 0..N |->
                           IF k = 0 THEN 0
                           ELSE f[k - 1] + DigitValue(str[k]) * power[N - k]]
<1>0. TimesTen(power, N)
  BY PowersOfTen
<1>4. Decimal(str) = (CHOOSE f : Eq(f))[N]
  BY Zenon DEF Decimal
<1> HIDE DEF power
<1>1. Steps(step, Int, N)
  <2>1. ASSUME NEW k \in 1..N, NEW v \in Int
        PROVE  v + DigitValue(str[k]) * power[N - k] \in Int
    <3>1. DigitValue(str[k]) \in Int
      BY DigitValueRange DEF AllDigits
    <3>2. power[N - k] \in Int
      <4>1. N - k \in 0..N
        OBVIOUS
      <4>2. power \in [0..N -> Int]
        BY <1>0, Zenon DEF TimesTen
      <4> HIDE DEF N
      <4> QED
        BY <4>1, <4>2
    <3> DEFINE x == DigitValue(str[k])
               y == power[N - k]
    <3> HIDE DEF x, y
    <3>3. v + x * y \in Int
      BY <3>1, <3>2 DEF x, y
    <3> QED
      BY <3>3 DEF x, y
  <2> QED
    BY <2>1 DEF Steps
<1>2. PICK g : Runs(g, Int, N, 0, step)
  <2> HIDE DEF step
  <2>1. 0 \in Int /\ N \in Nat
    OBVIOUS
  <2> HIDE DEF N
  <2> QED
    BY <1>1, <2>1, RecursionExists, Zenon
<1>3. Eq(g)
  <2> DEFINE h == [k \in 0..N |->
                     IF k = 0 THEN 0
                     ELSE g[k - 1] + DigitValue(str[k]) * power[N - k]]
  <2>1. ASSUME NEW n \in 1..N
        PROVE  step[n][g[n - 1]] = g[n - 1] + DigitValue(str[n]) * power[N - n]
    <3>1. n - 1 \in 0..N
      OBVIOUS
    <3>2. g[n - 1] \in Int
      BY <1>2, <3>1 DEF Runs
    <3> QED
      BY <3>2
  <2> HIDE DEF step
  <2>2. g[0] = 0 /\ \A n \in 1..N : g[n] = step[n][g[n - 1]]
    BY <1>2 DEF Runs
  <2>3. \A n \in 0..N : g[n] = h[n]
    <3>1. \A n \in 0..N : n = 0 \/ n \in 1..N
      OBVIOUS
    <3>2. ASSUME NEW n \in 1..N
          PROVE  g[n] = h[n]
      BY <2>1, <2>2
    <3>3. g[0] = h[0]
      BY <2>2
    <3> HIDE DEF h
    <3> QED
      BY <3>1, <3>2, <3>3
  <2>4. g = [n \in 0..N |-> g[n]] /\ h = [n \in 0..N |-> h[n]]
    BY <1>2 DEF Runs
  <2>5. g = h
    <3> HIDE DEF h
    <3> QED
      BY <2>3, <2>4
  <2> QED
    BY <2>5
<1>5. PICK f : Eq(f) /\ Decimal(str) = f[N]
  <2> HIDE DEF Eq
  <2> QED
    BY <1>3, <1>4
<1>6. /\ f[0] = 0
      /\ \A k \in 1..N : f[k] = f[k - 1] + DigitValue(str[k]) * power[N - k]
  BY <1>5
<1>7. Runs(f, Int, N, 0, step)
  <2>1. f = [n \in 0..N |-> f[n]] /\ 0 \in Int /\ N \in Nat
    BY <1>5
  <2>2. \A n \in 1..N : f[n - 1] \in Int => f[n] = step[n][f[n - 1]]
    BY <1>6
  <2> HIDE DEF N, step, Eq
  <2> QED
    BY <1>1, <1>6, <2>1, <2>2, RunsInside, Zenon
<1>8. SumsUp(f, N, str, power)
  BY <1>6, <1>7, Zenon DEF Runs, SumsUp
<1> QED
  BY <1>0, <1>5, <1>8, Zenon

\* The int that toInt gives is the decimal value, cut to 16 bits once.
THEOREM ToIntIsDecimal ==
  ASSUME NEW str, Len(str) \in Nat, AllDigits(str)
  PROVE  ToInt(str) = Int16(Decimal(str))
<1> DEFINE N == Len(str)
           d == [n \in 1..N |-> DigitValue(str[n])]
           step == [n \in 1..N |-> [v \in Int |-> 10 * v + d[n]]]
<1>1. \A n \in 1..N : d[n] = DigitValue(str[n]) /\ d[n] \in Int
  <2>1. ASSUME NEW n \in 1..N
        PROVE  DigitValue(str[n]) \in 0..9
    BY DigitValueRange DEF AllDigits
  <2> QED
    BY <2>1
<1>2. PICK f \in [0..N -> Int] :
        /\ f[0] = 0
        /\ \A n \in 1..N : f[n] = Int16(10 * f[n - 1] + DigitValue(str[n]))
        /\ ToInt(str) = f[N]
  BY ToIntRuns
<1>3. PICK power, sum : /\ TimesTen(power, N)
                        /\ SumsUp(sum, N, str, power)
                        /\ Decimal(str) = sum[N]
  BY DecimalSums, Zenon
<1> HIDE DEF d
<1>4. Steps(step, Int, N)
  <2>1. \A n \in 1..N : \A v \in Int : 10 * v + d[n] \in Int
    BY <1>1
  <2> QED
    BY <2>1 DEF Steps
<1>5. PICK h : Runs(h, Int, N, 0, step)
  <2> HIDE DEF step
  <2>1. 0 \in Int /\ N \in Nat
    OBVIOUS
  <2> HIDE DEF N
  <2> QED
    BY <1>4, <2>1, RecursionExists, Zenon
<1>6. /\ h[0] = 0
      /\ \A n \in 0..N : h[n] \in Int
      /\ \A n \in 1..N : h[n] = 10 * h[n - 1] + d[n]
  <2>1. h[0] = 0 /\ \A n \in 0..N : h[n] \in Int
    BY <1>5 DEF Runs
  <2>2. ASSUME NEW n \in 1..N
        PROVE  h[n] = 10 * h[n - 1] + d[n]
    <3>1. h[n] = step[n][h[n - 1]]
      BY <1>5 DEF Runs
    <3>2. h[n - 1] \in Int
      BY <2>1
    <3> QED
      BY <3>1, <3>2
  <2> QED
    BY <2>1, <2>2
<1> HIDE DEF step
<1> DEFINE T == {n \in 0..N : f[n] = Int16(h[n]) /\ sum[n] = h[n] * power[N - n]}
<1>7. 0 \in T
  <2>1. Int16(0) = 0
    BY DEF Int16
  <2>2. sum[0] = 0 /\ power[N - 0] \in Int
    BY <1>3 DEF SumsUp, TimesTen
  <2> QED
    BY <1>2, <1>6, <2>1, <2>2
<1>8. ASSUME NEW n \in 0..N, n \in T, n < N
      PROVE  n + 1 \in T
  <2> DEFINE x == h[n]
             y == d[n + 1]
             p == power[N - (n + 1)]
  <2>1. n + 1 \in 1..N /\ n + 1 \in 0..N /\ (n + 1) - 1 = n
    BY <1>8
  <2>2. x \in Int /\ y \in Int /\ h[n + 1] = 10 * x + y
    BY <1>1, <1>6, <2>1
  <2>3. f[n + 1] = Int16(10 * Int16(x) + y)
    BY <1>1, <1>2, <1>8, <2>1
  <2>4. f[n + 1] = Int16(h[n + 1])
    <3> HIDE DEF x, y
    <3> QED
      BY <2>2, <2>3, Int16Horner
  <2>5. p \in Int /\ power[N - n] = 10 * p
    <3>1. N - n \in 1..N /\ (N - n) - 1 = N - (n + 1) /\ N - (n + 1) \in 0..N
      BY <1>8
    <3> QED
      BY <1>3, <3>1 DEF TimesTen
  <2>6. sum[n + 1] = x * (10 * p) + y * p
    <3>1. sum[n + 1] = sum[n] + y * p
      BY <1>1, <1>3, <2>1 DEF SumsUp
    <3> QED
      BY <1>8, <2>5, <3>1
  <2>7. sum[n + 1] = (10 * x + y) * p
    <3> HIDE DEF x, y, p
    <3> QED
      BY <2>2, <2>5, <2>6
  <2> QED
    BY <2>1, <2>2, <2>4, <2>7
<1> HIDE DEF T
<1>9. N \in T
  <2>1. 0..N \subseteq T
    BY <1>7, <1>8, BoundedInduction
  <2> QED
    BY <2>1
<1>10. sum[N] = h[N]
  <2>1. power[N - N] = 1
    BY <1>3 DEF TimesTen
  <2>2. h[N] \in Int
    BY <1>6
  <2> QED
    BY <1>9, <2>1, <2>2 DEF T
<1> QED
  BY <1>2, <1>3, <1>9, <1>10 DEF T

----------------------------------------------------------------------------
(* The loop and the grammar.                                                *)

Method(b) == ToUpper(b) \in {"G", "S"}

Device(b) == ToUpper(b) \in {"L", "S"}

Type(b) == ToUpper(b) \in {"E", "P", "X", "Y"}

\* The bytes v begin a command of the grammar.
Begins(v) ==
  /\ Len(v) >= 1 => Method(v[1])
  /\ Len(v) >= 2 => Device(v[2])
  /\ Len(v) >= 3 => Type(v[3])
  /\ \A k \in 4..Len(v) : IsDigit(v[k]) \/ v[k] = ","
  /\ \A j, k \in Commas(v) : j = k

\* What the loop's variables hold when it has seen the bytes v.
Relates(s, v) ==
  /\ s.i2c_ret = "F" <=> ~Begins(v)
  /\ Begins(v) =>
       /\ Len(v) < 3 => s.need_flags = Len(v) /\ s.tmp_str = <<>>
       /\ Len(v) >= 3 => s.need_flags = IF Commas(v) = {} THEN 3 ELSE 4
       /\ Len(v) >= 3 /\ Commas(v) = {} => s.tmp_str = SubSeq(v, 4, Len(v))
       /\ \A k \in Commas(v) :
            /\ s.tmp_str = SubSeq(v, k + 1, Len(v))
            /\ s.val_0 = ToInt(SubSeq(v, 4, k - 1))

\* The letters of the two tables.
LEMMA TableLetters ==
  /\ DOMAIN DeviceOf = {"L", "S"}
  /\ DOMAIN TypeOf = {"E", "P", "X", "Y"}
BY DEF DeviceOf, TypeOf

\* A subsequence, and one byte more.
LEMMA SubSeqGrows ==
  ASSUME NEW B, NEW v \in Seq(B), NEW b \in B, NEW i \in 1..(Len(v) + 1)
  PROVE  SubSeq(Append(v, b), i, Len(v) + 1) = Append(SubSeq(v, i, Len(v)), b)
<1> DEFINE w == Append(v, b)
           l == SubSeq(w, i, Len(v) + 1)
           r == Append(SubSeq(v, i, Len(v)), b)
<1>1. w \in Seq(B) /\ Len(w) = Len(v) + 1 /\ w[Len(v) + 1] = b
      /\ \A k \in 1..Len(v) : w[k] = v[k]
  BY AppendProperties
<1> HIDE DEF w
<1>2. l \in Seq(B) /\ Len(l) = Len(v) + 2 - i
      /\ \A k \in 1..Len(l) : l[k] = w[i + k - 1]
  BY <1>1, SubSeqProperties
<1>3. SubSeq(v, i, Len(v)) \in Seq(B) /\ Len(SubSeq(v, i, Len(v))) = Len(v) + 1 - i
      /\ \A k \in 1..(Len(v) + 1 - i) : SubSeq(v, i, Len(v))[k] = v[i + k - 1]
  BY SubSeqProperties
<1>4. r \in Seq(B) /\ Len(r) = Len(v) + 2 - i /\ r[Len(v) + 2 - i] = b
      /\ \A k \in 1..(Len(v) + 1 - i) : r[k] = v[i + k - 1]
  BY <1>3, AppendProperties
<1> HIDE DEF l, r
<1>5. ASSUME NEW k \in 1..Len(l)
      PROVE  l[k] = r[k]
  <2>1. CASE k = Len(v) + 2 - i
    <3>1. l[k] = w[Len(v) + 1]
      BY <1>2, <2>1
    <3> QED
      BY <1>1, <1>4, <2>1, <3>1
  <2>2. CASE k # Len(v) + 2 - i
    <3>1. i + k - 1 \in 1..Len(v) /\ k \in 1..(Len(v) + 1 - i)
      BY <1>2, <2>2
    <3>2. l[k] = w[i + k - 1] /\ r[k] = v[i + k - 1]
      BY <1>2, <1>4, <3>1
    <3> QED
      BY <1>1, <3>1, <3>2
  <2> QED
    BY <2>1, <2>2
<1>6. l = r
  BY <1>2, <1>4, <1>5, SeqEqual
<1> QED
  BY <1>6 DEF l, r, w

\* A subsequence that ends before the byte.
LEMMA SubSeqStays ==
  ASSUME NEW B, NEW v \in Seq(B), NEW b \in B,
         NEW i \in 1..(Len(v) + 1), NEW j \in Int, i - 1 <= j, j <= Len(v)
  PROVE  SubSeq(Append(v, b), i, j) = SubSeq(v, i, j)
<1> DEFINE w == Append(v, b)
           l == SubSeq(w, i, j)
           r == SubSeq(v, i, j)
<1>1. w \in Seq(B) /\ Len(w) = Len(v) + 1 /\ \A k \in 1..Len(v) : w[k] = v[k]
  BY AppendProperties
<1> HIDE DEF w
<1>2. l \in Seq(B) /\ Len(l) = j + 1 - i /\ \A k \in 1..Len(l) : l[k] = w[i + k - 1]
  BY <1>1, SubSeqProperties
<1>3. r \in Seq(B) /\ Len(r) = j + 1 - i /\ \A k \in 1..Len(r) : r[k] = v[i + k - 1]
  BY SubSeqProperties
<1> HIDE DEF l, r
<1>4. ASSUME NEW k \in 1..Len(l)
      PROVE  l[k] = r[k]
  <2>1. i + k - 1 \in 1..Len(v) /\ k \in 1..Len(r)
    BY <1>2, <1>3
  <2>2. l[k] = w[i + k - 1] /\ r[k] = v[i + k - 1]
    BY <1>2, <1>3, <2>1
  <2> QED
    BY <1>1, <2>1, <2>2
<1>5. l = r
  BY <1>2, <1>3, <1>4, SeqEqual
<1> QED
  BY <1>5 DEF l, r, w

\* A comma after the header is one more place.
LEMMA CommasGrow ==
  ASSUME NEW B, NEW v \in Seq(B), NEW b \in B
  PROVE  Commas(Append(v, b)) =
           IF Len(v) >= 3 /\ b = "," THEN Commas(v) \cup {Len(v) + 1} ELSE Commas(v)
<1> DEFINE w == Append(v, b)
<1>1. Len(w) = Len(v) + 1 /\ w[Len(v) + 1] = b /\ \A k \in 1..Len(v) : w[k] = v[k]
  BY AppendProperties
<1> HIDE DEF w
<1>2. Len(v) \in Nat
  OBVIOUS
<1>3. /\ \A k : k \in Commas(w) <=> k \in 4..Len(w) /\ w[k] = ","
      /\ \A k : k \in Commas(v) <=> k \in 4..Len(v) /\ v[k] = ","
  BY Zenon DEF Commas
<1>4. ASSUME NEW k
      PROVE  k \in Commas(w) <=>
               k \in Commas(v) \/ (k = Len(v) + 1 /\ Len(v) >= 3 /\ b = ",")
  <2>1. /\ k \in 4..Len(w) <=> k \in 4..Len(v) \/ (k = Len(v) + 1 /\ Len(v) >= 3)
        /\ k \in 4..Len(v) => k \in 1..Len(v) /\ k # Len(v) + 1
    BY <1>1, <1>2
  <2>2. /\ k \in 4..Len(v) => w[k] = v[k]
        /\ k = Len(v) + 1 => w[k] = b
    BY <1>1, <2>1, Zenon
  <2> QED
    BY <1>3, <2>1, <2>2, Zenon
<1>5. CASE Len(v) >= 3 /\ b = ","
  <2>1. Commas(w) = Commas(v) \cup {Len(v) + 1}
    BY <1>4, <1>5
  <2> QED
    BY <1>5, <2>1 DEF w
<1>6. CASE ~(Len(v) >= 3 /\ b = ",")
  <2>1. Commas(w) = Commas(v)
    BY <1>4, <1>6
  <2> QED
    BY <1>6, <2>1 DEF w
<1> QED
  BY <1>5, <1>6

\* The byte that may follow v in a command of the grammar.
Follows(v, b) ==
  /\ Len(v) = 0 => Method(b)
  /\ Len(v) = 1 => Device(b)
  /\ Len(v) = 2 => Type(b)
  /\ Len(v) >= 3 => IsDigit(b) \/ (b = "," /\ Commas(v) = {})

\* A command begins well if all but its last byte does and that one follows.
LEMMA BeginsGrows ==
  ASSUME NEW B, NEW v \in Seq(B), NEW b \in B
  PROVE  Begins(Append(v, b)) <=> Begins(v) /\ Follows(v, b)
<1> DEFINE w == Append(v, b)
           n == Len(v)
           AtPlaces(u) == \A k \in 4..Len(u) : IsDigit(u[k]) \/ u[k] = ","
           OneComma(u) == \A j, k \in Commas(u) : j = k
           Header(u) == /\ Len(u) >= 1 => Method(u[1])
                        /\ Len(u) >= 2 => Device(u[2])
                        /\ Len(u) >= 3 => Type(u[3])
<1>1. n \in Nat /\ Len(w) = n + 1 /\ w[n + 1] = b /\ \A k \in 1..n : w[k] = v[k]
  BY AppendProperties
<1>2. Commas(w) = IF n >= 3 /\ b = "," THEN Commas(v) \cup {n + 1} ELSE Commas(v)
  BY CommasGrow
<1>3. \A k \in Commas(v) : k <= n
  <2>1. Commas(v) \subseteq 4..n
    BY DEF Commas
  <2> QED
    BY <2>1
<1>4. b = "," => ~IsDigit(b)
  BY CommaIsNoDigit
<1> HIDE DEF w, n
<1>5. Header(w) <=> /\ Header(v)
                    /\ n = 0 => Method(b)
                    /\ n = 1 => Device(b)
                    /\ n = 2 => Type(b)
  <2>1. n = 0 \/ n = 1 \/ n = 2 \/ n >= 3
    BY <1>1
  <2> QED
    BY <1>1, <2>1 DEF n
<1>6. AtPlaces(w) <=> AtPlaces(v) /\ (n >= 3 => IsDigit(b) \/ b = ",")
  <2> DEFINE OK(c) == IsDigit(c) \/ c = ","
  <2>1. \A k : /\ k \in 4..Len(w) <=> k \in 4..n \/ (k = n + 1 /\ n >= 3)
               /\ k \in 4..n => k \in 1..n
    BY <1>1
  <2>2. \A k : /\ k \in 4..n => w[k] = v[k]
               /\ k = n + 1 => w[k] = b
    BY <1>1, <2>1, Zenon
  <2>3. /\ AtPlaces(w) <=> \A k \in 4..Len(w) : OK(w[k])
        /\ AtPlaces(v) <=> \A k \in 4..n : OK(v[k])
    BY Zenon DEF n
  <2> HIDE DEF OK
  <2>4. AtPlaces(w) <=> AtPlaces(v) /\ (n >= 3 => OK(b))
    BY <2>1, <2>2, <2>3, Zenon
  <2> QED
    BY <2>4 DEF OK
<1>7. OneComma(w) <=> OneComma(v) /\ (n >= 3 /\ b = "," => Commas(v) = {})
  <2>1. CASE n >= 3 /\ b = ","
    <3>1. Commas(w) = Commas(v) \cup {n + 1}
      BY <1>2, <2>1
    <3>2. n + 1 \notin Commas(v)
      BY <1>1, <1>3
    <3> QED
      BY <2>1, <3>1, <3>2
  <2>2. CASE ~(n >= 3 /\ b = ",")
    <3>1. Commas(w) = Commas(v)
      BY <1>2, <2>2
    <3> QED
      BY <2>2, <3>1
  <2> QED
    BY <2>1, <2>2
<1>8. Begins(w) <=> Header(w) /\ AtPlaces(w) /\ OneComma(w)
  BY Zenon DEF Begins
<1>9. Begins(v) <=> Header(v) /\ AtPlaces(v) /\ OneComma(v)
  BY Zenon DEF Begins
<1>10. Follows(v, b) <=> /\ n = 0 => Method(b)
                         /\ n = 1 => Device(b)
                         /\ n = 2 => Type(b)
                         /\ n >= 3 => IsDigit(b) \/ (b = "," /\ Commas(v) = {})
  BY Zenon DEF Follows, n
<1> HIDE DEF Header, AtPlaces, OneComma
<1>11. Begins(w) <=> Begins(v) /\ Follows(v, b)
  BY <1>4, <1>5, <1>6, <1>7, <1>8, <1>9, <1>10
<1> QED
  BY <1>11 DEF w

\* The loop starts related.
LEMMA RelatesStart == Relates(Start, <<>>)
<1>1. Len(<<>>) = 0 /\ Commas(<<>>) = {}
  BY DEF Commas
<1>2. Begins(<<>>)
  BY <1>1 DEF Begins
<1>3. Start.i2c_ret # "F" /\ Start.need_flags = 0 /\ Start.tmp_str = <<>>
  BY DEF Start
<1> QED
  BY <1>1, <1>2, <1>3 DEF Relates

\* Failing sets the result only.
LEMMA Failing ==
  ASSUME NEW s \in LoopStates
  PROVE  Fail(s).i2c_ret = "F"
BY DEF Fail, LoopStates

\* Every byte the loop does not skip keeps it related.
LEMMA RelatesGrows ==
  ASSUME NEW B, NEW v \in Seq(B), NEW b \in B, b \notin Blank,
         NEW s \in LoopStates, Relates(s, v)
  PROVE  Relates(ReadByte(b)[s], Append(v, b))
<1> DEFINE w == Append(v, b)
           r == ReadByte(b)[s]
           n == Len(v)
<1>1. n \in Nat /\ Len(w) = n + 1
  BY AppendProperties
<1>2. Commas(w) = IF n >= 3 /\ b = "," THEN Commas(v) \cup {n + 1} ELSE Commas(v)
  BY CommasGrow
<1>3. Begins(w) <=> Begins(v) /\ Follows(v, b)
  BY BeginsGrows
<1>4. Commas(v) \subseteq 4..n
  BY DEF Commas
<1>8. n = 0 \/ n = 1 \/ n = 2 \/ n >= 3
  <2>1. n \in Nat
    BY <1>1
  <2> HIDE DEF n
  <2> QED
    BY <2>1
<1>5. CASE ~Begins(v)
  <2>1. s.i2c_ret = "F"
    BY <1>5 DEF Relates
  <2>2. r = s
    BY <2>1, Skips
  <2>3. ~Begins(w)
    BY <1>3, <1>5
  <2> QED
    BY <2>1, <2>2, <2>3, Zenon DEF Relates
<1>6. CASE Begins(v) /\ ~Follows(v, b)
  <2>1. s.i2c_ret # "F"
    BY <1>6 DEF Relates
  <2>2. ~Fits(s, b)
    <3>1. /\ Len(v) < 3 => s.need_flags = Len(v)
          /\ Len(v) >= 3 => s.need_flags = IF Commas(v) = {} THEN 3 ELSE 4
      BY <1>6 DEF Relates
    <3>3. CASE n = 0
      <4>1. s.need_flags = 0 /\ ~Method(b)
        BY <1>6, <3>1, <3>3 DEF Follows
      <4> QED
        BY <4>1 DEF Fits, Method
    <3>4. CASE n = 1
      <4>1. s.need_flags = 1 /\ ~Device(b)
        BY <1>6, <3>1, <3>4 DEF Follows
      <4> QED
        BY <4>1, TableLetters DEF Fits, Device
    <3>5. CASE n = 2
      <4>1. s.need_flags = 2 /\ ~Type(b)
        BY <1>6, <3>1, <3>5 DEF Follows
      <4> QED
        BY <4>1, TableLetters DEF Fits, Type
    <3>6. CASE n >= 3
      <4>1. ~IsDigit(b) /\ (b = "," => Commas(v) # {})
        <5>1. ~(n = 0) /\ ~(n = 1) /\ ~(n = 2)
          <6> HIDE DEF n
          <6> QED
            BY <1>8, <3>6
        <5> QED
          BY <5>1, <1>6, Zenon DEF Follows
      <4>2. s.need_flags \in {3, 4} /\ (Commas(v) # {} => s.need_flags = 4)
        BY <3>1, <3>6
      <4>3. /\ ~(s.need_flags = 0) /\ ~(s.need_flags = 1) /\ ~(s.need_flags = 2)
            /\ s.need_flags = 4 => ~(s.need_flags = 3)
        BY <4>2
      <4> QED
        BY <4>1, <4>2, <4>3, Zenon DEF Fits
    <3> QED
      BY <1>8, <3>3, <3>4, <3>5, <3>6
  <2>3. r = Fail(s)
    BY <2>1, <2>2, Turns
  <2>4. r.i2c_ret = "F"
    BY <2>3, Failing
  <2>5. ~Begins(w)
    BY <1>3, <1>6
  <2> QED
    BY <2>4, <2>5, Zenon DEF Relates
<1>7. CASE Begins(v) /\ Follows(v, b)
  <2>0. Begins(w)
    BY <1>3, <1>7
  <2>1. /\ s.i2c_ret # "F"
        /\ n < 3 => s.need_flags = n /\ s.tmp_str = <<>>
        /\ n >= 3 => s.need_flags = IF Commas(v) = {} THEN 3 ELSE 4
        /\ n >= 3 /\ Commas(v) = {} => s.tmp_str = SubSeq(v, 4, n)
        /\ \A k \in Commas(v) : /\ s.tmp_str = SubSeq(v, k + 1, n)
                                /\ s.val_0 = ToInt(SubSeq(v, 4, k - 1))
    BY <1>7, Zenon DEF Relates
  <2>2. n < 3 => Commas(v) = {}
    BY <1>1, <1>4
  <2>3. CASE n = 0
    <3>1. ToUpper(b) \in {"G", "S"}
      BY <1>7, <2>3 DEF Follows, Method
    <3>2. r = [s EXCEPT !.i2c_ret = ToUpper(b), !.need_flags = 1]
      <4>1. s.need_flags = 0
        BY <2>1, <2>3
      <4> QED
        BY <2>1, <3>1, <4>1, Turns, Zenon
    <3>3. r.i2c_ret # "F" /\ r.need_flags = 1 /\ r.tmp_str = <<>>
      BY <2>1, <2>3, <3>1, <3>2 DEF LoopStates
    <3>4. Len(w) = 1 /\ Commas(w) = {}
      BY <1>1, <1>2, <2>2, <2>3
    <3> HIDE DEF r, w
    <3> QED
      BY <2>0, <3>3, <3>4 DEF Relates, r, w
  <2>4. CASE n = 1
    <3>1. ToUpper(b) \in DOMAIN DeviceOf
      BY <1>7, <2>4, TableLetters DEF Follows, Device
    <3>2. r = [s EXCEPT !.device = DeviceOf[ToUpper(b)], !.need_flags = 2]
      <4>1. s.need_flags = 1
        BY <2>1, <2>4
      <4> QED
        BY <2>1, <3>1, <4>1, Turns, Zenon
    <3>3. r.i2c_ret # "F" /\ r.need_flags = 2 /\ r.tmp_str = <<>>
      BY <2>1, <2>4, <3>2 DEF LoopStates
    <3>4. Len(w) = 2 /\ Commas(w) = {}
      BY <1>1, <1>2, <2>2, <2>4
    <3> QED
      BY <2>0, <3>3, <3>4 DEF Relates
  <2>5. CASE n = 2
    <3>1. ToUpper(b) \in DOMAIN TypeOf
      BY <1>7, <2>5, TableLetters DEF Follows, Type
    <3>2. r = [s EXCEPT !.type = TypeOf[ToUpper(b)], !.need_flags = 3]
      <4>1. s.need_flags = 2
        BY <2>1, <2>5
      <4> QED
        BY <2>1, <3>1, <4>1, Turns, Zenon
    <3>3. r.i2c_ret # "F" /\ r.need_flags = 3 /\ r.tmp_str = <<>>
      BY <2>1, <2>5, <3>2 DEF LoopStates
    <3>4. Len(w) = 3 /\ Commas(w) = {}
      BY <1>1, <1>2, <2>2, <2>5
    <3>5. SubSeq(w, 4, 3) = <<>>
      BY SubSeqEmpty
    <3> QED
      BY <2>0, <3>3, <3>4, <3>5 DEF Relates
  <2>6. CASE n >= 3 /\ IsDigit(b)
    <3>1. s.need_flags \in {3, 4}
      BY <2>1, <2>6
    <3>2. r = [s EXCEPT !.tmp_str = Append(s.tmp_str, b)]
      BY <2>1, <2>6, <3>1, Turns
    <3>3. /\ r.i2c_ret = s.i2c_ret /\ r.need_flags = s.need_flags
          /\ r.val_0 = s.val_0 /\ r.tmp_str = Append(s.tmp_str, b)
      BY <3>2 DEF LoopStates
    <3>4. Commas(w) = Commas(v)
      BY <1>2, <2>6, CommaIsNoDigit
    <3>5. Commas(v) = {} => r.tmp_str = SubSeq(w, 4, n + 1)
      BY <1>1, <2>1, <2>6, <3>3, SubSeqGrows
    <3>6. ASSUME NEW k \in Commas(v)
          PROVE  r.tmp_str = SubSeq(w, k + 1, n + 1) /\ r.val_0 = ToInt(SubSeq(w, 4, k - 1))
      <4>1. k \in 4..n
        BY <1>4
      <4>2. SubSeq(w, k + 1, n + 1) = Append(SubSeq(v, k + 1, n), b)
        <5>1. k + 1 \in 1..(n + 1)
          BY <1>1, <4>1
        <5> QED
          BY <5>1, SubSeqGrows
      <4>3. SubSeq(w, 4, k - 1) = SubSeq(v, 4, k - 1)
        <5>1. 4 \in 1..(n + 1) /\ k - 1 \in Int /\ 4 - 1 <= k - 1 /\ k - 1 <= n
          BY <1>1, <4>1
        <5> QED
          BY <5>1, SubSeqStays
      <4> QED
        BY <2>1, <3>3, <4>2, <4>3
    <3> HIDE DEF r, w, n
    <3>7. r.i2c_ret # "F" /\ r.need_flags = IF Commas(w) = {} THEN 3 ELSE 4
      BY <2>1, <2>6, <3>3, <3>4
    <3>8. Len(w) >= 3 /\ ~(Len(w) < 3)
      BY <1>1, <2>6
    <3>9. Relates(r, w)
      BY <1>1, <2>0, <3>4, <3>5, <3>6, <3>7, <3>8, Zenon DEF Relates
    <3> QED
      BY <3>9 DEF r, w
  <2>7. CASE n >= 3 /\ ~IsDigit(b)
    <3>1. b = "," /\ Commas(v) = {} /\ s.need_flags = 3
      BY <1>7, <2>1, <2>7 DEF Follows
    <3>2. r = [s EXCEPT !.val_0 = ToInt(s.tmp_str), !.need_flags = 4, !.tmp_str = <<>>]
      BY <2>1, <3>1, Turns
    <3>3. /\ r.i2c_ret = s.i2c_ret /\ r.need_flags = 4
          /\ r.val_0 = ToInt(s.tmp_str) /\ r.tmp_str = <<>>
      BY <3>2 DEF LoopStates
    <3>4. Commas(w) = {n + 1}
      BY <1>2, <2>7, <3>1
    <3>5. s.tmp_str = SubSeq(w, 4, n)
      <4>1. 4 \in 1..(n + 1) /\ n \in Int /\ 4 - 1 <= n /\ n <= n
        BY <1>1, <2>7
      <4>2. SubSeq(w, 4, n) = SubSeq(v, 4, n)
        BY <4>1, SubSeqStays
      <4> QED
        BY <2>1, <2>7, <3>1, <4>2
    <3>6. SubSeq(w, (n + 1) + 1, n + 1) = <<>> /\ (n + 1) - 1 = n
      BY <1>1, SubSeqEmpty
    <3> HIDE DEF r, w, n
    <3>7. \A k \in Commas(w) : /\ r.tmp_str = SubSeq(w, k + 1, n + 1)
                               /\ r.val_0 = ToInt(SubSeq(w, 4, k - 1))
      <4>1. ASSUME NEW k \in Commas(w)
            PROVE  k = n + 1
        BY <3>4
      <4>2. r.tmp_str = SubSeq(w, (n + 1) + 1, n + 1)
            /\ r.val_0 = ToInt(SubSeq(w, 4, (n + 1) - 1))
        BY <3>3, <3>5, <3>6, Zenon
      <4>3. ASSUME NEW k \in Commas(w)
            PROVE  /\ r.tmp_str = SubSeq(w, k + 1, n + 1)
                   /\ r.val_0 = ToInt(SubSeq(w, 4, k - 1))
        <5>1. k = n + 1
          BY <4>1
        <5>2. SubSeq(w, k + 1, n + 1) = SubSeq(w, (n + 1) + 1, n + 1)
              /\ SubSeq(w, 4, k - 1) = SubSeq(w, 4, (n + 1) - 1)
          BY <5>1, Zenon
        <5> QED
          BY <4>2, <5>2
      <4> QED
        BY <4>3
    <3>8. Len(w) >= 3 /\ ~(Len(w) < 3)
      BY <1>1, <2>7
    <3>9. r.i2c_ret # "F" /\ Commas(w) # {}
      BY <2>1, <3>3, <3>4
    <3>10. Relates(r, w)
      BY <1>1, <2>0, <3>3, <3>7, <3>8, <3>9 DEF Relates
    <3> QED
      BY <3>10 DEF r, w
  <2> QED
    <3> QED
      BY <1>8, <2>3, <2>4, <2>5, <2>6, <2>7, Zenon
<1> QED
  BY <1>5, <1>6, <1>7

\* What the letters seen have set the loop's variables to.
Meaning(s, v) ==
  /\ Len(v) >= 1 => s.i2c_ret = ToUpper(v[1])
  /\ Len(v) >= 2 => s.device = DeviceOf[ToUpper(v[2])]
  /\ Len(v) >= 3 => s.type = TypeOf[ToUpper(v[3])]

\* They keep it.
LEMMA MeaningGrows ==
  ASSUME NEW B, NEW v \in Seq(B), NEW b \in B, b \notin Blank,
         NEW s \in LoopStates, Relates(s, v), Begins(v), Follows(v, b), Meaning(s, v)
  PROVE  Meaning(ReadByte(b)[s], Append(v, b))
<1> DEFINE w == Append(v, b)
           r == ReadByte(b)[s]
           n == Len(v)
<1>1. n \in Nat /\ Len(w) = n + 1 /\ w[n + 1] = b /\ \A k \in 1..n : w[k] = v[k]
  BY AppendProperties
<1>2. /\ s.i2c_ret # "F"
      /\ n < 3 => s.need_flags = n
      /\ n >= 3 => s.need_flags = IF Commas(v) = {} THEN 3 ELSE 4
  BY DEF Relates
<1>3. /\ n >= 1 => s.i2c_ret = ToUpper(v[1])
      /\ n >= 2 => s.device = DeviceOf[ToUpper(v[2])]
      /\ n >= 3 => s.type = TypeOf[ToUpper(v[3])]
  BY DEF Meaning
<1>4. n = 0 \/ n = 1 \/ n = 2 \/ n >= 3
  <2>1. n \in Nat
    BY <1>1
  <2> HIDE DEF n
  <2> QED
    BY <2>1
<1>5. CASE n = 0
  <2>1. ToUpper(b) \in {"G", "S"} /\ s.need_flags = 0
    BY <1>2, <1>5 DEF Follows, Method
  <2>2. r = [s EXCEPT !.i2c_ret = ToUpper(b), !.need_flags = 1]
    BY <1>2, <2>1, Turns, Zenon
  <2>3. r.i2c_ret = ToUpper(b)
    BY <2>2 DEF LoopStates
  <2>4. Len(w) = 1 /\ w[1] = b
    BY <1>1, <1>5
  <2> HIDE DEF r, w
  <2>5. Meaning(r, w)
    BY <2>3, <2>4 DEF Meaning
  <2> QED
    BY <2>5 DEF r, w
<1>6. CASE n = 1
  <2>1. ToUpper(b) \in DOMAIN DeviceOf /\ s.need_flags = 1
    BY <1>2, <1>6, TableLetters DEF Follows, Device
  <2>2. r = [s EXCEPT !.device = DeviceOf[ToUpper(b)], !.need_flags = 2]
    BY <1>2, <2>1, Turns, Zenon
  <2>3. r.device = DeviceOf[ToUpper(b)] /\ r.i2c_ret = s.i2c_ret
    BY <2>2 DEF LoopStates
  <2>4. Len(w) = 2 /\ w[1] = v[1] /\ w[2] = b
    BY <1>1, <1>6
  <2>5. s.i2c_ret = ToUpper(v[1])
    BY <1>3, <1>6
  <2> HIDE DEF r, w, n
  <2>6. Meaning(r, w)
    BY <2>3, <2>4, <2>5 DEF Meaning
  <2> QED
    BY <2>6 DEF r, w
<1>7. CASE n = 2
  <2>1. ToUpper(b) \in DOMAIN TypeOf /\ s.need_flags = 2
    BY <1>2, <1>7, TableLetters DEF Follows, Type
  <2>2. r = [s EXCEPT !.type = TypeOf[ToUpper(b)], !.need_flags = 3]
    BY <1>2, <2>1, Turns, Zenon
  <2>3. r.type = TypeOf[ToUpper(b)] /\ r.i2c_ret = s.i2c_ret /\ r.device = s.device
    BY <2>2 DEF LoopStates
  <2>4. Len(w) = 3 /\ w[1] = v[1] /\ w[2] = v[2] /\ w[3] = b
    BY <1>1, <1>7
  <2>5. s.i2c_ret = ToUpper(v[1]) /\ s.device = DeviceOf[ToUpper(v[2])]
    BY <1>3, <1>7
  <2> HIDE DEF r, w, n
  <2>6. Meaning(r, w)
    BY <2>3, <2>4, <2>5 DEF Meaning
  <2> QED
    BY <2>6 DEF r, w
<1>8. CASE n >= 3
  <2>1. r.i2c_ret = s.i2c_ret /\ r.device = s.device /\ r.type = s.type
    <3>1. CASE IsDigit(b)
      <4>1. s.need_flags \in {3, 4}
        BY <1>2, <1>8
      <4>2. r = [s EXCEPT !.tmp_str = Append(s.tmp_str, b)]
        BY <1>2, <3>1, <4>1, Turns
      <4> QED
        BY <4>2 DEF LoopStates
    <3>2. CASE ~IsDigit(b)
      <4>1. b = "," /\ Commas(v) = {}
        BY <1>8, <3>2 DEF Follows
      <4>2. s.need_flags = 3
        BY <1>2, <1>8, <4>1
      <4>3. r = [s EXCEPT !.val_0 = ToInt(s.tmp_str), !.need_flags = 4, !.tmp_str = <<>>]
        BY <1>2, <4>1, <4>2, Turns
      <4> QED
        BY <4>3 DEF LoopStates
    <3> QED
      BY <3>1, <3>2
  <2>2. w[1] = v[1] /\ w[2] = v[2] /\ w[3] = v[3]
    BY <1>1, <1>8
  <2>3. /\ s.i2c_ret = ToUpper(v[1])
        /\ s.device = DeviceOf[ToUpper(v[2])]
        /\ s.type = TypeOf[ToUpper(v[3])]
    BY <1>1, <1>3, <1>8
  <2> HIDE DEF r, w, n
  <2>6. Meaning(r, w)
    BY <2>1, <2>2, <2>3 DEF Meaning
  <2> QED
    BY <2>6 DEF r, w
<1> QED
  BY <1>4, <1>5, <1>6, <1>7, <1>8, Zenon

\* The loop, when it has read all of a command.
LEMMA LoopRelates ==
  ASSUME NEW B, NEW m \in Seq(B)
  PROVE  /\ AtEnd(m) \in LoopStates
         /\ Visible(m) \in Seq(B)
         /\ Relates(AtEnd(m), Visible(m))
         /\ Begins(Visible(m)) => Meaning(AtEnd(m), Visible(m))
<1> DEFINE N == Len(m)
<1>0. N \in Nat /\ \A n \in 1..N : m[n] \in B
  OBVIOUS
<1>1. PICK f \in [0..N -> LoopStates] :
        /\ f[0] = Start
        /\ \A n \in 1..N : f[n] = ReadByte(m[n])[f[n - 1]]
        /\ AtEnd(m) = f[N]
  BY AtEndRuns
<1>2. PICK g \in [0..N -> Seq(B)] :
        /\ g[0] = <<>>
        /\ \A n \in 1..N : g[n] = IF m[n] \in Blank THEN g[n - 1] ELSE Append(g[n - 1], m[n])
        /\ Visible(m) = g[N]
  BY VisibleRuns
<1> HIDE DEF N
<1> DEFINE T == {n \in 0..N : /\ Relates(f[n], g[n])
                              /\ Begins(g[n]) => Meaning(f[n], g[n])}
<1>3. 0 \in T
  <2>1. Meaning(Start, <<>>)
    BY DEF Meaning
  <2> QED
    BY <1>0, <1>1, <1>2, <2>1, RelatesStart
<1>4. ASSUME NEW n \in 0..N, n \in T, n < N
      PROVE  n + 1 \in T
  <2> DEFINE s == f[n]
             v == g[n]
             b == m[n + 1]
  <2>1. n + 1 \in 1..N /\ n + 1 \in 0..N /\ (n + 1) - 1 = n
    BY <1>0, <1>4
  <2>2. /\ s \in LoopStates /\ v \in Seq(B) /\ b \in B /\ Relates(s, v)
        /\ Begins(v) => Meaning(s, v)
    BY <1>0, <1>4, <2>1
  <2>3. f[n + 1] = ReadByte(b)[s]
    BY <1>1, <2>1
  <2>4. g[n + 1] = IF b \in Blank THEN v ELSE Append(v, b)
    BY <1>2, <2>1
  <2> HIDE DEF s, v, b
  <2>5. CASE b \in Blank
    <3>1. f[n + 1] = s
      BY <2>2, <2>3, <2>5, Skips
    <3> QED
      BY <2>1, <2>2, <2>4, <2>5, <3>1
  <2>6. CASE b \notin Blank
    <3>1. Relates(ReadByte(b)[s], Append(v, b))
      BY <2>2, <2>6, RelatesGrows
    <3>2. Begins(Append(v, b)) => Meaning(ReadByte(b)[s], Append(v, b))
      BY <2>2, <2>6, BeginsGrows, MeaningGrows
    <3> QED
      BY <2>1, <2>3, <2>4, <2>6, <3>1, <3>2
  <2> QED
    BY <2>5, <2>6
<1> HIDE DEF T
<1>5. N \in T
  <2>1. 0..N \subseteq T
    BY <1>0, <1>3, <1>4, BoundedInduction
  <2> QED
    BY <1>0, <2>1
<1> QED
  BY <1>0, <1>1, <1>2, <1>5 DEF T

\* Digits alone stand between two places of a sequence.
LEMMA DigitsBetween ==
  ASSUME NEW B, NEW v \in Seq(B), NEW i \in 1..(Len(v) + 1),
         NEW j \in Int, i - 1 <= j, j <= Len(v)
  PROVE  /\ Len(SubSeq(v, i, j)) \in Nat
         /\ AllDigits(SubSeq(v, i, j)) <=> \A k \in i..j : IsDigit(v[k])
<1> DEFINE u == SubSeq(v, i, j)
<1>1. Len(u) = j + 1 - i /\ \A k \in 1..Len(u) : u[k] = v[i + k - 1]
  BY SubSeqProperties
<1> HIDE DEF u
<1>2. ASSUME AllDigits(u), NEW k \in i..j
      PROVE  IsDigit(v[k])
  <2>1. k - i + 1 \in 1..Len(u) /\ i + (k - i + 1) - 1 = k
    BY <1>1
  <2>2. u[k - i + 1] = v[k]
    BY <1>1, <2>1
  <2> QED
    BY <1>2, <2>1, <2>2 DEF AllDigits
<1>3. ASSUME \A k \in i..j : IsDigit(v[k]), NEW k \in 1..Len(u)
      PROVE  IsDigit(u[k])
  <2>1. i + k - 1 \in i..j
    BY <1>1
  <2> QED
    BY <1>1, <1>3, <2>1
<1>4. AllDigits(u) <=> \A k \in i..j : IsDigit(v[k])
  BY <1>2, <1>3, Zenon DEF AllDigits
<1>5. Len(u) \in Nat
  BY <1>1
<1> QED
  BY <1>4, <1>5 DEF u

\* The two forms of a command, by its commas.
LEMMA GrammarByCommas ==
  ASSUME NEW B, NEW v \in Seq(B)
  PROVE  /\ OneValue(v) <=> Begins(v) /\ Len(v) >= 3 /\ Commas(v) = {}
         /\ TwoValues(v) <=> Begins(v) /\ Len(v) >= 3 /\ Commas(v) # {}
<1> DEFINE n == Len(v)
           Header == n >= 3 /\ Method(v[1]) /\ Device(v[2]) /\ Type(v[3])
<1>0. n \in Nat
  OBVIOUS
<1>1. HeaderOK(v) <=> Header
  <2>1. /\ Letters(v)[1] = ToUpper(v[1])
        /\ Letters(v)[2] = ToUpper(v[2])
        /\ Letters(v)[3] = ToUpper(v[3])
    BY DEF Letters
  <2> QED
    BY <2>1, Zenon DEF HeaderOK, Method, Device, Type
<1>2. /\ \A k : k \in Commas(v) <=> k \in 4..n /\ v[k] = ","
      /\ \A k \in Commas(v) : k \in Int
  <2>1. \A k : k \in Commas(v) <=> k \in 4..n /\ v[k] = ","
    BY Zenon DEF Commas
  <2>2. ASSUME NEW k \in Commas(v)
        PROVE  k \in Int
    <3>1. k \in 4..n
      BY <2>1, Zenon
    <3> HIDE DEF n
    <3> QED
      BY <1>0, <3>1
  <2> QED
    BY <2>1, <2>2, Zenon
<1>3. Begins(v) /\ n >= 3 <=>
        /\ Header
        /\ \A k \in 4..n : IsDigit(v[k]) \/ v[k] = ","
        /\ \A j, k \in Commas(v) : j = k
  <2>1. n >= 3 => n >= 1 /\ n >= 2
    BY <1>0
  <2> QED
    BY <2>1, Zenon DEF Begins
<1>4. n >= 3 => (AllDigits(SubSeq(v, 4, n)) <=> \A k \in 4..n : IsDigit(v[k]))
  <2>1. n >= 3 => 4 \in 1..(n + 1) /\ n \in Int /\ 4 - 1 <= n /\ n <= n
    BY <1>0
  <2> QED
    BY <2>1, DigitsBetween
<1>5. ASSUME NEW c \in Commas(v)
      PROVE  /\ AllDigits(SubSeq(v, 4, c - 1)) <=> \A k \in 4..(c - 1) : IsDigit(v[k])
             /\ AllDigits(SubSeq(v, c + 1, n)) <=> \A k \in (c + 1)..n : IsDigit(v[k])
  <2>1. c \in 4..n
    BY <1>2
  <2>2. 4 \in 1..(n + 1) /\ c - 1 \in Int /\ 4 - 1 <= c - 1 /\ c - 1 <= n
    BY <1>0, <2>1
  <2>3. c + 1 \in 1..(n + 1) /\ n \in Int /\ (c + 1) - 1 <= n /\ n <= n
    BY <1>0, <2>1
  <2>4. AllDigits(SubSeq(v, 4, c - 1)) <=> \A k \in 4..(c - 1) : IsDigit(v[k])
    BY <2>2, DigitsBetween
  <2>5. AllDigits(SubSeq(v, c + 1, n)) <=> \A k \in (c + 1)..n : IsDigit(v[k])
    BY <2>3, DigitsBetween
  <2> QED
    BY <2>4, <2>5
<1>6. OneValue(v) <=> Begins(v) /\ n >= 3 /\ Commas(v) = {}
  <2>1. (\A k \in 4..n : IsDigit(v[k])) =>
          /\ Commas(v) = {}
          /\ \A k \in 4..n : IsDigit(v[k]) \/ v[k] = ","
    BY <1>2, CommaIsNoDigit
  <2>2. (\A k \in 4..n : IsDigit(v[k]) \/ v[k] = ",") /\ Commas(v) = {} =>
          \A k \in 4..n : IsDigit(v[k])
    BY <1>2
  <2>3. Commas(v) = {} => \A j, k \in Commas(v) : j = k
    OBVIOUS
  <2>4. OneValue(v) <=> Header /\ \A k \in 4..n : IsDigit(v[k])
    BY <1>1, <1>4, Zenon DEF OneValue
  <2> QED
    BY <1>3, <2>1, <2>2, <2>3, <2>4, Zenon
<1>7. TwoValues(v) <=> Begins(v) /\ n >= 3 /\ Commas(v) # {}
  <2>1. TwoValues(v) <=>
          /\ Header
          /\ \E c \in Commas(v) : /\ \A k \in 4..(c - 1) : IsDigit(v[k])
                                  /\ \A k \in (c + 1)..n : IsDigit(v[k])
    BY <1>1, <1>5, Zenon DEF TwoValues
  <2>2. ASSUME NEW c \in Commas(v),
               \A k \in 4..(c - 1) : IsDigit(v[k]), \A k \in (c + 1)..n : IsDigit(v[k])
        PROVE  /\ \A k \in 4..n : IsDigit(v[k]) \/ v[k] = ","
               /\ \A j, k \in Commas(v) : j = k
    <3>1. c \in 4..n /\ v[c] = ","
      BY <1>2
    <3>2. ASSUME NEW k \in 4..n
          PROVE  k = c \/ IsDigit(v[k])
      <4>1. k = c \/ k \in 4..(c - 1) \/ k \in (c + 1)..n
        <5> HIDE DEF n
        <5>1. c \in 4..n
          BY <3>1
        <5> QED
          BY <1>0, <5>1
      <4> QED
        BY <2>2, <4>1
    <3>3. \A k \in Commas(v) : k = c
      BY <1>2, <3>2, CommaIsNoDigit
    <3> QED
      BY <3>1, <3>2, <3>3
  <2>3. ASSUME NEW c \in Commas(v),
               \A k \in 4..n : IsDigit(v[k]) \/ v[k] = ",",
               \A j, k \in Commas(v) : j = k
        PROVE  /\ \A k \in 4..(c - 1) : IsDigit(v[k])
               /\ \A k \in (c + 1)..n : IsDigit(v[k])
    <3>1. c \in 4..n
      BY <1>2
    <3>2. ASSUME NEW k \in 4..n, k # c
          PROVE  IsDigit(v[k])
      BY <1>2, <2>3, <3>2
    <3>3. \A k : k \in 4..(c - 1) \/ k \in (c + 1)..n => k \in 4..n /\ k # c
      BY <1>0, <3>1
    <3> QED
      BY <3>2, <3>3
  <2>4. (\E c \in Commas(v) : TRUE) <=> Commas(v) # {}
    OBVIOUS
  <2> HIDE DEF Header
  <2> QED
    BY <1>3, <2>1, <2>2, <2>3, <2>4, Zenon
<1> QED
  BY <1>6, <1>7

\* What the loop leaves behind, read off the bytes it has seen.
LEMMA ParseRelates ==
  ASSUME NEW B, NEW m \in Seq(B)
  PROVE  LET p == Parse(m)
             v == Visible(m)
         IN  /\ v \in Seq(B)
             /\ (p.ret # "F" /\ p.flags = 3) <=> OneValue(v)
             /\ (p.ret # "F" /\ p.flags = 4) <=> TwoValues(v)
             /\ OneValue(v) => p.v0 = ToInt(SubSeq(v, 4, Len(v))) /\ p.v1 = -1
             /\ TwoValues(v) => \A c \in Commas(v) :
                                  /\ p.v0 = ToInt(SubSeq(v, 4, c - 1))
                                  /\ p.v1 = ToInt(SubSeq(v, c + 1, Len(v)))
<1> DEFINE p == Parse(m)
           v == Visible(m)
           s == AtEnd(m)
<1>1. s \in LoopStates /\ v \in Seq(B) /\ Relates(s, v)
  BY LoopRelates
<1>2. /\ p.ret = s.i2c_ret
      /\ p.flags = s.need_flags
      /\ p.v0 = IF s.need_flags = 4 THEN s.val_0 ELSE ToInt(s.tmp_str)
      /\ p.v1 = IF s.need_flags = 4 THEN ToInt(s.tmp_str) ELSE -1
  BY DEF Parse
<1> HIDE DEF p, v, s
<1>3. /\ OneValue(v) <=> Begins(v) /\ Len(v) >= 3 /\ Commas(v) = {}
      /\ TwoValues(v) <=> Begins(v) /\ Len(v) >= 3 /\ Commas(v) # {}
  BY <1>1, GrammarByCommas
<1>4. Len(v) \in Nat
  BY <1>1
<1>5. CASE ~Begins(v)
  <2>1. s.i2c_ret = "F"
    BY <1>1, <1>5 DEF Relates
  <2> QED
    BY <1>1, <1>2, <1>3, <1>5, <2>1, Zenon DEF p, v
<1>6. CASE Begins(v) /\ Len(v) < 3
  <2>1. s.need_flags = Len(v)
    BY <1>1, <1>6 DEF Relates
  <2>2. ~(p.flags = 3) /\ ~(p.flags = 4) /\ ~(Len(v) >= 3)
    <3>1. p.flags = Len(v)
      BY <1>2, <2>1
    <3> DEFINE n == Len(v)
    <3>2. n \in Nat /\ n < 3 /\ p.flags = n
      BY <1>4, <1>6, <3>1
    <3> HIDE DEF n
    <3>3. ~(n = 3) /\ ~(n = 4) /\ ~(n >= 3)
      BY <3>2
    <3> QED
      BY <3>2, <3>3 DEF n
  <2> QED
    BY <1>1, <1>3, <2>2, Zenon DEF p, v
<1>7. CASE Begins(v) /\ Len(v) >= 3 /\ Commas(v) = {}
  <2>1. s.i2c_ret # "F" /\ s.need_flags = 3 /\ s.tmp_str = SubSeq(v, 4, Len(v))
    BY <1>1, <1>7 DEF Relates
  <2>2. p.ret # "F" /\ p.flags = 3 /\ ~(p.flags = 4)
    BY <1>2, <2>1
  <2>3. p.v0 = ToInt(SubSeq(v, 4, Len(v))) /\ p.v1 = -1
    BY <1>2, <2>1
  <2> QED
    BY <1>1, <1>3, <1>7, <2>2, <2>3, Zenon DEF p, v
<1>8. CASE Begins(v) /\ Len(v) >= 3 /\ Commas(v) # {}
  <2>1. s.i2c_ret # "F" /\ s.need_flags = 4
    BY <1>1, <1>8 DEF Relates
  <2>2. p.ret # "F" /\ p.flags = 4 /\ ~(p.flags = 3)
    BY <1>2, <2>1
  <2>3. ASSUME NEW c \in Commas(v)
        PROVE  /\ p.v0 = ToInt(SubSeq(v, 4, c - 1))
               /\ p.v1 = ToInt(SubSeq(v, c + 1, Len(v)))
    <3>1. s.tmp_str = SubSeq(v, c + 1, Len(v)) /\ s.val_0 = ToInt(SubSeq(v, 4, c - 1))
      BY <1>1, <1>8, Zenon DEF Relates
    <3> QED
      BY <1>2, <2>1, <3>1
  <2> QED
    BY <1>1, <1>3, <1>8, <2>2, <2>3, Zenon DEF p, v
<1>9. Len(v) < 3 \/ Len(v) >= 3
  BY <1>4
<1> QED
  BY <1>5, <1>6, <1>7, <1>8, <1>9, Zenon

\* The digits of a value, in a command of the grammar.
LEMMA ValuesAreDigits ==
  ASSUME NEW B, NEW v \in Seq(B)
  PROVE  /\ OneValue(v) => /\ AllDigits(SubSeq(v, 4, Len(v)))
                           /\ Len(SubSeq(v, 4, Len(v))) \in Nat
         /\ TwoValues(v) => \A c \in Commas(v) :
              /\ AllDigits(SubSeq(v, 4, c - 1)) /\ Len(SubSeq(v, 4, c - 1)) \in Nat
              /\ AllDigits(SubSeq(v, c + 1, Len(v))) /\ Len(SubSeq(v, c + 1, Len(v))) \in Nat
<1>1. ASSUME OneValue(v)
      PROVE  /\ AllDigits(SubSeq(v, 4, Len(v)))
             /\ Len(SubSeq(v, 4, Len(v))) \in Nat
  <2>1. Len(v) >= 3
    BY <1>1 DEF OneValue, HeaderOK
  <2>2. 4 \in 1..(Len(v) + 1) /\ Len(v) \in Int /\ 4 - 1 <= Len(v) /\ Len(v) <= Len(v)
    BY <2>1
  <2> QED
    BY <1>1, <2>2, DigitsBetween DEF OneValue
<1>2. ASSUME TwoValues(v), NEW c \in Commas(v)
      PROVE  /\ AllDigits(SubSeq(v, 4, c - 1)) /\ Len(SubSeq(v, 4, c - 1)) \in Nat
             /\ AllDigits(SubSeq(v, c + 1, Len(v))) /\ Len(SubSeq(v, c + 1, Len(v))) \in Nat
  <2>1. PICK k \in Commas(v) :
          AllDigits(SubSeq(v, 4, k - 1)) /\ AllDigits(SubSeq(v, k + 1, Len(v)))
    BY <1>2, Zenon DEF TwoValues
  <2>2. Begins(v)
    BY <1>2, GrammarByCommas
  <2>3. c = k
    BY <2>2, Zenon DEF Begins
  <2>4. c \in 4..Len(v)
    BY DEF Commas
  <2>5. 4 \in 1..(Len(v) + 1) /\ c - 1 \in Int /\ 4 - 1 <= c - 1 /\ c - 1 <= Len(v)
    BY <2>4
  <2>6. c + 1 \in 1..(Len(v) + 1) /\ Len(v) \in Int /\ (c + 1) - 1 <= Len(v)
        /\ Len(v) <= Len(v)
    BY <2>4
  <2>7. Len(SubSeq(v, 4, c - 1)) \in Nat
    BY <2>5, DigitsBetween
  <2>8. Len(SubSeq(v, c + 1, Len(v))) \in Nat
    BY <2>6, DigitsBetween
  <2> QED
    BY <2>1, <2>3, <2>7, <2>8, Zenon
<1> QED
  BY <1>1, <1>2, Zenon

----------------------------------------------------------------------------
(* The theorems.                                                            *)

\* Whatever the bytes of a command are.
TypeOK == msg \in Seq(Bytes) /\ room \in Nat

LEMMA CommandTyped == Spec => []TypeOK
<1>1. Init => TypeOK
  BY GrowthAssumption DEF Init, TypeOK
<1>2. TypeOK /\ [Next]_vars => TypeOK'
  <2> SUFFICES ASSUME TypeOK, [Next]_vars
               PROVE  TypeOK'
    OBVIOUS
  <2>1. CASE Next
    <3>1. PICK b \in Bytes : msg' = Append(msg, b)
      BY <2>1 DEF Next
    <3>2. msg' \in Seq(Bytes)
      BY <3>1, AppendProperties DEF TypeOK
    <3>3. room' \in Nat
      BY <2>1 DEF Next, TypeOK
    <3> QED
      BY <3>2, <3>3 DEF TypeOK
  <2>2. CASE UNCHANGED vars
    BY <2>2 DEF vars, TypeOK
  <2> QED
    BY <2>1, <2>2
<1> QED
  BY <1>1, <1>2, PTL DEF Spec

\* AcceptsTheGrammar: of all commands over any alphabet, of any length, the
\* byte loop of receiveI2c accepts exactly those of the grammar.
THEOREM AcceptsGrammar == Spec => []AcceptsTheGrammar
<1>1. TypeOK => AcceptsTheGrammar
  <2> SUFFICES ASSUME msg \in Seq(Bytes)
               PROVE  AcceptsTheGrammar
    BY DEF TypeOK
  <2> QED
    BY ParseRelates, Zenon DEF AcceptsTheGrammar
<1> QED
  BY <1>1, CommandTyped, PTL

\* ValuesAreDecimal: the values it leaves for the dispatch are the decimal
\* values of the digits it was sent, cut to the 16 bits of an int.
THEOREM ValuesDecimal == Spec => []ValuesAreDecimal
<1>1. TypeOK => ValuesAreDecimal
  <2> SUFFICES ASSUME msg \in Seq(Bytes)
               PROVE  ValuesAreDecimal
    BY DEF TypeOK
  <2> DEFINE p == Parse(msg)
             s == Visible(msg)
  <2>1. /\ s \in Seq(Bytes)
        /\ OneValue(s) => p.v0 = ToInt(SubSeq(s, 4, Len(s))) /\ p.v1 = -1
        /\ TwoValues(s) => \A c \in Commas(s) :
                             /\ p.v0 = ToInt(SubSeq(s, 4, c - 1))
                             /\ p.v1 = ToInt(SubSeq(s, c + 1, Len(s)))
    BY ParseRelates, Zenon
  <2> HIDE DEF p, s
  <2>2. ASSUME OneValue(s)
        PROVE  p.v0 = Int16(Decimal(SubSeq(s, 4, Len(s)))) /\ p.v1 = -1
    <3>1. ToInt(SubSeq(s, 4, Len(s))) = Int16(Decimal(SubSeq(s, 4, Len(s))))
      BY <2>1, <2>2, ValuesAreDigits, ToIntIsDecimal, Zenon
    <3> QED
      BY <2>1, <2>2, <3>1, Zenon
  <2>3. ASSUME TwoValues(s)
        PROVE  LET k == CHOOSE c \in Commas(s) : TRUE IN
               /\ p.v0 = Int16(Decimal(SubSeq(s, 4, k - 1)))
               /\ p.v1 = Int16(Decimal(SubSeq(s, k + 1, Len(s))))
    <3> DEFINE k == CHOOSE c \in Commas(s) : TRUE
    <3>1. k \in Commas(s)
      BY <2>3 DEF TwoValues
    <3> HIDE DEF k
    <3>2. /\ ToInt(SubSeq(s, 4, k - 1)) = Int16(Decimal(SubSeq(s, 4, k - 1)))
          /\ ToInt(SubSeq(s, k + 1, Len(s))) = Int16(Decimal(SubSeq(s, k + 1, Len(s))))
      BY <2>1, <2>3, <3>1, ValuesAreDigits, ToIntIsDecimal, Zenon
    <3>3. /\ p.v0 = Int16(Decimal(SubSeq(s, 4, k - 1)))
          /\ p.v1 = Int16(Decimal(SubSeq(s, k + 1, Len(s))))
      BY <2>1, <2>3, <3>1, <3>2, Zenon
    <3> QED
      BY <3>3 DEF k
  <2> QED
    BY <2>2, <2>3, Zenon DEF ValuesAreDecimal, p, s
<1> QED
  BY <1>1, CommandTyped, PTL

----------------------------------------------------------------------------
(* What the dispatch that follows the loop is handed.                       *)

\* A command without blanks is read as it stands.
LEMMA NothingSkipped ==
  ASSUME NEW B, NEW m \in Seq(B), \A k \in 1..Len(m) : m[k] \notin Blank
  PROVE  Visible(m) = m
<1> DEFINE N == Len(m)
<1>0. N \in Nat /\ \A n \in 1..N : m[n] \in B
  OBVIOUS
<1>1. PICK g \in [0..N -> Seq(B)] :
        /\ g[0] = <<>>
        /\ \A n \in 1..N : g[n] = IF m[n] \in Blank THEN g[n - 1] ELSE Append(g[n - 1], m[n])
        /\ Visible(m) = g[N]
  BY VisibleRuns
<1> DEFINE T == {n \in 0..N : Len(g[n]) = n /\ \A k \in 1..n : g[n][k] = m[k]}
<1>2. 0 \in T
  BY <1>1
<1>3. ASSUME NEW n \in 0..N, n \in T, n < N
      PROVE  n + 1 \in T
  <2>1. n + 1 \in 1..N /\ n + 1 \in 0..N /\ (n + 1) - 1 = n
    BY <1>0, <1>3
  <2>2. g[n + 1] = Append(g[n], m[n + 1]) /\ g[n] \in Seq(B) /\ m[n + 1] \in B
    BY <1>0, <1>1, <2>1
  <2> DEFINE v == g[n]
             w == g[n + 1]
             b == m[n + 1]
  <2>3. v \in Seq(B) /\ b \in B /\ w = Append(v, b)
    BY <2>2
  <2>4. Len(v) = n /\ \A k \in 1..n : v[k] = m[k]
    BY <1>3
  <2> HIDE DEF v, w, b
  <2>5. Len(w) = n + 1 /\ w[n + 1] = b /\ \A k \in 1..n : w[k] = v[k]
    BY <2>3, <2>4, AppendProperties
  <2>6. \A k \in 1..(n + 1) : w[k] = m[k]
    BY <2>4, <2>5 DEF b
  <2> QED
    BY <2>1, <2>5, <2>6 DEF w
<1> HIDE DEF T
<1>4. N \in T
  <2>1. 0..N \subseteq T
    BY <1>0, <1>2, <1>3, BoundedInduction
  <2> QED
    BY <1>0, <2>1
<1>5. Len(g[N]) = Len(m) /\ \A k \in 1..Len(m) : g[N][k] = m[k]
  BY <1>4 DEF T
<1>6. g[N] \in Seq(B)
  BY <1>0, <1>1
<1>7. g[N] = m
  <2> HIDE DEF N
  <2> QED
    BY <1>5, <1>6, SeqEqual
<1> QED
  BY <1>1, <1>7

\* The first byte of a command, unless it is a blank, is the first one seen.
LEMMA FirstIsSeen ==
  ASSUME NEW B, NEW m \in Seq(B), Len(m) >= 1, m[1] \notin Blank
  PROVE  Len(Visible(m)) >= 1 /\ Visible(m)[1] = m[1]
<1> DEFINE N == Len(m)
<1>0. N \in Nat /\ N >= 1 /\ \A n \in 1..N : m[n] \in B
  OBVIOUS
<1>1. PICK g \in [0..N -> Seq(B)] :
        /\ g[0] = <<>>
        /\ \A n \in 1..N : g[n] = IF m[n] \in Blank THEN g[n - 1] ELSE Append(g[n - 1], m[n])
        /\ Visible(m) = g[N]
  BY VisibleRuns
<1> DEFINE T == {n \in 0..N : n >= 1 => Len(g[n]) >= 1 /\ g[n][1] = m[1]}
<1>2. 0 \in T
  BY <1>0
<1>3. ASSUME NEW n \in 0..N, n \in T, n < N
      PROVE  n + 1 \in T
  <2>1. n + 1 \in 1..N /\ n + 1 \in 0..N /\ (n + 1) - 1 = n
    BY <1>0, <1>3
  <2> DEFINE v == g[n]
             w == g[n + 1]
             b == m[n + 1]
  <2>2. v \in Seq(B) /\ b \in B /\ w = IF b \in Blank THEN v ELSE Append(v, b)
    BY <1>0, <1>1, <2>1
  <2>3. n = 0 => v = <<>> /\ b = m[1]
    BY <1>1
  <2>4. n >= 1 => Len(v) >= 1 /\ v[1] = m[1]
    BY <1>3
  <2> HIDE DEF v, w, b
  <2>5. Append(v, b) \in Seq(B) /\ Len(Append(v, b)) = Len(v) + 1
        /\ Append(v, b)[Len(v) + 1] = b
        /\ \A k \in 1..Len(v) : Append(v, b)[k] = v[k]
    BY <2>2, AppendProperties
  <2>6. Len(w) >= 1 /\ w[1] = m[1]
    <3>1. CASE n = 0
      <4>1. w = Append(v, b) /\ Len(v) = 0
        BY <2>2, <2>3, <3>1
      <4> QED
        BY <2>3, <2>5, <3>1, <4>1
    <3>2. CASE n >= 1
      <4>1. Len(v) \in Nat
        BY <2>2
      <4> QED
        BY <2>2, <2>4, <2>5, <3>2, <4>1
    <3> QED
      BY <3>1, <3>2
  <2> QED
    BY <2>1, <2>6 DEF w
<1> HIDE DEF T
<1>4. N \in T
  <2>1. 0..N \subseteq T
    BY <1>0, <1>2, <1>3, BoundedInduction
  <2> QED
    BY <1>0, <2>1
<1>5. Len(g[N]) >= 1 /\ g[N][1] = m[1]
  BY <1>0, <1>4 DEF T
<1> QED
  BY <1>1, <1>5

\* A command whose first byte is no method is refused.
LEMMA BadMethodFails ==
  ASSUME NEW B, NEW m \in Seq(B), Len(m) >= 1, m[1] \notin Blank, ~Method(m[1])
  PROVE  Parse(m).ret = "F"
<1>1. Len(Visible(m)) >= 1 /\ Visible(m)[1] = m[1]
  BY FirstIsSeen
<1>2. ~Begins(Visible(m))
  BY <1>1 DEF Begins
<1>3. AtEnd(m).i2c_ret = "F"
  BY <1>2, LoopRelates DEF Relates
<1> QED
  BY <1>3 DEF Parse

\* What a command of the grammar without blanks is read as.
LEMMA ParsesGrammar ==
  ASSUME NEW B, NEW m \in Seq(B), \A k \in 1..Len(m) : m[k] \notin Blank,
         OneValue(m) \/ TwoValues(m)
  PROVE  LET p == Parse(m) IN
         /\ p.ret = ToUpper(m[1])
         /\ p.device = DeviceOf[ToUpper(m[2])]
         /\ p.type = TypeOf[ToUpper(m[3])]
         /\ OneValue(m) =>
              p.flags = 3 /\ p.v0 = ToInt(SubSeq(m, 4, Len(m))) /\ p.v1 = -1
         /\ TwoValues(m) =>
              /\ p.flags = 4
              /\ \A c \in Commas(m) : /\ p.v0 = ToInt(SubSeq(m, 4, c - 1))
                                      /\ p.v1 = ToInt(SubSeq(m, c + 1, Len(m)))
<1> DEFINE p == Parse(m)
           s == AtEnd(m)
<1>1. Visible(m) = m
  BY NothingSkipped
<1>2. Begins(m) /\ Len(m) >= 3
  BY GrammarByCommas, Zenon
<1>3. Meaning(s, m)
  BY <1>1, <1>2, LoopRelates
<1>4. /\ s.i2c_ret = ToUpper(m[1])
      /\ s.device = DeviceOf[ToUpper(m[2])]
      /\ s.type = TypeOf[ToUpper(m[3])]
  <2>1. Len(m) >= 1 /\ Len(m) >= 2 /\ Len(m) >= 3
    BY <1>2
  <2> QED
    BY <1>3, <2>1, Zenon DEF Meaning
<1>5. p.ret = s.i2c_ret /\ p.device = s.device /\ p.type = s.type
  BY DEF Parse
<1>6. /\ (p.ret # "F" /\ p.flags = 3) <=> OneValue(m)
      /\ (p.ret # "F" /\ p.flags = 4) <=> TwoValues(m)
      /\ OneValue(m) => p.v0 = ToInt(SubSeq(m, 4, Len(m))) /\ p.v1 = -1
      /\ TwoValues(m) => \A c \in Commas(m) : /\ p.v0 = ToInt(SubSeq(m, 4, c - 1))
                                              /\ p.v1 = ToInt(SubSeq(m, c + 1, Len(m)))
  <2> DEFINE v == Visible(m)
  <2>1. /\ (p.ret # "F" /\ p.flags = 3) <=> OneValue(v)
        /\ (p.ret # "F" /\ p.flags = 4) <=> TwoValues(v)
        /\ OneValue(v) => p.v0 = ToInt(SubSeq(v, 4, Len(v))) /\ p.v1 = -1
        /\ TwoValues(v) => \A c \in Commas(v) : /\ p.v0 = ToInt(SubSeq(v, 4, c - 1))
                                                /\ p.v1 = ToInt(SubSeq(v, c + 1, Len(v)))
    BY ParseRelates, Zenon
  <2> HIDE DEF v, p
  <2>2. v = m
    BY <1>1 DEF v
  <2> QED
    BY <2>1, <2>2, Zenon
<1> HIDE DEF p, s
<1>7. /\ p.ret = ToUpper(m[1])
      /\ p.device = DeviceOf[ToUpper(m[2])]
      /\ p.type = TypeOf[ToUpper(m[3])]
  BY <1>4, <1>5
<1>8. OneValue(m) =>
        p.flags = 3 /\ p.v0 = ToInt(SubSeq(m, 4, Len(m))) /\ p.v1 = -1
  BY <1>6, Zenon
<1>9. TwoValues(m) =>
        /\ p.flags = 4
        /\ \A c \in Commas(m) : /\ p.v0 = ToInt(SubSeq(m, 4, c - 1))
                                /\ p.v1 = ToInt(SubSeq(m, c + 1, Len(m)))
  BY <1>6, Zenon
<1> QED
  BY <1>7, <1>8, <1>9, Zenon DEF p

\* An int has 16 bits.
InInt(n) == n \in Int /\ -32768 <= n /\ n <= 32767

\* The loop's variables in every turn: a method, a device and a type once the
\* letters are past, and an int for the first value.
Sound(s) ==
  /\ s.need_flags >= 1 => s.i2c_ret # "N"
  /\ s.need_flags >= 2 => s.device # "keep"
  /\ s.need_flags >= 3 => s.type # "keep"
  /\ InInt(s.val_0)

\* A turn keeps them so.
LEMMA SoundKept ==
  ASSUME NEW s \in LoopStates, NEW b, Sound(s)
  PROVE  Sound(ReadByte(b)[s])
<1> DEFINE r == ReadByte(b)[s]
<1>1. CASE b \in Blank \/ s.i2c_ret = "F"
  <2>1. r = s
    BY <1>1, Skips
  <2> QED
    BY <2>1
<1>2. CASE b \notin Blank /\ s.i2c_ret # "F"
  <2>1. CASE s.need_flags = 0 /\ ToUpper(b) \in {"G", "S"}
    <3>1. r = [s EXCEPT !.i2c_ret = ToUpper(b), !.need_flags = 1]
      BY <1>2, <2>1, Turns, Zenon
    <3>2. r.need_flags = 1 /\ r.i2c_ret # "N" /\ r.val_0 = s.val_0
      BY <2>1, <3>1 DEF LoopStates
    <3> HIDE DEF r
    <3> QED
      BY <3>2 DEF Sound, r
  <2>2. CASE s.need_flags = 1 /\ ToUpper(b) \in DOMAIN DeviceOf
    <3>1. r = [s EXCEPT !.device = DeviceOf[ToUpper(b)], !.need_flags = 2]
      BY <1>2, <2>2, Turns, Zenon
    <3>2. DeviceOf[ToUpper(b)] # "keep"
      BY <2>2 DEF DeviceOf
    <3>3. r.need_flags = 2 /\ r.i2c_ret = s.i2c_ret /\ r.device # "keep"
          /\ r.val_0 = s.val_0
      BY <3>1, <3>2 DEF LoopStates
    <3> HIDE DEF r
    <3> QED
      BY <2>2, <3>3 DEF Sound, r
  <2>3. CASE s.need_flags = 2 /\ ToUpper(b) \in DOMAIN TypeOf
    <3>1. r = [s EXCEPT !.type = TypeOf[ToUpper(b)], !.need_flags = 3]
      BY <1>2, <2>3, Turns, Zenon
    <3>2. TypeOf[ToUpper(b)] # "keep"
      BY <2>3 DEF TypeOf
    <3>3. r.need_flags = 3 /\ r.i2c_ret = s.i2c_ret /\ r.device = s.device
          /\ r.type # "keep" /\ r.val_0 = s.val_0
      BY <3>1, <3>2 DEF LoopStates
    <3> HIDE DEF r
    <3> QED
      BY <2>3, <3>3 DEF Sound, r
  <2>4. CASE s.need_flags \in {3, 4} /\ IsDigit(b)
    <3>1. r = [s EXCEPT !.tmp_str = Append(s.tmp_str, b)]
      BY <1>2, <2>4, Turns
    <3>2. r.need_flags = s.need_flags /\ r.i2c_ret = s.i2c_ret /\ r.device = s.device
          /\ r.type = s.type /\ r.val_0 = s.val_0
      BY <3>1 DEF LoopStates
    <3> HIDE DEF r
    <3> QED
      BY <3>2 DEF Sound, r
  <2>5. CASE s.need_flags = 3 /\ b = ","
    <3>1. r = [s EXCEPT !.val_0 = ToInt(s.tmp_str), !.need_flags = 4, !.tmp_str = <<>>]
      BY <1>2, <2>5, Turns
    <3>2. r.need_flags = 4 /\ r.i2c_ret = s.i2c_ret /\ r.device = s.device
          /\ r.type = s.type /\ r.val_0 = ToInt(s.tmp_str)
      BY <3>1 DEF LoopStates
    <3>3. s.tmp_str \in Seq(Digits)
      BY DEF LoopStates, Digits
    <3>4. InInt(ToInt(s.tmp_str))
      BY <3>3, ToIntTyped DEF InInt
    <3> HIDE DEF r
    <3>5. s.i2c_ret # "N" /\ s.device # "keep" /\ s.type # "keep"
      <4>1. s.need_flags >= 1 /\ s.need_flags >= 2 /\ s.need_flags >= 3
        <5> DEFINE n == s.need_flags
        <5>1. n = 3
          BY <2>5
        <5> HIDE DEF n
        <5>2. n >= 1 /\ n >= 2 /\ n >= 3
          BY <5>1
        <5> QED
          BY <5>2 DEF n
      <4> QED
        BY <4>1, Zenon DEF Sound
    <3>6. InInt(r.val_0)
      BY <3>2, <3>4, Zenon
    <3>7. Sound(r)
      BY <3>2, <3>5, <3>6 DEF Sound
    <3> QED
      BY <3>7 DEF r
  <2>6. CASE ~Fits(s, b)
    <3>1. r = Fail(s)
      BY <1>2, <2>6, Turns
    <3>2. r.need_flags = s.need_flags /\ r.i2c_ret = "F" /\ r.device = s.device
          /\ r.type = s.type /\ r.val_0 = s.val_0
      BY <3>1 DEF LoopStates, Fail
    <3> HIDE DEF r
    <3> QED
      BY <3>2 DEF Sound, r
  <2> QED
    BY <2>1, <2>2, <2>3, <2>4, <2>5, <2>6 DEF Fits
<1> QED
  BY <1>1, <1>2

\* What the dispatch relies on, whatever the bytes of the command: the values
\* are ints, and a command that got as far as its value named everything.
THEOREM ParseTyped ==
  ASSUME NEW m, Len(m) \in Nat
  PROVE  LET p == Parse(m) IN
         /\ p.ret \in {"N", "G", "S", "F"}
         /\ p.flags \in 0..4
         /\ p.device \in {"led", "servo", "keep"}
         /\ p.type \in {"en", "pwm", "pwm_x", "pwm_y", "keep"}
         /\ InInt(p.v0) /\ InInt(p.v1)
         /\ p = [ret |-> p.ret, flags |-> p.flags, device |-> p.device,
                 type |-> p.type, v0 |-> p.v0, v1 |-> p.v1]
         /\ p.flags >= 3 => p.ret # "N" /\ p.device # "keep" /\ p.type # "keep"
<1> DEFINE N == Len(m)
           p == Parse(m)
           s == AtEnd(m)
<1>1. PICK f \in [0..N -> LoopStates] :
        /\ f[0] = Start
        /\ \A n \in 1..N : f[n] = ReadByte(m[n])[f[n - 1]]
        /\ s = f[N]
  BY AtEndRuns
<1>0. N \in Nat
  OBVIOUS
<1> HIDE DEF N, s
<1> DEFINE T == {n \in 0..N : Sound(f[n])}
<1>2. 0 \in T
  <2>1. Sound(Start)
    BY DEF Sound, Start, InInt
  <2> QED
    BY <1>0, <1>1, <2>1
<1>3. ASSUME NEW n \in 0..N, n \in T, n < N
      PROVE  n + 1 \in T
  <2>1. n + 1 \in 1..N /\ n + 1 \in 0..N /\ (n + 1) - 1 = n
    BY <1>0, <1>3
  <2>2. f[n + 1] = ReadByte(m[n + 1])[f[n]]
    BY <1>1, <2>1
  <2>3. f[n] \in LoopStates /\ Sound(f[n])
    BY <1>3
  <2> QED
    BY <2>1, <2>2, <2>3, SoundKept
<1> HIDE DEF T
<1>4. s \in LoopStates /\ Sound(s)
  <2>1. 0..N \subseteq T
    BY <1>0, <1>2, <1>3, BoundedInduction
  <2>2. N \in T /\ N \in 0..N
    BY <1>0, <2>1
  <2> QED
    BY <1>1, <2>2 DEF T
<1>5. /\ s.i2c_ret \in {"N", "G", "S", "F"} /\ s.need_flags \in 0..4
      /\ s.device \in {"led", "servo", "keep"}
      /\ s.type \in {"en", "pwm", "pwm_x", "pwm_y", "keep"}
      /\ s.tmp_str \in Seq(Digits)
  BY <1>4 DEF LoopStates, Digits
<1>6. InInt(ToInt(s.tmp_str)) /\ InInt(s.val_0) /\ InInt(-1)
  BY <1>4, <1>5, ToIntTyped DEF InInt, Sound
<1>7. p = [ret |-> s.i2c_ret, flags |-> s.need_flags, device |-> s.device,
           type |-> s.type,
           v0 |-> IF s.need_flags = 4 THEN s.val_0 ELSE ToInt(s.tmp_str),
           v1 |-> IF s.need_flags = 4 THEN ToInt(s.tmp_str) ELSE -1]
  BY Zenon DEF Parse, s
<1>8. /\ p.ret = s.i2c_ret /\ p.flags = s.need_flags
      /\ p.device = s.device /\ p.type = s.type
      /\ p.v0 = IF s.need_flags = 4 THEN s.val_0 ELSE ToInt(s.tmp_str)
      /\ p.v1 = IF s.need_flags = 4 THEN ToInt(s.tmp_str) ELSE -1
      /\ p = [ret |-> p.ret, flags |-> p.flags, device |-> p.device,
              type |-> p.type, v0 |-> p.v0, v1 |-> p.v1]
  <2> HIDE DEF p
  <2> QED
    BY <1>7
<1> HIDE DEF p
<1>9. InInt(p.v0) /\ InInt(p.v1)
  BY <1>6, <1>8
<1>10. p.flags >= 3 => p.ret # "N" /\ p.device # "keep" /\ p.type # "keep"
  BY <1>4, <1>5, <1>8 DEF Sound
<1>11. /\ p.ret \in {"N", "G", "S", "F"} /\ p.flags \in 0..4
       /\ p.device \in {"led", "servo", "keep"}
       /\ p.type \in {"en", "pwm", "pwm_x", "pwm_y", "keep"}
  BY <1>5, <1>8
<1> QED
  BY <1>8, <1>9, <1>10, <1>11, Zenon DEF p

--------------------------------------------------------------------------------
(* What ControlPath needs: commands in capitals, and numbers of four digits.   *)

Comma == ","

\* The letters and digits of a command are none of the bytes skipped, and a
\* capital letter is its own upper case.
LEMMA PlainBytes ==
  /\ \A b \in {"G", "S", "L", "E", "P", "X", "Y"} :
       b \notin Blank /\ ToUpper(b) = b
  /\ \A b : IsDigit(b) => b \notin Blank
  /\ Comma \notin Blank
<1>3. Comma \notin Blank
  BY Zenon DEF Blank, Comma
<1>1. \A b \in {"G", "S", "L", "E", "P", "X", "Y"} :
        b \notin Blank /\ ToUpper(b) = b
  BY DEF Blank, ToUpper, LowerCase
<1>2. ASSUME NEW b, IsDigit(b)
      PROVE  b \notin Blank
  <2>0. /\ Digit[1] = "0" /\ Digit[2] = "1" /\ Digit[3] = "2" /\ Digit[4] = "3"
        /\ Digit[5] = "4" /\ Digit[6] = "5" /\ Digit[7] = "6" /\ Digit[8] = "7"
        /\ Digit[9] = "8" /\ Digit[10] = "9"
    BY DEF Digit
  <2>1. PICK k \in 1..10 : Digit[k] = b
    BY <1>2 DEF IsDigit
  <2>2. \/ k = 1 \/ k = 2 \/ k = 3 \/ k = 4 \/ k = 5
        \/ k = 6 \/ k = 7 \/ k = 8 \/ k = 9 \/ k = 10
    OBVIOUS
  <2>3. b \in {"0", "1", "2", "3", "4", "5", "6", "7", "8", "9"}
    BY <2>0, <2>1, <2>2
  <2> QED
    BY <2>3 DEF Blank
<1> QED
  BY <1>1, <1>2, <1>3

\* A command in capital letters with one value, or none.
LEMMA ReadsOneValue ==
  ASSUME NEW B, NEW m \in Seq(B), Len(m) >= 3,
         m[1] \in {"G", "S"}, m[2] \in {"L", "S"}, m[3] \in {"E", "P", "X", "Y"},
         \A k \in 4..Len(m) : IsDigit(m[k])
  PROVE  LET p == Parse(m) IN
         /\ p.ret = m[1] /\ p.flags = 3
         /\ p.device = DeviceOf[m[2]] /\ p.type = TypeOf[m[3]]
         /\ p.v0 = ToInt(SubSeq(m, 4, Len(m)))
<1> DEFINE p == Parse(m)
<1>1. /\ ToUpper(m[1]) = m[1] /\ ToUpper(m[2]) = m[2] /\ ToUpper(m[3]) = m[3]
      /\ m[1] \notin Blank /\ m[2] \notin Blank /\ m[3] \notin Blank
  BY PlainBytes
<1>2. ASSUME NEW k \in 1..Len(m)
      PROVE  m[k] \notin Blank
  <2>1. k = 1 \/ k = 2 \/ k = 3 \/ k \in 4..Len(m)
    OBVIOUS
  <2> QED
    BY <1>1, <2>1, PlainBytes
<1>3. OneValue(m)
  <2>1. AllDigits(SubSeq(m, 4, Len(m)))
    BY DigitsBetween
  <2>2. HeaderOK(m)
    BY <1>1 DEF HeaderOK, Letters
  <2> QED
    BY <2>1, <2>2 DEF OneValue
<1>4. /\ p.ret = ToUpper(m[1])
      /\ p.device = DeviceOf[ToUpper(m[2])]
      /\ p.type = TypeOf[ToUpper(m[3])]
      /\ OneValue(m) => p.flags = 3 /\ p.v0 = ToInt(SubSeq(m, 4, Len(m))) /\ p.v1 = -1
  BY <1>2, <1>3, ParsesGrammar, Zenon
<1> HIDE DEF p
<1>5. /\ p.ret = m[1] /\ p.flags = 3
      /\ p.device = DeviceOf[m[2]] /\ p.type = TypeOf[m[3]]
      /\ p.v0 = ToInt(SubSeq(m, 4, Len(m)))
  BY <1>1, <1>3, <1>4, Zenon
<1> QED
  BY <1>5, Zenon DEF p

\* A command in capital letters with two values.
LEMMA ReadsTwoValues ==
  ASSUME NEW B, NEW m \in Seq(B), NEW c \in Int, 4 <= c, c <= Len(m),
         m[1] \in {"G", "S"}, m[2] \in {"L", "S"}, m[3] \in {"E", "P", "X", "Y"},
         m[c] = Comma, \A k \in 4..(c - 1) : IsDigit(m[k]),
         \A k \in (c + 1)..Len(m) : IsDigit(m[k])
  PROVE  LET p == Parse(m) IN
         /\ p.ret = m[1] /\ p.flags = 4
         /\ p.device = DeviceOf[m[2]] /\ p.type = TypeOf[m[3]]
         /\ p.v0 = ToInt(SubSeq(m, 4, c - 1))
         /\ p.v1 = ToInt(SubSeq(m, c + 1, Len(m)))
<1> DEFINE p == Parse(m)
<1>1. /\ ToUpper(m[1]) = m[1] /\ ToUpper(m[2]) = m[2] /\ ToUpper(m[3]) = m[3]
      /\ m[1] \notin Blank /\ m[2] \notin Blank /\ m[3] \notin Blank
      /\ m[c] \notin Blank
  BY PlainBytes
<1> DEFINE N == Len(m)
<1>7. N \in Nat /\ c \in Int /\ 4 <= c /\ c <= N
  OBVIOUS
<1> HIDE DEF N
<1>2. ASSUME NEW k \in 1..N
      PROVE  m[k] \notin Blank
  <2>1. k = 1 \/ k = 2 \/ k = 3 \/ k = c
        \/ k \in 4..(c - 1) \/ k \in (c + 1)..N
    BY <1>7
  <2> QED
    BY <1>1, <2>1, PlainBytes DEF N
<1>0. c \in Commas(m)
  <2>1. c \in 4..Len(m)
    BY <1>7 DEF N
  <2> QED
    BY <2>1, Zenon DEF Commas, Comma
<1>3. TwoValues(m)
  <2>1. AllDigits(SubSeq(m, 4, c - 1)) /\ AllDigits(SubSeq(m, c + 1, Len(m)))
    <3>1. /\ 4 \in 1..(N + 1) /\ c - 1 \in Int /\ 4 - 1 <= c - 1 /\ c - 1 <= N
          /\ c + 1 \in 1..(N + 1) /\ N \in Int /\ (c + 1) - 1 <= N
      BY <1>7
    <3>4. AllDigits(SubSeq(m, 4, c - 1))
      BY <3>1, DigitsBetween DEF N
    <3>5. AllDigits(SubSeq(m, c + 1, N))
      BY <3>1, DigitsBetween DEF N
    <3> QED
      BY <3>4, <3>5 DEF N
  <2>2. HeaderOK(m)
    BY <1>1 DEF HeaderOK, Letters
  <2> QED
    BY <1>0, <2>1, <2>2 DEF TwoValues
<1>4. /\ p.ret = ToUpper(m[1])
      /\ p.device = DeviceOf[ToUpper(m[2])]
      /\ p.type = TypeOf[ToUpper(m[3])]
      /\ TwoValues(m) =>
           /\ p.flags = 4
           /\ \A k \in Commas(m) : /\ p.v0 = ToInt(SubSeq(m, 4, k - 1))
                                   /\ p.v1 = ToInt(SubSeq(m, k + 1, Len(m)))
  BY <1>2, <1>3, ParsesGrammar, Zenon DEF N
<1> HIDE DEF p
<1>5. /\ p.ret = m[1] /\ p.flags = 4
      /\ p.device = DeviceOf[m[2]] /\ p.type = TypeOf[m[3]]
      /\ p.v0 = ToInt(SubSeq(m, 4, c - 1))
      /\ p.v1 = ToInt(SubSeq(m, c + 1, Len(m)))
  BY <1>0, <1>1, <1>3, <1>4, Zenon
<1> QED
  BY <1>5, Zenon DEF p

\* The character of a digit has that digit for its value.
LEMMA DigitOfNumber ==
  ASSUME NEW n \in Int, 0 <= n, n <= 9
  PROVE  IsDigit(Digit[n + 1]) /\ DigitValue(Digit[n + 1]) = n
<1>0. /\ Digit[1] = "0" /\ Digit[2] = "1" /\ Digit[3] = "2" /\ Digit[4] = "3"
      /\ Digit[5] = "4" /\ Digit[6] = "5" /\ Digit[7] = "6" /\ Digit[8] = "7"
      /\ Digit[9] = "8" /\ Digit[10] = "9"
  BY DEF Digit
<1>1. ASSUME NEW j \in 1..10, NEW k \in 1..10, Digit[j] = Digit[k]
      PROVE  j = k
  <2>1. \/ j = 1 \/ j = 2 \/ j = 3 \/ j = 4 \/ j = 5
        \/ j = 6 \/ j = 7 \/ j = 8 \/ j = 9 \/ j = 10
    OBVIOUS
  <2>2. \/ k = 1 \/ k = 2 \/ k = 3 \/ k = 4 \/ k = 5
        \/ k = 6 \/ k = 7 \/ k = 8 \/ k = 9 \/ k = 10
    OBVIOUS
  <2> QED
    BY <1>0, <1>1, <2>1, <2>2
<1>2. n + 1 \in 1..10
  OBVIOUS
<1>3. (CHOOSE k \in 1..10 : Digit[k] = Digit[n + 1]) = n + 1
  BY <1>1, <1>2
<1>4. DigitValue(Digit[n + 1]) = (n + 1) - 1
  BY <1>3, Zenon DEF DigitValue
<1>5. IsDigit(Digit[n + 1])
  BY <1>2, Zenon DEF IsDigit
<1> QED
  BY <1>4, <1>5

\* The digits of a number, one power of ten after the other.
LEMMA DigitSplit ==
  ASSUME NEW n \in Nat
  PROVE  /\ n = 10 * (n \div 10) + (n % 10)
         /\ n \div 10 = 10 * (n \div 100) + ((n \div 10) % 10)
         /\ n \div 100 = 10 * (n \div 1000) + ((n \div 100) % 10)
         /\ n % 10 \in 0..9 /\ (n \div 10) % 10 \in 0..9 /\ (n \div 100) % 10 \in 0..9
<1>1. n = 10 * (n \div 10) + (n % 10)
  OBVIOUS
<1>2. n \div 10 = 10 * (n \div 100) + ((n \div 10) % 10)
  OBVIOUS
<1>3. n \div 100 = 10 * (n \div 1000) + ((n \div 100) % 10)
  OBVIOUS
<1>4. n % 10 \in 0..9
  OBVIOUS
<1>5. (n \div 10) % 10 \in 0..9
  OBVIOUS
<1>6. (n \div 100) % 10 \in 0..9
  OBVIOUS
<1> QED
  BY <1>1, <1>2, <1>3, <1>4, <1>5, <1>6, Zenon

\* A number of at most four digits.
FourDigits(a) == a \in Int /\ 0 <= a /\ a <= 9999

\* It is not cut to 16 bits.
LEMMA Int16Small ==
  ASSUME NEW a, FourDigits(a)
  PROVE  Int16(a) = a
<1>1. (a + 32768) % 65536 = a + 32768
  BY DEF FourDigits
<1> QED
  BY <1>1 DEF Int16, FourDigits

\* Up to four digits make such a number.
LEMMA FewDigits ==
  ASSUME NEW x \in Int, 0 <= x, x <= 9
  PROVE  /\ FourDigits(x)
         /\ \A y \in Int : 0 <= y /\ y <= 9 =>
              /\ FourDigits(10 * x + y)
              /\ \A z \in Int : 0 <= z /\ z <= 9 =>
                   /\ FourDigits(10 * (10 * x + y) + z)
                   /\ \A u \in Int : 0 <= u /\ u <= 9 =>
                        FourDigits(10 * (10 * (10 * x + y) + z) + u)
BY DEF FourDigits

\* The value a string of at most four digits builds up, the lowest in d[1].
Value(d, w) ==
  CASE w = 1 -> d[1]
    [] w = 2 -> 10 * d[2] + d[1]
    [] w = 3 -> 10 * (10 * d[3] + d[2]) + d[1]
    [] w = 4 -> 10 * (10 * (10 * d[4] + d[3]) + d[2]) + d[1]

\* toInt of up to four digits.
LEMMA ToIntOfFew ==
  ASSUME NEW w \in 1..4, NEW d, \A k \in 1..w : d[k] \in 0..9,
         NEW str, Len(str) = w, \A k \in 1..w : str[k] = Digit[d[w - k + 1] + 1]
  PROVE  AllDigits(str) /\ ToInt(str) = Value(d, w)
<1>0. w = 1 \/ w = 2 \/ w = 3 \/ w = 4
  OBVIOUS
<1>1. ASSUME NEW k \in 1..w
      PROVE  IsDigit(str[k]) /\ DigitValue(str[k]) = d[w - k + 1]
  <2>1. w - k + 1 \in 1..w
    OBVIOUS
  <2>2. d[w - k + 1] \in Int /\ 0 <= d[w - k + 1] /\ d[w - k + 1] <= 9
    BY <2>1
  <2> QED
    BY <2>2, DigitOfNumber
<1>2. AllDigits(str)
  BY <1>1 DEF AllDigits
<1>3. Len(str) \in Nat
  OBVIOUS
<1>4. PICK f \in [0..Len(str) -> Int] :
        /\ f[0] = 0
        /\ \A k \in 1..Len(str) : f[k] = Int16(10 * f[k - 1] + DigitValue(str[k]))
        /\ ToInt(str) = f[Len(str)]
  BY <1>2, <1>3, ToIntRuns
<1>5. f[0] = 0 /\ ToInt(str) = f[w]
  BY <1>4
<1>6. \A k \in 1..w : f[k] = Int16(10 * f[k - 1] + d[w - k + 1])
  BY <1>1, <1>4
<1>7. ASSUME NEW k \in 1..w
      PROVE  d[k] \in Int /\ 0 <= d[k] /\ d[k] <= 9
  <2>1. d[k] \in 0..9
    BY Zenon
  <2> QED
    BY <2>1
<1>10. CASE w = 1
  <2>1. /\ f[1] = Int16(10 * f[0] + d[1])
    BY <1>6, <1>10
  <2>2. /\ d[1] \in Int /\ 0 <= d[1] /\ d[1] <= 9
    BY <1>7, <1>10
  <2>3. f[1] = d[1]
    <3>1. 10 * f[0] + d[1] = d[1]
      BY <2>2, <1>5
    <3>2. FourDigits(d[1])
      BY <2>2, FewDigits, Zenon
    <3>3. Int16(d[1]) = d[1]
      BY <3>2, Int16Small, Zenon
    <3> QED
      BY <2>1, <3>1, <3>3, Zenon
  <2> QED
    BY <1>2, <1>5, <1>10, <2>3 DEF Value
<1>11. CASE w = 2
  <2>1. /\ f[1] = Int16(10 * f[0] + d[2])
        /\ f[2] = Int16(10 * f[1] + d[1])
    BY <1>6, <1>11
  <2>2. /\ d[1] \in Int /\ 0 <= d[1] /\ d[1] <= 9
        /\ d[2] \in Int /\ 0 <= d[2] /\ d[2] <= 9
    BY <1>7, <1>11
  <2>3. f[1] = d[2]
    <3>1. 10 * f[0] + d[2] = d[2]
      BY <2>2, <1>5
    <3>2. FourDigits(d[2])
      BY <2>2, FewDigits, Zenon
    <3>3. Int16(d[2]) = d[2]
      BY <3>2, Int16Small, Zenon
    <3> QED
      BY <2>1, <3>1, <3>3, Zenon
  <2>4. f[2] = 10 * d[2] + d[1]
    <3>1. 10 * f[1] + d[1] = 10 * d[2] + d[1]
      BY <2>2, <2>3
    <3>2. FourDigits(10 * d[2] + d[1])
      BY <2>2, FewDigits, Zenon
    <3>3. Int16(10 * d[2] + d[1]) = 10 * d[2] + d[1]
      BY <3>2, Int16Small, Zenon
    <3> QED
      BY <2>1, <3>1, <3>3, Zenon
  <2> QED
    BY <1>2, <1>5, <1>11, <2>4 DEF Value
<1>12. CASE w = 3
  <2>1. /\ f[1] = Int16(10 * f[0] + d[3])
        /\ f[2] = Int16(10 * f[1] + d[2])
        /\ f[3] = Int16(10 * f[2] + d[1])
    BY <1>6, <1>12
  <2>2. /\ d[1] \in Int /\ 0 <= d[1] /\ d[1] <= 9
        /\ d[2] \in Int /\ 0 <= d[2] /\ d[2] <= 9
        /\ d[3] \in Int /\ 0 <= d[3] /\ d[3] <= 9
    BY <1>7, <1>12
  <2>3. f[1] = d[3]
    <3>1. 10 * f[0] + d[3] = d[3]
      BY <2>2, <1>5
    <3>2. FourDigits(d[3])
      BY <2>2, FewDigits, Zenon
    <3>3. Int16(d[3]) = d[3]
      BY <3>2, Int16Small, Zenon
    <3> QED
      BY <2>1, <3>1, <3>3, Zenon
  <2>4. f[2] = 10 * d[3] + d[2]
    <3>1. 10 * f[1] + d[2] = 10 * d[3] + d[2]
      BY <2>2, <2>3
    <3>2. FourDigits(10 * d[3] + d[2])
      BY <2>2, FewDigits, Zenon
    <3>3. Int16(10 * d[3] + d[2]) = 10 * d[3] + d[2]
      BY <3>2, Int16Small, Zenon
    <3> QED
      BY <2>1, <3>1, <3>3, Zenon
  <2>5. f[3] = 10 * (10 * d[3] + d[2]) + d[1]
    <3>1. 10 * f[2] + d[1] = 10 * (10 * d[3] + d[2]) + d[1]
      BY <2>2, <2>4
    <3>2. FourDigits(10 * (10 * d[3] + d[2]) + d[1])
      BY <2>2, FewDigits, Zenon
    <3>3. Int16(10 * (10 * d[3] + d[2]) + d[1]) = 10 * (10 * d[3] + d[2]) + d[1]
      BY <3>2, Int16Small, Zenon
    <3> QED
      BY <2>1, <3>1, <3>3, Zenon
  <2> QED
    BY <1>2, <1>5, <1>12, <2>5 DEF Value
<1>13. CASE w = 4
  <2>1. /\ f[1] = Int16(10 * f[0] + d[4])
        /\ f[2] = Int16(10 * f[1] + d[3])
        /\ f[3] = Int16(10 * f[2] + d[2])
        /\ f[4] = Int16(10 * f[3] + d[1])
    BY <1>6, <1>13
  <2>2. /\ d[1] \in Int /\ 0 <= d[1] /\ d[1] <= 9
        /\ d[2] \in Int /\ 0 <= d[2] /\ d[2] <= 9
        /\ d[3] \in Int /\ 0 <= d[3] /\ d[3] <= 9
        /\ d[4] \in Int /\ 0 <= d[4] /\ d[4] <= 9
    BY <1>7, <1>13
  <2>3. f[1] = d[4]
    <3>1. 10 * f[0] + d[4] = d[4]
      BY <2>2, <1>5
    <3>2. FourDigits(d[4])
      BY <2>2, FewDigits, Zenon
    <3>3. Int16(d[4]) = d[4]
      BY <3>2, Int16Small, Zenon
    <3> QED
      BY <2>1, <3>1, <3>3, Zenon
  <2>4. f[2] = 10 * d[4] + d[3]
    <3>1. 10 * f[1] + d[3] = 10 * d[4] + d[3]
      BY <2>2, <2>3
    <3>2. FourDigits(10 * d[4] + d[3])
      BY <2>2, FewDigits, Zenon
    <3>3. Int16(10 * d[4] + d[3]) = 10 * d[4] + d[3]
      BY <3>2, Int16Small, Zenon
    <3> QED
      BY <2>1, <3>1, <3>3, Zenon
  <2>5. f[3] = 10 * (10 * d[4] + d[3]) + d[2]
    <3>1. 10 * f[2] + d[2] = 10 * (10 * d[4] + d[3]) + d[2]
      BY <2>2, <2>4
    <3>2. FourDigits(10 * (10 * d[4] + d[3]) + d[2])
      BY <2>2, FewDigits, Zenon
    <3>3. Int16(10 * (10 * d[4] + d[3]) + d[2]) = 10 * (10 * d[4] + d[3]) + d[2]
      BY <3>2, Int16Small, Zenon
    <3> QED
      BY <2>1, <3>1, <3>3, Zenon
  <2>6. f[4] = 10 * (10 * (10 * d[4] + d[3]) + d[2]) + d[1]
    <3>1. 10 * f[3] + d[1] = 10 * (10 * (10 * d[4] + d[3]) + d[2]) + d[1]
      BY <2>2, <2>5
    <3>2. FourDigits(10 * (10 * (10 * d[4] + d[3]) + d[2]) + d[1])
      BY <2>2, FewDigits, Zenon
    <3>3. Int16(10 * (10 * (10 * d[4] + d[3]) + d[2]) + d[1]) = 10 * (10 * (10 * d[4] + d[3]) + d[2]) + d[1]
      BY <3>2, Int16Small, Zenon
    <3> QED
      BY <2>1, <3>1, <3>3, Zenon
  <2> QED
    BY <1>2, <1>5, <1>13, <2>6 DEF Value
<1> QED
  BY <1>0, <1>10, <1>11, <1>12, <1>13

\* The digits of a number are their value again.
LEMMA ValueOfDigits ==
  ASSUME NEW n \in Nat, NEW w \in 1..4,
         \/ w = 1 /\ n < 10
         \/ w = 2 /\ n < 100
         \/ w = 3 /\ n < 1000
         \/ w = 4 /\ n < 10000,
         NEW d, d[1] = n % 10, d[2] = (n \div 10) % 10,
         d[3] = (n \div 100) % 10, d[4] = (n \div 1000) % 10
  PROVE  Value(d, w) = n /\ \A k \in 1..4 : d[k] \in 0..9
<1>1. PICK a, b, c : a = n \div 10 /\ b = n \div 100 /\ c = n \div 1000
  OBVIOUS
<1>2. a \in Nat /\ b \in Nat /\ c \in Nat
  BY <1>1
<1>3. n = 10 * a + d[1] /\ a = 10 * b + d[2] /\ b = 10 * c + d[3]
      /\ d[1] \in 0..9 /\ d[2] \in 0..9 /\ d[3] \in 0..9
  BY <1>1, DigitSplit
<1>4. c <= 9 /\ c % 10 = c
  BY <1>1
<1>5. d[4] = c
  BY <1>1, <1>4
<1>6. \A k \in 1..4 : d[k] \in 0..9
  <2>1. \A k \in 1..4 : k = 1 \/ k = 2 \/ k = 3 \/ k = 4
    OBVIOUS
  <2>2. d[4] \in 0..9
    BY <1>2, <1>4, <1>5
  <2> QED
    BY <1>3, <2>1, <2>2
<1>7. PICK d1, d2, d3 : d1 = d[1] /\ d2 = d[2] /\ d3 = d[3]
  OBVIOUS
<1>8. /\ n = 10 * a + d1 /\ a = 10 * b + d2 /\ b = 10 * c + d3
      /\ d1 \in 0..9 /\ d2 \in 0..9 /\ d3 \in 0..9
  BY <1>3, <1>7
<1>9. /\ w = 1 => d1 = n
      /\ w = 2 => 10 * d2 + d1 = n
      /\ w = 3 => 10 * (10 * d3 + d2) + d1 = n
      /\ w = 4 => 10 * (10 * (10 * c + d3) + d2) + d1 = n
  BY <1>2, <1>8
<1>10. w = 1 \/ w = 2 \/ w = 3 \/ w = 4
  OBVIOUS
<1> QED
  BY <1>5, <1>6, <1>7, <1>9, <1>10 DEF Value
================================================================================
