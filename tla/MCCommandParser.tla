--------------------------- MODULE MCCommandParser ---------------------------
(****************************************************************************)
(* Every command up to a length, over a small alphabet, grown byte by byte: *)
(* CommandParser against the grammar of the commands the firmware takes.    *)
(****************************************************************************)
EXTENDS CommandParser

CONSTANTS
  Bytes,       \* the alphabet
  Seeds,       \* the commands growth starts from
  MaxGrowth    \* the bytes added to a seed

ASSUME GrowthAssumption ==
  /\ \A s \in Seeds : s \in Seq(Bytes)
  /\ MaxGrowth \in Nat

VARIABLES
  msg,         \* the command received
  room         \* how many bytes it may still grow by

vars == <<msg, room>>

Init == msg \in Seeds /\ room = MaxGrowth

Next ==
  /\ room > 0
  /\ room' = room - 1
  /\ \E b \in Bytes : msg' = Append(msg, b)

Spec == Init /\ [][Next]_vars

----------------------------------------------------------------------------
\* A command without the bytes the loop skips.
Visible(m) ==
  LET seen[n \in 0..Len(m)] ==
        IF n = 0 THEN <<>>
        ELSE IF m[n] \in Blank THEN seen[n - 1] ELSE Append(seen[n - 1], m[n])
  IN seen[Len(m)]

AllDigits(s) == \A k \in 1..Len(s) : IsDigit(s[k])

\* The value of a string of digits, as a sum of powers of ten.
Decimal(s) ==
  LET power[n \in 0..Len(s)] == IF n = 0 THEN 1 ELSE 10 * power[n - 1]
      sum[k \in 0..Len(s)] ==
        IF k = 0 THEN 0
        ELSE sum[k - 1] + DigitValue(s[k]) * power[Len(s) - k]
  IN sum[Len(s)]

\* The method, device and type letters in upper case.
Letters(s) == [k \in 1..3 |-> ToUpper(s[k])]

HeaderOK(s) ==
  /\ Len(s) >= 3
  /\ Letters(s)[1] \in {"G", "S"}
  /\ Letters(s)[2] \in {"L", "S"}
  /\ Letters(s)[3] \in {"E", "P", "X", "Y"}

\* The places of a comma after the header.
Commas(s) == {k \in 4..Len(s) : s[k] = ","}

OneValue(s) == HeaderOK(s) /\ AllDigits(SubSeq(s, 4, Len(s)))

TwoValues(s) ==
  /\ HeaderOK(s)
  /\ \E k \in Commas(s) :
       AllDigits(SubSeq(s, 4, k - 1)) /\ AllDigits(SubSeq(s, k + 1, Len(s)))

\* The loop accepts exactly the commands of the grammar: a header of three
\* letters in either case, then digits, or digits, one comma and digits, with
\* blanks anywhere.
AcceptsTheGrammar ==
  LET p == Parse(msg) IN
  /\ (p.ret # "F" /\ p.flags = 3) <=> OneValue(Visible(msg))
  /\ (p.ret # "F" /\ p.flags = 4) <=> TwoValues(Visible(msg))

\* The values it leaves are the decimal values of the digit strings, cut to a
\* 16-bit int; the second is -1, "leave this axis alone", only when the
\* command has no comma or its digits are 65535 in 16 bits.
ValuesAreDecimal ==
  LET p == Parse(msg)
      s == Visible(msg)
  IN
  /\ OneValue(s) => p.v0 = Int16(Decimal(SubSeq(s, 4, Len(s)))) /\ p.v1 = -1
  /\ TwoValues(s) =>
       LET k == CHOOSE c \in Commas(s) : TRUE IN
       /\ p.v0 = Int16(Decimal(SubSeq(s, 4, k - 1)))
       /\ p.v1 = Int16(Decimal(SubSeq(s, k + 1, Len(s))))

----------------------------------------------------------------------------
MCBytes == {"G", "S", "l", "E", "P", "x", "0", "1", "3", "5", "6", ",", "?", " ", "NUL"}

MCSeeds == {<<>>, <<"S", "S", "P">>,
            <<"S", "S", "P", "6", "5", "5", "3", "5">>,
            <<"G", "S", "x", ",", "6", "5", "5", "3">>}
=============================================================================
