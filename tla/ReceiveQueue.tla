----------------------------- MODULE ReceiveQueue -----------------------------
(****************************************************************************)
(* What the software serial port promises of the bytes it has heard: they   *)
(* wait in the order of their arrival, at most Capacity of them; one that   *)
(* finds no room takes the place of the newest; each is taken once, oldest  *)
(* first; and all of them go when the port starts or stops listening.       *)
(****************************************************************************)
EXTENDS Naturals, Sequences

CONSTANTS Bytes, Capacity

VARIABLES
  content,  \* heard and not yet taken
  taken     \* taken so far

Init == content = <<>> /\ taken = <<>>

Arrive(b) ==
  /\ content' = IF Len(content) < Capacity
                THEN Append(content, b)
                ELSE [content EXCEPT ![Len(content)] = b]
  /\ UNCHANGED taken

Take ==
  /\ content # <<>>
  /\ taken' = Append(taken, Head(content))
  /\ content' = Tail(content)

Flush ==
  /\ content' = <<>>
  /\ UNCHANGED taken

Next == Take \/ Flush \/ \E b \in Bytes : Arrive(b)

Spec == Init /\ [][Next]_<<content, taken>>
=============================================================================
