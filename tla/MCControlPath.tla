---------------------------- MODULE MCControlPath ----------------------------
(****************************************************************************)
(* ControlPath with the calls MainActivity could make, and one it could     *)
(* not: a position the servo refuses.                                       *)
(****************************************************************************)
EXTENDS ControlPath

LOCAL TLC == INSTANCE TLC

\* A read, an accepted move, a half-refused move and a switch.
MCCalls == {GetCall("X"), SetCall(1900, 1100), SetCall(1500, 2400),
            EnableCall("0")}

\* A read and a move, for the runs whose question is about something else.
MCFewCalls == {GetCall("X"), SetCall(1900, 1100)}

\* A read and a switch, the shortest calls, for liveness under faults.
MCShortCalls == {GetCall("X"), EnableCall("1")}

\* Two phones differ in nothing but their names.
ClientSymmetry == TLC!Permutations(Clients)
=============================================================================
