----------------------------- MODULE ServoService -----------------------------
(****************************************************************************)
(* What a phone that holds a ZClientService may rely on: a call takes       *)
(* effect at most once, at one instant between its start and its return;    *)
(* setServos returns true only if the head was sent exactly where the call  *)
(* said; getServo returns the position the axis had at that instant; and    *)
(* nothing else moves the head.  A call that fails may have had no effect,  *)
(* or, a setServos with one position the servo refuses, half of it.         *)
(****************************************************************************)
EXTENDS Integers

CONSTANTS
  Clients,          \* ZClientService objects
  Calls,            \* the calls made on them
  SERVO_PULSE_MIN, SERVO_PULSE_MAX

NoCall   == [op |-> "none"]
Idle     == <<"idle">>
Waiting  == <<"waiting">>
Yes      == <<"true">>
Failed   == <<"false">>
Lost     == <<"lost">>
Value(n) == <<"value", n>>

VARIABLES
  pos,      \* pos.X and pos.Y: the pulse each servo was last sent
  call,     \* the call a client made last, NoCall before the first
  effect,   \* what that call did: Waiting until it takes effect
  result    \* what the client has been told of it

vars == <<pos, call, effect, result>>

Pulse(v) == v > SERVO_PULSE_MIN /\ v < SERVO_PULSE_MAX

Init ==
  /\ pos = [X |-> 1480, Y |-> 1150]
  /\ call = [c \in Clients |-> NoCall]
  /\ effect = [c \in Clients |-> Idle]
  /\ result = [c \in Clients |-> Idle]

Invoke(c, op) ==
  /\ result[c] \notin {Waiting, Lost}
  /\ call' = [call EXCEPT ![c] = op]
  /\ effect' = [effect EXCEPT ![c] = Waiting]
  /\ result' = [result EXCEPT ![c] = Waiting]
  /\ UNCHANGED pos

\* The call in progress at c is an `op` that has had no effect so far.
Pending(c, op) == effect[c] = Waiting /\ call[c].op = op

Becomes(c, outcome) ==
  /\ effect' = [effect EXCEPT ![c] = outcome]
  /\ UNCHANGED <<call, result>>

Read(c) ==
  /\ Pending(c, "get")
  /\ Becomes(c, Value(pos[call[c].axis]))
  /\ UNCHANGED pos

Move(c) ==
  /\ Pending(c, "set")
  /\ pos' = [X |-> IF Pulse(call[c].x) THEN call[c].x ELSE pos.X,
             Y |-> IF Pulse(call[c].y) THEN call[c].y ELSE pos.Y]
  /\ Becomes(c, IF Pulse(call[c].x) /\ Pulse(call[c].y) THEN Yes ELSE Failed)

Switch(c) == Pending(c, "enable") /\ Becomes(c, Yes) /\ UNCHANGED pos

\* The service may refuse any call without acting on it.
Refuse(c) == effect[c] = Waiting /\ Becomes(c, Failed) /\ UNCHANGED pos

\* enableServos returns nothing, so its caller is told no failure.
Return(c) ==
  /\ result[c] = Waiting
  /\ effect[c] # Waiting
  /\ result' = [result EXCEPT ![c] =
                  IF call[c].op = "enable" THEN Yes ELSE effect[c]]
  /\ UNCHANGED <<pos, call, effect>>

\* The client dies or the connection breaks; the call may still take effect.
Lose(c) ==
  /\ result' = [result EXCEPT ![c] = Lost]
  /\ UNCHANGED <<pos, call, effect>>

Next ==
  \E c \in Clients :
    \/ \E op \in Calls : Invoke(c, op)
    \/ Read(c) \/ Move(c) \/ Switch(c) \/ Refuse(c)
    \/ Return(c) \/ Lose(c)

Spec == Init /\ [][Next]_vars
=============================================================================
