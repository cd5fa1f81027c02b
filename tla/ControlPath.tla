----------------------------- MODULE ControlPath -----------------------------
(****************************************************************************)
(* A servo call from the phone to the servo and back.  Clients are          *)
(* ZClientService objects (Android); the server is z_server                 *)
(* (src/z_service/src/z_server.c) on the Raspberry Pi, the one process that *)
(* talks to the SuperIO microcontroller (module SuperIO) over I2C.          *)
(*                                                                          *)
(* TCP is two byte streams per client.  The server's recv returns some of   *)
(* the bytes that have arrived, so a command reaches it in pieces.  A       *)
(* write or a read on the bus can fail; a client can die in the middle of a *)
(* call, leaving part of its command behind; the server can be stopped at   *)
(* any step (stop_z.sh) and started again (start_z.sh).                     *)
(****************************************************************************)
EXTENDS Integers, Sequences, FiniteSetsExt

CONSTANTS
  Clients,       \* ZClientService objects, each connecting once
  Calls,         \* calls made on them: see GetCall, SetCall, EnableCall
  NoClient,
  MaxCalls,      \* bound: calls per client
  MaxPieces,     \* bound: recv results one command arrives in
  MaxNacks,      \* bound: failed bus reads
  MaxLostWrites, \* bound: failed bus writes
  MaxCrashes,    \* bound: clients that die
  MaxStops,      \* bound: signals to the server
  SERVO_PULSE_MIN, SERVO_PULSE_MAX

\* With 8 failed reads or fewer in an exchange, the longest answer (8 bytes)
\* ends inside the 16 bytes of cmd; beyond that the code writes past its end.
\* The bound counts the failed reads of the whole run, which is more than that
\* asks for.
ASSUME BoundsAssumption ==
  /\ NoClient \notin Clients
  /\ MaxNacks \in 0..8
  /\ MaxPieces \in Nat \ {0}

\* As in SuperIO: the servos start at pulses they take, and a pulse has at
\* most four digits.
ASSUME PulseAssumption ==
  /\ SERVO_PULSE_MIN \in 0..1149
  /\ SERVO_PULSE_MAX \in 1481..10000

VARIABLES
  \* the firmware: see SuperIO
  i2c_ret, device, type, get_bytes_c, reg, out, asked, reply,
  \* the server
  pc,            \* where it is: see Next
  phase,         \* what the bus exchange it is in is part of
  todo,          \* the commands of that part still to be written
  cmd, flag, i, j,  \* its locals
  sock,          \* the client accepted last
  backlog,       \* connections the kernel holds until accept
  camera,        \* mjpg_streamer: off, starting or on
  \* the clients
  link,          \* new, open or closed
  up, down,      \* bytes on their way to and from the server
  call, result,  \* see ServoService
  calls,         \* how many it has made
  pieces,        \* recv results its command has come in so far
  effect,        \* history: what the firmware made of the call
  \* how much of each bound is used
  nacks, lostWrites, crashes, stops

firmware == <<i2c_ret, device, type, get_bytes_c, reg, out, asked, reply>>
server == <<pc, phase, todo, cmd, flag, i, j, sock, backlog, camera>>
clients == <<link, up, down, call, result, calls, pieces, effect>>
bounds == <<nacks, lostWrites, crashes, stops>>
vars == <<firmware, server, clients, bounds>>

Parser == INSTANCE CommandParser

IO == INSTANCE SuperIO WITH Parsed <- {}

Service == INSTANCE ServoService WITH pos <- [X |-> reg["servo_pwm_x"],
                                              Y |-> reg["servo_pwm_y"]]

Idle == Service!Idle
Waiting == Service!Waiting
Yes == Service!Yes
Failed == Service!Failed
Lost == Service!Lost

----------------------------------------------------------------------------
(* Commands.                                                                *)

GetCall(axis) == [op |-> "get", axis |-> axis]
SetCall(x, y) == [op |-> "set", x |-> x, y |-> y]
EnableCall(en) == [op |-> "enable", en |-> en]

\* getServo takes X or Y, and MainActivity keeps the positions it sends between
\* 900 and 2000: here, numbers of at most four digits.
ASSUME CallsAssumption ==
  \A op \in Calls :
    \/ op \in {GetCall("X"), GetCall("Y"), EnableCall("0"), EnableCall("1")}
    \/ /\ op = SetCall(op.x, op.y)
       /\ op.x \in Nat /\ op.x <= 9999
       /\ op.y \in Nat /\ op.y <= 9999

Power == <<1, 10, 100, 1000>>

Fits(n, w) == (w = 1 \/ n >= Power[w]) /\ (w = 4 \/ n < Power[w + 1])

\* How many digits n has, and the one that counts Power[k].
Places(n) == CHOOSE w \in 1..4 : Fits(n, w)
DigitOf(n, k) == Parser!Digit[((n \div Power[k]) % 10) + 1]

\* Integer.toString of a number of at most four digits.
Decimal(n) == [k \in 1..Places(n) |-> DigitOf(n, Places(n) - k + 1)]

SSE(en) == <<"S", "S", "E", en>>
SLE(en) == <<"S", "L", "E", en>>
LightOff == <<"S", "L", "P", "2", "5", "5">>
LightOn  == <<"S", "L", "P", "0">>

GetText(axis) == <<"G", "S", axis>>

\* Faulty: setServos writes its two positions in the other order.
SetTextSwapped(x, y) ==
  <<"S", "S", "P">> \o Decimal(y) \o <<",">> \o Decimal(x)

SetText(x, y) == <<"S", "S", "P">> \o Decimal(x) \o <<",">> \o Decimal(y)

\* What the methods of ZClientService write.
Text(c) ==
  CASE c.op = "get"    -> GetText(c.axis)
    [] c.op = "set"    -> SetText(c.x, c.y)
    [] c.op = "enable" -> SSE(c.en)

Command(c) == Text(c) \o <<"NUL">>

\* Faulty: main does not switch the light's driver on before accept; a phone
\* that leaves does not stop the servos; the handler leaves the driver on.
StartupScriptDark == <<SSE("0"), LightOff>>
ParkScriptPowered == <<LightOff, SLE("1")>>
ExitScriptLit     == <<SSE("0"), LightOff>>

\* The exchanges main runs around a session, and the signal handler.
StartupScript == <<SSE("0"), LightOff, SLE("1")>>
GreetScript   == <<LightOn, SLE("1"), SSE("1")>>
ParkScript    == <<SSE("0"), LightOff, SLE("1")>>
ExitScript    == <<SSE("0"), LightOff, SLE("0")>>

----------------------------------------------------------------------------
(* cmd: 16 bytes, a NUL-terminated string for most of its life.             *)

Cells == 0..15

StrLen(b) == Min({k \in Cells : b[k] = "NUL"} \cup {16})

CString(b) == [k \in 1..StrLen(b) |-> b[k - 1]]

\* b with the bytes s from cell k on.
Put(b, k, s) ==
  [n \in Cells |-> IF n \in k..(k + Len(s) - 1) THEN s[n - k + 1] ELSE b[n]]

----------------------------------------------------------------------------
(* The server on the bus.                                                   *)

\* The firmware takes the whole command, or the bus nothing of it.
OnBus(text) ==
  \/ /\ \E p \in {Parser!Parse(text)} : IO!ReceiveI2c(p)
     /\ UNCHANGED lostWrites
  \/ /\ lostWrites < MaxLostWrites
     /\ lostWrites' = lostWrites + 1
     /\ UNCHANGED firmware

\* Faulty: the index into cmd is not set back.
WriteI2cKeepingIndex(text) == OnBus(text) /\ pc' = "read" /\ UNCHANGED i

\* write(file, text, strlen(text)), whose result nobody looks at, and the start
\* of the loop that reads the answer.
WriteI2c(text) == OnBus(text) /\ pc' = "read" /\ i' = 0

Begin(script, part) ==
  /\ pc' = "script"
  /\ phase' = part
  /\ todo' = script

\* The handler's own cmd is not main's, and only its first command matters.
WriteScripted ==
  /\ pc = "script"
  /\ WriteI2c(Head(todo))
  /\ todo' = Tail(todo)
  /\ cmd' = IF phase = "exit" THEN cmd ELSE Put(cmd, 0, Head(todo) \o <<"NUL">>)
  /\ UNCHANGED <<phase, flag, j, sock, backlog, camera, clients, nacks,
                 crashes, stops>>

\* Where the exchange that ends here leads.
AfterExchange ==
  IF todo # <<>> THEN "script"
  ELSE CASE phase = "serve" -> "reply"
         [] phase = "greet" -> "recv"
         [] phase = "exit"  -> "exited"
         [] OTHER           -> "accept"

ReadI2c ==
  /\ pc = "read"
  /\ IO!SendI2c
  /\ LET byte == reply'[Len(reply')] IN
     /\ cmd' = IF phase = "exit" THEN cmd ELSE Put(cmd, i, <<byte>>)
     /\ pc' = IF byte = "NUL" THEN AfterExchange ELSE "read"
     /\ phase' = IF pc' = "recv" THEN "serve" ELSE phase
  /\ i' = i + 1
  /\ UNCHANGED <<todo, flag, j, sock, backlog, camera, clients, bounds>>

\* read() != 1: the loop goes on, and has counted the byte it did not get.
ReadFails ==
  /\ pc = "read"
  /\ nacks < MaxNacks
  /\ nacks' = nacks + 1
  /\ i' = i + 1
  /\ UNCHANGED <<firmware, pc, phase, todo, cmd, flag, j, sock, backlog,
                 camera, clients, lostWrites, crashes, stops>>

----------------------------------------------------------------------------
(* The server and its connections.                                          *)

\* accept, the camera, and the head woken up.
Accept ==
  /\ pc = "accept"
  /\ backlog # <<>>
  /\ sock' = Head(backlog)
  /\ backlog' = Tail(backlog)
  /\ camera' = IF camera = "off" THEN "starting" ELSE camera
  /\ Begin(GreetScript, "greet")
  /\ UNCHANGED <<firmware, cmd, flag, i, j, clients, bounds>>

\* No descriptor is left, since client_sock is never closed, or the connection
\* is gone already: main returns 1.
AcceptFails ==
  /\ pc = "accept"
  /\ backlog # <<>>
  /\ pc' = "exited"
  /\ sock' = NoClient
  /\ backlog' = <<>>
  /\ UNCHANGED <<firmware, phase, todo, cmd, flag, i, j, camera, clients, bounds>>

CameraStarts ==
  /\ camera = "starting"
  /\ camera' = "on"
  /\ UNCHANGED <<firmware, pc, phase, todo, cmd, flag, i, j, sock, backlog,
                 clients, bounds>>

\* The bytes at which the copying loop stops: the NUL of a command, or the
\* first one for which cmd has no room.
Stops(piece) ==
  {k \in 0..(Len(piece) - 1) : k + j > 15 \/ piece[k + 1] = "NUL"}


\* cmd, j and process_cmd once the loop has copied what it takes of a piece.
\* A piece that ends before its command sets j to its own length.
Copied(piece) ==
  LET k == Min(Stops(piece)) IN
  IF Stops(piece) = {}
  THEN [cmd |-> Put(cmd, j, piece), j |-> Len(piece), done |-> FALSE]
  ELSE IF k + j > 15
  THEN [cmd |-> Put(cmd, j, SubSeq(piece, 1, k)), j |-> 0, done |-> FALSE]
  ELSE [cmd |-> Put(cmd, j, SubSeq(piece, 1, k + 1)), j |-> 0, done |-> TRUE]

\* recv returns a piece of what has arrived.  A command that turns out shorter
\* than three bytes is dropped without an answer.
Recv ==
  /\ pc = "recv"
  /\ up[sock] # <<>>
  /\ \E n \in 1..Len(up[sock]) :
       LET new == Copied(SubSeq(up[sock], 1, n)) IN
       /\ pieces[sock] + 1 >= MaxPieces => n = Len(up[sock])
       /\ up' = [up EXCEPT ![sock] = SubSeq(@, n + 1, Len(@))]
       /\ cmd' = new.cmd
       /\ j' = new.j
       /\ pc' = IF new.done /\ StrLen(new.cmd) >= 3 THEN "process" ELSE "recv"
  /\ pieces' = [pieces EXCEPT ![sock] = @ + 1]
  /\ UNCHANGED <<firmware, phase, todo, flag, i, sock, backlog, camera, link,
                 down, call, result, calls, effect, bounds>>

\* What the firmware has made of a command, as the service would say it.
Outcome ==
  IF lostWrites' # lostWrites THEN Failed
  ELSE CASE asked' = "ack"  -> Yes
         [] asked' = "fail" -> Failed
         [] OTHER           -> Service!Value(reg[asked'])

\* The command goes to the firmware as it stands in cmd; whether it is a Get
\* is noted before the answer overwrites it.
Process ==
  /\ pc = "process"
  /\ WriteI2c(CString(cmd))
  /\ flag' = (Parser!ToUpper(cmd[0]) = "G")
  /\ effect' = [effect EXCEPT ![sock] = Outcome]
  /\ UNCHANGED <<phase, todo, cmd, j, sock, backlog, camera, link, up,
                 down, call, result, calls, pieces, nacks, crashes, stops>>

\* Faulty: one byte too far into the answer.
LineFromFifth(b, get) ==
  IF get THEN [k \in 1..(StrLen(b) - 3) |-> IF k + 3 = StrLen(b) THEN "LF"
                                            ELSE b[k + 3]]
  ELSE <<b[0], "LF">>

\* The answer to a Get goes out from its fourth byte on, an LF in the place of
\* its NUL, and not at all if it is shorter: the count passed to write is then
\* zero or negative.  The answer to a Set is its first byte and an LF.
Line(b, get) ==
  IF get THEN [k \in 1..(StrLen(b) - 2) |-> IF k + 2 = StrLen(b) THEN "LF"
                                            ELSE b[k + 2]]
  ELSE <<b[0], "LF">>

SendReply ==
  /\ pc = "reply"
  /\ cmd' = Put(cmd, IF flag THEN StrLen(cmd) ELSE 1, <<"LF">>)
  /\ down' = [down EXCEPT ![sock] = @ \o Line(cmd, flag)]
  /\ pc' = "recv"
  /\ UNCHANGED <<firmware, phase, todo, flag, i, j, sock, backlog,
                 camera, link, up, call, result, calls, pieces, effect, bounds>>

\* recv returns 0: the camera is killed (by name: one that is still starting
\* is missed) and the head is put to rest.  j keeps its value.
Disconnected ==
  /\ pc = "recv"
  /\ up[sock] = <<>>
  /\ link[sock] = "closed"
  /\ camera' = IF camera = "on" THEN "off" ELSE camera
  /\ Begin(ParkScript, "park")
  /\ sock' = NoClient
  /\ UNCHANGED <<firmware, cmd, flag, i, j, backlog, clients, bounds>>

\* SIGTERM (stop_z.sh) or SIGINT.  beforeExit takes over wherever main is, in
\* the middle of an exchange too; before it is installed the process dies.
Stop ==
  /\ pc # "exited"
  /\ phase # "exit"
  /\ stops < MaxStops
  /\ stops' = stops + 1
  /\ IF phase = "startup" /\ pc # "accept"
     THEN pc' = "exited" /\ UNCHANGED <<phase, todo>>
     ELSE Begin(ExitScript, "exit")
  /\ UNCHANGED <<firmware, cmd, flag, i, j, sock, backlog, camera,
                 clients, nacks, lostWrites, crashes>>

\* start_z.sh.  The connections of the process that exited are gone; what its
\* cmd starts with is whatever is on the stack.
Start ==
  /\ pc = "exited"
  /\ Begin(StartupScript, "startup")
  /\ cmd' = [k \in Cells |-> "?"]
  /\ flag' = FALSE
  /\ i' = 0
  /\ j' = 0
  /\ sock' = NoClient
  /\ backlog' = <<>>
  /\ UNCHANGED <<firmware, camera, clients, bounds>>

----------------------------------------------------------------------------
(* The clients.                                                             *)

\* The constructor: the kernel completes the connection before any accept.
Connect(c) ==
  /\ link[c] = "new"
  /\ pc # "exited"
  /\ link' = [link EXCEPT ![c] = "open"]
  /\ backlog' = Append(backlog, c)
  /\ UNCHANGED <<firmware, pc, phase, todo, cmd, flag, i, j, sock, camera, up, down, call, result, calls, pieces, effect, bounds>>

\* getServo, setServos or enableServos writes its command ...
Invoke(c, op) ==
  /\ link[c] = "open"
  /\ result[c] # Waiting
  /\ calls[c] < MaxCalls
  /\ calls' = [calls EXCEPT ![c] = @ + 1]
  /\ up' = [up EXCEPT ![c] = @ \o Command(op)]
  /\ pieces' = [pieces EXCEPT ![c] = 0]
  /\ call' = [call EXCEPT ![c] = op]
  /\ effect' = [effect EXCEPT ![c] = Waiting]
  /\ result' = [result EXCEPT ![c] = Waiting]
  /\ UNCHANGED <<firmware, server, link, down, bounds>>

\* Integer.parseInt, and the exception it throws.
ParseInt(line) ==
  IF line # <<>> /\ \A k \in 1..Len(line) : Parser!IsDigit(line[k])
  THEN Service!Value(Parser!ToInt(line))
  ELSE Failed

\* ... and, once readLine has its line, makes its result of it.  charAt(0) of an
\* empty line throws where the model answers Failed.
Return(c) ==
  LET end == Min({k \in 1..Len(down[c]) : down[c][k] = "LF"})
      line == SubSeq(down[c], 1, end - 1)
  IN
  /\ result[c] = Waiting
  /\ \E k \in 1..Len(down[c]) : down[c][k] = "LF"
  /\ down' = [down EXCEPT ![c] = SubSeq(@, end + 1, Len(@))]
  /\ result' = [result EXCEPT ![c] =
       CASE call[c].op = "get"    -> ParseInt(line)
         [] call[c].op = "set"    ->
              IF line # <<>> /\ line[1] = "T" THEN Yes ELSE Failed
         [] call[c].op = "enable" -> Yes]
  /\ UNCHANGED <<firmware, server, link, up, call, calls, pieces, effect, bounds>>

Close(c) ==
  /\ link[c] = "open"
  /\ result[c] # Waiting
  /\ link' = [link EXCEPT ![c] = "closed"]
  /\ UNCHANGED <<firmware, server, up, down, call, result, calls, pieces, effect,
                 bounds>>

\* The app is killed during a call: what of its command is still on the phone
\* never leaves it.
Crash(c) ==
  /\ link[c] = "open"
  /\ result[c] = Waiting
  /\ crashes < MaxCrashes
  /\ crashes' = crashes + 1
  /\ link' = [link EXCEPT ![c] = "closed"]
  /\ result' = [result EXCEPT ![c] = Lost]
  /\ \E n \in 0..Len(up[c]) : up' = [up EXCEPT ![c] = SubSeq(@, 1, n)]
  /\ UNCHANGED <<firmware, server, down, call, calls, pieces, effect, nacks,
                 lostWrites, stops>>

\* The server that held the connection is gone.
Break(c) ==
  /\ link[c] = "open"
  /\ pc = "exited" \/ (sock # c /\ \A k \in 1..Len(backlog) : backlog[k] # c)
  /\ link' = [link EXCEPT ![c] = "closed"]
  /\ result' = [result EXCEPT ![c] = Lost]
  /\ UNCHANGED <<firmware, server, up, down, call, calls, pieces, effect, bounds>>

----------------------------------------------------------------------------
Init ==
  /\ IO!Init
  /\ pc = "script" /\ phase = "startup" /\ todo = StartupScript
  /\ cmd = [k \in Cells |-> "?"] /\ flag = FALSE /\ i = 0 /\ j = 0
  /\ sock = NoClient /\ backlog = <<>> /\ camera = "off"
  /\ link = [c \in Clients |-> "new"]
  /\ up = [c \in Clients |-> <<>>] /\ down = [c \in Clients |-> <<>>]
  /\ call = [c \in Clients |-> Service!NoCall] /\ result = [c \in Clients |-> Idle]
  /\ effect = [c \in Clients |-> Idle]
  /\ calls = [c \in Clients |-> 0] /\ pieces = [c \in Clients |-> 0]
  /\ nacks = 0 /\ lostWrites = 0 /\ crashes = 0 /\ stops = 0

Server ==
  \/ WriteScripted \/ ReadI2c \/ Accept \/ AcceptFails \/ Recv \/ Process
  \/ SendReply \/ Disconnected

Client(c) ==
  \/ Connect(c) \/ Return(c) \/ Close(c) \/ Crash(c) \/ Break(c)
  \/ \E op \in Calls : Invoke(c, op)

Next ==
  \/ Server \/ ReadFails \/ CameraStarts \/ Stop \/ Start
  \/ \E c \in Clients : Client(c)

Spec == Init /\ [][Next]_vars

\* The server and the firmware run when they can, a client reads the line it
\* waits for and notices a connection that broke.  Nobody has to call, connect
\* or hang up, and nothing has to fail.
FairSpec ==
  /\ Spec
  /\ WF_vars(Server)
  /\ \A c \in Clients : WF_vars(Return(c) \/ Break(c))

----------------------------------------------------------------------------
(* Properties.                                                              *)

Bytes == IO!ReplyBytes \cup {"G", ",", "LF", "?"}

TypeOK ==
  /\ IO!TypeOK
  /\ pc \in {"script", "read", "accept", "recv", "process", "reply", "exited"}
  /\ phase \in {"startup", "greet", "serve", "park", "exit"}
  /\ cmd \in [Cells -> Bytes]
  /\ i \in 0..16 /\ j \in Cells
  /\ flag \in BOOLEAN
  /\ sock \in Clients \cup {NoClient}
  /\ camera \in {"off", "starting", "on"}
  /\ link \in [Clients -> {"new", "open", "closed"}]

\* Between sessions the head is at rest, whatever the last phone did and
\* however it went away: servos off, light off but enabled (z_server.c, the
\* exchanges before accept).  It still is if the next accept fails, where main
\* returns without a word to the bus.
RestsBetweenSessions ==
  pc = "accept" \/ (pc = "exited" /\ phase = "park") =>
    /\ reg["servo_en"] = 0
    /\ reg["led_pwm"] = 255
    /\ reg["led_en"] = 1

\* A server stopped by a signal at any point once it has reached its first
\* accept, half way through an exchange on the bus included, leaves the servos
\* and the light off (beforeExit).
OffAfterStop ==
  pc = "exited" /\ phase = "exit" => /\ reg["servo_en"] = 0
                                     /\ reg["led_pwm"] = 255
                                     /\ reg["led_en"] = 0

\* The servos are where c's setServos sent them.
Moved(c) ==
  reg["servo_pwm_x"] = call[c].x /\ reg["servo_pwm_y"] = call[c].y

\* As long as no read of the bus has failed and the server has not been
\* stopped, setServos returns true only when the servos are where it sent them,
\* even if writes are lost, whose results z_server.c does not look at.  That is
\* so for commands that arrive in one or two pieces (run service without lost
\* writes, theorem TrueProof with any), and not for three (run pieces).
TrueMeansMoved ==
  [][\A c \in Clients :
       /\ result[c] = Waiting /\ result'[c] = Yes /\ call[c].op = "set"
       /\ nacks = 0 /\ stops = 0
       => Moved(c)]_vars

\* The first call a server is sent, in one piece, is as honest when reads of
\* its answer fail, whose results z_server.c does not look at either.  Later
\* calls are not: a byte of an answer that was not read is the one cmd held
\* before, and an LF that an answer to a Get left there ends the next answer
\* early, so that its rest is taken for the answer to the call after.  Nor is the
\* first call of a phone that follows one which left half a command in cmd.
FirstTrueMeansMoved ==
  [][\A c \in Clients :
       /\ result[c] = Waiting /\ result'[c] = Yes /\ call[c].op = "set"
       /\ calls[c] = 1 /\ \A other \in Clients \ {c} : calls[other] = 0
       /\ pieces[c] = 1 /\ stops = 0
       => Moved(c)]_vars

\* On a bus that works, the whole path from phone to servo is the service of
\* ServoService.
ImplementsService == Service!Spec

\* A call of the client that is being served returns, or its connection
\* breaks.
ServedCallReturns ==
  \A c \in Clients :
    (sock = c /\ result[c] = Waiting) ~> (result[c] # Waiting)

\* When the phone being served goes away the servos are switched off, whatever
\* it left unsaid and although reads of the bus fail, as long as no write is
\* lost: a lost SSE0 leaves them on until the next exchange that switches them.
HeadReleased ==
  \A c \in Clients :
    (sock = c /\ link[c] = "closed") ~> (reg["servo_en"] = 0)
=============================================================================
