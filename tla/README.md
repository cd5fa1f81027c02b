# RaspberryPi-ProjZ: a verification project

ProjZ is a pan-and-tilt camera: an Android viewer talks over Wi-Fi to a
Raspberry Pi, which talks over I2C to a "SuperIO" microcontroller that drives
two servos, an infra-red light, the Pi's own power supply and a serial console.
These TLA+ modules model the control path from the phone to the servo, the
power supply, the console's software serial port, and the video path's two
concurrent ends. TLC model-checks them on small instances; TLAPS proves the
safety properties of every module for all values of the constants, two of the
control path's under assumptions about its faults that section 4 names.

## 1. Inventory

| Part | Source | State | Operations | Modelled in |
|---|---|---|---|---|
| SuperIO command parser | `arduino-code/atmega_com.ino` 223–308 | the statics of `receiveI2c` | one turn of the byte loop | `CommandParser` |
| SuperIO registers and answers | same, 24–112, 304–465 | five registers, `i2c_ret`, `get_bytes_c`, `device`, `type` | `receiveI2c`, `sendI2c` (both TWI interrupts) | `SuperIO` |
| SuperIO power supply | same, 134–218 | the statics of `pollingTimer`, `master_en`, pins | `pollingTimer` (every 125 ms), writes of `led_en` | `PowerButton` |
| z_server | `z_service/src/z_server.c` | `cmd`, `i`, `j`, `process_cmd`, `flag`, the socket | main's exchanges, accept, recv loop, reply, disconnect; `beforeExit` | `ControlPath` |
| ZClientService | `ZViewer/.../ZClientService.java` | socket, streams, result of the call | constructor, `getServo`, `setServos`, `enableServos`, `close` | `ControlPath`, promise in `ServoService` |
| SuperIO software serial | `atmega_com.ino` 113–129, 468–915 | ring buffer, bit counters, timer function, interrupt masks | `loop`, `sss*`, INT1, Timer2 | `SoftSerial`, promise in `ReceiveQueue` |
| MjpegView | `MjpegView.java`, `MjpegInputStream.java` | `mRun`, `surfaceDone`, size, monitor, canvas lock | drawing thread, surface callbacks, `setSource` | `MjpegView` |
| mjpg_streamer frame bus | `mjpg-streamer-experimental/` (vendored) | frame buffer, `db`, `db_update` | camera thread, HTTP threads | `FrameBus` |
| MainActivity, InitActivity | Android UI | touch state | touch events | no: its `z_service` is assigned nowhere; its `setSource` is in `MjpegView` |
| gpio_poweroff | binary without source | – | – | no: its GPIO lines are arbitrary inputs of `PowerButton` |
| scripts, Wi-Fi stack | `res/`, `wpa_supplicant_hostapd-*` | – | – | no: configuration, vendored code |

**How they interact.** `ZClientService` writes a NUL-terminated text command to
a TCP stream and waits for a line. `z_server`, one process with one thread,
serves one connection at a time: it collects a command in the 16 bytes of
`cmd`, writes it to the I2C bus and reads the answer back byte by byte into the
same `cmd`, until a NUL. The bus raises one interrupt in the firmware for the
write (`receiveI2c`) and one for every byte read (`sendI2c`). Before it
accepts, after it accepted and after a phone left, `z_server` runs fixed
exchanges of its own; a signal runs `beforeExit` in the middle of whatever it
is doing. Beside that, `pollingTimer` shares the light's driver pin with
`receiveI2c`, and `loop` passes bytes between the Pi's console, on the software
serial port, and a host on the hardware port. The picture goes another way: for
every session `z_server` runs `mjpg_streamer`, whose camera thread hands frames
to one thread per HTTP connection, and on the phone a drawing thread reads them
and draws on a surface that the UI thread gives and takes away.

**What is hard.** The answer is spread over many interrupts and the master may
stop anywhere; TCP cuts commands where it likes; a phone or the server dies
between any two steps and the firmware's registers outlive both; results of
`read` are retried and those of `write` ignored; numbers are cut to 16 bits;
interrupts move one end of a ring buffer while `loop` moves the other, in cells
that sending uses too; threads share frames and surfaces under locks held while
they wait for the network.
`PROJECT.json` lists each of these at its line under `hazards`.

**What makes each part correct.** The parser accepts the grammar and nothing
else; registers stay in range; an answer is the answer to the last command,
whatever was read of the one before; the head is at rest between sessions and
off after a stop; a phone's call does what it says, or fails; `setServos` never
claims a move that did not happen while the bus can be read; calls return; the Pi loses its supply only
with a cause, and does lose it after a halt; the serial port is never both
listening and talking nor neither for good, and keeps bytes in order; frames
are whole and in order; the viewer stays off a dead surface and its UI thread
comes back.

## 2. Modules

| Module | What it is | Extends / instantiates |
|---|---|---|
| `CommandParser` | the byte loop: `ReadByte` over the bytes of a command | – |
| `MCCommandParser` | the command that grows byte by byte, and the grammar | `CommandParser` |
| `CommandParserProofs` | its theorems, for commands of every length | `MCCommandParser` |
| `SuperIO` | `receiveI2c`'s dispatch and `sendI2c` | – |
| `MCSuperIO` | the commands that reach each of its branches | `SuperIO`, `CommandParser` |
| `SuperIOProofs` | its theorems | `SuperIO` |
| `PowerButton` | `pollingTimer` | – |
| `PowerButtonProofs` | its theorems | `PowerButton` |
| `ReceiveQueue` | abstract: what the receive buffer of the port promises | – |
| `SoftSerial` | `loop`, `sss*`, two interrupts, the Pi's line | `ReceiveQueue` |
| `SoftSerialProofs` | its theorems | `SoftSerial` |
| `MjpegView`, `MjpegViewProofs` | the viewer's two threads, its theorems | – |
| `FrameBus`, `FrameBusProofs` | camera and HTTP threads, their theorems | – |
| `ServoService` | abstract: what the phone may rely on | – |
| `ControlPath` | phones, TCP, `z_server`, firmware | `CommandParser`, `SuperIO`, `ServoService` |
| `ControlPathProofs` | its theorems | `ControlPath`, `SuperIOProofs`, `CommandParserProofs` |
| `ServiceProofs` | that it implements `ServoService` | `ControlPathProofs` |
| `MCControlPath` | the calls and the symmetry of its runs | `ControlPath` |

`map` in `PROJECT.json` gives the source lines of every definition. Operators
whose comment begins with "Faulty:" are not part of the model: each is a
plausible bug, and the property it is paired with under `mutants` must fail
when it takes the place of the real definition.

### From code to model

*CommandParser, SuperIO.* A byte is a one-character string. `need_flags`,
`i2c_ret` and the values are the code's; the `more_flag` the code never reads
is dropped. `device` or `type` is `"keep"` when the command ended before it
assigned the static, because the static of the last command then stays.
`SuperIO` is given parse results (`Parsed`) and not bytes, so that its theorems
hold for any set of them; `ParsedAssumption` is what the loop guarantees. Each
interrupt is one atomic action: interrupts do not nest on this processor.
`asked` and `reply` are history: the command last answered for, and the bytes
read since. `out` is what `setup` and `receiveI2c` last told the pins and the `Servo`
objects (`pollingTimer` also writes the pin of the light's driver: `PowerButton`).
`itoa` writes a digit and a terminator to the single `char ret_num`; the digit
is modelled, the terminator, which lands on the static behind it, is not (the
statics there are assigned before each use).

*PowerButton.* The inputs of a poll are arbitrary bits, sampled where the code
samples them: `GPIO_0`, `GPIO_1`, `GPIO_0` again. A poll is one action, with the
12 V part (`MainsBack`, `MainsGone`) and the button part (`PiStops`, `ButtonUp`,
`ButtonDown`) as conjuncts; `SetLedEn` is the I2C interrupt's write of the pin
the poll also writes. In `ButtonUp` the code reads the supply pin back after a
short press and switches on what is off: the result is 1 either way. `halted`
is history.

*ControlPath.* The server is a program counter (`pc`), the purpose of the bus
exchange it is in (`phase`) and the commands of that part still to come
(`todo`), beside its locals. One action is one system call and the local code
after it: `WriteScripted`, `ReadI2c`, `ReadFails`, `Accept`, `Recv`, `Process`,
`SendReply`, `Disconnected`. `Recv` takes any non-empty part of what has
arrived, and `Copied` is the copying loop with its `j` exactly as the code has
it. `Stop` is `beforeExit` taking over (or, before `signal()` was called, the
process dying), `Start` is `start_z.sh`. The firmware is `SuperIO`'s own
actions, fed by the parser. Contents of `cmd` nobody assigned are `"?"`.
A phone's call is `Invoke` … `Return`; `Crash` kills the phone during a call
with any part of its command still unsent; `Break` is the connection of a
server that exited. `AcceptFails` may happen whenever a connection is pending:
descriptors, which the server never closes, are not counted.

*SoftSerial.* `pc` is where `loop()` stands, `caller` who called
`sssPrepareToListen`. `int1`, `edge` and `timer` are the bits of the processor:
INT1 enabled, INT1 pending, Timer2's interrupt enabled. An interrupt is one
action. `loop()` is cut where an interrupt can change what it reads next:
between `sssAvailable` and `sssRead`, between the move of the tail and the read
of its cell, between the two statements of `sssStopAll` (`Serial`,
`PrepareToTalk`), and between starting the timer and counting the byte (`Fill`).
`Fill` is one action because its last store is the one the interrupt looks at;
the stores are taken in the order of the program, although
`sssNumBytesToSend` is not `volatile`. Time enters in three places: 44 idle
looks at half a bit's distance cannot fit into a byte (`IdleFound` needs an idle
line), a quiet line does give 44 of them in 10 ms (`ScanEnds`), and a match
armed by INT1 comes a bit's time later, after the rest of `sssStopAll`. A byte
is its number, `line` the byte now on the wire; a falling edge inside a byte
leaves INT1 pending. `console`, `junk`, `accepted` and `wire` are history.
`sssReady` is true from the end of `setup` on and left out.

*MjpegView.* `monitor` is that of `mSurfaceHolder`, `surfaceLock` the lock
Android's `SurfaceView` keeps from `lockCanvas` to `unlockCanvasAndPost` and
takes before it gives or withdraws the surface (external, as are `Relayout`,
`GiveSurface`, `WithdrawSurface`). `ui` is where the UI thread stands in a
callback, `at` where `run()` stands. `mRun` and `surfaceDone` are not
`volatile`; a read yields the current value. A read of a frame ends with a
frame, an `IOException`, or bytes that are no picture (`BadFrame`, which ends the
process). `SetSource` happens once, as `MainActivity` does it.

*FrameBus.* One action per access to the shared buffer; `db` is the mutex' owner,
`"waiting"` a thread in `pthread_cond_wait`, `"wakeup"` one that has been woken
and wants the mutex back; `spurious` is history, the connections whose thread
was last woken without a broadcast. A frame is its number in all three parts.
Frames the camera thread drops have none, and with them goes its pause state.

## 3. Runs

| Run | Question | Bounds | States |
|---|---|---|---|
| `parser` | Does the loop accept exactly the grammar, and read values as written? | four beginnings grown by up to 4 of 15 bytes | 217 000 |
| `superio` | Are registers in range and answers right, for any interleaving of writes and reads? | 41 commands, any number of them | 48 000 |
| `power` | Is the supply cut only with a cause, and cut after a halt? | none | 129 000 |
| `service` | Is the whole path the service `ServoService`, and a move that `setServos` claims real? | 2 phones, 2 calls each of 4, 2 pieces, 1 death | 1.7 M |
| `faults` | Do bus faults overrun `cmd`, or make `setServos` lie of the first call a server is sent? | 1 phone, 1 call of 4, 8 failed reads, 1 lost write | 3.1 M |
| `release` | Is the head at rest between sessions, off after a stop at any step, and released when the phone is gone; do served calls return? | 1 phone, 2 calls of 2, 2 pieces, 1 failed read, 1 death, 1 signal | 239 000 |
| `serial` | Is the half-duplex port a queue one way and faithful the other, and does it listen in the end? | 3 cells, 4 bytes of the Pi, 2 of the host | 896 000 |
| `viewer` | Does the drawing thread respect the surface, and the UI thread come back? | 2 sizes | 830 |
| `bus` | Are frames whole, fresh and delivered? | 2 connections, 3 frames, any spurious wake-ups | 94 000 |
| `pieces` | (violated) … is a move claimed with three pieces real? | 1 phone, 1 call, 3 pieces | – |
| `stale` | (violated) … does a call return after a phone died in mid-command? | 2 phones, 1 call, 1 death | – |
| `junk` | (violated) does the host get bytes of the Pi only? | 3 cells, 1 byte each way | – |

**Why the bounds are enough.** The parser's state is `need_flags` and the value
so far: four more bytes from each beginning pass every transition between the
five stages, and the seeds place the end of a five-digit number inside reach,
where 16 bits wrap. `superio` and `power` bound nothing but the alphabet of
commands, which holds each register's limits and one beyond. In `ControlPath`
sessions are served one after the other, so two phones show all one session
can leave to the next (`j`, `cmd`, the registers, the camera). Two pieces are
the most for which the code puts a command together correctly, and the `pieces`
run is three. Eight failed reads and the longest answer, eight bytes, fill the
sixteen bytes of `cmd` exactly. Only the first call a server is sent is claimed
in `faults` (`FirstTrueMeansMoved`), so one call of one phone is the whole of
it; a wider instance (two phones with one call each, two failed reads, a lost
write, a death) gave no other answer. `release` follows one phone through sessions
and restarts, and two of its calls are enough for one to come after the other.
Three cells hold two bytes, so that four bytes of the Pi wrap the ring, fill it
and overwrite its newest; two bytes of the host make a second one meet the first
still being sent. `viewer` bounds nothing. Three frames are enough for one to be
waited for, one to be copied and one to be written over it.
Runs of `ControlPath`, `MjpegView` and `FrameBus` are without deadlock checking:
once the bounded calls are made and nobody connects the system may rest, and a
process that has crashed or exited does. `loop()`, the firmware's interrupts and
its timer never stop, and deadlock is checked in `serial`, `superio` and `power`.

**Fairness.** `ControlPath!FairSpec`: weak fairness of the server, a process the
kernel schedules and whose bus answers; and of a phone reading the line it
waits for, or noticing a broken connection. No fairness of calls, connects,
signals or faults. `PowerButton!FairSpec`: strong fairness of the poll that
finds the 12 V there, the button up and the Pi not just stopping: `loop()` runs
for ever, and inputs come and go, but a button is not held for ever and the
supply does not stay away for ever. `SoftSerial!FairSpec`: weak fairness of
`loop()`, of the interrupts and of the end of a byte on the line; neither the Pi
nor the host has to send. `MjpegView!FairSpec`: both threads run, and one that
waits for a lock which is given back again and again gets it (strong fairness);
that a read from the network ends is `setSoTimeout(5000)` in `MainActivity`
(line 222). No fairness of the window or the source. `FrameBus!FairSpec`: strong
fairness of publishing and of copying, both behind the mutex; none of grabbing,
asking or writing to the network, which nothing times out.

**The three violations** are described under `findings`. Two are in the
collection of a command: `j = i` forgets all pieces but the last (three pieces
make another command, which the firmware accepts and acknowledges), and `j`
outlives the connection (the next phone's first command is stored behind a dead
phone's bytes and dropped without an answer). The third is in `loop()`: the -1
of `sssAvailable` counts as bytes, so that every byte the host sends is answered
by a run of 0xFF until it is on the wire.

**What the models show beside.** `sssPrepareToListen` goes on with its 10 ms
after it began to listen and clears the buffer again at the next idle period: a
byte heard in between is lost (a `Flush` of `ReceiveQueue`). A surface withdrawn
between `surfaceDone` and `lockCanvas` gives a null canvas, and the frame drawn
on it ends the viewer (`NullCanvasOnlyThen` says that only this window does). A
surface that comes back finds the drawing thread ended: `Plays` speaks of a run
that was not stopped.

## 4. Proofs

`CommandParserProofs` proves both properties of the `parser` run for commands
of every length, over any bytes that hold those of the grammar
(`GrowthAssumption` says that the seeds are commands over them):

- `AcceptsGrammar`, `ValuesDecimal`: the invariant is `Relates`: what the loop
  knows after a prefix of the command (`need_flags`, the parts seen, the start
  of the value) is what the grammar says of that prefix. One more byte keeps it
  (`RelatesGrows`, by the five stages), and `LoopRelates` carries it along the
  command.
- `ToIntIsDecimal`: cutting to 16 bits after every digit, as `toInt` does, gives
  the whole decimal value cut once (`Int16Horner`).
- `ParseTyped`: whatever the bytes, the result is one that `SuperIO` is built to
  take (`ParsedAssumption`).

The induction is over the length of a command. `SetInduction` states it for a
*set* of numbers, which can be instantiated where an operator cannot, and
follows from the library's `WFMin` on well-founded relations.
`RecursionExists` says that the recursive functions the model uses do satisfy
their equations.

`SuperIOProofs` proves, for all pulse limits allowed by `PulseAssumption` and
every set of parse results allowed by `ParsedAssumption`, the five properties
of the `superio` run:

- `TypeCorrect`, `RangeSafety`: by cases over the five registers; what
  `Accepts` lets through is in range (`AcceptedInRange`), and so is a half-done
  `SetBothAxes`.
- `ProgressAgreement`, `ReplyCorrect`: `ReplyIsOwed` alone is not inductive.
  Which byte is written next depends on `i2c_ret` and `get_bytes_c`, which byte
  is owed on how many were sent; `ProgressAgrees` says the three agree. The
  inductive invariant is `IInv == TypeOK /\ RegistersInRange /\ ProgressAgrees
  /\ ReplyIsOwed`; a write of the master starts it afresh
  (`ReceiveStartsAnswer`), a read keeps it (`HeaderStep`, `DigitStep`,
  `ResultStep`, `EndStep`).
- `RefusalBounded`: an action property, from `TypeOK` and the cases of
  `ReceiveI2c`.

`PowerButtonProofs` proves the four safety properties of the `power` run for
any inputs: `SupplyAgrees` and `DriverOnAsAsked` are inductive beside `TypeOK`,
and `SupplyCause` follows from them (a supply that a raised button takes away is
one `master_en` had already given up, so the Pi has halted).

`SoftSerialProofs` proves, for every buffer size above one and any number of
bytes, `ListenOrTalk`, `NotDeaf` and `SendsWhatItTakes`. They are inductive with
`LoopKnows` (what `loop()` has seen and only `loop()` can change: past the guard
of `sssWrite` nothing is being sent) and `TimerKnows` (the timer's function is
`GetBits` just when the port listens, and a byte half way out stands in cell 0).
`OrderInv` adds the order: the cells in use, told by their distance
from the tail (`Off`), hold bytes of the Pi in rising order, all later than what
the host has and none later than the last byte that was whole (`Newest`); the
byte on the line is always the newest. `HostGetsPiBytes` is part of it.
`Refinement` is `Spec => ImplementsQueue`: after the
remainders are taken out of the index arithmetic (`Remainder`, `HeardIs`), each
action is compared with the queue: `sssRead`'s move of the tail is `Take`
(`ReadTakes`), the eighth bit is `Arrive` (`StoreArrives`, with the full ring a
case of its own), starting or stopping to listen is `Flush`
(`ListeningFlushes`), all else stutters. That the interrupt never stores into
the cell `loop()` is about to read is the step of `StoreArrives` that says the
new head is not the tail.
`TypeCorrect` is the run's `TypeOK`, by the same invariants: a head or a tail
beyond the ring would be a byte off the buffer.

`MjpegViewProofs` proves `OffDeadSurface`, `NullCanvasOnlyThen` and `WholeSizes`;
its invariant says which positions of which thread hold which lock, how
`surfaceDone` lags behind the surface, and that the two halves of a size differ
only inside `setSurfaceSize`.
`FrameBusProofs` proves `WholeFrames` and `FreshFrames` for any number of
connections and frames: whoever is inside the mutex has it alone, the buffer is one frame
unless the camera thread is at it, and a thread woken by a broadcast will find a
frame newer than the one it sent last.

`ControlPathProofs` is about the composition, for any phones, pieces, crashes,
lost writes and stops. It assumes of the constants what the code has:
`PulseAssumption` (a pulse has at most four digits), `CallsAssumption` (the calls
are those of `ZClientService`, positions of up to four digits) and
`BoundsAssumption` (at most eight failed reads, counted over the whole run,
which is more than "in one exchange", all that `cmd` asks for). The theorems of
`SuperIOProofs` and `CommandParserProofs` are used by `INSTANCE`: the firmware
inside the path is the same module, and `SameReceive`, `SameParse` say so.

- `RestProof`, `StopProof`: `RestsBetweenSessions`, which speaks of a server in
  `accept` and of one that a failing `accept` ended after a session, and
  `OffAfterStop`, which speaks of signals from the first `accept` on (before it
  the process may die at the signal, with no handler yet), as long as no bus write has been lost (`lostWrites = 0`); with one they do not hold, and
  the runs `service` and `release` have none either. Neither is inductive:
  `Resting` says which commands of the server's script are still in `todo`, and
  that the others hold in their registers; `Where` that the server writes a
  client's command only in phase `serve`, and reaches `accept` only with
  nothing left to write, and `exited` too if it has begun a session's end or the
  handler. That a command has its effect is computed, not
  assumed: `ParsesShort` follows the byte loop over the bytes of the commands,
  and `CarriedOut` the dispatch.
- `MoveParsed`: what `setServos(x, y)` puts on the wire is parsed to x and y,
  for every pair of positions of up to four digits: `Integer.toString`
  (`Decimal`, `Places`), the bytes, the byte loop, `toInt`.
- `TypeCorrect`: the run's `TypeOK`, and with it that no write leaves the sixteen
  bytes of `cmd`. The invariant is `Typed`. `Reading` bounds the index of the
  read loop by the bytes the firmware still owes: an answer has at most eight
  bytes with its NUL (`OwedNul`), each read moves the index by one, each failed
  read by one more, and the loop ends at the NUL. With a ninth failed read in
  one exchange the theorem is false, in the model and in the code. `Wires` and
  `Sockets` say that a command on its way has a NUL among any thirteen bytes
  that follow, so that the copying loop leaves `cmd` only by it.
- `RangesKept`, `AnswersOwed`: the firmware's own invariants hold under
  everything the server and the phones do to it, bytes of half a command
  included.

`ServiceProofs` proves two properties of whole calls, from phone to servo and
back, for any phones, calls, deaths of phones and lost writes:

- `Refinement`: `Spec => ImplementsService` if no read fails (`MaxNacks = 0`)
  and `MaxPieces <= 2`, whatever the number of stops. The step of `z_server` in which
  `Process` writes the command is the service's `Read`, `Move`, `Switch` or
  `Refuse` (`ProcessServes`); `Invoke` and `Return` are their namesakes, `Crash`
  and `Break` are `Lose`, all else stutters (`StepServes`).
- `TrueProof`: `Spec => TrueMeansMoved` if `MaxPieces <= 2`, for any number of
  stops and of failed reads that `BoundsAssumption` admits: the property itself
  speaks of the time before the first of either.

The invariant is `SInv`, beside `Typed` and `Inv`, and its parts follow one
command. `Links`: to a phone that has called nothing comes but the one line its
call is owed. `Queue`: nothing of a phone in the backlog has been read.
`Collecting`: while the server is in `recv`, `cmd` holds the first `j` bytes of
the command and the rest is under way (`Clean`), or what is left comes to a text
the firmware refuses or to none (`Spoiled`): the tail of a command whose
beginning the server has dropped starts with no G and no S. `Serving`: from the
end of the command to the reply, the phone waits and nothing of it is under way;
`Ready` says of the text in `cmd`, `Done` of the answer owed, and `Came` of the
answer in `cmd`, that it is the one of this call. `Exchange` says that the
server has read the whole answer when it is not reading. `FirstPiece` and `RecvHands`
compute where the copying loop puts the pieces, `ProcessResult` what the firmware
makes of the text, `AnswerBytes` and `DigitsParsed` what `parseInt` makes of the
line. `TrueProof` adds `Standing`: the server is still with the phone it has
carried a call out for and not told so, and the head has not moved since.
`SInv` is an invariant as long as `nacks = 0` (`SoFar`), `Standing` as long as
`stops = 0` too (`Undisturbed`); neither count ever falls (`CountsGrow`).

The three conditions are limits of the code, not of the proof. When a piece
ends before its command, `z_server` sets `j` to the length of that piece, not to
the place it ended at: right after the first piece, wrong after the second, so a
third is put where it does not belong (the run `pieces`). A failed read leaves a
hole in the answer (below). A stopped server leaves the line it wrote on its way
to the phone, and the next server may move the head for another phone before the
line is read. TLC checked the parts of `SInv` before they were proved, on two
phones with one call each, a death and a lost write (there `Standing` too), and
on one phone with two calls, a death, a lost write and a stop.

*Only model-checked:* liveness (`ServedCallReturns`, `HeadReleased`,
`HaltCutsSupply`, `SendCompletes`, `ListensInTheEnd`, `UIComesBack`, `Plays`,
`CameraGoesOn`, `WaitersAreServed`), which is out of the prover's reach, and
`FirstTrueMeansMoved`, what is left of `TrueMeansMoved` when reads fail.

Why `TrueMeansMoved` ends with the first failed read. A read that fails in the
middle of a Get's answer leaves a hole in `cmd`, and the hole keeps the byte an
earlier answer left there: when that is the LF, one answer goes out as two
lines, and every later call of that phone reads its predecessor's answer. With
four calls and one failed read `setServos` then claims a move that did not
happen. The first call of a phone is not safe either if the phone before it died
in mid-command: `j` is left at 1, the command is stored behind the `T` of a
greeting's answer and refused, and when the read of the refusal's first byte
fails the `T` is what goes out. The first call a server is sent has nothing
before it to be confused with, and that is what `FirstTrueMeansMoved` says and
the run `faults` checks.

## 5. Not modelled

- The vendored code that makes up nearly all of the repository: the Wi-Fi stack
  `wpa_supplicant_hostapd-*`, and of `mjpg-streamer-experimental` everything but
  its frame bus. The project neither changes it nor calls it; a model of it
  would say nothing of ProjZ. The share of the repository's lines that is
  modelled is therefore small, while of the project's own code every component
  with state of its own is in, except the activities of the viewer.
- `MainActivity`, `InitActivity`: touch events computing servo positions for a
  `z_service` that nothing assigns (its `onBackPressed` would call `close` on
  null).
- Contents of `cmd` beyond its end after more than eight failed reads in one
  exchange, and the effect of `itoa`'s terminator: undefined in C.
- A phone that vanishes without closing its connection: the server waits on it
  for ever, by its design.
- Refinement under failed reads, liveness under any bus fault: a failed read
  leaves a hole in `cmd`, so `getServo` may return a wrong number; a lost write of
  a Get is never answered. The code promises nothing there; under failed reads only
  `FirstTrueMeansMoved`, `TypeOK`, and the rest and release properties are
  checked.
- `HeadReleased` and the rest properties under lost bus writes: a lost `SSE0`
  leaves the servos on until the next exchange that switches them, by the code's
  indifference to `write`'s result.
- `charAt(0)` of an empty line in `setServos`, an exception in the caller's
  thread: `Return` has it as a failed call. No run meets an empty line.
- The SIGINT shutdown of `mjpg_streamer`, which destroys a mutex others use:
  `z_server` ends it with SIGTERM, which it does not handle. Its accept loop,
  where two sockets ready at once share one `pcfd`.
- Noise on the serial line and bytes sampled wrongly, among them a byte whose
  start bit comes between a look of `sssPrepareToListen` at the line of a port
  that listens already (line 727) and the stores that enable INT1 again (733 to
  742): `IdleFound` is one action. `sssEnd` and the
  `sssWrite` of an array, which nothing calls.
- The search for a frame's markers in `MjpegInputStream`; the overlay.
- The status LED's meaning; `usleep`; what `printf` shows.

## 6. Plan

Done: all modules above and their theorems. Left, in this order:

1. `SuperIO` and `PowerButton` composed over the light's pin.
2. The accept loop and the SIGINT shutdown of `mjpg_streamer` in `FrameBus`.
