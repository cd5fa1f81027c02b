------------------------------ MODULE SoftSerial ------------------------------
(****************************************************************************)
(* The software serial port of the SuperIO microcontroller and the loop     *)
(* that passes bytes between it and the hardware port (loop and sss* in     *)
(* src/arduino-code/atmega_com.ino).  On the far side of the software port  *)
(* is the Raspberry Pi's console, on the far side of the hardware port a    *)
(* host.                                                                    *)
(*                                                                          *)
(* Three things run: loop(), the interrupt of a falling edge on the Rx pin  *)
(* (INT1) and the interrupt of the bit timer (Timer2), which calls one of   *)
(* three functions.  An interrupt is one action; loop() is cut wherever an  *)
(* interrupt can change what it reads next.                                 *)
(*                                                                          *)
(* A byte of the Pi is its number, a byte of the host its number negated,   *)
(* and 0 a cell nobody wrote.                                               *)
(****************************************************************************)
EXTENDS Integers, Sequences

CONSTANTS
  BufSize,   \* sssBufSize: 32 in the code
  MaxPi,     \* bound: bytes the Pi sends
  MaxHost    \* bound: bytes the host sends

ASSUME SerialAssumption ==
  /\ BufSize \in Nat /\ BufSize > 1
  /\ MaxPi \in Nat
  /\ MaxHost \in Nat

VARIABLES
  \* the port
  sssBuffer, sssBufHead, sssBufTail,
  sssIsListening, sssNumBytesToSend, sssBufferPos, sssNextByteToSend,
  sssBitCount,     \* bits of the byte being received
  sssBitPos,       \* position in the byte being sent
  sssTimerFunctionP,
  \* the processor: INT1 enabled, INT1 pending, Timer2's interrupt enabled
  int1, edge, timer,
  \* loop()
  pc,              \* see Loop
  caller,          \* who called sssPrepareToListen: setup, sssAvailable, sssRead
  c,               \* the byte sssWrite was given
  \* the lines
  line,            \* the Pi's byte now on the Rx line, or 0
  heard,           \* the line was busy since sssPrepareToListen began
  piBytes, hostBytes,  \* how many the Pi and the host have sent
  \* history
  console,         \* bytes of sssBuffer written to the host
  junk,            \* a -1 of sssRead was written to the host
  accepted, wire   \* bytes sssWrite took, and bytes that went to the Pi

port == <<sssBuffer, sssBufHead, sssBufTail, sssBufferPos, sssNextByteToSend>>
bits == <<sssBitCount, sssBitPos>>
mode == <<sssIsListening, sssTimerFunctionP, int1, timer>>
lines == <<line, heard, piBytes>>
history == <<console, junk, accepted, wire>>
vars == <<port, bits, mode, sssNumBytesToSend, edge, pc, caller, c, lines,
          hostBytes, history>>

Cells == 0..(BufSize - 1)
Bytes == (-MaxHost)..MaxPi

Up(k) == (k + 1) % BufSize

----------------------------------------------------------------------------
(* loop(): the Pi to the host.                                              *)

\* Faulty: sssAvailable does not care whether a byte is being sent.
AvailableWhileSending ==
  /\ pc = "available"
  /\ IF ~sssIsListening
     THEN pc' = "prepare" /\ caller' = "available"
     ELSE /\ pc' = IF sssBufHead = sssBufTail THEN "serial" ELSE "read"
          /\ UNCHANGED caller
  /\ UNCHANGED <<port, bits, mode, sssNumBytesToSend, edge, c, lines, hostBytes,
                 history>>

\* Faulty: it counts the bytes of a port that is not listening.
AvailableDeaf ==
  /\ pc = "available"
  /\ pc' = IF sssNumBytesToSend = 0 /\ sssBufHead = sssBufTail
           THEN "serial" ELSE "read"
  /\ UNCHANGED <<port, bits, mode, sssNumBytesToSend, edge, caller, c, lines,
                 hostBytes, history>>

\* sssAvailable.  Its -1 while a byte is being sent is not zero, so loop()
\* goes on to sssRead as it does when there are bytes.
Available ==
  /\ pc = "available"
  /\ IF sssNumBytesToSend = 0 /\ ~sssIsListening
     THEN pc' = "prepare" /\ caller' = "available"
     ELSE /\ pc' = IF sssNumBytesToSend = 0 /\ sssBufHead = sssBufTail
                   THEN "serial" ELSE "read"
          /\ UNCHANGED caller
  /\ UNCHANGED <<port, bits, mode, sssNumBytesToSend, edge, c, lines, hostBytes,
                 history>>

\* What loop() does with a -1: the host gets it as a byte.
ForwardJunk ==
  /\ junk' = TRUE
  /\ pc' = "serial"

\* sssRead, up to the step to the next cell ...
Read ==
  /\ pc = "read"
  /\ IF sssNumBytesToSend > 0 \/ (sssIsListening /\ sssBufTail = sssBufHead)
     THEN ForwardJunk /\ UNCHANGED <<sssBufTail, caller>>
     ELSE /\ IF sssIsListening
             THEN pc' = "fetch" /\ sssBufTail' = Up(sssBufTail) /\ UNCHANGED caller
             ELSE pc' = "prepare" /\ caller' = "read" /\ UNCHANGED sssBufTail
          /\ UNCHANGED junk
  /\ UNCHANGED <<sssBuffer, sssBufHead, sssBufferPos, sssNextByteToSend, bits, mode,
                 sssNumBytesToSend, edge, c, lines, hostBytes, console, accepted,
                 wire>>

\* ... and the read of that cell; Serial.write.
Fetch ==
  /\ pc = "fetch"
  /\ console' = Append(console, sssBuffer[sssBufTail])
  /\ pc' = "serial"
  /\ UNCHANGED <<port, bits, mode, sssNumBytesToSend, edge, caller, c, lines,
                 hostBytes, junk, accepted, wire>>

\* sssPrepareToListen: sssStopAll, and for 10 ms a look at the line every half
\* bit.  It is not listening, so INT1 is off already.
Prepare ==
  /\ pc = "prepare"
  /\ timer' = FALSE
  /\ int1' = FALSE
  /\ sssIsListening' = FALSE
  /\ heard' = (line # 0)
  /\ pc' = "scan"
  /\ UNCHANGED <<port, bits, sssTimerFunctionP, sssNumBytesToSend, edge, caller, c,
                 line, piBytes, hostBytes, history>>

\* Faulty: listening starts with whatever is in the buffer.
IdleKeepsBuffer ==
  /\ pc = "scan"
  /\ line = 0
  /\ edge' = FALSE
  /\ int1' = TRUE
  /\ sssTimerFunctionP' = "GetBits"
  /\ sssIsListening' = TRUE
  /\ UNCHANGED <<port, bits, timer, sssNumBytesToSend, pc, caller, c, lines,
                 hostBytes, history>>

\* 44 looks at an idle line in a row, more than two bytes' time.  The loop goes
\* on to the end of its 10 ms, so this may happen again after a byte was heard.
\* One action: that a byte begins between the last look and the stores of a port
\* that listens already is left out, and with it the byte's wrong sampling.
IdleFound ==
  /\ pc = "scan"
  /\ line = 0
  /\ sssBufHead' = 0
  /\ sssBufTail' = 0
  /\ edge' = FALSE
  /\ int1' = TRUE
  /\ sssTimerFunctionP' = "GetBits"
  /\ sssIsListening' = TRUE
  /\ UNCHANGED <<sssBuffer, sssBufferPos, sssNextByteToSend, bits, timer,
                 sssNumBytesToSend, pc, caller, c, lines, hostBytes, history>>

\* The 10 ms are over.  On a line that was quiet all the time 44 idle looks
\* have been found.  Having failed, sssAvailable and sssRead return -1.
ScanEnds ==
  /\ pc = "scan"
  /\ sssIsListening \/ heard
  /\ IF caller = "read" /\ ~sssIsListening
     THEN ForwardJunk
     ELSE /\ pc' = IF caller = "setup" \/ (caller = "available" /\ sssIsListening)
                   THEN "available" ELSE "read"
          /\ UNCHANGED junk
  /\ UNCHANGED <<port, bits, mode, sssNumBytesToSend, edge, caller, c, lines,
                 hostBytes, console, accepted, wire>>

----------------------------------------------------------------------------
(* loop(): the host to the Pi.                                              *)

\* Serial.read and sssWrite's guard: a byte that comes while another is being
\* sent is lost.  Then the first statement of sssStopAll.
Serial ==
  /\ pc = "serial"
  /\ \/ pc' = "available" /\ UNCHANGED <<hostBytes, c, timer>>
     \/ /\ hostBytes < MaxHost
        /\ hostBytes' = hostBytes + 1
        /\ IF sssNumBytesToSend > 0
           THEN pc' = "available" /\ UNCHANGED <<c, timer>>
           ELSE pc' = "stop" /\ c' = -hostBytes' /\ timer' = FALSE
  /\ UNCHANGED <<port, bits, sssIsListening, sssTimerFunctionP, int1,
                 sssNumBytesToSend, edge, caller, lines, history>>

\* Faulty: the byte to send is counted before it is in the buffer.
PrepareToTalkEarly ==
  /\ pc = "stop"
  /\ int1' = FALSE
  /\ sssIsListening' = FALSE
  /\ sssTimerFunctionP' = "SendNextByte"
  /\ timer' = TRUE
  /\ sssNumBytesToSend' = 1
  /\ pc' = "fill"
  /\ UNCHANGED <<port, bits, edge, caller, c, lines, hostBytes, history>>

\* The rest of sssStopAll and of sssPrepareToTalk.
PrepareToTalk ==
  /\ pc = "stop"
  /\ int1' = FALSE
  /\ sssIsListening' = FALSE
  /\ sssTimerFunctionP' = "SendNextByte"
  /\ timer' = TRUE
  /\ pc' = "fill"
  /\ UNCHANGED <<port, bits, sssNumBytesToSend, edge, caller, c, lines, hostBytes,
                 history>>

\* The rest of sssWrite.
Fill ==
  /\ pc = "fill"
  /\ sssBuffer' = [sssBuffer EXCEPT ![0] = c]
  /\ sssBufferPos' = 0
  /\ sssNumBytesToSend' = 1
  /\ accepted' = Append(accepted, c)
  /\ pc' = "available"
  /\ UNCHANGED <<sssBufHead, sssBufTail, sssNextByteToSend, bits, mode, edge, caller,
                 c, lines, hostBytes, console, junk, wire>>

Loop ==
  \/ Available \/ Read \/ Fetch \/ Prepare \/ IdleFound \/ ScanEnds
  \/ Serial \/ PrepareToTalk \/ Fill

----------------------------------------------------------------------------
(* The interrupts.                                                          *)

\* A start bit.  The processor clears the pending bit as it enters.
INT1_vect ==
  /\ int1
  /\ edge
  /\ edge' = FALSE
  /\ int1' = FALSE
  /\ timer' = TRUE
  /\ sssBitCount' = 0
  /\ UNCHANGED <<port, sssBitPos, sssIsListening, sssTimerFunctionP,
                 sssNumBytesToSend, pc, caller, c, lines, hostBytes, history>>

\* The timer's interrupt calls f.  A match armed by INT1 in the middle of
\* sssStopAll is a bit's time away, long after the statements left of it.
TIMER2_COMPA_vect(f) ==
  /\ timer
  /\ sssTimerFunctionP = f
  /\ pc # "stop"

\* Faulty: a full buffer is not noticed.
StoreOverTail(b) ==
  /\ sssBufHead' = Up(sssBufHead)
  /\ sssBuffer' = [sssBuffer EXCEPT ![sssBufHead'] = b]

\* A byte is whole: the head moves on unless it would meet the tail, and the
\* byte goes where the head then is.
Store(b) ==
  /\ sssBufHead' = IF Up(sssBufHead) # sssBufTail THEN Up(sssBufHead) ELSE sssBufHead
  /\ sssBuffer' = [sssBuffer EXCEPT ![sssBufHead'] = b]

\* Faulty: the start bit of the next byte is not waited for.
StopBitDeaf ==
  /\ timer' = FALSE
  /\ edge' = FALSE
  /\ line' = 0
  /\ UNCHANGED int1

\* Faulty: the sampling of bits goes on.
StopBitTimerOn ==
  /\ edge' = FALSE
  /\ int1' = TRUE
  /\ line' = 0
  /\ UNCHANGED timer

\* The stop bit: no more samples, and INT1 waits for the next start bit.
StopBit ==
  /\ timer' = FALSE
  /\ edge' = FALSE
  /\ int1' = TRUE
  /\ line' = 0

\* A sample of the line.  The bits before may hold falling edges, which leave
\* INT1 pending.
GetBits ==
  /\ TIMER2_COMPA_vect("GetBits")
  /\ IF sssBitCount = 8
     THEN StopBit
     ELSE edge' \in {edge, TRUE} /\ UNCHANGED <<timer, int1, line>>
  /\ IF sssBitCount = 7
     THEN Store(line)
     ELSE UNCHANGED <<sssBufHead, sssBuffer>>
  /\ sssBitCount' = sssBitCount + 1
  /\ UNCHANGED <<sssBufTail, sssBufferPos, sssNextByteToSend, sssBitPos,
                 sssIsListening, sssTimerFunctionP, sssNumBytesToSend, pc, caller, c,
                 heard, piBytes, hostBytes, history>>

\* Faulty: the timer goes on calling this function.
SendNextByteStays ==
  /\ TIMER2_COMPA_vect("SendNextByte")
  /\ sssNumBytesToSend > 0
  /\ sssNextByteToSend' = sssBuffer[sssBufferPos]
  /\ sssBitPos' = 0
  /\ UNCHANGED <<sssBuffer, sssBufHead, sssBufTail, sssBufferPos, sssBitCount, mode,
                 sssNumBytesToSend, edge, pc, caller, c, lines, hostBytes, history>>

\* The line is idle; the function after this one shifts the byte out.
SendNextByte ==
  /\ TIMER2_COMPA_vect("SendNextByte")
  /\ sssNumBytesToSend > 0
  /\ sssNextByteToSend' = sssBuffer[sssBufferPos]
  /\ sssBitPos' = 0
  /\ sssTimerFunctionP' = "SendBits"
  /\ UNCHANGED <<sssBuffer, sssBufHead, sssBufTail, sssBufferPos, sssBitCount,
                 sssIsListening, int1, timer, sssNumBytesToSend, edge, pc, caller, c,
                 lines, hostBytes, history>>

\* Start bit, data bits, and at the stop bit the end of the byte.
SendBits ==
  /\ TIMER2_COMPA_vect("SendBits")
  /\ IF sssBitPos = 9
     THEN /\ sssTimerFunctionP' = "SendNextByte"
          /\ sssBufferPos' = sssBufferPos + 1
          /\ sssNumBytesToSend' = sssNumBytesToSend - 1
          /\ wire' = Append(wire, sssNextByteToSend)
          /\ UNCHANGED sssBitPos
     ELSE /\ sssBitPos' = sssBitPos + 1
          /\ UNCHANGED <<sssTimerFunctionP, sssBufferPos, sssNumBytesToSend, wire>>
  /\ UNCHANGED <<sssBuffer, sssBufHead, sssBufTail, sssNextByteToSend, sssBitCount,
                 sssIsListening, int1, timer, edge, pc, caller, c, lines, hostBytes,
                 console, junk, accepted>>

Interrupt == INT1_vect \/ GetBits \/ SendNextByte \/ SendBits

----------------------------------------------------------------------------
(* The Pi.                                                                  *)

\* A start bit on an idle line.
PiSends ==
  /\ line = 0
  /\ piBytes < MaxPi
  /\ piBytes' = piBytes + 1
  /\ line' = piBytes'
  /\ edge' = TRUE
  /\ heard' = TRUE
  /\ UNCHANGED <<port, bits, mode, sssNumBytesToSend, pc, caller, c, hostBytes,
                 history>>

\* A byte nobody listens to passes.
Unheard ==
  /\ line # 0
  /\ ~(int1 /\ edge)
  /\ ~(timer /\ sssTimerFunctionP = "GetBits")
  /\ line' = 0
  /\ UNCHANGED <<port, bits, mode, sssNumBytesToSend, edge, pc, caller, c, heard,
                 piBytes, hostBytes, history>>

----------------------------------------------------------------------------
\* sssBegin, called by setup: it is about to listen.
Init ==
  /\ sssBuffer = [k \in Cells |-> 0] /\ sssBufHead = 0 /\ sssBufTail = 0
  /\ sssIsListening = FALSE /\ sssNumBytesToSend = 0 /\ sssBufferPos = 0
  /\ sssNextByteToSend = 0 /\ sssBitCount = 0 /\ sssBitPos = 0
  /\ sssTimerFunctionP = "none" /\ int1 = FALSE /\ edge = FALSE /\ timer = FALSE
  /\ pc = "prepare" /\ caller = "setup" /\ c = 0
  /\ line = 0 /\ heard = FALSE /\ piBytes = 0 /\ hostBytes = 0
  /\ console = <<>> /\ junk = FALSE /\ accepted = <<>> /\ wire = <<>>

Next == Loop \/ Interrupt \/ PiSends \/ Unheard

Spec == Init /\ [][Next]_vars

\* loop() runs, interrupts are served, a byte on the line passes.  Neither the
\* Pi nor the host has to send.
FairSpec == Spec /\ WF_vars(Loop) /\ WF_vars(Interrupt) /\ WF_vars(Unheard)

----------------------------------------------------------------------------
(* Properties.                                                              *)

TypeOK ==
  /\ sssBuffer \in [Cells -> Bytes]
  /\ sssBufHead \in Cells /\ sssBufTail \in Cells
  /\ sssNumBytesToSend \in 0..1 /\ sssBufferPos \in 0..1
  /\ sssNextByteToSend \in Bytes /\ c \in Bytes
  /\ sssBitCount \in 0..9 /\ sssBitPos \in 0..9
  /\ sssTimerFunctionP \in {"none", "GetBits", "SendNextByte", "SendBits"}
  /\ {sssIsListening, int1, edge, timer, heard, junk} \subseteq BOOLEAN
  /\ pc \in {"available", "prepare", "scan", "read", "fetch", "serial", "stop",
             "fill"}
  /\ caller \in {"setup", "available", "read"}
  /\ piBytes \in 0..MaxPi /\ line \in 0..piBytes /\ hostBytes \in 0..MaxHost
  /\ console \in Seq(Bytes) /\ accepted \in Seq(Bytes) /\ wire \in Seq(Bytes)

\* "it can only Listen or Talk - not both at the same time" (atmega_com.ino,
\* line 481): while it listens nothing is to be sent, no byte is half way out,
\* and INT1 is off while it talks.
ListenOrTalk ==
  /\ sssIsListening => sssNumBytesToSend = 0 /\ sssTimerFunctionP = "GetBits"
  /\ int1 => sssIsListening

\* A port that says it listens can hear: it waits for a start bit or is taking
\* the bits of a byte.  Else it would be deaf until the next sssWrite.
NotDeaf ==
  sssIsListening /\ pc # "stop" => int1 \/ timer

\* Every byte sssWrite takes goes out once, whole and in its turn: what is not
\* on the wire yet is the one byte in cell 0 (sssWrite, sssSendBitsISR).
SendsWhatItTakes ==
  accepted = IF sssNumBytesToSend = 0 THEN wire ELSE Append(wire, sssBuffer[0])

\* Apart from the -1s, the host gets bytes the Pi has sent, in the order it
\* sent them, none twice and never one of its own, although both directions use
\* one buffer.
HostGetsPiBytes ==
  \A k \in DOMAIN console :
    /\ console[k] \in 1..piBytes
    /\ k > 1 => console[k - 1] < console[k]

\* What has been heard while the port listens: the cells behind the tail up to
\* the head.
Heard ==
  [k \in 1..(IF sssIsListening THEN (sssBufHead - sssBufTail) % BufSize ELSE 0) |->
     sssBuffer[(sssBufTail + k) % BufSize]]

\* What loop() has taken: once sssRead has moved the tail the cell is its own.
Taken == IF pc = "fetch" THEN Append(console, sssBuffer[sssBufTail]) ELSE console

Receive == INSTANCE ReceiveQueue WITH
  Capacity <- BufSize - 1,
  content <- Heard,
  taken <- Taken

\* The ring of cells under the interrupt that fills it is a queue, also while
\* sssRead has moved the tail and not read its cell yet.
ImplementsQueue == Receive!Spec

\* A byte taken by sssWrite goes out.
SendCompletes == (sssNumBytesToSend > 0) ~> (sssNumBytesToSend = 0)

\* Once the Pi and the host are quiet the port listens for good, whatever it
\* was doing.
ListensInTheEnd == <>[]sssIsListening

\* "sssRead() returns next byte or -1 if buffer is empty", "sssAvailable()
\* returns number of bytes in buffer" (atmega_com.ino, lines 489 and 490):
\* a loop that reads only if there are bytes would pass on nothing else.
NoJunk == ~junk
=============================================================================
