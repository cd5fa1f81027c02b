---------------------------- MODULE SoftSerialProofs ----------------------------
(****************************************************************************)
(* Proofs of the safety properties of SoftSerial, for a buffer of any size  *)
(* and any number of bytes.                                                 *)
(*                                                                          *)
(* First part: ListenOrTalk, NotDeaf and SendsWhatItTakes are inductive     *)
(* together with what loop() knows of the port where it stands, and what    *)
(* the timer's function says of the byte under way.  Second part: the host  *)
(* gets the bytes of the Pi in their order.  Third part: type correctness.  *)
(* Last part: the ring of cells, filled by an interrupt and emptied by      *)
(* loop(), is a queue (ReceiveQueue); taking the remainders away leaves,    *)
(* for every action, a comparison of two sequences.                         *)
(****************************************************************************)
EXTENDS SoftSerial, SequenceTheorems, TLAPS

\* The numbers and flags the argument is about.
PortTyped ==
  /\ sssBuffer \in [Cells -> Bytes]
  /\ sssNumBytesToSend \in 0..1 /\ sssBufferPos \in 0..1
  /\ sssBitCount \in 0..9
  /\ sssTimerFunctionP \in {"none", "GetBits", "SendNextByte", "SendBits"}
  /\ sssIsListening \in BOOLEAN /\ int1 \in BOOLEAN /\ timer \in BOOLEAN
  /\ piBytes \in 0..MaxPi /\ line \in 0..MaxPi /\ hostBytes \in 0..MaxHost
  /\ c \in Bytes

\* loop() is past a look at the port that only loop() can make stale.
LoopKnows ==
  /\ pc \in {"prepare", "scan", "fetch", "stop", "fill"} => sssNumBytesToSend = 0
  /\ pc \in {"prepare", "fill"} => ~sssIsListening
  /\ pc = "fetch" => sssIsListening
  /\ pc = "scan" /\ ~sssIsListening => ~timer
  /\ pc = "fill" => sssTimerFunctionP = "SendNextByte" /\ timer

\* The timer's function is GetBits just when the port listens, and a byte to be
\* sent has the timer, stands in cell 0 and is the one being shifted out.
TimerKnows ==
  /\ sssTimerFunctionP = "GetBits" <=> sssIsListening
  /\ sssTimerFunctionP = "SendBits" => /\ sssNumBytesToSend = 1
                                       /\ sssNextByteToSend = sssBuffer[0]
  /\ sssNumBytesToSend = 1 => sssBufferPos = 0
  /\ sssIsListening /\ timer => sssBitCount <= 8

IInv ==
  /\ PortTyped
  /\ LoopKnows
  /\ TimerKnows
  /\ ListenOrTalk
  /\ NotDeaf
  /\ SendsWhatItTakes

\* sssBegin sets the port up as the invariant has it.
LEMMA InitHolds == Init => IInv
<1> SUFFICES ASSUME Init PROVE IInv
  OBVIOUS
<1>1. PortTyped
  <2>1. 0 \in Bytes
    BY SerialAssumption DEF Bytes
  <2>2. /\ sssIsListening \in BOOLEAN /\ int1 \in BOOLEAN /\ timer \in BOOLEAN
        /\ sssBuffer \in [Cells -> Bytes]
    BY <2>1 DEF Init
  <2> QED
    BY <2>1, <2>2, SerialAssumption DEF Init, PortTyped
<1>2. LoopKnows /\ TimerKnows /\ ListenOrTalk /\ NotDeaf
  BY DEF Init, LoopKnows, TimerKnows, ListenOrTalk, NotDeaf
<1>3. SendsWhatItTakes
  BY DEF Init, SendsWhatItTakes
<1> QED
  BY <1>1, <1>2, <1>3 DEF IInv

\* Every step keeps the port's numbers and flags in their types.
LEMMA TypeStep ==
  ASSUME IInv, Next
  PROVE  PortTyped'
<1> USE SerialAssumption DEF IInv, PortTyped, LoopKnows, TimerKnows, ListenOrTalk,
            Cells, Bytes, port, bits, mode, lines, history
<1>1. CASE Available
  BY <1>1 DEF Available
<1>2. CASE Read
  BY <1>2 DEF Read, ForwardJunk
<1>3. CASE Fetch
  BY <1>3 DEF Fetch
<1>4. CASE Prepare
  BY <1>4 DEF Prepare
<1>5. CASE IdleFound
  BY <1>5 DEF IdleFound
<1>6. CASE ScanEnds
  BY <1>6 DEF ScanEnds, ForwardJunk
<1>7. CASE Serial
  <2>1. hostBytes' \in 0..MaxHost /\ c' \in Bytes
    BY <1>7 DEF Serial
  <2>2. timer' \in BOOLEAN
    BY <1>7 DEF Serial
  <2> QED
    BY <1>7, <2>1, <2>2 DEF Serial
<1>8. CASE PrepareToTalk
  BY <1>8 DEF PrepareToTalk
<1>9. CASE Fill
  BY <1>9 DEF Fill
<1>10. CASE INT1_vect
  <2>1. int1' \in BOOLEAN /\ timer' \in BOOLEAN
    BY <1>10 DEF INT1_vect
  <2> QED
    BY <1>10, <2>1 DEF INT1_vect
<1>11. CASE GetBits
  <2>1. sssBitCount' \in 0..9
    BY <1>11 DEF GetBits, TIMER2_COMPA_vect
  <2>2. sssBuffer' \in [Cells -> Bytes]
    BY <1>11 DEF GetBits, Store
  <2>3. int1' \in BOOLEAN
    BY <1>11 DEF GetBits, StopBit
  <2>4. timer' \in BOOLEAN
    BY <1>11 DEF GetBits, StopBit
  <2>5. line' \in 0..MaxPi
    <3>1. line' \in {0, line}
      BY <1>11 DEF GetBits, StopBit
    <3> QED
      BY <3>1
  <2> QED
    BY <1>11, <2>1, <2>2, <2>3, <2>4, <2>5 DEF GetBits
<1>12. CASE SendNextByte
  BY <1>12 DEF SendNextByte, TIMER2_COMPA_vect
<1>13. CASE SendBits
  BY <1>13 DEF SendBits, TIMER2_COMPA_vect
<1>14. CASE PiSends
  BY <1>14 DEF PiSends
<1>15. CASE Unheard
  BY <1>15 DEF Unheard
<1> QED
  BY <1>1, <1>2, <1>3, <1>4, <1>5, <1>6, <1>7, <1>8, <1>9, <1>10, <1>11,
     <1>12, <1>13, <1>14, <1>15 DEF Next, Loop, Interrupt

\* Every step keeps what loop() and the timer know, and the properties.
LEMMA KnowledgeStep ==
  ASSUME IInv, PortTyped', Next
  PROVE  (LoopKnows /\ TimerKnows /\ ListenOrTalk /\ NotDeaf)'
<1> USE SerialAssumption DEF IInv, PortTyped, LoopKnows, TimerKnows, ListenOrTalk,
            NotDeaf, Cells, Bytes, port, bits, mode, lines, history
<1>1. CASE Available
  BY <1>1 DEF Available
<1>2. CASE Read
  BY <1>2 DEF Read, ForwardJunk
<1>3. CASE Fetch
  BY <1>3 DEF Fetch
<1>4. CASE Prepare
  BY <1>4 DEF Prepare
<1>5. CASE IdleFound
  BY <1>5 DEF IdleFound
<1>6. CASE ScanEnds
  BY <1>6 DEF ScanEnds, ForwardJunk
<1>7. CASE Serial
  <2>1. LoopKnows'
    <3>1. pc' \in {"available", "stop"}
      BY <1>7 DEF Serial
    <3>2. pc' = "stop" => sssNumBytesToSend = 0
      BY <1>7 DEF Serial
    <3> QED
      BY <1>7, <3>1, <3>2 DEF Serial
  <2>2. TimerKnows' /\ ListenOrTalk'
    BY <1>7 DEF Serial
  <2>3. NotDeaf'
    BY <1>7 DEF Serial
  <2> QED
    BY <2>1, <2>2, <2>3
<1>8. CASE PrepareToTalk
  BY <1>8 DEF PrepareToTalk
<1>9. CASE Fill
  BY <1>9 DEF Fill
<1>10. CASE INT1_vect
  BY <1>10 DEF INT1_vect
<1>11. CASE GetBits
  <2>1. LoopKnows' /\ ListenOrTalk'
    BY <1>11 DEF GetBits, StopBit, TIMER2_COMPA_vect
  <2>2. TimerKnows'
    <3>1. /\ sssIsListening /\ timer /\ sssNumBytesToSend = 0
          /\ sssTimerFunctionP = "GetBits"
      BY <1>11 DEF GetBits, TIMER2_COMPA_vect
    <3>2. timer' => sssBitCount # 8
      BY <1>11 DEF GetBits, StopBit
    <3>3. sssBitCount' = sssBitCount + 1 /\ sssBitCount \in 0..8
      BY <1>11, <3>1 DEF GetBits
    <3>4. timer' => sssBitCount' <= 8
      BY <3>2, <3>3
    <3> QED
      BY <1>11, <3>1, <3>4 DEF GetBits
  <2>3. NotDeaf'
    BY <1>11 DEF GetBits, StopBit, TIMER2_COMPA_vect
  <2> QED
    BY <2>1, <2>2, <2>3
<1>12. CASE SendNextByte
  BY <1>12 DEF SendNextByte, TIMER2_COMPA_vect
<1>13. CASE SendBits
  BY <1>13 DEF SendBits, TIMER2_COMPA_vect
<1>14. CASE PiSends
  BY <1>14 DEF PiSends
<1>15. CASE Unheard
  BY <1>15 DEF Unheard
<1> QED
  BY <1>1, <1>2, <1>3, <1>4, <1>5, <1>6, <1>7, <1>8, <1>9, <1>10, <1>11,
     <1>12, <1>13, <1>14, <1>15 DEF Next, Loop, Interrupt

\* Only sssWrite takes a byte, and only the stop bit puts it on the wire.
LEMMA SendStep ==
  ASSUME IInv, Next
  PROVE  SendsWhatItTakes'
<1> USE SerialAssumption DEF IInv, PortTyped, LoopKnows, TimerKnows, ListenOrTalk,
            SendsWhatItTakes, Cells, Bytes, port, bits, mode, lines, history
<1>1. CASE Available
  BY <1>1 DEF Available
<1>2. CASE Read
  BY <1>2 DEF Read, ForwardJunk
<1>3. CASE Fetch
  BY <1>3 DEF Fetch
<1>4. CASE Prepare
  BY <1>4 DEF Prepare
<1>5. CASE IdleFound
  BY <1>5 DEF IdleFound
<1>6. CASE ScanEnds
  BY <1>6 DEF ScanEnds, ForwardJunk
<1>7. CASE Serial
  BY <1>7 DEF Serial
<1>8. CASE PrepareToTalk
  BY <1>8 DEF PrepareToTalk
<1>9. CASE Fill
  BY <1>9 DEF Fill
<1>10. CASE INT1_vect
  BY <1>10 DEF INT1_vect
<1>11. CASE GetBits
  BY <1>11 DEF GetBits, StopBit, Store, TIMER2_COMPA_vect
<1>12. CASE SendNextByte
  BY <1>12 DEF SendNextByte, TIMER2_COMPA_vect
<1>13. CASE SendBits
  BY <1>13 DEF SendBits, TIMER2_COMPA_vect
<1>14. CASE PiSends
  BY <1>14 DEF PiSends
<1>15. CASE Unheard
  BY <1>15 DEF Unheard
<1> QED
  BY <1>1, <1>2, <1>3, <1>4, <1>5, <1>6, <1>7, <1>8, <1>9, <1>10, <1>11,
     <1>12, <1>13, <1>14, <1>15 DEF Next, Loop, Interrupt

\* The inductive invariant: what the parts know, and the three properties.
THEOREM Invariance == Spec => []IInv
<1>1. ASSUME IInv, [Next]_vars
      PROVE  IInv'
  <2>1. CASE Next
    BY <1>1, <2>1, TypeStep, KnowledgeStep, SendStep DEF IInv
  <2>2. CASE UNCHANGED vars
    BY <1>1, <2>2 DEF vars, port, bits, mode, lines, history, IInv, PortTyped,
      LoopKnows, TimerKnows, ListenOrTalk, NotDeaf, SendsWhatItTakes
  <2> QED
    BY <1>1, <2>1, <2>2
<1> QED
  BY <1>1, InitHolds, PTL DEF Spec

\* The port never listens and talks at once, whatever interrupts whatever.
THEOREM ListenOrTalkAlways == Spec => []ListenOrTalk
BY Invariance, PTL DEF IInv

\* A port that listens can hear: its interrupts are never both off outside
\* sssStopAll.
THEOREM NotDeafAlways == Spec => []NotDeaf
BY Invariance, PTL DEF IInv

\* What sssWrite took is on the wire, or is the one byte in cell 0: the receiving
\* interrupt cannot overwrite it.
THEOREM SendingIsFaithful == Spec => []SendsWhatItTakes
BY Invariance, PTL DEF IInv

----------------------------------------------------------------------------
(* The order of the bytes.                                                  *)

\* The step to the next cell, without a remainder.
LEMMA UpIsNext ==
  ASSUME NEW k \in Cells
  PROVE  Up(k) = (IF k = BufSize - 1 THEN 0 ELSE k + 1) /\ Up(k) \in Cells
<1>1. CASE k = BufSize - 1
  BY <1>1, SerialAssumption DEF Up, Cells
<1>2. CASE k # BufSize - 1
  <2>1. k + 1 \in 0..(BufSize - 1)
    BY <1>2, SerialAssumption DEF Cells
  <2>2. (k + 1) % BufSize = k + 1
    BY <2>1, SerialAssumption
  <2> QED
    BY <1>2, <2>1, <2>2 DEF Up, Cells
<1> QED
  BY <1>1, <1>2

----------------------------------------------------------------------------
(* Which cells are in use, and what is in them.                             *)

\* How far cell k is behind the tail.
Off(k) == IF k >= sssBufTail THEN k - sssBufTail ELSE k - sssBufTail + BufSize

\* Cell k holds a byte that was heard and is not with the host yet.  Between the
\* two steps of sssRead the tail itself is one of them.
InRing(k) == (IF pc = "fetch" THEN 0 ELSE 1) <= Off(k) /\ Off(k) <= Off(sssBufHead)

\* A byte is on the line that is not in the buffer and may get there.
Coming ==
  /\ sssIsListening /\ pc # "stop" /\ line # 0
  /\ ~(timer /\ sssBitCount = 8)

\* The newest byte the ring and the host can have.
Newest == IF Coming THEN piBytes - 1 ELSE piBytes

\* A port that has seen a start bit finds the byte on the line.
LineKnows ==
  /\ line \in {0, piBytes}
  /\ sssIsListening /\ pc # "stop" /\ ((int1 /\ edge) \/ timer) => line # 0
  /\ sssIsListening /\ timer => ~int1

RingTyped ==
  /\ sssBufHead \in Cells /\ sssBufTail \in Cells
  /\ edge \in BOOLEAN
  /\ console \in Seq(Int)

\* The ring holds bytes of the Pi in their order, all later than the host's.
RingInOrder ==
  sssIsListening =>
    \A k \in Cells : InRing(k) =>
      /\ 0 < sssBuffer[k] /\ sssBuffer[k] <= Newest
      /\ \A n \in DOMAIN console : console[n] < sssBuffer[k]
      /\ \A j \in Cells : InRing(j) /\ Off(j) < Off(k) => sssBuffer[j] < sssBuffer[k]

HostInOrder ==
  /\ HostGetsPiBytes
  /\ \A n \in DOMAIN console : console[n] <= Newest

OrderInv == LineKnows /\ RingTyped /\ RingInOrder /\ HostInOrder

\* The port begins with an empty ring and a quiet line.
LEMMA OrderInit == Init => OrderInv
<1> SUFFICES ASSUME Init PROVE OrderInv
  OBVIOUS
<1>1. LineKnows /\ RingInOrder
  BY DEF Init, LineKnows, RingInOrder
<1>2. RingTyped
  <2>1. 0 \in Cells
    BY SerialAssumption DEF Cells
  <2>2. edge \in BOOLEAN
    BY DEF Init
  <2>3. console \in Seq(Int)
    BY DEF Init
  <2> QED
    BY <2>1, <2>2, <2>3 DEF Init, RingTyped
<1>3. HostInOrder
  BY DEF Init, HostInOrder, HostGetsPiBytes
<1> QED
  BY <1>1, <1>2, <1>3 DEF OrderInv

\* What is known of the line.
LEMMA LineStep ==
  ASSUME IInv, PortTyped', OrderInv, Next
  PROVE  LineKnows'
<1> USE SerialAssumption DEF IInv, OrderInv, PortTyped, LoopKnows, TimerKnows,
            ListenOrTalk, LineKnows, port, bits, mode, lines, history
<1>1. CASE Available
  BY <1>1 DEF Available
<1>2. CASE Read
  BY <1>2 DEF Read, ForwardJunk
<1>3. CASE Fetch
  BY <1>3 DEF Fetch
<1>4. CASE Prepare
  BY <1>4 DEF Prepare
<1>5. CASE IdleFound
  BY <1>5 DEF IdleFound
<1>6. CASE ScanEnds
  BY <1>6 DEF ScanEnds, ForwardJunk
<1>7. CASE Serial
  BY <1>7 DEF Serial
<1>8. CASE PrepareToTalk
  BY <1>8 DEF PrepareToTalk
<1>9. CASE Fill
  BY <1>9 DEF Fill
<1>10. CASE INT1_vect
  BY <1>10 DEF INT1_vect
<1>11. CASE GetBits
  BY <1>11 DEF GetBits, StopBit, TIMER2_COMPA_vect
<1>12. CASE SendNextByte
  BY <1>12 DEF SendNextByte, TIMER2_COMPA_vect
<1>13. CASE SendBits
  BY <1>13 DEF SendBits, TIMER2_COMPA_vect
<1>14. CASE PiSends
  BY <1>14 DEF PiSends
<1>15. CASE Unheard
  BY <1>15 DEF Unheard
<1> QED
  BY <1>1, <1>2, <1>3, <1>4, <1>5, <1>6, <1>7, <1>8, <1>9, <1>10, <1>11,
     <1>12, <1>13, <1>14, <1>15 DEF Next, Loop, Interrupt

\* A step that leaves the ring and the host alone keeps both in order if nothing
\* new comes that is older than they are.
LEMMA QuietStep ==
  ASSUME OrderInv, PortTyped, PortTyped',
         UNCHANGED <<sssBuffer, sssBufHead, sssBufTail, console>>,
         edge' \in BOOLEAN,
         (pc = "fetch") <=> (pc' = "fetch"),
         sssIsListening' => sssIsListening,
         Newest <= Newest', piBytes <= piBytes'
  PROVE  (RingTyped /\ RingInOrder /\ HostInOrder)'
<1> USE DEF OrderInv, PortTyped
<1>1. RingTyped'
  BY DEF RingTyped
<1>2. Newest \in Int /\ Newest' \in Int
  BY DEF Newest, Coming
<1>3. \A k \in Cells : sssBuffer[k] \in Int
  BY SerialAssumption DEF Bytes
<1>4. \A n \in DOMAIN console : console[n] \in Int
  BY DEF RingTyped
<1>5. HostInOrder'
  BY <1>2, <1>4 DEF HostInOrder, HostGetsPiBytes
<1>6. RingInOrder'
  <2>1. \A k : Off(k)' = Off(k)
    BY DEF Off
  <2>2. \A k : InRing(k)' = InRing(k)
    BY <2>1 DEF InRing, Off
  <2> SUFFICES ASSUME sssIsListening', NEW k \in Cells, InRing(k)'
               PROVE  /\ 0 < sssBuffer[k] /\ sssBuffer[k] <= Newest'
                      /\ \A n \in DOMAIN console : console[n] < sssBuffer[k]
                      /\ \A j \in Cells : InRing(j)' /\ Off(j)' < Off(k)' =>
                           sssBuffer[j] < sssBuffer[k]
    BY DEF RingInOrder
  <2> QED
    BY <1>2, <1>3, <2>1, <2>2 DEF RingInOrder
<1> QED
  BY <1>1, <1>5, <1>6

\* The steps that leave the ring and the host alone.
LEMMA QuietSteps ==
  ASSUME IInv, PortTyped', OrderInv,
         Available \/ Prepare \/ ScanEnds \/ Serial \/ PrepareToTalk
         \/ INT1_vect \/ SendNextByte \/ SendBits \/ PiSends \/ Unheard
  PROVE  (RingTyped /\ RingInOrder /\ HostInOrder)'
<1> DEFINE Quiet ==
      /\ UNCHANGED <<sssBuffer, sssBufHead, sssBufTail, console>>
      /\ edge' \in BOOLEAN
      /\ (pc = "fetch") <=> (pc' = "fetch")
      /\ sssIsListening' => sssIsListening
      /\ Newest <= Newest' /\ piBytes <= piBytes'
<1> USE DEF IInv, OrderInv, PortTyped, LoopKnows, TimerKnows, ListenOrTalk, LineKnows,
            RingTyped, Newest, Coming, port, bits, mode, lines, history
<1>1. ASSUME Available
      PROVE  Quiet
  BY <1>1 DEF Available
<1>2. ASSUME Prepare
      PROVE  Quiet
  BY <1>2 DEF Prepare
<1>3. ASSUME ScanEnds
      PROVE  Quiet
  BY <1>3 DEF ScanEnds, ForwardJunk
<1>4. ASSUME Serial
      PROVE  Quiet
  BY <1>4 DEF Serial
<1>5. ASSUME PrepareToTalk
      PROVE  Quiet
  BY <1>5 DEF PrepareToTalk
<1>6. ASSUME INT1_vect
      PROVE  Quiet
  <2>1. edge' \in BOOLEAN
    BY <1>6 DEF INT1_vect
  <2>2. Coming' = Coming
    BY <1>6 DEF INT1_vect
  <2>3. Newest <= Newest' /\ piBytes <= piBytes'
    BY <1>6, <2>2 DEF INT1_vect
  <2> QED
    BY <1>6, <2>1, <2>3 DEF INT1_vect
<1>7. ASSUME SendNextByte
      PROVE  Quiet
  BY <1>7 DEF SendNextByte, TIMER2_COMPA_vect
<1>8. ASSUME SendBits
      PROVE  Quiet
  BY <1>8 DEF SendBits, TIMER2_COMPA_vect
<1>9. ASSUME PiSends
      PROVE  Quiet
  BY <1>9 DEF PiSends
<1>10. ASSUME Unheard
      PROVE  Quiet
  BY <1>10 DEF Unheard
<1> QED
  BY <1>1, <1>2, <1>3, <1>4, <1>5, <1>6, <1>7, <1>8, <1>9, <1>10, QuietStep

\* sssRead moves the tail: the cell it leaves behind is still in the ring.
LEMMA ReadStep ==
  ASSUME IInv, PortTyped', OrderInv, Read
  PROVE  (RingTyped /\ RingInOrder /\ HostInOrder)'
<1> USE DEF IInv, OrderInv, PortTyped
<1>1. CASE sssBufTail' = sssBufTail /\ pc' # "fetch"
  <2>1. UNCHANGED <<sssBuffer, sssBufHead, console, edge, sssIsListening, piBytes>>
    BY <1>1 DEF Read, ForwardJunk, mode, lines
  <2>2. Newest <= Newest'
    BY <1>1 DEF Read, ForwardJunk, mode, lines, bits, Newest, Coming
  <2>3. pc # "fetch"
    BY DEF Read
  <2> QED
    BY <1>1, <2>1, <2>2, <2>3, QuietStep DEF RingTyped
<1>2. CASE pc' = "fetch"
  <2>1. /\ sssIsListening /\ sssBufTail # sssBufHead /\ sssBufTail' = Up(sssBufTail)
        /\ UNCHANGED <<sssBuffer, sssBufHead, console, edge, sssIsListening, piBytes>>
        /\ pc = "read"
    BY <1>2 DEF Read, ForwardJunk, mode, lines, LoopKnows
  <2>2. Newest' = Newest
    BY <1>2, <2>1 DEF Read, ForwardJunk, mode, lines, bits, Newest, Coming
  <2>3. /\ sssBufTail' = (IF sssBufTail = BufSize - 1 THEN 0 ELSE sssBufTail + 1)
        /\ sssBufTail' \in Cells
    BY <2>1, UpIsNext DEF RingTyped
  <2>4. \A k \in Cells : InRing(k)' => InRing(k) /\ Off(k)' = Off(k) - 1
    BY <1>2, <2>1, <2>3, SerialAssumption DEF InRing, Off, RingTyped, Cells
  <2>5. RingTyped' /\ HostInOrder'
    BY <2>1, <2>2, <2>3 DEF RingTyped, HostInOrder, HostGetsPiBytes
  <2>6. \A k \in Cells : Off(k) \in Int /\ Off(k)' \in Int
    BY <2>3, SerialAssumption DEF Off, RingTyped, Cells
  <2>7. RingInOrder'
    BY <2>1, <2>2, <2>4, <2>6 DEF RingInOrder
  <2> QED
    BY <2>5, <2>7
<1> QED
  BY <1>1, <1>2 DEF Read, ForwardJunk, port

\* Serial.write: the oldest byte of the ring goes to the host.
LEMMA FetchStep ==
  ASSUME IInv, PortTyped', OrderInv, Fetch
  PROVE  (RingTyped /\ RingInOrder /\ HostInOrder)'
<1> USE DEF IInv, OrderInv, PortTyped
<1> DEFINE b == sssBuffer[sssBufTail]
<1>1. /\ pc = "fetch" /\ pc' = "serial" /\ sssIsListening /\ console' = Append(console, b)
      /\ UNCHANGED <<sssBuffer, sssBufHead, sssBufTail, edge, sssIsListening, piBytes>>
  BY DEF Fetch, LoopKnows, port, mode, lines
<1>2. Newest' = Newest /\ Newest \in Int /\ Newest <= piBytes
  BY DEF Fetch, mode, bits, lines, Newest, Coming
<1>3. sssBufTail \in Cells /\ sssBufHead \in Cells
  BY DEF RingTyped
<1>4. \A k \in Cells : Off(k) \in Nat /\ (k # sssBufTail => Off(k) > 0)
  BY <1>3, SerialAssumption DEF Off, Cells
<1>5. Off(sssBufTail) = 0 /\ InRing(sssBufTail)
  BY <1>1, <1>3, <1>4, SerialAssumption DEF Off, InRing, Cells
<1>6. /\ 0 < b /\ b <= Newest /\ b \in Int
      /\ \A n \in DOMAIN console : console[n] < b
  BY <1>1, <1>3, <1>5, SerialAssumption DEF RingInOrder, Bytes
<1>7. /\ console \in Seq(Int) /\ Len(console) \in Nat
      /\ DOMAIN console = 1..Len(console)
      /\ console' \in Seq(Int)
      /\ DOMAIN console' = 1..(Len(console) + 1)
      /\ \A n \in DOMAIN console : console'[n] = console[n] /\ console[n] \in Int
      /\ console'[Len(console) + 1] = b
  BY <1>1, <1>6 DEF RingTyped
<1>8. RingTyped'
  BY <1>1, <1>7 DEF RingTyped
<1>9. HostInOrder'
  <2> SUFFICES ASSUME NEW n \in DOMAIN console'
               PROVE  /\ console'[n] \in 1..piBytes
                      /\ n > 1 => console'[n - 1] < console'[n]
                      /\ console'[n] <= Newest
    BY <1>1, <1>2 DEF HostInOrder, HostGetsPiBytes
  <2>1. CASE n \in DOMAIN console
    <3>1. n \in 1..Len(console)
      BY <2>1, <1>7
    <3>2. n > 1 => n - 1 \in 1..Len(console)
      BY <3>1, <1>7, n \in Int
    <3>3. n > 1 => n - 1 \in DOMAIN console
      BY <3>2, <1>7
    <3> QED
      BY <2>1, <3>3, <1>7 DEF HostInOrder, HostGetsPiBytes
  <2>2. CASE n = Len(console) + 1
    <3>1. n > 1 => n - 1 \in 1..Len(console)
      BY <2>2, <1>7
    <3>2. n > 1 => n - 1 \in DOMAIN console
      BY <3>1, <1>7
    <3>3. n > 1 => console'[n - 1] < b
      BY <3>2, <1>6, <1>7
    <3>4. console'[n] = b
      BY <2>2, <1>7
    <3> QED
      BY <3>3, <3>4, <1>2, <1>6
  <2> QED
    BY <2>1, <2>2, <1>7
<1>10. RingInOrder'
  <2> SUFFICES ASSUME NEW k \in Cells, InRing(k)'
               PROVE  /\ 0 < sssBuffer[k] /\ sssBuffer[k] <= Newest
                      /\ \A n \in DOMAIN console' : console'[n] < sssBuffer[k]
                      /\ \A j \in Cells : InRing(j)' /\ Off(j)' < Off(k)' =>
                           sssBuffer[j] < sssBuffer[k]
    BY <1>1, <1>2 DEF RingInOrder
  <2>1. \A j \in Cells : Off(j)' = Off(j) /\ (InRing(j)' => InRing(j) /\ 0 < Off(j))
    BY <1>1, <1>3, <1>4 DEF Off, InRing
  <2>2. b < sssBuffer[k]
    BY <1>1, <1>3, <1>5, <2>1 DEF RingInOrder
  <2>3. \A n \in DOMAIN console' : console'[n] < sssBuffer[k]
    BY <1>1, <1>7, <2>1, <2>2 DEF RingInOrder
  <2> QED
    BY <1>1, <2>1, <2>3 DEF RingInOrder
<1> QED
  BY <1>8, <1>9, <1>10

\* Listening starts with an empty ring.
LEMMA IdleFoundStep ==
  ASSUME IInv, PortTyped', OrderInv, IdleFound
  PROVE  (RingTyped /\ RingInOrder /\ HostInOrder)'
<1> USE DEF IInv, OrderInv, PortTyped
<1>1. /\ sssBufHead' = 0 /\ sssBufTail' = 0 /\ pc' = "scan" /\ edge' = FALSE
      /\ UNCHANGED <<console, piBytes>>
  BY DEF IdleFound, history, lines
<1>2. Newest = piBytes /\ Newest' = piBytes
  BY DEF IdleFound, lines, Newest, Coming
<1>3. 0 \in Cells
  BY SerialAssumption DEF Cells
<1>4. RingTyped'
  <2>1. edge' \in BOOLEAN
    BY <1>1
  <2> QED
    BY <2>1, <1>1, <1>3 DEF RingTyped
<1>5. HostInOrder'
  BY <1>1, <1>2 DEF HostInOrder, HostGetsPiBytes
<1>6. \A k \in Cells : ~InRing(k)'
  BY <1>1 DEF InRing, Off, Cells
<1> QED
  BY <1>4, <1>5, <1>6 DEF RingInOrder

\* sssWrite uses the buffer when nobody listens.
LEMMA FillStep ==
  ASSUME IInv, PortTyped', OrderInv, Fill
  PROVE  (RingTyped /\ RingInOrder /\ HostInOrder)'
<1> USE DEF IInv, OrderInv, PortTyped
<1>1. /\ ~sssIsListening /\ ~sssIsListening'
      /\ UNCHANGED <<sssBufHead, sssBufTail, console, edge, piBytes>>
  BY DEF Fill, LoopKnows, mode, lines
<1>2. Newest = piBytes /\ Newest' = piBytes
  BY <1>1 DEF Newest, Coming
<1> QED
  BY <1>1, <1>2 DEF RingTyped, RingInOrder, HostInOrder, HostGetsPiBytes

\* The receiving interrupt: a byte that is whole goes to the end of the ring, in
\* the place of the newest if the ring is full.
LEMMA GetBitsStep ==
  ASSUME IInv, PortTyped', OrderInv, GetBits
  PROVE  (RingTyped /\ RingInOrder /\ HostInOrder)'
<1> USE DEF IInv, OrderInv, PortTyped
<1>1. /\ sssIsListening /\ timer /\ pc # "stop" /\ line # 0 /\ line = piBytes
      /\ sssBitCount \in 0..8 /\ sssBitCount' = sssBitCount + 1
      /\ UNCHANGED <<sssBufTail, sssIsListening, pc, console, piBytes>>
  BY DEF GetBits, TIMER2_COMPA_vect, TimerKnows, LineKnows, history
<1>2. edge' \in BOOLEAN
  BY DEF GetBits, StopBit, RingTyped
<1>3. Newest <= Newest' /\ Newest' <= piBytes /\ Newest \in Int /\ Newest' \in Int
  <2>1. Newest \in {piBytes - 1, piBytes} /\ Newest' \in {piBytes - 1, piBytes}
    BY <1>1 DEF Newest
  <2>2. sssBitCount # 8 => Newest = piBytes - 1
    BY <1>1 DEF Newest, Coming
  <2>3. sssBitCount = 8 => line' = 0
    BY DEF GetBits, StopBit
  <2>4. sssBitCount = 8 => Newest' = piBytes
    BY <1>1, <2>3 DEF Newest, Coming
  <2>5. piBytes \in Int
    BY <1>1
  <2> QED
    BY <2>1, <2>2, <2>4, <2>5
<1>4. CASE sssBitCount # 7
  <2>1. UNCHANGED <<sssBuffer, sssBufHead>>
    BY <1>4 DEF GetBits
  <2>2. piBytes <= piBytes'
    BY <1>1
  <2> QED
    BY <1>1, <1>2, <1>3, <2>1, <2>2, QuietStep
<1>5. CASE sssBitCount = 7
  <2>1. Newest = piBytes - 1 /\ Newest' = piBytes
    BY <1>1, <1>5 DEF GetBits, Newest, Coming
  <2>2. /\ sssBufHead' = IF Up(sssBufHead) # sssBufTail THEN Up(sssBufHead)
                                                       ELSE sssBufHead
        /\ sssBuffer' = [sssBuffer EXCEPT ![sssBufHead'] = piBytes]
    BY <1>1, <1>5 DEF GetBits, Store
  <2>3. sssBufHead \in Cells /\ sssBufTail \in Cells
    BY DEF RingTyped
  <2>4. /\ Up(sssBufHead) = IF sssBufHead = BufSize - 1 THEN 0 ELSE sssBufHead + 1
        /\ Up(sssBufHead) \in Cells
    BY <2>3, UpIsNext
  <2>5. sssBufHead' \in Cells /\ RingTyped'
    BY <1>1, <1>2, <2>2, <2>3, <2>4 DEF RingTyped
  <2>6. \A k \in Cells : Off(k)' = Off(k) /\ Off(k) \in Int
    BY <1>1, <2>3, SerialAssumption DEF Off, Cells
  <2>7. \A k \in Cells : InRing(k)' /\ k # sssBufHead' =>
                           InRing(k) /\ Off(k) < Off(sssBufHead')
    BY <1>1, <2>2, <2>3, <2>4, <2>5, <2>6, SerialAssumption DEF InRing, Off, Cells
  <2>8. \A k \in Cells : /\ sssBuffer'[k] = IF k = sssBufHead' THEN piBytes
                                                              ELSE sssBuffer[k]
                         /\ sssBuffer[k] \in Int
    BY <2>2, <2>5, SerialAssumption DEF Bytes
  <2>9. HostInOrder'
    BY <1>1, <1>3, <2>1 DEF HostInOrder, HostGetsPiBytes, RingTyped
  <2>10. RingInOrder'
    <3> SUFFICES ASSUME NEW k \in Cells, InRing(k)'
                 PROVE  /\ 0 < sssBuffer'[k] /\ sssBuffer'[k] <= Newest'
                        /\ \A n \in DOMAIN console : console[n] < sssBuffer'[k]
                        /\ \A j \in Cells : InRing(j)' /\ Off(j)' < Off(k)' =>
                             sssBuffer'[j] < sssBuffer'[k]
      BY <1>1 DEF RingInOrder
    <3>1. 0 < piBytes /\ piBytes \in Int
      BY <1>1
    <3>2. \A n \in DOMAIN console : console[n] < piBytes
      BY <2>1, <3>1 DEF HostInOrder, RingTyped
    <3>3. \A j \in Cells : InRing(j)' /\ j # sssBufHead' => sssBuffer'[j] < piBytes
      BY <1>1, <2>1, <2>7, <2>8, <3>1 DEF RingInOrder
    <3>4. CASE k = sssBufHead'
      <4>1. sssBuffer'[k] = piBytes
        BY <2>8, <3>4
      <4>2. \A j \in Cells : Off(j)' < Off(k)' => j # k
        BY <2>6
      <4> QED
        BY <2>1, <3>1, <3>2, <3>3, <3>4, <4>1, <4>2
    <3>5. CASE k # sssBufHead'
      <4>1. InRing(k) /\ sssBuffer'[k] = sssBuffer[k]
        BY <2>7, <2>8, <3>5
      <4>2. \A j \in Cells : InRing(j)' /\ Off(j)' < Off(k)' =>
              j # sssBufHead' /\ InRing(j) /\ sssBuffer'[j] = sssBuffer[j]
        BY <2>6, <2>7, <2>8, <3>5
      <4> QED
        BY <1>1, <1>3, <2>6, <2>8, <4>1, <4>2 DEF RingInOrder
    <3> QED
      BY <3>4, <3>5
  <2> QED
    BY <2>5, <2>9, <2>10
<1> QED
  BY <1>4, <1>5

\* The order of the bytes is kept by every step.
THEOREM OrderInvariance == Spec => []OrderInv
<1>1. ASSUME IInv, IInv', OrderInv, [Next]_vars
      PROVE  OrderInv'
  <2>1. CASE Next
    <3>1. LineKnows'
      BY <1>1, <2>1, LineStep DEF IInv
    <3> QED
      BY <1>1, <2>1, <3>1, QuietSteps, ReadStep, FetchStep, IdleFoundStep, FillStep,
         GetBitsStep DEF Next, Loop, Interrupt, OrderInv, IInv
  <2>2. CASE UNCHANGED vars
    BY <1>1, <2>2 DEF vars, port, bits, mode, lines, history, OrderInv, LineKnows,
      RingTyped, RingInOrder, HostInOrder, HostGetsPiBytes, InRing, Off, Newest, Coming
  <2> QED
    BY <1>1, <2>1, <2>2
<1> QED
  BY <1>1, OrderInit, Invariance, PTL DEF Spec

\* sssRead gives the host the bytes the Pi has sent, in their order, none twice
\* and none of the host's own.
THEOREM HostGetsPiBytesAlways == Spec => []HostGetsPiBytes
BY OrderInvariance, PTL DEF OrderInv, HostInOrder

----------------------------------------------------------------------------
(* Types.                                                                   *)

\* What the first two parts leave open of TypeOK.
RestTyped ==
  /\ sssNextByteToSend \in Bytes
  /\ sssBitPos \in 0..9
  /\ heard \in BOOLEAN /\ junk \in BOOLEAN
  /\ pc \in {"available", "prepare", "scan", "read", "fetch", "serial", "stop",
             "fill"}
  /\ caller \in {"setup", "available", "read"}
  /\ console \in Seq(Bytes) /\ accepted \in Seq(Bytes) /\ wire \in Seq(Bytes)

\* Every step keeps the rest in its types.
LEMMA RestStep ==
  ASSUME IInv, OrderInv, RestTyped, Next
  PROVE  RestTyped'
<1> USE SerialAssumption DEF IInv, OrderInv, PortTyped, RingTyped, TimerKnows,
            RestTyped, Cells, port, bits, mode, lines, history
<1>1. CASE Available
  BY <1>1 DEF Available
<1>2. CASE Read
  BY <1>2 DEF Read, ForwardJunk
<1>3. CASE Fetch
  BY <1>3 DEF Fetch
<1>4. CASE Prepare
  <2>1. heard' \in BOOLEAN
    BY <1>4 DEF Prepare
  <2> QED
    BY <1>4, <2>1 DEF Prepare
<1>5. CASE IdleFound
  BY <1>5 DEF IdleFound
<1>6. CASE ScanEnds
  BY <1>6 DEF ScanEnds, ForwardJunk
<1>7. CASE Serial
  BY <1>7 DEF Serial
<1>8. CASE PrepareToTalk
  BY <1>8 DEF PrepareToTalk
<1>9. CASE Fill
  BY <1>9 DEF Fill
<1>10. CASE INT1_vect
  BY <1>10 DEF INT1_vect
<1>11. CASE GetBits
  BY <1>11 DEF GetBits
<1>12. CASE SendNextByte
  <2>1. sssBuffer[sssBufferPos] \in Bytes
    BY <1>12 DEF SendNextByte
  <2> QED
    BY <1>12, <2>1 DEF SendNextByte
<1>13. CASE SendBits
  <2>1. sssBitPos' \in 0..9
    BY <1>13 DEF SendBits
  <2>2. wire' \in Seq(Bytes)
    <3>1. wire' = wire \/ wire' = Append(wire, sssNextByteToSend)
      BY <1>13 DEF SendBits
    <3>2. wire \in Seq(Bytes) /\ sssNextByteToSend \in Bytes
      OBVIOUS
    <3>3. Append(wire, sssNextByteToSend) \in Seq(Bytes)
      BY <3>2, AppendProperties
    <3> QED
      BY <3>1, <3>2, <3>3, Zenon
  <2> QED
    BY <1>13, <2>1, <2>2 DEF SendBits
<1>14. CASE PiSends
  BY <1>14 DEF PiSends
<1>15. CASE Unheard
  BY <1>15 DEF Unheard
<1> QED
  BY <1>1, <1>2, <1>3, <1>4, <1>5, <1>6, <1>7, <1>8, <1>9, <1>10, <1>11,
     <1>12, <1>13, <1>14, <1>15 DEF Next, Loop, Interrupt

\* No variable of the port ever leaves its type: no index beyond the buffer and
\* no bit position beyond a byte, whatever interrupts whatever.
THEOREM TypeCorrect == Spec => []TypeOK
<1>1. Init => RestTyped
  <2>1. 0 \in Bytes
    BY SerialAssumption DEF Bytes
  <2>2. Init => heard \in BOOLEAN /\ junk \in BOOLEAN
    BY DEF Init
  <2>3. Init => console \in Seq(Bytes) /\ accepted \in Seq(Bytes) /\ wire \in Seq(Bytes)
    BY DEF Init
  <2> QED
    BY <2>1, <2>2, <2>3 DEF Init, RestTyped
<1>2. ASSUME IInv, OrderInv, RestTyped, [Next]_vars
      PROVE  RestTyped'
  <2>1. CASE Next
    BY <1>2, <2>1, RestStep
  <2>2. CASE UNCHANGED vars
    BY <1>2, <2>2 DEF vars, port, bits, mode, lines, history, RestTyped
  <2> QED
    BY <1>2, <2>1, <2>2
<1>3. IInv /\ OrderInv /\ RestTyped => TypeOK
  <2> SUFFICES ASSUME IInv, OrderInv, RestTyped PROVE TypeOK
    OBVIOUS
  <2>1. line \in 0..piBytes
    BY SerialAssumption DEF IInv, PortTyped, OrderInv, LineKnows
  <2>2. {sssIsListening, int1, edge, timer, heard, junk} \subseteq BOOLEAN
    BY DEF IInv, PortTyped, OrderInv, RingTyped, RestTyped
  <2> QED
    BY <2>1, <2>2 DEF IInv, PortTyped, OrderInv, RingTyped, RestTyped, TypeOK
<1> QED
  BY <1>1, <1>2, <1>3, Invariance, OrderInvariance, PTL DEF Spec

----------------------------------------------------------------------------
(* The ring is a queue.                                                     *)

\* How many cells hold a byte that was heard, and which is the k-th of them.
Count == IF sssIsListening THEN Off(sssBufHead) ELSE 0
Cell(k) == IF sssBufTail + k < BufSize THEN sssBufTail + k ELSE sssBufTail + k - BufSize

\* What both invariants say of the ring.
RingFacts ==
  /\ sssBufHead \in Cells /\ sssBufTail \in Cells
  /\ sssBuffer \in [Cells -> Bytes]
  /\ sssIsListening \in BOOLEAN

\* The abstract queue's content is a sequence of the bytes in those cells.
HeardFacts ==
  /\ Count \in 0..(BufSize - 1)
  /\ \A k \in 1..Count : Cell(k) \in Cells
  /\ Heard = [k \in 1..Count |-> sssBuffer[Cell(k)]]
  /\ Heard \in Seq(Bytes)
  /\ Len(Heard) = Count

\* A remainder of a number not too far off is a sum.
LEMMA Remainder ==
  \A x \in Int : -BufSize < x /\ x < 2 * BufSize =>
    x % BufSize = IF x < 0 THEN x + BufSize
                  ELSE IF x < BufSize THEN x ELSE x - BufSize
<1> SUFFICES ASSUME NEW x \in Int, -BufSize < x, x < 2 * BufSize
             PROVE  x % BufSize = IF x < 0 THEN x + BufSize
                                  ELSE IF x < BufSize THEN x ELSE x - BufSize
  OBVIOUS
<1>1. CASE x < 0
  <2>1. x + BufSize \in 0..(BufSize - 1) /\ x = BufSize * (-1) + (x + BufSize)
    BY <1>1, SerialAssumption
  <2> QED
    BY <1>1, <2>1, SerialAssumption
<1>2. CASE 0 <= x /\ x < BufSize
  BY <1>2, SerialAssumption
<1>3. CASE BufSize <= x
  <2>1. x - BufSize \in 0..(BufSize - 1) /\ x = BufSize * 1 + (x - BufSize)
    BY <1>3, SerialAssumption
  <2> QED
    BY <1>3, <2>1, SerialAssumption
<1> QED
  BY <1>1, <1>2, <1>3, SerialAssumption

\* What is in the ring is such a sequence.
LEMMA HeardIs == RingFacts => HeardFacts
<1> SUFFICES ASSUME RingFacts PROVE HeardFacts
  OBVIOUS
<1> USE SerialAssumption DEF RingFacts
<1>1. Count \in 0..(BufSize - 1)
  BY DEF Count, Off, Cells
<1>2. \A k \in 1..Count : Cell(k) \in Cells
  BY <1>1 DEF Cell, Cells
<1>3. (IF sssIsListening THEN (sssBufHead - sssBufTail) % BufSize ELSE 0) = Count
  <2>1. /\ sssBufHead - sssBufTail \in Int
        /\ -BufSize < sssBufHead - sssBufTail /\ sssBufHead - sssBufTail < 2 * BufSize
    BY DEF Cells
  <2>2. (sssBufHead - sssBufTail) % BufSize =
          IF sssBufHead - sssBufTail < 0 THEN sssBufHead - sssBufTail + BufSize
          ELSE IF sssBufHead - sssBufTail < BufSize THEN sssBufHead - sssBufTail
          ELSE sssBufHead - sssBufTail - BufSize
    BY <2>1, Remainder
  <2>3. (sssBufHead - sssBufTail) % BufSize = Off(sssBufHead)
    BY <2>1, <2>2 DEF Off, Cells
  <2> QED
    BY <2>3 DEF Count
<1>4. \A k \in 1..Count : (sssBufTail + k) % BufSize = Cell(k)
  <2> SUFFICES ASSUME NEW k \in 1..Count
               PROVE  (sssBufTail + k) % BufSize = Cell(k)
    OBVIOUS
  <2>1. /\ sssBufTail \in Int /\ k \in Int /\ sssBufTail + k \in Int /\ 0 <= sssBufTail + k
        /\ -BufSize < sssBufTail + k /\ sssBufTail + k < 2 * BufSize
    BY <1>1 DEF Cells
  <2>2. (sssBufTail + k) % BufSize =
          IF sssBufTail + k < 0 THEN sssBufTail + k + BufSize
          ELSE IF sssBufTail + k < BufSize THEN sssBufTail + k
          ELSE sssBufTail + k - BufSize
    BY <2>1, Remainder
  <2> QED
    BY <2>1, <2>2 DEF Cell
<1>5. Heard = [k \in 1..Count |-> sssBuffer[Cell(k)]]
  BY <1>3, <1>4 DEF Heard
<1>6. \A k \in 1..Count : sssBuffer[Cell(k)] \in Bytes
  BY <1>2
<1>7. Count \in Nat
  BY <1>1
<1>8. Heard \in Seq(Bytes) /\ Len(Heard) = Count
  BY <1>5, <1>6, <1>7
<1> QED
  BY <1>1, <1>2, <1>5, <1>8 DEF HeardFacts

\* The two invariants say what HeardIs needs.
LEMMA RingFactsHold == IInv /\ OrderInv => RingFacts
BY DEF IInv, OrderInv, PortTyped, RingTyped, RingFacts

----------------------------------------------------------------------------
(* Each step of the port is a step of the queue, or none.                   *)

\* A step that leaves the ring alone is no step of the queue.
LEMMA QueueStutters ==
  ASSUME RingFacts, RingFacts',
         UNCHANGED <<sssBuffer, sssBufHead, sssBufTail, sssIsListening, console>>,
         (pc = "fetch") <=> (pc' = "fetch")
  PROVE  UNCHANGED <<Heard, Taken>>
<1>1. Heard' = Heard
  BY DEF Heard
<1>2. Taken' = Taken
  BY DEF Taken
<1> QED
  BY <1>1, <1>2

\* sssRead moves the tail: the oldest byte is taken.
LEMMA ReadTakes ==
  ASSUME IInv, OrderInv, RingFacts, RingFacts', Read, pc' = "fetch"
  PROVE  Receive!Take
<1>1. /\ sssIsListening /\ sssBufTail # sssBufHead /\ sssBufTail' = Up(sssBufTail)
      /\ UNCHANGED <<sssBuffer, sssBufHead, console, sssIsListening>>
      /\ pc = "read"
  BY DEF Read, ForwardJunk, mode, lines, IInv, LoopKnows, port
<1>2. HeardFacts /\ HeardFacts'
  <2>1. (RingFacts => HeardFacts)'
    BY HeardIs, PTL
  <2> QED
    BY <2>1, HeardIs
<1>3. sssBufTail' = IF sssBufTail = BufSize - 1 THEN 0 ELSE sssBufTail + 1
  BY <1>1, UpIsNext DEF RingFacts
<1>4. Count \in 0..(BufSize - 1) /\ Count > 0 /\ Count' = Count - 1
  BY <1>1, <1>3, SerialAssumption DEF Count, Off, RingFacts, Cells
<1>5. \A k \in 1..(Count - 1) : Cell(k)' = Cell(k + 1)
  BY <1>1, <1>3, <1>4, SerialAssumption DEF Cell, RingFacts, Cells
<1>6. Cell(1) = sssBufTail'
  BY <1>3, SerialAssumption DEF Cell, RingFacts, Cells
<1>7. /\ Heard \in Seq(Bytes) /\ Len(Heard) = Count
      /\ \A k \in 1..Count : Heard[k] = sssBuffer[Cell(k)]
  BY <1>2 DEF HeardFacts
<1>8. Heard # <<>> /\ Head(Heard) = sssBuffer[sssBufTail']
  BY <1>4, <1>6, <1>7
<1>9. Heard' = Tail(Heard)
  <2>1. /\ Tail(Heard) \in Seq(Bytes) /\ Len(Tail(Heard)) = Count - 1
        /\ \A k \in 1..(Count - 1) : Tail(Heard)[k] = Heard[k + 1]
    BY <1>7, <1>8, HeadTailProperties
  <2>2. \A k \in 1..(Count - 1) : Heard[k + 1] = sssBuffer[Cell(k + 1)]
    BY <1>4, <1>7
  <2>3. /\ Heard' \in Seq(Bytes) /\ Len(Heard') = Count - 1
        /\ \A k \in 1..(Count - 1) : Heard'[k] = sssBuffer[Cell(k)']
    BY <1>1, <1>2, <1>4 DEF HeardFacts
  <2>4. \A k \in 1..(Count - 1) : Heard'[k] = Tail(Heard)[k]
    BY <1>5, <2>1, <2>2, <2>3
  <2> QED
    BY <2>1, <2>3, <2>4, SeqEqual
<1>10. Taken' = Append(Taken, sssBuffer[sssBufTail'])
  BY <1>1 DEF Taken
<1> QED
  BY <1>8, <1>9, <1>10 DEF Receive!Take

\* Listening starts or stops: the queue is emptied.
LEMMA ListeningFlushes ==
  ASSUME IInv, OrderInv, IdleFound \/ PrepareToTalk
  PROVE  Receive!Flush
<1>1. CASE IdleFound
  <2>1. sssIsListening' => (sssBufHead' - sssBufTail') % BufSize = 0
    BY <1>1, SerialAssumption DEF IdleFound
  <2>2. Heard' = <<>>
    BY <2>1 DEF Heard
  <2>3. Taken' = Taken
    BY <1>1 DEF IdleFound, history, Taken
  <2> QED
    BY <2>2, <2>3 DEF Receive!Flush
<1>2. CASE PrepareToTalk
  <2>1. Heard' = <<>>
    BY <1>2 DEF PrepareToTalk, Heard
  <2>2. Taken' = Taken
    BY <1>2 DEF PrepareToTalk, history, Taken
  <2> QED
    BY <2>1, <2>2 DEF Receive!Flush
<1> QED
  BY <1>1, <1>2

\* The host gets what is already taken, and sssWrite uses the cells of a queue
\* that is empty.
LEMMA FetchAndFillStutter ==
  ASSUME IInv, OrderInv, Fetch \/ Fill
  PROVE  UNCHANGED <<Heard, Taken>>
<1>1. CASE Fetch
  <2>1. Heard' = Heard
    BY <1>1 DEF Fetch, Heard, port, mode
  <2>2. Taken' = Taken
    BY <1>1 DEF Fetch, Taken, port
  <2> QED
    BY <2>1, <2>2
<1>2. CASE Fill
  <2>1. ~sssIsListening /\ ~sssIsListening'
    BY <1>2 DEF Fill, IInv, LoopKnows, mode
  <2>2. Heard' = Heard
    BY <2>1 DEF Heard
  <2>3. Taken' = Taken
    BY <1>2 DEF Fill, Taken
  <2> QED
    BY <2>2, <2>3
<1> QED
  BY <1>1, <1>2

\* A byte is whole: it is appended, or takes the newest one's place if the ring
\* has no cell to spare.
LEMMA StoreArrives ==
  ASSUME IInv, OrderInv, RingFacts, RingFacts', GetBits, sssBitCount = 7
  PROVE  Receive!Arrive(line) /\ line \in Bytes
<1>1. /\ sssIsListening /\ sssIsListening'
      /\ sssBufHead' = IF Up(sssBufHead) # sssBufTail THEN Up(sssBufHead) ELSE sssBufHead
      /\ sssBuffer' = [sssBuffer EXCEPT ![sssBufHead'] = line]
      /\ UNCHANGED <<sssBufTail, pc, console>>
  BY DEF GetBits, Store, TIMER2_COMPA_vect, IInv, TimerKnows, history
<1>2. line \in Bytes
  BY SerialAssumption DEF IInv, PortTyped, Bytes
<1>3. HeardFacts /\ HeardFacts'
  <2>1. (RingFacts => HeardFacts)'
    BY HeardIs, PTL
  <2> QED
    BY <2>1, HeardIs
<1>4. Up(sssBufHead) = IF sssBufHead = BufSize - 1 THEN 0 ELSE sssBufHead + 1
  BY UpIsNext DEF RingFacts
<1>5. /\ Count \in 0..(BufSize - 1) /\ Len(Heard) = Count /\ Heard \in Seq(Bytes)
      /\ Heard' \in Seq(Bytes) /\ Len(Heard') = Count'
      /\ \A k \in 1..Count : Heard[k] = sssBuffer[Cell(k)] /\ Cell(k) \in Cells
      /\ \A k \in 1..Count' : Heard'[k] = sssBuffer'[Cell(k)']
  BY <1>3 DEF HeardFacts
<1>6. \A k : Cell(k)' = Cell(k)
  BY <1>1 DEF Cell
<1>7. /\ \A k \in Cells : sssBuffer'[k] = IF k = sssBufHead' THEN line ELSE sssBuffer[k]
      /\ sssBufHead' \in Cells
  BY <1>1 DEF RingFacts
<1>8. Taken' = Taken
  <2>1. sssBufHead' # sssBufTail
    BY <1>1, <1>4, SerialAssumption DEF RingFacts, Cells
  <2> QED
    BY <2>1, <1>1, <1>7 DEF Taken, RingFacts
<1>9. CASE Up(sssBufHead) # sssBufTail
  <2>1. Count < BufSize - 1 /\ Count' = Count + 1
    BY <1>1, <1>4, <1>9, SerialAssumption DEF Count, Off, RingFacts, Cells
  <2>2. Cell(Count + 1) = sssBufHead'
    BY <1>1, <1>4, <1>9, SerialAssumption DEF Cell, Count, Off, RingFacts, Cells
  <2>3. \A k \in 1..Count : Cell(k) # sssBufHead'
    BY <2>1, <2>2, <1>5, SerialAssumption DEF Cell, RingFacts, Cells
  <2>4. Heard' = Append(Heard, line)
    <3>1. /\ Append(Heard, line) \in Seq(Bytes)
          /\ Len(Append(Heard, line)) = Count + 1
          /\ \A k \in 1..Count : Append(Heard, line)[k] = Heard[k]
          /\ Append(Heard, line)[Count + 1] = line
      BY <1>2, <1>5, AppendProperties
    <3>2. \A k \in 1..Count : Heard'[k] = Heard[k]
      BY <1>5, <1>6, <1>7, <2>1, <2>3
    <3>3. Heard'[Count + 1] = line
      BY <1>5, <1>6, <1>7, <2>1, <2>2
    <3>4. \A k \in 1..(Count + 1) : Heard'[k] = Append(Heard, line)[k]
      BY <3>1, <3>2, <3>3, <1>5
    <3> QED
      BY <3>1, <3>4, <1>5, <2>1, SeqEqual
  <2> QED
    BY <1>2, <1>5, <1>8, <2>1, <2>4 DEF Receive!Arrive
<1>10. CASE Up(sssBufHead) = sssBufTail
  <2>1. Count = BufSize - 1 /\ Count' = Count
    BY <1>1, <1>4, <1>10, SerialAssumption DEF Count, Off, RingFacts, Cells
  <2>2. Cell(Count) = sssBufHead'
    BY <1>1, <1>4, <1>10, SerialAssumption DEF Cell, Count, Off, RingFacts, Cells
  <2>3. \A k \in 1..(Count - 1) : Cell(k) # sssBufHead'
    BY <2>1, <2>2, <1>5, SerialAssumption DEF Cell, RingFacts, Cells
  <2>4. Heard' = [Heard EXCEPT ![Count] = line]
    <3>1. Count \in 1..Len(Heard)
      BY <1>5, <2>1, SerialAssumption
    <3>2. /\ [Heard EXCEPT ![Count] = line] \in Seq(Bytes)
          /\ Len([Heard EXCEPT ![Count] = line]) = Count
          /\ \A k \in 1..Count : [Heard EXCEPT ![Count] = line][k] =
                                 IF k = Count THEN line ELSE Heard[k]
      BY <1>2, <1>5, <3>1, ExceptSeq
    <3>3. \A k \in 1..(Count - 1) : Heard'[k] = Heard[k]
      BY <1>5, <1>6, <1>7, <2>1, <2>3
    <3>4. Heard'[Count] = line
      BY <1>5, <1>6, <1>7, <2>1, <2>2, <3>1
    <3>5. \A k \in 1..Count : Heard'[k] = [Heard EXCEPT ![Count] = line][k]
      BY <3>2, <3>3, <3>4, <1>5
    <3> QED
      BY <3>2, <3>5, <1>5, <2>1, SeqEqual
  <2> QED
    BY <1>2, <1>5, <1>8, <2>1, <2>4 DEF Receive!Arrive
<1> QED
  BY <1>2, <1>9, <1>10

\* The software serial port implements the queue: its ring of cells, its tail
\* moved by loop() and its head by an interrupt, loses, repeats and reorders
\* nothing but what ReceiveQueue says.
THEOREM Refinement == Spec => ImplementsQueue
<1>1. Init => Receive!Init
  BY DEF Init, Receive!Init, Heard, Taken
<1>2. ASSUME IInv, IInv', OrderInv, OrderInv', [Next]_vars
      PROVE  [Receive!Next]_<<Heard, Taken>>
  <2>1. RingFacts /\ RingFacts'
    <3>1. (IInv /\ OrderInv => RingFacts)'
      BY RingFactsHold, PTL
    <3> QED
      BY <1>2, <3>1, RingFactsHold
  <2> DEFINE Alone ==
        /\ UNCHANGED <<sssBuffer, sssBufHead, sssBufTail, sssIsListening, console>>
        /\ (pc = "fetch") <=> (pc' = "fetch")
  <2>2. CASE Available \/ ScanEnds \/ Serial \/ Prepare
    <3>1. CASE Available \/ ScanEnds \/ Serial
      <4>1. Alone
        BY <3>1 DEF Available, ScanEnds, ForwardJunk, Serial, port, mode, history
      <4> QED
        BY <2>1, <4>1, QueueStutters
    <3>2. CASE Prepare
      <4>1. sssIsListening = FALSE
        BY <1>2, <2>1, <3>2 DEF Prepare, IInv, LoopKnows, RingFacts
      <4>2. Alone
        BY <3>2, <4>1 DEF Prepare, port, history
      <4> QED
        BY <2>1, <4>2, QueueStutters
    <3> QED
      BY <2>2, <3>1, <3>2
  <2>3. CASE INT1_vect \/ SendNextByte \/ SendBits \/ PiSends \/ Unheard
    <3>1. Alone
      BY <2>3 DEF INT1_vect, SendNextByte, SendBits, PiSends, Unheard, port, mode,
        history
    <3> QED
      BY <2>1, <3>1, QueueStutters
  <2>4. CASE Read
    <3>1. CASE pc' = "fetch"
      BY <1>2, <2>1, <2>4, <3>1, ReadTakes DEF Receive!Next
    <3>2. CASE pc' # "fetch"
      <4>1. Alone
        BY <2>4, <3>2 DEF Read, ForwardJunk, mode
      <4> QED
        BY <2>1, <4>1, QueueStutters
    <3> QED
      BY <3>1, <3>2
  <2>5. CASE Fetch \/ Fill
    BY <1>2, <2>5, FetchAndFillStutter
  <2>6. CASE IdleFound \/ PrepareToTalk
    BY <1>2, <2>6, ListeningFlushes DEF Receive!Next
  <2>7. CASE GetBits
    <3>1. CASE sssBitCount = 7
      BY <1>2, <2>1, <2>7, <3>1, StoreArrives DEF Receive!Next
    <3>2. CASE sssBitCount # 7
      <4>1. Alone
        BY <2>7, <3>2 DEF GetBits, history
      <4> QED
        BY <2>1, <4>1, QueueStutters
    <3> QED
      BY <3>1, <3>2
  <2>8. CASE UNCHANGED vars
    <3>1. Alone
      BY <2>8 DEF vars, port, mode, history
    <3> QED
      BY <2>1, <3>1, QueueStutters
  <2> QED
    BY <1>2, <2>2, <2>3, <2>4, <2>5, <2>6, <2>7, <2>8 DEF Next, Loop, Interrupt
<1> QED
  BY <1>1, <1>2, Invariance, OrderInvariance, PTL
    DEF Spec, ImplementsQueue, Receive!Spec
=============================================================================
