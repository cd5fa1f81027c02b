----------------------------- MODULE FrameBusProofs -----------------------------
(****************************************************************************)
(* Proofs of the safety properties of FrameBus, for any number of           *)
(* connections, frames and spurious wake-ups.  The argument is the mutex:   *)
(* who holds it sees a global buffer that holds one frame, and the camera   *)
(* thread broadcasts only what nobody can have copied yet.                  *)
(****************************************************************************)
EXTENDS FrameBus, TLAPS

\* The mutex is held exactly between the steps that take it and give it back.
MutexHeld ==
  /\ db = "camera" <=> cam \in {"copy", "stamp", "broadcast", "unlock"}
  /\ \A c \in Clients :
       db = c <=> at[c] \in {"size", "stamp", "bytes", "unlock", "noMemory"}

\* The global buffer holds one frame, except while the camera thread is at it.
OneFrame ==
  /\ cam # "stamp" => size = timestamp /\ buf = timestamp
  /\ cam = "stamp" => size = grabbed /\ buf = grabbed
  /\ timestamp <= grabbed
  /\ cam \in {"lock", "copy", "stamp"} => timestamp < grabbed

\* What a connection's thread has copied so far is the frame that is there, and
\* what it writes to the network was.
Copied(c) ==
  /\ at[c] \in {"stamp", "bytes", "unlock"} => frame[c].size = timestamp
  /\ at[c] \in {"bytes", "unlock"} => frame[c].timestamp = timestamp
  /\ at[c] = "unlock" => frame[c].bytes = timestamp
  /\ at[c] = "write" => /\ frame[c].size = frame[c].timestamp
                        /\ frame[c].bytes = frame[c].timestamp
                        /\ frame[c].timestamp <= timestamp

\* A thread that was woken finds a frame newer than the one it has written last;
\* when the camera thread broadcasts, every thread would.
Newer(c) ==
  /\ sent[c] <= timestamp
  /\ at[c] \in {"wakeup", "size", "stamp", "bytes", "unlock"} =>
       sent[c] < timestamp \/ c \in spurious
  /\ at[c] = "write" => \/ sent[c] < frame[c].timestamp
                        \/ sent[c] = frame[c].timestamp /\ c \in spurious
  /\ cam = "broadcast" => /\ sent[c] < timestamp
                          /\ at[c] = "write" => frame[c].timestamp < timestamp

IInv ==
  /\ TypeOK
  /\ MutexHeld
  /\ OneFrame
  /\ \A c \in Clients : Copied(c) /\ Newer(c)

\* Before the first frame nothing is held, copied or sent.
LEMMA InitHolds == Init => IInv
<1> SUFFICES ASSUME Init PROVE IInv
  OBVIOUS
<1>1. TypeOK
  BY BusAssumption DEF Init, TypeOK
<1>2. MutexHeld
  BY BusAssumption DEF Init, MutexHeld
<1>3. OneFrame /\ \A c \in Clients : Copied(c) /\ Newer(c)
  BY DEF Init, OneFrame, Copied, Newer
<1> QED
  BY <1>1, <1>2, <1>3 DEF IInv

\* Every step keeps every variable's type.
LEMMA TypeStep ==
  ASSUME TypeOK, Next
  PROVE  TypeOK'
<1> USE BusAssumption DEF TypeOK, global
<1>1. CASE Grab
  BY <1>1 DEF Grab
<1>2. CASE GrabFails
  BY <1>2 DEF GrabFails
<1>3. CASE LockDb
  BY <1>3 DEF LockDb
<1>4. CASE CopyPicture
  BY <1>4 DEF CopyPicture
<1>5. CASE CopyTimestamp
  BY <1>5 DEF CopyTimestamp
<1>6. CASE BroadcastDbUpdate
  BY <1>6 DEF BroadcastDbUpdate
<1>7. CASE UnlockDb
  BY <1>7 DEF UnlockDb
<1>8. ASSUME NEW c \in Clients, Client(c)
      PROVE  TypeOK'
  <2>1. CASE Request(c)
    BY <2>1 DEF Request
  <2>2. CASE LockAndWait(c)
    BY <2>2 DEF LockAndWait
  <2>3. CASE WakeSpuriously(c)
    BY <2>3 DEF WakeSpuriously
  <2>4. CASE WakeUp(c)
    BY <2>4 DEF WakeUp
  <2>5. CASE ReadSize(c)
    BY <2>5 DEF ReadSize
  <2>6. CASE ReadTimestamp(c)
    BY <2>6 DEF ReadTimestamp
  <2>7. CASE ReadBytes(c)
    BY <2>7 DEF ReadBytes
  <2>8. CASE Unlock(c)
    BY <2>8 DEF Unlock
  <2>9. CASE Write(c)
    BY <2>9 DEF Write
  <2>10. CASE WriteFails(c)
    BY <2>10 DEF WriteFails
  <2> QED
    BY <1>8, <2>1, <2>2, <2>3, <2>4, <2>5, <2>6, <2>7, <2>8, <2>9, <2>10
    DEF Client, Copy
<1> QED
  BY <1>1, <1>2, <1>3, <1>4, <1>5, <1>6, <1>7, <1>8 DEF Next, Publish

\* The steps of the camera thread.
LEMMA CameraStep ==
  ASSUME IInv, TypeOK', Grab \/ GrabFails \/ Publish
  PROVE  IInv'
<1> SUFFICES MutexHeld' /\ OneFrame' /\ \A c \in Clients : (Copied(c) /\ Newer(c))'
  BY DEF IInv
<1> USE BusAssumption DEF IInv, TypeOK, MutexHeld, OneFrame, Copied, Newer, global
<1>1. CASE Grab
  BY <1>1 DEF Grab
<1>2. CASE GrabFails
  BY <1>2 DEF GrabFails
<1>3. CASE LockDb
  BY <1>3 DEF LockDb
<1>4. CASE CopyPicture
  BY <1>4 DEF CopyPicture
<1>5. CASE CopyTimestamp
  BY <1>5 DEF CopyTimestamp
<1>6. CASE BroadcastDbUpdate
  BY <1>6 DEF BroadcastDbUpdate
<1>7. CASE UnlockDb
  BY <1>7 DEF UnlockDb
<1> QED
  BY <1>1, <1>2, <1>3, <1>4, <1>5, <1>6, <1>7 DEF Publish

\* The steps of a connection's thread.
LEMMA ClientStep ==
  ASSUME IInv, TypeOK', NEW c \in Clients, Client(c)
  PROVE  IInv'
<1> SUFFICES MutexHeld' /\ OneFrame' /\ \A d \in Clients : (Copied(d) /\ Newer(d))'
  BY DEF IInv
<1> USE BusAssumption DEF IInv, TypeOK, MutexHeld, OneFrame, Copied, Newer, global
<1>1. CASE Request(c)
  BY <1>1 DEF Request
<1>2. CASE LockAndWait(c)
  BY <1>2 DEF LockAndWait
<1>3. CASE WakeSpuriously(c)
  BY <1>3 DEF WakeSpuriously
<1>4. CASE WakeUp(c)
  BY <1>4 DEF WakeUp
<1>5. CASE ReadSize(c)
  BY <1>5 DEF ReadSize
<1>6. CASE ReadTimestamp(c)
  BY <1>6 DEF ReadTimestamp
<1>7. CASE ReadBytes(c)
  BY <1>7 DEF ReadBytes
<1>8. CASE Unlock(c)
  BY <1>8 DEF Unlock
<1>9. CASE Write(c)
  BY <1>9 DEF Write
<1>10. CASE WriteFails(c)
  BY <1>10 DEF WriteFails
<1> QED
  BY <1>1, <1>2, <1>3, <1>4, <1>5, <1>6, <1>7, <1>8, <1>9, <1>10 DEF Client, Copy

\* The inductive invariant: types, the mutex, one frame in the buffer, and what
\* a connection's thread has of it.
THEOREM Invariance == Spec => []IInv
<1>1. ASSUME IInv, [Next]_vars
      PROVE  IInv'
  <2>1. CASE Next
    <3>1. TypeOK'
      BY <1>1, <2>1, TypeStep DEF IInv
    <3> QED
      BY <1>1, <2>1, <3>1, CameraStep, ClientStep DEF Next
  <2>2. CASE UNCHANGED vars
    BY <1>1, <2>2 DEF vars, global, IInv, TypeOK, MutexHeld, OneFrame, Copied, Newer
  <2> QED
    BY <1>1, <2>1, <2>2
<1> QED
  BY <1>1, InitHolds, PTL DEF Spec

\* Every variable of the frame bus keeps its type.
THEOREM TypeCorrect == Spec => []TypeOK
BY Invariance, PTL DEF IInv

\* No phone is sent the bytes of one frame under the size or the timestamp of
\* another (cam_thread, send_stream and send_snapshot under the mutex db).
THEOREM WholeFramesAlways == Spec => []WholeFrames
<1>1. IInv => WholeFrames
  BY DEF IInv, WholeFrames, Copied
<1> QED
  BY <1>1, Invariance, PTL

\* Frames reach a phone in the order they were grabbed, and twice only when its
\* own thread was woken by nobody (pthread_cond_wait without a predicate).
THEOREM FreshFramesAlways == Spec => []FreshFrames
<1>1. IInv => FreshFrames
  BY DEF IInv, TypeOK, FreshFrames, Newer
<1> QED
  BY <1>1, Invariance, PTL
=============================================================================
