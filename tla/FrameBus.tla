-------------------------------- MODULE FrameBus --------------------------------
(****************************************************************************)
(* How mjpg_streamer, which z_server runs for every session, passes frames  *)
(* from the camera to the phones.  One camera thread (cam_thread in         *)
(* plugins/input_uvc/input_uvc.c) copies each frame into a global buffer;   *)
(* one thread per connection (send_stream and send_snapshot in              *)
(* plugins/output_http/httpd.c) copies it out again and writes it to the    *)
(* network.  They share the mutex db and the condition variable db_update.  *)
(*                                                                          *)
(* Frames are numbered as they are grabbed; the size, the timestamp and the *)
(* bytes of a frame are its number, and 0 is a buffer no frame was copied   *)
(* to.  A frame the camera thread drops (too small, too early) has no       *)
(* number.                                                                  *)
(****************************************************************************)
EXTENDS Integers

CONSTANTS
  Clients,   \* connections
  MaxFrames  \* bound: frames grabbed

ASSUME BusAssumption ==
  /\ {"free", "camera"} \cap Clients = {}
  /\ MaxFrames \in Nat

VARIABLES
  size, timestamp, buf,  \* of pglobal->in[0]
  db,                    \* who holds the mutex
  cam,                   \* where the camera thread is; "exited" for the process
  grabbed,               \* frames grabbed
  at,                    \* where a connection's thread is: see Client
  snapshot,              \* it was asked for a snapshot, not for a stream
  frame,                 \* its own copy: size, timestamp and bytes
  sent,                  \* history: the frame it has written last
  spurious               \* history: who was last woken without a broadcast

global == <<size, timestamp, buf>>
vars == <<global, db, cam, grabbed, at, snapshot, frame, sent, spurious>>

----------------------------------------------------------------------------
(* The camera thread.                                                       *)

\* uvcGrab, ...
Grab ==
  /\ cam = "grab"
  /\ grabbed < MaxFrames
  /\ grabbed' = grabbed + 1
  /\ cam' = "lock"
  /\ UNCHANGED <<global, db, at, snapshot, frame, sent, spurious>>

\* ... which ends the process when it fails.
GrabFails ==
  /\ cam = "grab"
  /\ cam' = "exited"
  /\ UNCHANGED <<global, db, grabbed, at, snapshot, frame, sent, spurious>>

LockDb ==
  /\ cam = "lock"
  /\ db = "free"
  /\ db' = "camera"
  /\ cam' = "copy"
  /\ UNCHANGED <<global, grabbed, at, snapshot, frame, sent, spurious>>

\* memcpy_picture or compress_image_to_jpeg.
CopyPicture ==
  /\ cam = "copy"
  /\ buf' = grabbed
  /\ size' = grabbed
  /\ cam' = "stamp"
  /\ UNCHANGED <<timestamp, db, grabbed, at, snapshot, frame, sent, spurious>>

CopyTimestamp ==
  /\ cam = "stamp"
  /\ timestamp' = grabbed
  /\ cam' = "broadcast"
  /\ UNCHANGED <<size, buf, db, grabbed, at, snapshot, frame, sent, spurious>>

\* Faulty: pthread_cond_signal wakes one thread.
SignalDbUpdate ==
  /\ cam = "broadcast"
  /\ \E c \in Clients :
       /\ at' = [at EXCEPT ![c] = IF @ = "waiting" THEN "wakeup" ELSE @]
       /\ spurious' = IF at[c] = "waiting" THEN spurious \ {c} ELSE spurious
  /\ cam' = "unlock"
  /\ UNCHANGED <<global, db, grabbed, snapshot, frame, sent>>

BroadcastDbUpdate ==
  /\ cam = "broadcast"
  /\ at' = [c \in Clients |-> IF at[c] = "waiting" THEN "wakeup" ELSE at[c]]
  /\ spurious' = {c \in spurious : at[c] # "waiting"}
  /\ cam' = "unlock"
  /\ UNCHANGED <<global, db, grabbed, snapshot, frame, sent>>

UnlockDb ==
  /\ cam = "unlock"
  /\ db' = "free"
  /\ cam' = "grab"
  /\ UNCHANGED <<global, grabbed, at, snapshot, frame, sent, spurious>>

Publish == LockDb \/ CopyPicture \/ CopyTimestamp \/ BroadcastDbUpdate \/ UnlockDb

----------------------------------------------------------------------------
(* The thread of a connection.                                              *)

Request(c) ==
  /\ at[c] = "new"
  /\ at' = [at EXCEPT ![c] = "fresh"]
  /\ \E once \in BOOLEAN : snapshot' = [snapshot EXCEPT ![c] = once]
  /\ UNCHANGED <<global, db, cam, grabbed, frame, sent, spurious>>

\* Faulty: what is in the buffer is taken for a fresh frame.
LockAndCopy(c) ==
  /\ at[c] = "fresh"
  /\ db = "free"
  /\ db' = c
  /\ at' = [at EXCEPT ![c] = "size"]
  /\ UNCHANGED <<global, cam, grabbed, snapshot, frame, sent, spurious>>

\* pthread_mutex_lock and pthread_cond_wait, which gives the mutex back.
LockAndWait(c) ==
  /\ at[c] = "fresh"
  /\ db = "free"
  /\ at' = [at EXCEPT ![c] = "waiting"]
  /\ UNCHANGED <<global, db, cam, grabbed, snapshot, frame, sent, spurious>>

\* POSIX allows a thread to be woken without a broadcast.
WakeSpuriously(c) ==
  /\ at[c] = "waiting"
  /\ spurious' = spurious \cup {c}
  /\ at' = [at EXCEPT ![c] = "wakeup"]
  /\ UNCHANGED <<global, db, cam, grabbed, snapshot, frame, sent>>

\* Faulty: the buffer is read without the mutex.
WakeUpBare(c) ==
  /\ at[c] = "wakeup"
  /\ at' = [at EXCEPT ![c] = "size"]
  /\ UNCHANGED <<global, db, cam, grabbed, snapshot, frame, sent, spurious>>

\* pthread_cond_wait returns with the mutex.  Nothing is checked again.
WakeUp(c) ==
  /\ at[c] = "wakeup"
  /\ db = "free"
  /\ db' = c
  /\ at' = [at EXCEPT ![c] = "size"]
  /\ UNCHANGED <<global, cam, grabbed, snapshot, frame, sent, spurious>>

\* frame_size, and memory for a frame of that size, if there is any.
ReadSize(c) ==
  /\ at[c] = "size"
  /\ frame' = [frame EXCEPT ![c].size = size]
  /\ \E next \in {"stamp", "noMemory"} : at' = [at EXCEPT ![c] = next]
  /\ UNCHANGED <<global, db, cam, grabbed, snapshot, sent, spurious>>

ReadTimestamp(c) ==
  /\ at[c] = "stamp"
  /\ frame' = [frame EXCEPT ![c].timestamp = timestamp]
  /\ at' = [at EXCEPT ![c] = "bytes"]
  /\ UNCHANGED <<global, db, cam, grabbed, snapshot, sent, spurious>>

ReadBytes(c) ==
  /\ at[c] = "bytes"
  /\ frame' = [frame EXCEPT ![c].bytes = buf]
  /\ at' = [at EXCEPT ![c] = "unlock"]
  /\ UNCHANGED <<global, db, cam, grabbed, snapshot, sent, spurious>>

\* Faulty: the way out for want of memory keeps the mutex.
UnlockGotten(c) ==
  /\ at[c] \in {"unlock", "noMemory"}
  /\ db' = IF at[c] = "unlock" THEN "free" ELSE db
  /\ at' = [at EXCEPT ![c] = IF @ = "unlock" THEN "write" ELSE "done"]
  /\ UNCHANGED <<global, cam, grabbed, snapshot, frame, sent, spurious>>

Unlock(c) ==
  /\ at[c] \in {"unlock", "noMemory"}
  /\ db' = "free"
  /\ at' = [at EXCEPT ![c] = IF @ = "unlock" THEN "write" ELSE "done"]
  /\ UNCHANGED <<global, cam, grabbed, snapshot, frame, sent, spurious>>

\* Header and frame go to the network.  A stream goes on to the next frame.
Write(c) ==
  /\ at[c] = "write"
  /\ sent' = [sent EXCEPT ![c] = frame[c].timestamp]
  /\ at' = [at EXCEPT ![c] = IF snapshot[c] THEN "done" ELSE "fresh"]
  /\ UNCHANGED <<global, db, cam, grabbed, snapshot, frame, spurious>>

\* The phone is gone.
WriteFails(c) ==
  /\ at[c] = "write"
  /\ at' = [at EXCEPT ![c] = "done"]
  /\ UNCHANGED <<global, db, cam, grabbed, snapshot, frame, sent, spurious>>

\* What it does once it has been woken.
Copy(c) ==
  WakeUp(c) \/ ReadSize(c) \/ ReadTimestamp(c) \/ ReadBytes(c) \/ Unlock(c)

Client(c) ==
  \/ Request(c) \/ LockAndWait(c) \/ WakeSpuriously(c) \/ Copy(c)
  \/ Write(c) \/ WriteFails(c)

----------------------------------------------------------------------------
Init ==
  /\ size = 0 /\ timestamp = 0 /\ buf = 0
  /\ db = "free" /\ cam = "grab" /\ grabbed = 0 /\ spurious = {}
  /\ at = [c \in Clients |-> "new"]
  /\ snapshot = [c \in Clients |-> FALSE]
  /\ frame = [c \in Clients |-> [size |-> 0, timestamp |-> 0, bytes |-> 0]]
  /\ sent = [c \in Clients |-> 0]

Alive == cam # "exited"

Next == Alive /\ (Grab \/ GrabFails \/ Publish \/ \E c \in Clients : Client(c))

Spec == Init /\ [][Next]_vars

\* The camera thread publishes what it has grabbed, and a thread that was woken
\* copies; both get the mutex if it is given back again and again.  Nobody has
\* to ask, and a write need never end: nothing sets a timeout on it.
FairSpec ==
  /\ Spec
  /\ SF_vars(Alive /\ Publish)
  /\ \A c \in Clients : SF_vars(Alive /\ Copy(c))

----------------------------------------------------------------------------
(* Properties.                                                              *)

TypeOK ==
  /\ size \in 0..MaxFrames /\ timestamp \in 0..MaxFrames /\ buf \in 0..MaxFrames
  /\ db \in {"free", "camera"} \cup Clients
  /\ cam \in {"grab", "lock", "copy", "stamp", "broadcast", "unlock", "exited"}
  /\ grabbed \in 0..MaxFrames
  /\ at \in [Clients -> {"new", "fresh", "waiting", "wakeup", "size", "stamp",
                         "bytes", "unlock", "noMemory", "write", "done"}]
  /\ snapshot \in [Clients -> BOOLEAN]
  /\ frame \in [Clients -> [size : 0..MaxFrames, timestamp : 0..MaxFrames,
                            bytes : 0..MaxFrames]]
  /\ sent \in [Clients -> 0..MaxFrames]
  /\ spurious \subseteq Clients

\* The size, the timestamp and the bytes that go out together are those of one
\* frame, although the camera thread writes the next one over them.
WholeFrames ==
  \A c \in Clients : at[c] \in {"unlock", "write"} =>
    /\ frame[c].size = frame[c].timestamp
    /\ frame[c].bytes = frame[c].timestamp

\* "wait for fresh frames" (httpd.c, line 481): a phone is never sent an older
\* frame after a newer one, and none twice, unless its own thread was woken
\* without a broadcast: there is no predicate it could check.
FreshFrames ==
  \A c \in Clients : at[c] = "write" =>
    \/ frame[c].timestamp > sent[c]
    \/ frame[c].timestamp = sent[c] /\ c \in spurious

\* A frame that has been grabbed is published, whatever the phones do: one that
\* never takes what it is sent does not stop the camera or the other phones.
CameraGoesOn == (cam = "lock") ~> (cam = "grab")

\* Whoever waits when a frame is published has it, or a newer one, in the end.
WaitersAreServed ==
  \A c \in Clients :
    (at[c] = "waiting" /\ cam = "broadcast") ~>
      (at[c] \in {"write", "noMemory"} \/ ~Alive)
=============================================================================
