------------------------------- MODULE MjpegView -------------------------------
(****************************************************************************)
(* The picture of the Android viewer (MjpegView.java).  Two threads: the UI *)
(* thread, on which Android calls surfaceCreated, surfaceChanged and        *)
(* surfaceDestroyed and MainActivity calls setSource, and the drawing       *)
(* thread MjpegViewThread, which reads frames from the network and draws    *)
(* them.                                                                    *)
(*                                                                          *)
(* They share fields, the monitor of mSurfaceHolder and, inside Android's   *)
(* SurfaceView, the lock that lockCanvas keeps until unlockCanvasAndPost    *)
(* and that SurfaceView takes before it gives or withdraws the surface.     *)
(* lockCanvas returns null once the surface is withdrawn; the callback that *)
(* tells the view so comes afterwards.                                      *)
(****************************************************************************)
EXTENDS Integers

CONSTANTS
  Sizes,    \* sizes a surface can have
  NoSize    \* getWidth() and getHeight() before there is a surface

VARIABLES
  \* fields of MjpegView
  mIn,          \* there is a source
  mRun, surfaceDone, dispWidth, dispHeight,
  \* the locks: who holds them
  monitor,      \* of mSurfaceHolder
  surfaceLock,  \* of SurfaceView
  surface,      \* the surface is there: drawing is not stopped
  \* the UI thread
  ui,           \* where it is: see UI
  newSize,      \* the arguments of surfaceChanged
  \* the drawing thread
  thread,       \* new, running or terminated
  at,           \* where its run() is: see Run
  c,            \* its canvas is not null
  width,        \* destRect: the dispWidth it has read
  \* the process
  crashed       \* an exception reached the end of run()

fields == <<mIn, mRun, surfaceDone, dispWidth, dispHeight>>
locks == <<monitor, surfaceLock>>
uiVars == <<ui, newSize>>
drawing == <<thread, at, c, width>>
vars == <<fields, locks, surface, uiVars, drawing, crashed>>

----------------------------------------------------------------------------
(* The UI thread.                                                           *)

\* Android makes the window visible, hides it or changes its size ...
Relayout ==
  /\ ui = "idle"
  /\ ui' \in IF surface THEN {"hide", "resize"} ELSE {"show"}
  /\ UNCHANGED <<fields, locks, surface, newSize, drawing, crashed>>

\* ... which SurfaceView does under its lock, and then calls the view.
GiveSurface ==
  /\ ui \in {"show", "resize"}
  /\ surfaceLock = "free"
  /\ surface' = TRUE
  /\ newSize' \in Sizes
  /\ ui' = IF ui = "show" THEN "surfaceCreated" ELSE "surfaceChanged"
  /\ UNCHANGED <<fields, locks, drawing, crashed>>

WithdrawSurface ==
  /\ ui = "hide"
  /\ surfaceLock = "free"
  /\ surface' = FALSE
  /\ ui' = "surfaceDestroyed"
  /\ UNCHANGED <<fields, locks, newSize, drawing, crashed>>

SurfaceCreated ==
  /\ ui = "surfaceCreated"
  /\ surfaceDone' = TRUE
  /\ ui' = "surfaceChanged"
  /\ UNCHANGED <<mIn, mRun, dispWidth, dispHeight, locks, surface, newSize, drawing,
                 crashed>>

\* Faulty: the size is set without the monitor.
SurfaceChangedBare ==
  /\ ui = "surfaceChanged"
  /\ dispWidth' = newSize
  /\ ui' = "setHeight"
  /\ UNCHANGED <<mIn, mRun, surfaceDone, dispHeight, locks, surface, newSize, drawing,
                 crashed>>

\* surfaceChanged calls setSurfaceSize, which enters the monitor.
SurfaceChanged ==
  /\ ui = "surfaceChanged"
  /\ monitor = "free"
  /\ monitor' = "ui"
  /\ dispWidth' = newSize
  /\ ui' = "setHeight"
  /\ UNCHANGED <<mIn, mRun, surfaceDone, dispHeight, surfaceLock, surface, newSize,
                 drawing, crashed>>

SetHeight ==
  /\ ui = "setHeight"
  /\ dispHeight' = newSize
  /\ monitor' = IF monitor = "ui" THEN "free" ELSE monitor
  /\ ui' = "idle"
  /\ UNCHANGED <<mIn, mRun, surfaceDone, dispWidth, surfaceLock, surface, newSize,
                 drawing, crashed>>

\* Faulty: a thread started later would not know the surface is gone.
SurfaceDestroyedDone ==
  /\ ui = "surfaceDestroyed"
  /\ ui' = "stopPlayback"
  /\ UNCHANGED <<fields, locks, surface, newSize, drawing, crashed>>

SurfaceDestroyed ==
  /\ ui = "surfaceDestroyed"
  /\ surfaceDone' = FALSE
  /\ ui' = "stopPlayback"
  /\ UNCHANGED <<mIn, mRun, dispWidth, dispHeight, locks, surface, newSize, drawing,
                 crashed>>

\* Faulty: the drawing thread is not told to stop.
StopPlaybackRunning ==
  /\ ui = "stopPlayback"
  /\ ui' = "join"
  /\ UNCHANGED <<fields, locks, surface, newSize, drawing, crashed>>

StopPlayback ==
  /\ ui = "stopPlayback"
  /\ mRun' = FALSE
  /\ ui' = "join"
  /\ UNCHANGED <<mIn, surfaceDone, dispWidth, dispHeight, locks, surface, newSize,
                 drawing, crashed>>

\* Faulty: the drawing thread is not waited for.
JoinNot ==
  /\ ui = "join"
  /\ ui' = "idle"
  /\ UNCHANGED <<fields, locks, surface, newSize, drawing, crashed>>

\* A thread that was never started is joined at once.
Join ==
  /\ ui = "join"
  /\ thread # "running"
  /\ ui' = "idle"
  /\ UNCHANGED <<fields, locks, surface, newSize, drawing, crashed>>

\* DoRead's only result: the stream, when the server could be reached.
SetSource ==
  /\ ui = "idle"
  /\ ~mIn
  /\ mIn' = TRUE
  /\ mRun' = TRUE
  /\ thread' = "running"
  /\ at' = "while"
  /\ UNCHANGED <<surfaceDone, dispWidth, dispHeight, locks, surface, uiVars, c, width,
                 crashed>>

\* What it does once it has begun.
Callback ==
  \/ GiveSurface \/ WithdrawSurface \/ SurfaceCreated \/ SurfaceChanged \/ SetHeight
  \/ SurfaceDestroyed \/ StopPlayback \/ Join

----------------------------------------------------------------------------
(* The drawing thread.                                                      *)

CheckRun ==
  /\ at = "while"
  /\ thread = "running"
  /\ IF mRun THEN at' = "if" /\ UNCHANGED thread
             ELSE thread' = "terminated" /\ UNCHANGED at
  /\ UNCHANGED <<fields, locks, surface, uiVars, c, width, crashed>>

\* Faulty: a thread that finds no surface gives up.
CheckSurfaceOnce ==
  /\ at = "if"
  /\ IF surfaceDone THEN at' = "lockCanvas" /\ UNCHANGED thread
                    ELSE at' = "while" /\ thread' = "terminated"
  /\ UNCHANGED <<fields, locks, surface, uiVars, c, width, crashed>>

CheckSurface ==
  /\ at = "if"
  /\ at' = IF surfaceDone THEN "lockCanvas" ELSE "while"
  /\ UNCHANGED <<fields, locks, surface, uiVars, thread, c, width, crashed>>

LockCanvas ==
  /\ at = "lockCanvas"
  /\ surfaceLock = "free"
  /\ surfaceLock' = IF surface THEN "draw" ELSE "free"
  /\ c' = surface
  /\ at' = "synchronized"
  /\ UNCHANGED <<fields, monitor, surface, uiVars, thread, width, crashed>>

EnterMonitor ==
  /\ at = "synchronized"
  /\ monitor = "free"
  /\ monitor' = "draw"
  /\ at' = "read"
  /\ UNCHANGED <<fields, surfaceLock, surface, uiVars, thread, c, width, crashed>>

\* readMjpegFrame returns a frame, or throws an IOException, after five seconds
\* without a byte too, ...
ReadMjpegFrame ==
  /\ at = "read"
  /\ \/ at' = "destRect" /\ UNCHANGED monitor
     \/ at' = "unlock" /\ monitor' = "free"
  /\ UNCHANGED <<fields, surfaceLock, surface, uiVars, thread, c, width, crashed>>

\* ... or the bytes are no picture: a null bitmap, an array of negative size.
BadFrame ==
  /\ at = "read"
  /\ crashed' = TRUE
  /\ UNCHANGED <<fields, locks, surface, uiVars, drawing>>

\* destRect reads dispWidth, ...
DestRect ==
  /\ at = "destRect"
  /\ width' = dispWidth
  /\ at' = "draw"
  /\ UNCHANGED <<fields, locks, surface, uiVars, thread, c, crashed>>

\* ... and dispHeight; then it is drawn.  On a null canvas that is a
\* NullPointerException, which ends the process.
Draw ==
  /\ at = "draw"
  /\ IF c THEN /\ monitor' = "free"
               /\ at' = "unlock"
               /\ UNCHANGED crashed
          ELSE crashed' = TRUE /\ UNCHANGED <<monitor, at>>
  /\ UNCHANGED <<fields, surfaceLock, surface, uiVars, thread, c, width>>

\* A canvas that is null is not given back.
UnlockCanvasAndPost ==
  /\ at = "unlock"
  /\ surfaceLock' = IF c THEN "free" ELSE surfaceLock
  /\ at' = "while"
  /\ UNCHANGED <<fields, monitor, surface, uiVars, thread, c, width, crashed>>

Run ==
  \/ CheckRun \/ CheckSurface \/ LockCanvas \/ EnterMonitor \/ ReadMjpegFrame
  \/ DestRect \/ Draw \/ UnlockCanvasAndPost

----------------------------------------------------------------------------
Init ==
  /\ mIn = FALSE /\ mRun = FALSE /\ surfaceDone = FALSE
  /\ dispWidth = NoSize /\ dispHeight = NoSize
  /\ monitor = "free" /\ surfaceLock = "free" /\ surface = FALSE
  /\ ui = "idle" /\ newSize = NoSize
  /\ thread = "new" /\ at = "while" /\ c = FALSE /\ width = NoSize
  /\ crashed = FALSE

\* Nothing runs in a process that is gone.
Next == ~crashed /\ (Relayout \/ SetSource \/ Callback \/ Run \/ BadFrame)

Spec == Init /\ [][Next]_vars

\* Both threads run; a read ends, by MainActivity's setSoTimeout; a thread that
\* waits for a lock which is given back again and again gets it.
FairSpec ==
  /\ Spec
  /\ SF_vars(~crashed /\ Callback)
  /\ WF_vars(~crashed /\ Run)
  /\ SF_vars(~crashed /\ (LockCanvas \/ EnterMonitor))

----------------------------------------------------------------------------
(* Properties.                                                              *)

TypeOK ==
  /\ mIn \in BOOLEAN /\ mRun \in BOOLEAN /\ surfaceDone \in BOOLEAN
  /\ surface \in BOOLEAN /\ c \in BOOLEAN /\ crashed \in BOOLEAN
  /\ dispWidth \in Sizes \cup {NoSize} /\ dispHeight \in Sizes \cup {NoSize}
  /\ newSize \in Sizes \cup {NoSize} /\ width \in Sizes \cup {NoSize}
  /\ monitor \in {"free", "ui", "draw"}
  /\ surfaceLock \in {"free", "draw"}
  /\ ui \in {"idle", "show", "hide", "resize", "surfaceCreated", "surfaceChanged",
             "setHeight", "surfaceDestroyed", "stopPlayback", "join"}
  /\ thread \in {"new", "running", "terminated"}
  /\ at \in {"while", "if", "lockCanvas", "synchronized", "read", "destRect", "draw",
             "unlock"}

\* Where the drawing thread holds what lockCanvas returned.
Drawing == at \in {"synchronized", "read", "destRect", "draw", "unlock"}

\* The UI thread is taking the surface away.
Destroying == ui \in {"surfaceDestroyed", "stopPlayback", "join"}

\* Once surfaceDestroyed has returned the drawing thread is nowhere near the
\* surface, whether it was started before or after (surfaceDestroyed's join, and
\* surfaceDone for a source that comes late).
OffDeadSurface ==
  ~surface /\ ~Destroying => ~Drawing /\ at # "lockCanvas"

\* A null canvas, and with it the crash of drawing on it, is met only by a frame
\* that was begun while the UI thread takes the surface away; and a canvas goes
\* with the lock, so the surface cannot go from under it.
NullCanvasOnlyThen ==
  Drawing => IF c THEN surfaceLock = "draw" /\ surface ELSE Destroying

\* destRect never puts the width of one surfaceChanged together with the height
\* of another (the monitor of mSurfaceHolder in setSurfaceSize and run).
WholeSizes ==
  at = "draw" => width = dispHeight

\* Every callback returns, although the UI thread waits for the drawing thread,
\* which waits for the network, in three places; only a crash ends that.
UIComesBack == (ui # "idle") ~> (ui = "idle" \/ crashed)

\* A source and a surface, whichever came first, make a picture: the next frame
\* is read, unless the surface goes.
Plays == (mRun /\ surfaceDone) ~> (at = "read" \/ ~surfaceDone \/ crashed)
=============================================================================
