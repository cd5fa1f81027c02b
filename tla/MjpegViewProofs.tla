---------------------------- MODULE MjpegViewProofs ----------------------------
(****************************************************************************)
(* Proofs of the safety properties of MjpegView, for any sizes and any      *)
(* number of surfaces.  None of them is inductive: each rests on who holds  *)
(* which lock where, and on what the UI thread has already done when it     *)
(* joins the drawing thread.                                                *)
(****************************************************************************)
EXTENDS MjpegView, TLAPS

\* A lock is held exactly between the steps that take it and give it back, by
\* a drawing thread that runs.
LocksHeld ==
  /\ monitor = "ui" <=> ui = "setHeight"
  /\ monitor = "draw" <=> at \in {"read", "destRect", "draw"}
  /\ surfaceLock = "draw" <=> Drawing /\ c
  /\ thread # "running" => at = "while"
  /\ ~mIn => thread = "new"

\* surfaceDone lags behind the surface only while it is being taken away, and a
\* drawing thread past its look at surfaceDone has not been joined.
SurfaceKnown ==
  /\ surfaceDone => surface \/ ui = "surfaceDestroyed"
  /\ ui \in {"surfaceCreated", "surfaceChanged", "setHeight", "hide"} => surface
  /\ Destroying => ~surface
  /\ at = "lockCanvas" => surfaceDone \/ Destroying

\* The two halves of a size differ only inside setSurfaceSize.
SizesPaired ==
  /\ IF ui = "setHeight" THEN dispWidth = newSize ELSE dispWidth = dispHeight
  /\ at = "draw" => width = dispWidth

IInv ==
  /\ TypeOK
  /\ LocksHeld
  /\ SurfaceKnown
  /\ SizesPaired
  /\ NullCanvasOnlyThen

\* The view begins without a surface, a source or a thread that runs.
LEMMA InitHolds == Init => IInv
BY DEF Init, IInv, TypeOK, LocksHeld, SurfaceKnown, SizesPaired, NullCanvasOnlyThen,
       Drawing, Destroying

\* Every step keeps every variable's type.
LEMMA TypeStep ==
  ASSUME TypeOK, Next
  PROVE  TypeOK'
<1> USE DEF TypeOK, fields, locks, uiVars, drawing
<1>1. CASE Relayout
  BY <1>1 DEF Relayout
<1>2. CASE SetSource
  BY <1>2 DEF SetSource
<1>3. CASE GiveSurface
  BY <1>3 DEF GiveSurface
<1>4. CASE WithdrawSurface
  <2>1. surface' \in BOOLEAN
    BY <1>4 DEF WithdrawSurface
  <2> QED
    BY <1>4, <2>1 DEF WithdrawSurface
<1>5. CASE SurfaceCreated
  BY <1>5 DEF SurfaceCreated
<1>6. CASE SurfaceChanged
  BY <1>6 DEF SurfaceChanged
<1>7. CASE SetHeight
  BY <1>7 DEF SetHeight
<1>8. CASE SurfaceDestroyed
  <2>1. surfaceDone' \in BOOLEAN
    BY <1>8 DEF SurfaceDestroyed
  <2> QED
    BY <1>8, <2>1 DEF SurfaceDestroyed
<1>9. CASE StopPlayback
  <2>1. mRun' \in BOOLEAN
    BY <1>9 DEF StopPlayback
  <2> QED
    BY <1>9, <2>1 DEF StopPlayback
<1>10. CASE Join
  BY <1>10 DEF Join
<1>11. CASE CheckRun
  BY <1>11 DEF CheckRun
<1>12. CASE CheckSurface
  BY <1>12 DEF CheckSurface
<1>13. CASE LockCanvas
  BY <1>13 DEF LockCanvas
<1>14. CASE EnterMonitor
  BY <1>14 DEF EnterMonitor
<1>15. CASE ReadMjpegFrame
  BY <1>15 DEF ReadMjpegFrame
<1>16. CASE DestRect
  BY <1>16 DEF DestRect
<1>17. CASE Draw
  <2>1. crashed' \in BOOLEAN
    BY <1>17 DEF Draw
  <2> QED
    BY <1>17, <2>1 DEF Draw
<1>18. CASE UnlockCanvasAndPost
  BY <1>18 DEF UnlockCanvasAndPost
<1>19. CASE BadFrame
  BY <1>19 DEF BadFrame
<1> QED
  BY <1>1, <1>2, <1>3, <1>4, <1>5, <1>6, <1>7, <1>8, <1>9, <1>10, <1>11,
     <1>12, <1>13, <1>14, <1>15, <1>16, <1>17, <1>18, <1>19
     DEF Next, Callback, Run

\* The steps of the UI thread.
LEMMA UIStep ==
  ASSUME IInv, TypeOK', Relayout \/ SetSource \/ Callback
  PROVE  IInv'
<1> USE DEF IInv, LocksHeld, SurfaceKnown, SizesPaired, NullCanvasOnlyThen, Drawing,
            Destroying, fields, locks, uiVars, drawing
<1>1. CASE Relayout
  BY <1>1 DEF Relayout, TypeOK
<1>2. CASE SetSource
  BY <1>2 DEF SetSource, TypeOK
<1>3. CASE GiveSurface
  BY <1>3 DEF GiveSurface, TypeOK
<1>4. CASE WithdrawSurface
  BY <1>4 DEF WithdrawSurface, TypeOK
<1>5. CASE SurfaceCreated
  BY <1>5 DEF SurfaceCreated, TypeOK
<1>6. CASE SurfaceChanged
  BY <1>6 DEF SurfaceChanged, TypeOK
<1>7. CASE SetHeight
  BY <1>7 DEF SetHeight, TypeOK
<1>8. CASE SurfaceDestroyed
  BY <1>8 DEF SurfaceDestroyed, TypeOK
<1>9. CASE StopPlayback
  BY <1>9 DEF StopPlayback, TypeOK
<1>10. CASE Join
  BY <1>10 DEF Join, TypeOK
<1> QED
  BY <1>1, <1>2, <1>3, <1>4, <1>5, <1>6, <1>7, <1>8, <1>9, <1>10 DEF Callback

\* The steps of the drawing thread.
LEMMA RunStep ==
  ASSUME IInv, TypeOK', Run \/ BadFrame
  PROVE  IInv'
<1> USE DEF IInv, LocksHeld, SurfaceKnown, SizesPaired, NullCanvasOnlyThen, Drawing,
            Destroying, fields, locks, uiVars, drawing
<1>1. CASE CheckRun
  BY <1>1 DEF CheckRun, TypeOK
<1>2. CASE CheckSurface
  BY <1>2 DEF CheckSurface, TypeOK
<1>3. CASE LockCanvas
  BY <1>3 DEF LockCanvas, TypeOK
<1>4. CASE EnterMonitor
  BY <1>4 DEF EnterMonitor, TypeOK
<1>5. CASE ReadMjpegFrame
  BY <1>5 DEF ReadMjpegFrame, TypeOK
<1>6. CASE DestRect
  BY <1>6 DEF DestRect, TypeOK
<1>7. CASE Draw
  BY <1>7 DEF Draw, TypeOK
<1>8. CASE UnlockCanvasAndPost
  BY <1>8 DEF UnlockCanvasAndPost, TypeOK
<1>9. CASE BadFrame
  BY <1>9 DEF BadFrame, TypeOK
<1> QED
  BY <1>1, <1>2, <1>3, <1>4, <1>5, <1>6, <1>7, <1>8, <1>9 DEF Run

\* The inductive invariant: types, locks, what is known of the surface, and the
\* halves of the size.
THEOREM Invariance == Spec => []IInv
<1>1. ASSUME IInv, [Next]_vars
      PROVE  IInv'
  <2>1. CASE Next
    BY <1>1, <2>1, TypeStep, UIStep, RunStep DEF Next, IInv
  <2>2. CASE UNCHANGED vars
    BY <1>1, <2>2 DEF vars, fields, locks, uiVars, drawing, IInv, TypeOK, LocksHeld,
      SurfaceKnown, SizesPaired, NullCanvasOnlyThen, Drawing, Destroying
  <2> QED
    BY <1>1, <2>1, <2>2
<1> QED
  BY <1>1, InitHolds, PTL DEF Spec

\* After surfaceDestroyed has returned the drawing thread stays off the surface:
\* it has been joined, or finds surfaceDone false.
THEOREM OffDeadSurfaceAlways == Spec => []OffDeadSurface
<1>1. IInv => OffDeadSurface
  BY DEF IInv, SurfaceKnown, LocksHeld, NullCanvasOnlyThen, OffDeadSurface, TypeOK,
         Drawing, Destroying
<1> QED
  BY <1>1, Invariance, PTL

\* lockCanvas gives null only to a frame begun while surfaceDestroyed is coming
\* or running, and what it gave stays until it is given back.
THEOREM NullCanvasSafety == Spec => []NullCanvasOnlyThen
BY Invariance, PTL DEF IInv

\* No picture is scaled to half an old and half a new size.
THEOREM SizeSafety == Spec => []WholeSizes
<1>1. IInv => WholeSizes
  BY DEF IInv, SizesPaired, LocksHeld, WholeSizes
<1> QED
  BY <1>1, Invariance, PTL
=============================================================================
