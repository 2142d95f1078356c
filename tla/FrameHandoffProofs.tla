------------------------- MODULE FrameHandoffProofs -------------------------
(***************************************************************************)
(* Proofs about FrameHandoff, for every set of video sizes and every number   *)
(* of frames: the planes are not used after they are freed, no wakeup of the   *)
(* main loop is lost, and the hand-off implements NewestFrame.                  *)
(***************************************************************************)
EXTENDS FrameHandoff, TLAPS

(* The flag render_scheduled and the trigger_render sources go together. *)
FlagIsSource == triggers = IF scheduled THEN 1 ELSE 0

(* There are never more resize_to_video sources than frames delivered. *)
ResizesBounded ==
  /\ resizes <= video.frame
  /\ net = "copied" => resizes < video.frame

(* What session_teardown has done so far. *)
TeardownOrder ==
  /\ ui = "join" => ~alive
  /\ net = "gone" => ~alive
  /\ ~alive => ~dirty /\ ui # "draw"
  /\ net = "gone" => ui = "loop"

(* What is in the textures when nothing waits to be uploaded. *)
UploadedIsNewest == ~pending => tex = video

(* The inductive invariant. *)
IInv ==
  /\ TypeOK /\ FlagIsSource /\ ResizesBounded /\ TeardownOrder /\ UploadedIsNewest
  /\ PendingIsScheduled /\ PlanesOutliveUse

(* The initial states satisfy the inductive invariant. *)
LEMMA InitInv == Init => IInv
  <1> SUFFICES ASSUME Init PROVE IInv
    OBVIOUS
  <1>1. Nothing \in Picture
    BY MaxFramesAssumption DEF Nothing, Picture, AnySize
  <1>2. Nothing.frame = 0
    BY DEF Nothing
  <1>3. 0 \in 0 .. 1 /\ 0 \in 0 .. MaxFrames
    BY MaxFramesAssumption
  <1>4. TypeOK
    BY <1>1, <1>3, Zenon DEF Init, TypeOK, AnySize
  <1>5. ResizesBounded
    BY <1>2 DEF Init, ResizesBounded
  <1>6. FlagIsSource /\ TeardownOrder /\ UploadedIsNewest /\ PendingIsScheduled
        /\ PlanesOutliveUse
    BY Zenon DEF Init, FlagIsSource, TeardownOrder, UploadedIsNewest, PendingIsScheduled,
                 PlanesOutliveUse
  <1>7. QED
    BY <1>4, <1>5, <1>6 DEF IInv

(* Every step of the net thread, of the UI thread and of GTK keeps the invariant. *)
LEMMA NextInv == IInv /\ [Next]_vars => IInv'
  <1> USE MaxFramesAssumption
      DEF IInv, TypeOK, FlagIsSource, ResizesBounded, TeardownOrder, UploadedIsNewest,
          PendingIsScheduled, PlanesOutliveUse, Picture, AnySize, netSide, uiVars
  <1> SUFFICES ASSUME IInv, [Next]_vars PROVE IInv'
    OBVIOUS
  <1>1. ASSUME NEW s \in Sizes, Deliver(s) PROVE IInv'
    BY <1>1 DEF Deliver
  <1>2. CASE AskResize
    BY <1>2 DEF AskResize
  <1>3. CASE AskRender
    <2>1. CASE scheduled
      BY <1>3, <2>1 DEF AskRender
    <2>2. CASE ~scheduled
      BY <1>3, <2>2 DEF AskRender
    <2>3. QED
      BY <2>1, <2>2
  <1>4. CASE TriggerRender
    <2>1. scheduled /\ triggers = 1 /\ triggers' = 0 /\ scheduled' = FALSE
      BY <1>4 DEF TriggerRender
    <2>2. dirty' = (dirty \/ alive) /\ dirty' \in BOOLEAN
      BY <1>4 DEF TriggerRender
    <2>3. TypeOK'
      BY <1>4, <2>1, <2>2, 0 \in 0 .. 1, Zenon DEF TriggerRender
    <2>4. FlagIsSource'
      BY <2>1
    <2>5. (ResizesBounded /\ UploadedIsNewest)'
      BY <1>4 DEF TriggerRender
    <2>6. (TeardownOrder /\ PlanesOutliveUse /\ PendingIsScheduled)'
      BY <1>4, <2>2, Zenon DEF TriggerRender
    <2>7. QED
      BY <2>3, <2>4, <2>5, <2>6
  <1>5. CASE ResizeToVideo
    BY <1>5 DEF ResizeToVideo
  <1>6. CASE Expose
    BY <1>6 DEF Expose
  <1>7. CASE Upload
    BY <1>7 DEF Upload
  <1>8. CASE RenderNothing
    BY <1>8 DEF RenderNothing
  <1>9. CASE Draw
    BY <1>9 DEF Draw
  <1>10. CASE Close
    <2>1. TypeOK'
      BY <1>10 DEF Close
    <2>2. (FlagIsSource /\ ResizesBounded /\ UploadedIsNewest)'
      BY <1>10 DEF Close
    <2>3. (TeardownOrder /\ PlanesOutliveUse /\ PendingIsScheduled)'
      BY <1>10 DEF Close
    <2>4. QED
      BY <2>1, <2>2, <2>3
  <1>11. CASE Free
    BY <1>11 DEF Free
  <1>12. CASE UNCHANGED vars
    BY <1>12 DEF vars
  <1>13. QED
    BY <1>1, <1>2, <1>3, <1>4, <1>5, <1>6, <1>7, <1>8, <1>9, <1>10, <1>11, <1>12
    DEF Next, NetNext, UiNext, Done

(* The inductive invariant holds in every reachable state. *)
LEMMA Invariance == Spec => []IInv
  BY InitInv, NextInv, PTL DEF Spec

(* For every set of sizes and number of frames, a frame that waits in the planes of     *)
(* render_on_frame has a render coming.                                                 *)
THEOREM NoWakeupLost == Spec => []WakeupInv
  <1>1. IInv => WakeupInv
    BY DEF IInv, WakeupInv
  <1>2. QED
    BY <1>1, Invariance, PTL

(* For every set of sizes and number of frames, nobody uses the planes after             *)
(* session_teardown has freed them.                                                      *)
THEOREM PlanesAreSafe == Spec => []PlanesOutliveUse
  <1>1. IInv => PlanesOutliveUse
    BY DEF IInv
  <1>2. QED
    BY <1>1, Invariance, PTL

-----------------------------------------------------------------------------
(* The refinement, step by step. *)

(* Initial states are initial states of NewestFrame. *)
LEMMA InitMaps == Init => Screen!Init
  BY DEF Init, Screen!Init, Screen!AsDrawn, Nothing

(* on_render shows the newest frame in its own shape, whether it uploads or finds the    *)
(* textures up to date.                                                                  *)
LEMMA UploadMaps == IInv /\ Upload => Screen!Show
  BY DEF IInv, UploadedIsNewest, Upload, netSide, Screen!Show, Screen!AsDrawn

(* Every step is a step of NewestFrame or leaves it unchanged. *)
LEMMA NextMaps == IInv /\ [Next]_vars => [Screen!Next]_(Screen!vars)
  <1> SUFFICES ASSUME IInv, [Next]_vars PROVE [Screen!Next]_(Screen!vars)
    OBVIOUS
  <1> USE DEF netSide, uiVars
  <1>1. ASSUME NEW s \in Sizes, Deliver(s) PROVE Screen!Deliver(s)
    BY <1>1 DEF Deliver, Screen!Deliver
  <1>2. CASE ResizeToVideo
    <2>1. CASE alive
      BY <1>2, <2>1 DEF ResizeToVideo, Screen!Fit, Screen!Next
    <2>2. CASE ~alive
      BY <1>2, <2>2 DEF ResizeToVideo, Screen!vars
    <2>3. QED
      BY <2>1, <2>2
  <1>3. CASE Upload
    BY <1>3, UploadMaps DEF Screen!Next
  <1>4. CASE Close
    BY <1>4 DEF Close, Screen!Close, Screen!Next
  <1>5. CASE AskResize \/ AskRender \/ TriggerRender \/ Expose \/ RenderNothing \/ Draw \/ Free
    BY <1>5 DEF AskResize, AskRender, TriggerRender, Expose, RenderNothing, Draw, Free,
                Screen!vars
  <1>6. CASE UNCHANGED vars
    BY <1>6 DEF vars, Screen!vars
  <1>7. QED
    BY <1>1, <1>2, <1>3, <1>4, <1>5, <1>6 DEF Next, NetNext, UiNext, Done, Screen!Next

(* For every set of sizes and number of frames, every step of render_on_frame, the main   *)
(* loop, on_render and session_teardown is a step of NewestFrame or invisible to it:       *)
(* what is drawn is the newest frame of that moment, whole and in its own shape, and        *)
(* nothing is drawn or fitted after the close.                                              *)
THEOREM ShowsNewest == Spec => ImplementsNewestFrame
  BY InitMaps, NextMaps, Invariance, PTL DEF Spec, ImplementsNewestFrame, Screen!Spec
=============================================================================
