---------------------------- MODULE FrameHandoff ----------------------------
(***************************************************************************)
(* How a decoded frame gets from the core's net thread to the screen in the   *)
(* GTK front end (frontends/gtk/render.c, with the teardown of session.c).     *)
(*                                                                         *)
(* The net thread copies the frame into the session's planes under the lock,    *)
(* asks the main loop for a window resize when the size has changed, and for a   *)
(* render unless one is already asked for.  The UI thread runs those requests,   *)
(* uploads the planes into textures under the lock and draws after it; GTK may   *)
(* also ask for a render on its own.  Closing the window joins the net thread     *)
(* and frees the planes.                                                         *)
(***************************************************************************)
EXTENDS Naturals

CONSTANTS
  Sizes,      \* video sizes
  MaxFrames   \* bound: frames delivered

ASSUME MaxFramesAssumption == MaxFrames \in Nat \ {0}

VARIABLES
  prog,       \* did on_realize build the GL program?
  net,        \* render_on_frame: "wait", "copied", "resizeAsked"; "gone" once joined
  video,      \* vw x vh with the number of the frame in the planes
  changed,    \* render_on_frame's size_changed
  pending,    \* have_pending
  scheduled,  \* render_scheduled
  triggers,   \* trigger_render sources in the main loop
  resizes,    \* resize_to_video sources in the main loop
  dirty,      \* GTK owes the GL area a render
  ui,         \* the UI thread: "loop", "draw" (on_render after the lock), "join"
  snap,       \* on_render's local copy of vw x vh
  tex,        \* the textures: frame and size
  win,        \* the size the window was last fitted to
  alive,      \* s->alive
  planes      \* "none" before the first frame, "held", "freed"

vars == <<prog, net, video, changed, pending, scheduled, triggers, resizes, dirty, ui,
          snap, tex, win, alive, planes>>

AnySize == Sizes \cup {"none"}
Picture == [frame : 0 .. MaxFrames, size : AnySize]
Nothing == [frame |-> 0, size |-> "none"]

TypeOK ==
  /\ prog \in BOOLEAN
  /\ net \in {"wait", "copied", "resizeAsked", "gone"}
  /\ video \in Picture /\ tex \in Picture
  /\ changed \in BOOLEAN /\ pending \in BOOLEAN /\ scheduled \in BOOLEAN
  /\ dirty \in BOOLEAN /\ alive \in BOOLEAN
  /\ triggers \in 0 .. 1 /\ resizes \in 0 .. MaxFrames
  /\ ui \in {"loop", "draw", "join"}
  /\ snap \in AnySize /\ win \in AnySize
  /\ planes \in {"none", "held", "freed"}

(* The window is presented, and so its GL area realized, before the first frame. *)
Init ==
  /\ prog \in BOOLEAN
  /\ net = "wait" /\ video = Nothing /\ changed = FALSE /\ pending = FALSE
  /\ scheduled = FALSE /\ triggers = 0 /\ resizes = 0 /\ dirty = FALSE
  /\ ui = "loop" /\ snap = "none" /\ tex = Nothing /\ win = "none"
  /\ alive = TRUE /\ planes = "none"

-----------------------------------------------------------------------------
(* The net thread: render_on_frame.                                          *)

uiVars == <<prog, dirty, ui, snap, tex, win, alive>>

(* Under the lock: size, format and planes are those of the new frame, which        *)
(* replaces one that was not uploaded yet.                                           *)
Deliver(s) ==
  /\ net = "wait" /\ video.frame < MaxFrames
  /\ net' = "copied"
  /\ changed' = (video.size # s)
  /\ video' = [frame |-> video.frame + 1, size |-> s]
  /\ planes' = "held" /\ pending' = TRUE
  /\ UNCHANGED <<scheduled, triggers, resizes, uiVars>>

(* Faulty variant of AskResize: only the first size is asked for. *)
AskResizeOnce ==
  /\ net = "copied" /\ net' = "resizeAsked"
  /\ resizes' = IF changed /\ win = "none" THEN resizes + 1 ELSE resizes
  /\ UNCHANGED <<video, changed, pending, scheduled, triggers, planes, uiVars>>

(* A new size: resize_to_video is queued. *)
AskResize ==
  /\ net = "copied" /\ net' = "resizeAsked"
  /\ resizes' = IF changed THEN resizes + 1 ELSE resizes
  /\ UNCHANGED <<video, changed, pending, scheduled, triggers, planes, uiVars>>

(* atomic_exchange(render_scheduled, 1): one request at a time. *)
AskRender ==
  /\ net = "resizeAsked" /\ net' = "wait"
  /\ scheduled' = TRUE
  /\ triggers' = IF scheduled THEN triggers ELSE triggers + 1
  /\ UNCHANGED <<video, changed, pending, resizes, planes, uiVars>>

NetNext == (\E s \in Sizes : Deliver(s)) \/ AskResize \/ AskRender

-----------------------------------------------------------------------------
(* The UI thread.                                                            *)

netSide == <<prog, net, video, changed, planes>>

(* Faulty variant of TriggerRender: the flag is left standing. *)
TriggerRenderLatched ==
  /\ ui = "loop" /\ triggers > 0 /\ triggers' = triggers - 1
  /\ dirty' = (dirty \/ alive)
  /\ UNCHANGED <<netSide, pending, scheduled, resizes, ui, snap, tex, win, alive>>

(* trigger_render: the flag first, so that a frame from now on asks again. *)
TriggerRender ==
  /\ ui = "loop" /\ triggers > 0 /\ triggers' = triggers - 1
  /\ scheduled' = FALSE
  /\ dirty' = (dirty \/ alive)
  /\ UNCHANGED <<netSide, pending, resizes, ui, snap, tex, win, alive>>

(* resize_to_video: the window is fitted to the size of the newest frame. *)
ResizeToVideo ==
  /\ ui = "loop" /\ resizes > 0 /\ resizes' = resizes - 1
  /\ win' = IF alive THEN video.size ELSE win
  /\ UNCHANGED <<netSide, pending, scheduled, triggers, dirty, ui, snap, tex, alive>>

(* GTK asks for a render of its own, as when the area is exposed or resized. *)
Expose ==
  /\ ui = "loop" /\ alive /\ ~dirty /\ dirty' = TRUE
  /\ UNCHANGED <<netSide, pending, scheduled, triggers, resizes, ui, snap, tex, win, alive>>

(* Faulty variant of Upload: have_pending alone decides what is drawn. *)
UploadSnapOnly ==
  /\ ui = "loop" /\ alive /\ prog /\ dirty /\ dirty' = FALSE
  /\ ui' = "draw" /\ snap' = video.size
  /\ UNCHANGED <<netSide, pending, tex, scheduled, triggers, resizes, win, alive>>

(* on_render, under the lock: the planes of a frame not yet uploaded are uploaded. *)
Upload ==
  /\ ui = "loop" /\ alive /\ prog /\ dirty /\ dirty' = FALSE
  /\ ui' = "draw" /\ snap' = video.size
  /\ IF pending
       THEN tex' = video /\ pending' = FALSE
       ELSE UNCHANGED <<tex, pending>>
  /\ UNCHANGED <<netSide, scheduled, triggers, resizes, win, alive>>

(* on_render without a GL program returns at once. *)
RenderNothing ==
  /\ ui = "loop" /\ alive /\ ~prog /\ dirty /\ dirty' = FALSE
  /\ UNCHANGED <<netSide, pending, scheduled, triggers, resizes, ui, snap, tex, win, alive>>

(* on_render, after it: the textures are drawn, letterboxed with the local copy. *)
Draw ==
  /\ ui = "draw" /\ ui' = "loop"
  /\ UNCHANGED <<netSide, pending, scheduled, triggers, resizes, dirty, snap, tex, win, alive>>

(* session_teardown: alive is cleared and the GL area forgotten first. *)
Close ==
  /\ ui = "loop" /\ alive /\ alive' = FALSE /\ ui' = "join" /\ dirty' = FALSE
  /\ UNCHANGED <<netSide, pending, scheduled, triggers, resizes, snap, tex, win>>

(* Faulty variant of Free: the planes go before the net thread has ended. *)
FreeUnjoined ==
  /\ ui = "join" /\ ui' = "loop" /\ planes' = "freed"
  /\ UNCHANGED <<prog, net, video, changed, pending, scheduled, triggers, resizes, dirty,
                 snap, tex, win, alive>>

(* rc_client_stop joins the net thread between two frames; then the planes go. *)
Free ==
  /\ ui = "join" /\ net = "wait" /\ net' = "gone"
  /\ ui' = "loop" /\ planes' = "freed"
  /\ UNCHANGED <<prog, video, changed, pending, scheduled, triggers, resizes, dirty,
                 snap, tex, win, alive>>

UiNext ==
  TriggerRender \/ ResizeToVideo \/ Expose \/ Upload \/ RenderNothing \/ Draw \/ Close \/ Free

Done ==
  /\ net \in {"gone", "wait"} /\ triggers = 0 /\ resizes = 0
  /\ ~alive \/ video.frame = MaxFrames
  /\ UNCHANGED vars

Next == NetNext \/ UiNext \/ Done

(* A frame that is being delivered is delivered to the end, and the main loop runs    *)
(* its sources; no frame and no closing of the window is owed.  The two idle sources    *)
(* get their turn although GTK keeps rendering for its own reasons: those renders        *)
(* are paced by the frame clock, and the loop is idle between two of them.               *)
Fairness ==
  /\ WF_vars(AskResize \/ AskRender)
  /\ SF_vars(TriggerRender) /\ SF_vars(ResizeToVideo)
  /\ WF_vars(Upload) /\ WF_vars(Draw) /\ WF_vars(Free)

Spec == Init /\ [][Next]_vars /\ Fairness

-----------------------------------------------------------------------------
(* The planes are never touched after session_teardown has freed them: no frame is      *)
(* in flight then, and none is uploaded, whatever requests are still in the main loop.   *)
PlanesOutliveUse ==
  planes = "freed" => net = "gone" /\ ui = "loop" /\ ~dirty

(* No wakeup is lost: a frame that waits in the planes has a render coming, for it        *)
(* or for a later frame, in every interleaving of render_scheduled and the lock.           *)
PendingIsScheduled ==
  prog /\ pending /\ alive /\ net = "wait" => triggers > 0 \/ dirty

(* The invariant of render_on_frame and the requests it leaves in the main loop.          *)
WakeupInv == TypeOK /\ PendingIsScheduled

Screen == INSTANCE NewestFrame WITH
  NoSize <- "none",
  newest <- video,
  shown <- [frame |-> tex.frame, size |-> tex.size, shape |-> snap],
  fitted <- win,
  canDraw <- prog,
  open <- alive

(* render_on_frame, the main loop and on_render together show the newest frame          *)
(* (NewestFrame): the size used for the letterbox is that of the textures, although       *)
(* frames of another size arrive while on_render draws without the lock; no picture is     *)
(* replaced by an older one; nothing is uploaded and no window resized after the close.     *)
ImplementsNewestFrame == Screen!Spec

(* What the net thread delivered last reaches the screen, in a window of its shape, in     *)
(* every interleaving of render_on_frame, trigger_render, resize_to_video and on_render.    *)
LastFrameIsShown == Screen!LastIsShown
=============================================================================
