----------------------------- MODULE NewestFrame -----------------------------
(***************************************************************************)
(* What the hand-off of decoded frames to a session's window promises         *)
(* (frontends/gtk/render.c): the window shows pictures that were delivered,    *)
(* each whole, in its own shape and never an older one after a newer one;      *)
(* frames may be skipped, but the last one is shown and the window fitted to    *)
(* it.  There is no lock, no flag and no main loop here; FrameHandoff is shown  *)
(* to implement this module.                                                    *)
(***************************************************************************)
EXTENDS Naturals

CONSTANTS
  Sizes,      \* video sizes
  MaxFrames,  \* bound: frames delivered
  NoSize      \* the size before the first frame

VARIABLES
  newest,     \* the frame delivered last: its number and its size
  shown,      \* what is drawn: frame, size of the picture, shape it is drawn in
  fitted,     \* the size that the window has been fitted to
  canDraw,    \* can the window draw at all?
  open        \* is the window open?

vars == <<newest, shown, fitted, canDraw, open>>

AsDrawn(p) == [frame |-> p.frame, size |-> p.size, shape |-> p.size]

Init ==
  /\ newest = [frame |-> 0, size |-> NoSize]
  /\ shown = AsDrawn(newest) /\ fitted = NoSize
  /\ canDraw \in BOOLEAN /\ open = TRUE

Deliver(s) ==
  /\ newest' = [frame |-> newest.frame + 1, size |-> s]
  /\ UNCHANGED <<shown, fitted, canDraw, open>>

Show ==
  /\ open /\ canDraw /\ shown' = AsDrawn(newest)
  /\ UNCHANGED <<newest, fitted, canDraw, open>>

Fit ==
  /\ open /\ fitted' = newest.size
  /\ UNCHANGED <<newest, shown, canDraw, open>>

Close ==
  /\ open /\ open' = FALSE
  /\ UNCHANGED <<newest, shown, fitted, canDraw>>

Next == (\E s \in Sizes : Deliver(s)) \/ Show \/ Fit \/ Close

Spec == Init /\ [][Next]_vars

(* The frame that is delivered last is shown in the end, in a window of its shape. *)
LastIsShown ==
  \A n \in 1 .. MaxFrames :
    (canDraw /\ newest.frame = n)
      ~> (~open \/ newest.frame > n \/ (shown = AsDrawn(newest) /\ fitted = newest.size))
==============================================================================
