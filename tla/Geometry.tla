------------------------------ MODULE Geometry ------------------------------
(***************************************************************************)
(* Sizes and points between the device's display and the desktop's window.   *)
(* The server encodes the display in a reduced size (computeVideoSize of      *)
(* ScreenEncoder.java); the desktop draws the video letterboxed and turns a    *)
(* point of its widget into a point of the video (render_widget_to_device of    *)
(* render.c), which it sends; the server scales that to a point of the display  *)
(* (scaleX and scaleY of ControlReceiver.java).                                 *)
(*                                                                         *)
(* A size is a pair <<width, height>>.  The code computes points in floating     *)
(* point; here a coordinate is an exact quotient [n |-> ..., d |-> ...].          *)
(***************************************************************************)
EXTENDS Integers, FiniteSetsExt

Quotient(n, d) == [n |-> n, d |-> d]
Leq(a, b) == a.n * b.d <= b.n * a.d
Same(a, b) == a.n * b.d = b.n * a.d
Whole(n) == Quotient(n, 1)

Down8(n) == (n \div 8) * 8   \* n & ~7

(* Faulty variant of computeVideoSize: the width is limited, whichever side is longer. *)
computeVideoSizeByWidth(s, maxSize) ==
  LET lim == IF maxSize > 0 /\ s[1] > maxSize
               THEN <<maxSize, (s[2] * maxSize) \div s[1]>> ELSE s
  IN  <<Down8(lim[1]), Down8(lim[2])>>

(* computeVideoSize: the longer side is brought down to maxSize (0: no limit), the     *)
(* shorter one in proportion, both rounded down to a multiple of 8.                    *)
computeVideoSize(s, maxSize) ==
  LET major == Max({s[1], s[2]})
      minor == Min({s[1], s[2]})
      scaled == (minor * maxSize) \div major
      lim == IF maxSize > 0 /\ major > maxSize
               THEN IF s[1] > s[2] THEN <<maxSize, scaled>> ELSE <<scaled, maxSize>>
               ELSE s
  IN  <<Down8(lim[1]), Down8(lim[2])>>

(* The letterbox of on_render and of render_widget_to_device: the video fills the      *)
(* widget's height when the widget is the wider of the two in shape, else its width.    *)
(* Scale is the number of video pixels to a widget pixel, the same on both axes.         *)
Scale(widget, video) ==
  IF widget[1] * video[2] > video[1] * widget[2]
    THEN Quotient(video[2], widget[2]) ELSE Quotient(video[1], widget[1])

(* render_widget_to_device: the drawn video is centred, and a point of the widget is as  *)
(* far from the centre of the video as it is from the widget's.                          *)
render_widget_to_device(widget, video, p) ==
  LET k == Scale(widget, video)
  IN  [i \in 1 .. 2 |-> Quotient(video[i] * k.d + (2 * p[i] - widget[i]) * k.n, 2 * k.d)]

(* The point lies on the video, its borders included, or the event is dropped. *)
OnVideo(video, v) ==
  \A i \in 1 .. 2 : Leq(Whole(0), v[i]) /\ Leq(v[i], Whole(video[i]))

(* scaleX and scaleY: the coordinate x, given the device's and the encoded side, and the  *)
(* device's side as it is read once more for the bound.                                    *)
scale(x, device, video, bound) ==
  LET scaled == Quotient(x.n * device, x.d * video)
  IN  IF Leq(scaled, Whole(0)) THEN Whole(0)
      ELSE IF Leq(scaled, Whole(bound - 1)) THEN scaled ELSE Whole(bound - 1)

(* injectTouch while the sizes rest: both axes are scaled by the same configuration. *)
injectTouch(v, device, video) == [i \in 1 .. 2 |-> scale(v[i], device[i], video[i], device[i])]

-----------------------------------------------------------------------------
(* The way the other way round, from the display to the window.  The virtual display     *)
(* projects the whole display of size s on the whole picture (createVirtualDisplay), and   *)
(* on_render centres the picture in the widget: where on the axis i of the widget is the    *)
(* display's coordinate t drawn?                                                            *)
DrawnAt(widget, video, s, t, i) ==
  LET k == Scale(widget, video)
  IN  Quotient((widget[i] * k.n - video[i] * k.d) * (t.d * s[i]) + 2 * (t.n * (video[i] * k.d)),
               2 * k.n * (t.d * s[i]))

(* The widget's point p shows the display's point t; at the far border of the picture,      *)
(* which belongs to no pixel, it is the last pixel that t names.                             *)
Shows(widget, video, s, p, t) ==
  \A i \in 1 .. 2 :
    \/ Same(DrawnAt(widget, video, s, t[i], i), Whole(p[i]))
    \/ /\ t[i] = Whole(s[i] - 1)
       /\ Leq(DrawnAt(widget, video, s, t[i], i), Whole(p[i]))
       /\ Leq(Whole(p[i]), DrawnAt(widget, video, s, Whole(s[i]), i))

-----------------------------------------------------------------------------
(* injectTouch while configure() runs on another thread.  configure() writes          *)
(* deviceWidth, deviceHeight, encWidth and encHeight, in this order; injectTouch reads  *)
(* deviceWidth, encWidth, deviceWidth, deviceHeight, encHeight, deviceHeight.            *)
(* An interleaving says how many of the writes come before each of the reads.             *)
Interleavings ==
  {n \in [1 .. 6 -> 0 .. 4] : \A r \in 1 .. 5 : n[r] <= n[r + 1]}

(* A side that is written as write number w, as a read after n writes sees it. *)
Sees(n, w, old, new) == IF n >= w THEN new ELSE old

TornTouch(v, n, device, video, device2, video2) ==
  << scale(v[1], Sees(n[1], 1, device[1], device2[1]), Sees(n[2], 3, video[1], video2[1]),
                 Sees(n[3], 1, device[1], device2[1])),
     scale(v[2], Sees(n[4], 2, device[2], device2[2]), Sees(n[5], 4, video[2], video2[2]),
                 Sees(n[6], 2, device[2], device2[2])) >>

-----------------------------------------------------------------------------
(* The contract of computeVideoSize, over sizes and limits given: "giới hạn cạnh dài về  *)
(* maxSize (nếu >0), giữ tỉ lệ, làm tròn xuống bội số 8".  Each side is a multiple of 8,   *)
(* less than 8 below the exact proportion, and never above it.                            *)
SizeContract(sizes, limits) ==
  \A s \in sizes, m \in limits :
    LET e == computeVideoSize(s, m)
        major == Max({s[1], s[2]})
        longest == IF m > 0 THEN Min({m, major}) ELSE major
    IN  \A i \in 1 .. 2 :
          /\ e[i] % 8 = 0
          /\ e[i] * major <= s[i] * longest
          /\ e[i] * major > (s[i] * longest) - 8 * major

(* The letterbox shows the whole video, as large as it fits: no side of the drawn video    *)
(* is longer than the widget's, and one fills it.                                          *)
LetterboxFits(widget, video) ==
  LET k == Scale(widget, video)
  IN  /\ \A i \in 1 .. 2 : video[i] * k.d <= widget[i] * k.n
      /\ \E i \in 1 .. 2 : video[i] * k.d = widget[i] * k.n

=============================================================================
