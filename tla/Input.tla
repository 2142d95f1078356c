------------------------------- MODULE Input -------------------------------
(***************************************************************************)
(* The input path: GTK events (frontends/gtk/input.c) become control messages  *)
(* (core/src/client.c, control_msg.c), which the server's control thread reads  *)
(* in order and injects (ControlReceiver.java, DeviceController.java).           *)
(*                                                                         *)
(* The keyval of a physical key depends on Shift at that moment, so the same key  *)
(* may map to an Android code when it is pressed and to none when it is released.  *)
(* Keys are classed by that: Letters (always a letter), Digits (a digit only         *)
(* without Shift), Tabs (Shift+Tab is another keyval) and Navs (always the same).     *)
(* "ctrl" stands for Ctrl or Alt, which the code treats alike.                         *)
(***************************************************************************)
EXTENDS Naturals, Sequences, FiniteSets, FiniteSetsExt

CONSTANTS
  Letters, Digits, Tabs, Navs,  \* physical keys, by class
  NavButtons,    \* key codes of the button bar; Back is the code of the Esc key
  MouseButtons,  \* subset of {"left", "right", "side"}
  DeviceActions, \* subset of {"rotate", "off", "on", "panel"}
  TextLens,      \* lengths of the texts the user of the core sends
  MaxText,       \* 1 << 20, the longest text either side accepts
  WireCap        \* bound: messages in flight on the control channel

ASSUME MaxTextAssumption == MaxText \in Nat /\ TextLens \subseteq Nat
ASSUME WireCapAssumption == WireCap \in Nat \ {0, 1}

Keys == Letters \cup Digits \cup Tabs \cup Navs

(* A key is not a mouse button. *)
ASSUME ButtonsAssumption ==
  MouseButtons \subseteq {"left", "right", "side"} /\ Keys \cap {"left", "right", "side"} = {}

Codes == Keys \cup NavButtons
Mods == {"shift", "ctrl"}

VARIABLES
  held, mods,    \* keys and modifiers the user holds
  unseen,        \* keys, and "left", that were let go of without an event
  marked,        \* keys_down: codes sent down and not yet up
  gesture,       \* the button of the click gesture in progress, or "none"
  buttons,       \* mouse_buttons
  shown,         \* has a frame given the video a size?
  ctl,           \* control_fd: "none", "open", "closed"
  wire,          \* messages in flight
  thread,        \* the server's control thread: "none", "run", "ended"
  injector,      \* did the server get an InputManager?
  keysDown, touch  \* what the device takes to be pressed

userVars == <<held, mods, unseen>>
uiVars == <<marked, gesture, buttons, shown>>
deviceVars == <<keysDown, touch>>
vars == <<userVars, uiVars, ctl, wire, thread, injector, deviceVars>>

Msg(type, what, down, len) == [type |-> type, what |-> what, down |-> down, len |-> len]
Message ==
  [type : {"key", "button", "motion", "scroll", "text", "action"},
   what : Codes \cup MouseButtons \cup DeviceActions \cup {"none"},
   down : BOOLEAN, len : Nat]

TypeOK ==
  /\ held \subseteq Keys /\ mods \subseteq Mods
  /\ unseen \subseteq Keys \cup {"left"}
  /\ marked \subseteq Keys
  /\ gesture \in MouseButtons \cup {"none"}
  /\ buttons \subseteq MouseButtons
  /\ shown \in BOOLEAN /\ injector \in BOOLEAN /\ touch \in BOOLEAN
  /\ ctl \in {"none", "open", "closed"} /\ thread \in {"none", "run", "ended"}
  /\ wire \in Seq(Message) /\ Len(wire) <= WireCap
  /\ keysDown \subseteq Codes

Init ==
  /\ held = {} /\ mods = {} /\ unseen = {}
  /\ marked = {} /\ gesture = "none" /\ buttons = {} /\ shown = FALSE
  /\ ctl = "none" /\ wire = <<>> /\ thread = "none" /\ injector = FALSE
  /\ keysDown = {} /\ touch = FALSE

-----------------------------------------------------------------------------
(* The control channel.                                                      *)

(* rc_control_send: an error before the channel is there and after it has failed, a     *)
(* blocking write otherwise (so the handler that sends waits for room).                  *)
CanSend(n) == ctl = "open" => Len(wire) + n <= WireCap
Send(ms) == wire' = IF ctl = "open" THEN wire \o ms ELSE wire

Key(code, down) == Msg("key", code, down, 0)
Text(n) == Msg("text", "none", FALSE, n)

(* rc_client_start has the channel; the server starts its thread. *)
Connect ==
  /\ ctl = "none" /\ ctl' = "open" /\ thread' = "run"
  /\ injector' \in BOOLEAN
  /\ UNCHANGED <<userVars, uiVars, wire, deviceVars>>

(* The first frame: from now on the pointer has a position on the device. *)
FirstFrame ==
  /\ ctl = "open" /\ ~shown /\ shown' = TRUE
  /\ UNCHANGED <<userVars, marked, gesture, buttons, ctl, wire, thread, injector, deviceVars>>

(* The server ends. *)
PeerGone ==
  /\ ctl = "open" /\ ctl' = "closed" /\ thread' = "ended" /\ wire' = <<>>
  /\ UNCHANGED <<userVars, uiVars, injector, deviceVars>>

-----------------------------------------------------------------------------
(* The keyboard.                                                             *)

(* gdk_to_android_key: is the keyval of k one of the navigation and editing keys? *)
NavKey(k) == k \in Navs \/ (k \in Tabs /\ "shift" \notin mods)

(* gdk_alnum_to_android_key. *)
AlnumKey(k) == k \in Letters \/ (k \in Digits /\ "shift" \notin mods)

(* on_key_pressed takes the code for a shortcut or a navigation key, else text. *)
SentAsKey(k) == NavKey(k) \/ ("ctrl" \in mods /\ AlnumKey(k))

(* gdk_keyval_to_unicode: of the keys here only Shift+Tab has no character. *)
SentAsText(k) == ~SentAsKey(k) /\ k \notin Tabs

kbdRest == <<gesture, buttons, shown, ctl, thread, injector, deviceVars>>

Modifier(m) ==
  /\ mods' = IF m \in mods THEN mods \ {m} ELSE mods \cup {m}
  /\ UNCHANGED <<held, unseen, marked, wire, kbdRest>>

(* Faulty variant of SendsText: the length is not looked at. *)
SendsAnyText(n) == Send(<<Text(n)>>)

(* rc_client_send_text refuses what is too long. *)
SendsText(n) == IF n <= MaxText THEN Send(<<Text(n)>>) ELSE UNCHANGED wire

(* on_key_pressed, also for each auto-repeat; the mark is set whether or not the         *)
(* message could be sent.                                                                *)
KeyPressed(k) ==
  /\ CanSend(1)
  /\ held' = held \cup {k} /\ unseen' = unseen \ {k}
  /\ \/ SentAsKey(k) /\ Send(<<Key(k, TRUE)>>) /\ marked' = marked \cup {k}
     \/ SentAsText(k) /\ SendsText(1) /\ UNCHANGED marked
     \/ ~SentAsKey(k) /\ ~SentAsText(k) /\ UNCHANGED <<wire, marked>>
  /\ UNCHANGED <<mods, kbdRest>>

(* Faulty variant of KeyReleased: the code is looked up as it was for the press. *)
KeyReleasedByModifier(k) ==
  /\ k \in held /\ held' = held \ {k} /\ CanSend(1)
  /\ IF SentAsKey(k) /\ k \in marked
       THEN Send(<<Key(k, FALSE)>>) /\ marked' = marked \ {k}
       ELSE UNCHANGED <<wire, marked>>
  /\ UNCHANGED <<mods, unseen, kbdRest>>

(* on_key_released: up for what was sent down, Ctrl or no Ctrl. *)
KeyReleased(k) ==
  /\ k \in held /\ held' = held \ {k} /\ CanSend(1)
  /\ IF (NavKey(k) \/ AlnumKey(k)) /\ k \in marked
       THEN Send(<<Key(k, FALSE)>>) /\ marked' = marked \ {k}
       ELSE UNCHANGED <<wire, marked>>
  /\ UNCHANGED <<mods, unseen, kbdRest>>

(* Another window takes the keyboard: what is let go of there is never reported. *)
FocusLost ==
  /\ held # {}
  /\ held' = {} /\ mods' = {} /\ unseen' = unseen \cup held
  /\ UNCHANGED <<marked, wire, kbdRest>>

(* rc_client_send_text from the API. *)
ApiText(n) ==
  /\ CanSend(1) /\ SendsText(n)
  /\ UNCHANGED <<userVars, marked, kbdRest>>

(* on_navbtn, rc_client_click_button. *)
NavButton(c) ==
  /\ CanSend(2) /\ Send(<<Key(c, TRUE), Key(c, FALSE)>>)
  /\ UNCHANGED <<userVars, marked, kbdRest>>

(* on_devbtn. *)
DevButton(a) ==
  /\ CanSend(1) /\ Send(<<Msg("action", a, FALSE, 0)>>)
  /\ UNCHANGED <<userVars, marked, kbdRest>>

-----------------------------------------------------------------------------
(* The mouse.  "inside": does the pointer lie on the picture (there is one, and the     *)
(* point is not in a letterbox bar)?                                                     *)

Button(b, down) == Msg("button", b, down, 0)
Bits(b) == {b} \cap {"left", "right"}   \* gdk_button_to_rc; MIDDLE is like RIGHT

mouseRest == <<held, mods, marked, shown, ctl, thread, injector, deviceVars>>
Inside == IF shown THEN BOOLEAN ELSE {FALSE}

(* on_pressed: nothing at all outside the picture. *)
MousePressed(b, inside) ==
  /\ gesture = "none" /\ gesture' = b /\ CanSend(1)
  /\ IF inside
       THEN /\ buttons' = buttons \cup Bits(b) /\ Send(<<Button(b, TRUE)>>)
            /\ unseen' = unseen \ {b}
       ELSE UNCHANGED <<buttons, wire, unseen>>
  /\ UNCHANGED mouseRest

(* Faulty variant of MouseReleased: nothing is sent outside the picture. *)
MouseReleasedInside(inside) ==
  /\ gesture # "none" /\ gesture' = "none" /\ CanSend(1)
  /\ buttons' = buttons \ Bits(gesture)
  /\ IF inside THEN Send(<<Button(gesture, FALSE)>>) ELSE UNCHANGED wire
  /\ unseen' = unseen \ {gesture}
  /\ UNCHANGED mouseRest

(* on_released: outside the picture the last position inside is used. *)
MouseReleased(inside) ==
  /\ gesture # "none" /\ gesture' = "none" /\ CanSend(1)
  /\ buttons' = buttons \ Bits(gesture)
  /\ Send(<<Button(gesture, FALSE)>>)
  /\ unseen' = unseen \ {gesture}
  /\ UNCHANGED mouseRest

(* GTK gives the gesture up, as when a second button goes down: no handler is called. *)
GestureCancelled ==
  /\ gesture # "none" /\ gesture' = "none"
  /\ unseen' = IF gesture = "left" THEN unseen \cup {"left"} ELSE unseen
  /\ UNCHANGED <<buttons, wire, mouseRest>>

(* on_motion: sent only while a button is down, with all that are. *)
MouseMotion(inside) ==
  /\ inside /\ buttons # {} /\ CanSend(1)
  /\ Send(<<Msg("motion", "none", "left" \in buttons, 0)>>)
  /\ UNCHANGED <<unseen, gesture, buttons, mouseRest>>

(* on_scroll: always sent, at the last position. *)
MouseScroll ==
  /\ MouseButtons # {} /\ CanSend(1) /\ Send(<<Msg("scroll", "none", FALSE, 0)>>)
  /\ UNCHANGED <<unseen, gesture, buttons, mouseRest>>

-----------------------------------------------------------------------------
(* The server: ControlReceiver.run and dispatch.                             *)

(* injectKey; without an InputManager the message is only taken off the stream. *)
InjectKey(m) ==
  /\ m.type = "key"
  /\ keysDown' = IF ~injector THEN keysDown
                 ELSE IF m.down THEN keysDown \cup {m.what} ELSE keysDown \ {m.what}
  /\ UNCHANGED <<touch, thread>>

(* MOUSE_BUTTON: only the left button touches. *)
InjectButton(m) ==
  /\ m.type = "button"
  /\ touch' = IF injector /\ m.what = "left" THEN m.down ELSE touch
  /\ UNCHANGED <<keysDown, thread>>

(* A scroll or a move of the touch: nothing stays pressed. *)
InjectPassing(m) ==
  /\ m.type \in {"motion", "scroll"}
  /\ UNCHANGED <<deviceVars, thread>>

(* A text is typed and nothing stays pressed; a length nobody should send ends the       *)
(* thread, and the socket stays open.                                                    *)
InjectText(m) ==
  /\ m.type = "text"
  /\ thread' = IF m.len > MaxText THEN "ended" ELSE thread
  /\ UNCHANGED deviceVars

(* DeviceController.perform: rotates, switches the screen or opens a panel, which leaves *)
(* what is pressed alone; a failure is logged and the thread goes on.                     *)
Perform(m) ==
  /\ m.type = "action"
  /\ UNCHANGED <<deviceVars, thread>>

Dispatch ==
  /\ thread = "run" /\ wire # <<>> /\ wire' = Tail(wire)
  /\ LET m == Head(wire)
     IN  InjectKey(m) \/ InjectButton(m) \/ InjectPassing(m) \/ InjectText(m) \/ Perform(m)
  /\ UNCHANGED <<userVars, uiVars, ctl, injector>>

-----------------------------------------------------------------------------
Keyboard ==
  \/ \E m \in Mods : Keys # {} /\ Modifier(m)
  \/ \E k \in Keys : KeyPressed(k) \/ KeyReleased(k)
  \/ FocusLost
  \/ \E n \in TextLens : ApiText(n)
  \/ \E c \in NavButtons : NavButton(c)
  \/ \E a \in DeviceActions : DevButton(a)

Mouse ==
  \/ \E b \in MouseButtons, i \in Inside : MousePressed(b, i)
  \/ \E i \in Inside : MouseReleased(i) \/ MouseMotion(i)
  \/ GestureCancelled \/ MouseScroll

Next == Connect \/ FirstFrame \/ PeerGone \/ Keyboard \/ Mouse \/ Dispatch

Spec == Init /\ [][Next]_vars

-----------------------------------------------------------------------------
(* What the device will take to be pressed once it has read what is in flight. *)
Last(type, what) ==
  LET about == {i \in DOMAIN wire : wire[i].type = type /\ wire[i].what = what}
  IN  IF about = {} THEN 0 ELSE Max(about)

KeyWillBeDown(k) ==
  IF Last("key", k) = 0 THEN k \in keysDown ELSE wire[Last("key", k)].down

TouchWillBeDown ==
  IF Last("button", "left") = 0 THEN touch ELSE wire[Last("button", "left")].down

(* The bitmap keys_down covers the device: no key goes, or is going, down on the device  *)
(* of which the session does not know that it owes an up, whatever the order of presses,   *)
(* repeats, modifier changes, button-bar clicks and lost messages.                          *)
KeysAreTracked == ctl = "open" => \A k \in Codes : KeyWillBeDown(k) => k \in marked

(* A letter or navigation key that the user has let go of comes up on the device, even      *)
(* when Ctrl was let go of first, or the key was pressed before the channel was open.        *)
KeysComeUp ==
  ctl = "open" =>
    \A k \in Letters \cup Navs : k \notin held \cup unseen => ~KeyWillBeDown(k)

(* Keys: the bitmap owes every up, and the ups are sent (on_key_pressed, on_key_released).     *)
KeysHold == KeysAreTracked /\ KeysComeUp

(* A touch ends when the mouse button does, wherever the pointer is then, also when the      *)
(* press or the release happened outside the picture.                                        *)
TouchComesUp ==
  ctl = "open" /\ gesture # "left" /\ "left" \notin unseen => ~TouchWillBeDown

(* The stream of injected events is well formed: a MOVE arrives only between a DOWN and       *)
(* the UP that belongs to it.                                                                *)
MovesAreTouches ==
  ctl = "open" /\ injector /\ wire # <<>> /\ Head(wire).type = "motion" /\ Head(wire).down
    => touch

(* The touch: it begins, moves and ends in that order (on_pressed, on_motion, on_released).   *)
TouchHolds == TouchComesUp /\ MovesAreTouches

(* Nothing the client agrees to send ends the server's control thread.                       *)
ControlSurvives == thread = "ended" => ctl = "closed"

(* The invariant of the control channel (rc_client_send_text, ControlReceiver.dispatch).      *)
ChannelInv == TypeOK /\ ControlSurvives

=============================================================================
