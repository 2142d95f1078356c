----------------------------- MODULE InputProofs -----------------------------
(***************************************************************************)
(* Proofs about Input, for any keys, buttons and texts and any room on the      *)
(* control channel: the control thread survives what the client sends, every     *)
(* key sent down is marked and comes up, and a touch begins, moves and ends in    *)
(* that order.                                                                  *)
(***************************************************************************)
EXTENDS Input, WellFoundedInduction, TLAPS

(* The state of a key or of the touch after the first n messages of w, when it was  *)
(* b before them: Input's KeyWillBeDown and TouchWillBeDown without a maximum.        *)
About(w, i, type, what) == w[i].type = type /\ w[i].what = what
Down(w, type, what, b, n) ==
  \/ b /\ \A i \in 1 .. n : ~About(w, i, type, what)
  \/ \E j \in 1 .. n :
       About(w, j, type, what) /\ w[j].down /\ \A i \in j + 1 .. n : ~About(w, i, type, what)

KeyDown(k) == Down(wire, "key", k, k \in keysDown, Len(wire))
TouchAfter(n) == Down(wire, "button", "left", touch, n)

(* What the client's handlers send. *)
Carried ==
  {m \in Message : (m.type = "text" => m.len <= MaxText) /\ (m.type = "key" => m.what \in Codes)}

(* The channel: what is not yet possible before it is there, and what it may carry. *)
Channel ==
  /\ ctl = "none" =>
       wire = <<>> /\ keysDown = {} /\ touch = FALSE /\ thread = "none" /\ shown = FALSE
  /\ ctl = "open" => thread = "run"
  /\ injector = FALSE => keysDown = {} /\ touch = FALSE
  /\ shown = FALSE => buttons = {}
  /\ \A i \in DOMAIN wire : wire[i] \in Carried

KeysKept ==
  ctl = "open" =>
    /\ \A k \in Codes : KeyDown(k) => k \in marked
    /\ \A k \in Letters \cup Navs : k \notin held \cup unseen => ~KeyDown(k)

(* mouse_buttons knows of a touch, and motion is sent only inside one. *)
TouchKept ==
  ctl = "open" =>
    /\ gesture # "left" /\ "left" \notin unseen => ~TouchAfter(Len(wire))
    /\ injector =>
         /\ "left" \in buttons => TouchAfter(Len(wire))
         /\ \A i \in DOMAIN wire :
              wire[i].type = "motion" /\ wire[i].down => TouchAfter(i - 1)

IInv == TypeOK /\ Channel /\ KeysKept /\ TouchKept

-----------------------------------------------------------------------------
(* The newest message about a key is the one of the greatest index. *)

(* A set of numbers that is not empty has a least one. *)
LEMMA LeastNumber ==
  ASSUME NEW T, T \subseteq Nat, T # {}
  PROVE  \E x \in T : \A y \in T : x <= y
  <1>1. PICK x \in T : \A y \in T : ~ (<<y, x>> \in OpToRel(<, Nat))
    BY NatLessThanWellFounded, WFMin, Zenon
  <1>2. \A y \in T : ~(y < x)
    BY <1>1, Zenon DEF OpToRel
  <1>3. \A y \in T : x <= y
    BY ONLY <1>2, T \subseteq Nat, x \in T
  <1>4. QED
    BY ONLY <1>3, x \in T

(* The maximum of a bounded set of numbers is in it and bounds it. *)
LEMMA Greatest ==
  ASSUME NEW n \in Nat, NEW T, T \subseteq 1 .. n, T # {}
  PROVE  Max(T) \in T /\ \A y \in T : Max(T) >= y
  <1> DEFINE U == {n - t : t \in T}
  <1>1. \A t \in T : t \in Nat /\ n - t \in Nat
    OBVIOUS
  <1>2. U \subseteq Nat /\ U # {}
    BY <1>1
  <1>3. PICK u \in U : \A v \in U : u <= v
    BY ONLY <1>2, LeastNumber
  <1>4. PICK t \in T : u = n - t
    BY <1>3
  <1>5. ASSUME NEW y \in T PROVE t >= y
    <2>1. n - t <= n - y
      BY <1>3, <1>4
    <2>2. t \in Nat /\ y \in Nat
      BY <1>1
    <2>3. QED
      BY ONLY <2>1, <2>2, n \in Nat
  <1>6. QED
    BY <1>5 DEF Max

(* The fields of a message. *)
LEMMA MessageFields ==
  ASSUME NEW m \in Message
  PROVE  m.down \in BOOLEAN /\ m.len \in Nat
  BY DEF Message

(* What the newest message says is what Down says. *)
LEMMA NewestCounts ==
  ASSUME wire \in Seq(Message), NEW type, NEW what, NEW b \in BOOLEAN
  PROVE  Down(wire, type, what, b, Len(wire))
           <=> IF Last(type, what) = 0 THEN b ELSE wire[Last(type, what)].down
  <1> DEFINE about == {i \in DOMAIN wire : wire[i].type = type /\ wire[i].what = what}
  <1>n. Len(wire) \in Nat /\ DOMAIN wire = 1 .. Len(wire)
    OBVIOUS
  <1>1. CASE about = {}
    <2>1. Last(type, what) = 0
      BY <1>1 DEF Last
    <2>2. \A i \in 1 .. Len(wire) : ~About(wire, i, type, what)
      BY <1>1, <1>n DEF About
    <2>3. Down(wire, type, what, b, Len(wire)) <=> b
      BY ONLY <2>2 DEF Down
    <2>4. QED
      BY <2>1, <2>3
  <1>2. CASE about # {}
    <2> DEFINE m == Max(about)
    <2>1. about \subseteq 1 .. Len(wire)
      BY <1>n
    <2>2. m \in about /\ \A y \in about : m >= y
      BY ONLY <2>1, <1>2, <1>n, Greatest
    <2>3. Last(type, what) = m
      BY <1>2 DEF Last
    <2> HIDE DEF m
    <2>4. m \in 1 .. Len(wire) /\ About(wire, m, type, what)
      BY <2>2, <2>1 DEF About
    <2>5. \A i \in 1 .. Len(wire) : About(wire, i, type, what) => i <= m
      BY <2>2, <1>n DEF About
    <2>6. \A i \in m + 1 .. Len(wire) : ~About(wire, i, type, what)
      BY ONLY <2>4, <2>5, <1>n
    <2>7. Down(wire, type, what, b, Len(wire)) <=> wire[m].down
      <3>1. ASSUME wire[m].down PROVE Down(wire, type, what, b, Len(wire))
        BY ONLY <3>1, <2>4, <2>6 DEF Down
      <3>2. ASSUME Down(wire, type, what, b, Len(wire)) PROVE wire[m].down
        <4>1. PICK j \in 1 .. Len(wire) : About(wire, j, type, what) /\ wire[j].down
                /\ \A i \in j + 1 .. Len(wire) : ~About(wire, i, type, what)
          BY ONLY <3>2, <2>4 DEF Down
        <4>2. j <= m /\ ~(m \in j + 1 .. Len(wire))
          BY ONLY <4>1, <2>4, <2>5
        <4>3. j = m
          BY ONLY <4>2, <2>4, <1>n, j \in 1 .. Len(wire)
        <4>4. QED
          BY <4>1, <4>3
      <3>3. wire[m].down \in BOOLEAN
        BY <2>4, MessageFields
      <3>4. QED
        BY ONLY <3>1, <3>2, <3>3
    <2>8. m # 0
      BY ONLY <2>4, <1>n
    <2>9. QED
      BY ONLY <2>3, <2>7, <2>8
  <1>3. QED
    BY <1>1, <1>2

(* What a message that is sent changes about a key or the touch. *)
LEMMA DownAppend ==
  ASSUME NEW w \in Seq(Message), NEW m \in Message, NEW type, NEW what, NEW b \in BOOLEAN
  PROVE  /\ Len(Append(w, m)) = Len(w) + 1
         /\ \A n \in 0 .. Len(w) :
              Down(Append(w, m), type, what, b, n) <=> Down(w, type, what, b, n)
         /\ m.type = type /\ m.what = what =>
              (Down(Append(w, m), type, what, b, Len(w) + 1) <=> m.down)
         /\ ~(m.type = type /\ m.what = what) =>
              (Down(Append(w, m), type, what, b, Len(w) + 1) <=> Down(w, type, what, b, Len(w)))
  <1> DEFINE v == Append(w, m)
  <1>1. /\ Len(w) \in Nat /\ Len(v) = Len(w) + 1 /\ v[Len(w) + 1] = m
        /\ \A i \in 1 .. Len(w) : v[i] = w[i]
    OBVIOUS
  <1> HIDE DEF v
  <1>2. /\ \A i \in 1 .. Len(w) : About(v, i, type, what) <=> About(w, i, type, what)
        /\ About(v, Len(w) + 1, type, what) <=> m.type = type /\ m.what = what
    BY ONLY <1>1 DEF About
  <1>3. ASSUME NEW n \in 0 .. Len(w)
        PROVE  Down(v, type, what, b, n) <=> Down(w, type, what, b, n)
    <2>1. \A i \in 1 .. n : i \in 1 .. Len(w)
      BY ONLY <1>1, <1>3
    <2>2. \A j \in 1 .. n : \A i \in j + 1 .. n : i \in 1 .. Len(w)
      BY ONLY <1>1, <1>3
    <2>3. QED
      BY ONLY <1>1, <1>2, <2>1, <2>2 DEF Down
  <1>4. CASE m.type = type /\ m.what = what
    <2>1. About(v, Len(w) + 1, type, what) /\ Len(w) + 1 \in 1 .. Len(w) + 1
      BY ONLY <1>1, <1>2, <1>4
    <2>2. \A j \in 1 .. Len(w) + 1 :
            j = Len(w) + 1 \/ Len(w) + 1 \in j + 1 .. Len(w) + 1
      BY ONLY <1>1
    <2>3. \A i \in Len(w) + 1 + 1 .. Len(w) + 1 : FALSE
      BY ONLY <1>1
    <2>4. Down(v, type, what, b, Len(w) + 1) <=> v[Len(w) + 1].down
      BY ONLY <2>1, <2>2, <2>3 DEF Down
    <2>5. QED
      BY ONLY <1>1, <1>3, <1>4, <2>4 DEF v
  <1>5. CASE ~(m.type = type /\ m.what = what)
    <2>1. ~About(v, Len(w) + 1, type, what)
      BY ONLY <1>2, <1>5
    <2>2. \A i \in 1 .. Len(w) + 1 : i \in 1 .. Len(w) \/ i = Len(w) + 1
      BY ONLY <1>1
    <2>3. \A j \in 1 .. Len(w) : j \in 1 .. Len(w) + 1
            /\ (\A i \in j + 1 .. Len(w) + 1 : i \in j + 1 .. Len(w) \/ i = Len(w) + 1)
            /\ (\A i \in j + 1 .. Len(w) : i \in j + 1 .. Len(w) + 1 /\ i \in 1 .. Len(w))
      BY ONLY <1>1
    <2>4. Down(v, type, what, b, Len(w) + 1) <=> Down(w, type, what, b, Len(w))
      BY ONLY <1>1, <1>2, <2>1, <2>2, <2>3 DEF Down
    <2>5. QED
      BY ONLY <1>1, <1>3, <1>5, <2>4 DEF v
  <1>6. QED
    BY <1>4, <1>5

(* A message that is received changes nothing of what will be. *)
LEMMA DownTail ==
  ASSUME NEW w \in Seq(Message), w # <<>>, NEW type, NEW what, NEW b \in BOOLEAN,
         NEW n \in 1 .. Len(w)
  PROVE  Down(w, type, what, b, n)
           <=> Down(Tail(w), type, what,
                    IF About(w, 1, type, what) THEN w[1].down ELSE b, n - 1)
  <1> DEFINE v == Tail(w)
             c == IF About(w, 1, type, what) THEN w[1].down ELSE b
  <1>1. /\ Len(w) \in Nat /\ n \in Nat /\ n >= 1
        /\ \A i \in 1 .. Len(w) - 1 : v[i] = w[i + 1]
    OBVIOUS
  <1>a. w[1].down \in BOOLEAN
    <2>1. w[1] \in Message
      OBVIOUS
    <2>2. QED
      BY ONLY <2>1, MessageFields
  <1> HIDE DEF v, c
  <1>2. \A i \in 1 .. n - 1 : v[i] = w[i + 1] /\ (About(v, i, type, what) <=> About(w, i + 1, type, what))
    BY <1>1 DEF About
  <1>3. \A i \in 1 .. n : i = 1 \/ (i - 1 \in 1 .. n - 1 /\ (i - 1) + 1 = i)
    BY ONLY <1>1
  <1>4. \A i \in 1 .. n - 1 : i + 1 \in 1 .. n /\ i \in Nat
    BY ONLY <1>1
  <1>5. ASSUME Down(w, type, what, b, n) PROVE Down(v, type, what, c, n - 1)
    <2>1. CASE b /\ \A i \in 1 .. n : ~About(w, i, type, what)
      <3>1. c = b
        <4>1. 1 \in 1 .. n
          BY ONLY <1>1
        <4>2. QED
          BY ONLY <2>1, <4>1, Zenon DEF c
      <3>2. \A i \in 1 .. n - 1 : ~About(v, i, type, what)
        BY ONLY <2>1, <1>2, <1>4
      <3>3. QED
        BY ONLY <2>1, <3>1, <3>2 DEF Down
    <2>2. ASSUME NEW j \in 1 .. n, About(w, j, type, what), w[j].down,
                 \A i \in j + 1 .. n : ~About(w, i, type, what)
          PROVE  Down(v, type, what, c, n - 1)
      <3>1. CASE j = 1
        <4>1. c = w[1].down
          BY ONLY <2>2, <3>1 DEF c
        <4>2. \A i \in 1 .. n - 1 : i + 1 \in j + 1 .. n
          BY ONLY <1>1, <3>1
        <4>3. \A i \in 1 .. n - 1 : ~About(v, i, type, what)
          BY ONLY <2>2, <1>2, <4>2
        <4>4. QED
          BY ONLY <2>2, <3>1, <4>1, <4>3 DEF Down
      <3>2. CASE j # 1
        <4>1. j - 1 \in 1 .. n - 1 /\ (j - 1) + 1 = j
          BY ONLY <1>3, <3>2, j \in 1 .. n
        <4>2. About(v, j - 1, type, what) /\ v[j - 1].down
          BY ONLY <4>1, <1>2, <2>2
        <4>3. \A i \in (j - 1) + 1 .. n - 1 : i \in 1 .. n - 1 /\ i + 1 \in j + 1 .. n
          BY ONLY <1>1, <4>1, j \in 1 .. n
        <4>4. \A i \in (j - 1) + 1 .. n - 1 : ~About(v, i, type, what)
          BY ONLY <4>3, <1>2, <2>2
        <4>5. QED
          BY ONLY <4>1, <4>2, <4>4 DEF Down
      <3>3. QED
        BY <3>1, <3>2
    <2>3. QED
      BY ONLY <1>5, <2>1, <2>2 DEF Down
  <1>6. ASSUME Down(v, type, what, c, n - 1) PROVE Down(w, type, what, b, n)
    <2>1. CASE c /\ \A i \in 1 .. n - 1 : ~About(v, i, type, what)
      <3>1. \A i \in 2 .. n : i - 1 \in 1 .. n - 1 /\ (i - 1) + 1 = i
        BY ONLY <1>1
      <3>2. \A i \in 2 .. n : ~About(w, i, type, what)
        <4> TAKE i \in 2 .. n
        <4>1. i - 1 \in 1 .. n - 1 /\ (i - 1) + 1 = i
          BY <3>1
        <4>2. About(v, i - 1, type, what) <=> About(w, (i - 1) + 1, type, what)
          BY ONLY <4>1, <1>2
        <4>3. QED
          BY ONLY <4>1, <4>2, <2>1
      <3>3. CASE About(w, 1, type, what)
        <4>1. w[1].down
          BY ONLY <2>1, <3>3 DEF c
        <4>2. 1 \in 1 .. n /\ 1 + 1 = 2
          BY ONLY <1>1
        <4>3. QED
          BY ONLY <3>2, <3>3, <4>1, <4>2 DEF Down
      <3>4. CASE ~About(w, 1, type, what)
        <4>1. b
          BY ONLY <2>1, <3>4 DEF c
        <4>2. \A i \in 1 .. n : i = 1 \/ i \in 2 .. n
          BY ONLY <1>1
        <4>3. QED
          BY ONLY <3>2, <3>4, <4>1, <4>2 DEF Down
      <3>5. QED
        BY <3>3, <3>4
    <2>2. ASSUME NEW j \in 1 .. n - 1, About(v, j, type, what), v[j].down,
                 \A i \in j + 1 .. n - 1 : ~About(v, i, type, what)
          PROVE  Down(w, type, what, b, n)
      <3>1. j + 1 \in 1 .. n /\ About(w, j + 1, type, what) /\ w[j + 1].down
        BY ONLY <1>2, <1>4, <2>2
      <3>2. \A i \in (j + 1) + 1 .. n : i - 1 \in j + 1 .. n - 1 /\ i - 1 \in 1 .. n - 1
              /\ (i - 1) + 1 = i
        BY ONLY <1>1, j \in 1 .. n - 1
      <3>3. \A i \in (j + 1) + 1 .. n : ~About(w, i, type, what)
        <4> TAKE i \in (j + 1) + 1 .. n
        <4>1. i - 1 \in j + 1 .. n - 1 /\ i - 1 \in 1 .. n - 1 /\ (i - 1) + 1 = i
          BY <3>2
        <4>2. About(v, i - 1, type, what) <=> About(w, (i - 1) + 1, type, what)
          BY ONLY <4>1, <1>2
        <4>3. QED
          BY ONLY <4>1, <4>2, <2>2
      <3>4. QED
        BY ONLY <3>1, <3>3 DEF Down
    <2>3. QED
      BY ONLY <1>6, <2>1, <2>2 DEF Down
  <1>7. QED
    BY <1>5, <1>6 DEF v, c

-----------------------------------------------------------------------------
TypeUser ==
  /\ held \subseteq Keys /\ mods \subseteq Mods /\ unseen \subseteq Keys \cup {"left"}
  /\ marked \subseteq Keys /\ gesture \in MouseButtons \cup {"none"} /\ buttons \subseteq MouseButtons
TypeFlags == shown \in BOOLEAN /\ injector \in BOOLEAN /\ touch \in BOOLEAN
TypeEnds ==
  ctl \in {"none", "open", "closed"} /\ thread \in {"none", "run", "ended"} /\ keysDown \subseteq Codes
TypeWire == wire \in Seq(Message) /\ Len(wire) <= WireCap

(* The type invariant in parts, each with its own lemma. *)
LEMMA TypeParts == TypeOK <=> TypeUser /\ TypeFlags /\ TypeEnds /\ TypeWire
  BY Zenon DEF TypeOK, TypeUser, TypeFlags, TypeEnds, TypeWire

(* What is sent is a message. *)
LEMMA KeyMessage ==
  ASSUME NEW k \in Codes, NEW d \in BOOLEAN
  PROVE  /\ Key(k, d) \in Carried /\ Key(k, d).type = "key" /\ Key(k, d).what = k
         /\ Key(k, d).down = d
  BY DEF Key, Msg, Message, Carried

(* The message of a mouse button. *)
LEMMA ButtonMessage ==
  ASSUME NEW b \in MouseButtons, NEW d \in BOOLEAN
  PROVE  /\ Button(b, d) \in Carried /\ Button(b, d).type = "button" /\ Button(b, d).what = b
         /\ Button(b, d).down = d
  BY DEF Button, Msg, Message, Carried

(* The message of a text. *)
LEMMA TextMessage ==
  ASSUME NEW n \in Nat
  PROVE  Text(n) \in Message /\ (n <= MaxText => Text(n) \in Carried) /\ Text(n).type = "text" /\ Text(n).len = n
  BY DEF Text, Msg, Message, Carried

(* The message of an action. *)
LEMMA ActionMessage ==
  ASSUME NEW a \in DeviceActions
  PROVE  Msg("action", a, FALSE, 0) \in Carried /\ Msg("action", a, FALSE, 0).type = "action"
  BY DEF Msg, Message, Carried

(* The message of a motion. *)
LEMMA MotionMessage ==
  ASSUME NEW d \in BOOLEAN
  PROVE  /\ Msg("motion", "none", d, 0) \in Carried /\ Msg("motion", "none", d, 0).type = "motion"
         /\ Msg("motion", "none", d, 0).down = d
  BY DEF Msg, Message, Carried

(* The message of the wheel. *)
LEMMA ScrollMessage ==
  Msg("scroll", "none", FALSE, 0) \in Carried /\ Msg("scroll", "none", FALSE, 0).type = "scroll"
  BY DEF Msg, Message, Carried

(* A handler that sends one message: nothing happens, or it is the last on the wire. *)
Puts(m) ==
  \/ ctl # "open" /\ wire' = wire
  \/ ctl = "open" /\ wire' = Append(wire, m) /\ Len(wire) + 1 <= WireCap

(* Sending one message appends it, if the channel is open. *)
LEMMA SendPuts ==
  ASSUME wire \in Seq(Message), NEW m \in Message, CanSend(1), Send(<<m>>)
  PROVE  Puts(m)
  BY DEF CanSend, Send, Puts

(* Sending two messages appends both, if the channel is open. *)
LEMMA SendTwo ==
  ASSUME wire \in Seq(Message), NEW m \in Message, NEW l \in Message, CanSend(2), Send(<<m, l>>)
  PROVE  \/ ctl # "open" /\ wire' = wire
         \/ ctl = "open" /\ wire' = Append(Append(wire, m), l) /\ Len(wire) + 2 <= WireCap
  BY DEF CanSend, Send

(* rc_client_send_text sends no text over the limit. *)
LEMMA TextStep ==
  ASSUME wire \in Seq(Message), NEW n \in Nat, CanSend(1), SendsText(n)
  PROVE  wire' = wire \/ (n <= MaxText /\ Puts(Text(n)))
  <1>1. CASE n <= MaxText
    <2>1. Text(n) \in Message /\ Send(<<Text(n)>>)
      BY <1>1, TextMessage DEF SendsText
    <2>2. QED
      BY <1>1, <2>1, SendPuts
  <1>2. CASE ~(n <= MaxText)
    BY <1>2 DEF SendsText
  <1>3. QED
    BY <1>1, <1>2

(* Every step keeps the types of what the user holds. *)
LEMMA UserStep == IInv /\ [Next]_vars => TypeUser'
  <1> SUFFICES ASSUME IInv, [Next]_vars PROVE TypeUser'
    OBVIOUS
  <1> USE DEF userVars, uiVars, deviceVars, kbdRest, mouseRest
  <1>t. TypeUser
    BY TypeParts DEF IInv
  <1>1. ASSUME NEW m \in Mods, Modifier(m) PROVE TypeUser'
    BY <1>1, <1>t DEF Modifier, TypeUser
  <1>2. ASSUME NEW k \in Keys, KeyPressed(k) PROVE TypeUser'
    <2>1. marked' = marked \/ marked' = marked \cup {k}
      BY <1>2, Zenon DEF KeyPressed
    <2>2. held' = held \cup {k} /\ unseen' = unseen \ {k} /\ UNCHANGED <<mods, gesture, buttons>>
      BY <1>2 DEF KeyPressed
    <2>3. QED
      BY <1>2, <1>t, <2>1, <2>2 DEF TypeUser
  <1>3. ASSUME NEW k \in Keys, KeyReleased(k) PROVE TypeUser'
    <2>1. marked' = marked \/ marked' = marked \ {k}
      BY <1>3, Zenon DEF KeyReleased
    <2>2. QED
      BY <1>3, <1>t, <2>1 DEF KeyReleased, TypeUser
  <1>4. CASE FocusLost
    BY <1>4, <1>t DEF FocusLost, TypeUser
  <1>5. ASSUME NEW b \in MouseButtons, NEW i \in Inside, MousePressed(b, i) PROVE TypeUser'
    <2>1. Bits(b) \subseteq MouseButtons
      BY <1>5 DEF Bits
    <2>2. QED
      BY <1>5, <1>t, <2>1 DEF MousePressed, TypeUser
  <1>6. ASSUME NEW i \in Inside, MouseReleased(i) PROVE TypeUser'
    BY <1>6, <1>t DEF MouseReleased, TypeUser
  <1>7. CASE GestureCancelled
    BY <1>7, <1>t DEF GestureCancelled, TypeUser
  <1>8. CASE UNCHANGED <<held, mods, unseen, marked, gesture, buttons>>
    BY <1>8, <1>t DEF TypeUser
  <1>9. QED
    BY ONLY [Next]_vars, <1>1, <1>2, <1>3, <1>4, <1>5, <1>6, <1>7, <1>8, Zenon
    DEF Next, Keyboard, Mouse, Connect, FirstFrame, PeerGone, ApiText, NavButton,
        DevButton, MouseMotion, MouseScroll, Dispatch, vars, userVars, uiVars,
        deviceVars, kbdRest, mouseRest

(* Every step keeps the types of the channel's two ends. *)
LEMMA EndsStep == IInv /\ [Next]_vars => TypeEnds'
  <1> SUFFICES ASSUME IInv, [Next]_vars PROVE TypeEnds'
    OBVIOUS
  <1> USE DEF userVars, uiVars, deviceVars, kbdRest, mouseRest
  <1>t. TypeEnds
    BY TypeParts DEF IInv
  <1>1. CASE Connect
    BY <1>1, <1>t DEF Connect, TypeEnds
  <1>2. CASE PeerGone
    BY <1>2, <1>t DEF PeerGone, TypeEnds
  <1>3. CASE Dispatch
    <2>1. Head(wire) \in Message /\ ctl' = ctl
      BY <1>3, TypeParts DEF IInv, TypeWire, Dispatch
    <2> DEFINE m == Head(wire)
    <2>2. InjectKey(m) \/ InjectButton(m) \/ InjectPassing(m) \/ InjectText(m) \/ Perform(m)
      BY <1>3 DEF Dispatch
    <2> HIDE DEF m
    <2>3. thread' = thread \/ thread' = "ended"
      BY <2>2, Zenon DEF InjectKey, InjectButton, InjectPassing, InjectText, Perform
    <2>4. \/ keysDown' = keysDown \/ keysDown' = keysDown \ {m.what}
          \/ keysDown' = keysDown \cup {m.what} /\ m.type = "key" /\ m.down
      BY <2>2, Zenon DEF InjectKey, InjectButton, InjectPassing, InjectText, Perform
    <2>5. CASE keysDown' = keysDown \cup {m.what} /\ m.type = "key" /\ m.down
      <3>1. m \in Carried
        BY <1>3, TypeParts DEF IInv, TypeWire, Channel, Dispatch, m
      <3>2. m.what \in Codes
        BY <2>5, <3>1 DEF Carried
      <3>3. QED
        BY <1>t, <2>1, <2>3, <2>5, <3>2 DEF TypeEnds
    <2>6. QED
      BY <1>t, <2>1, <2>3, <2>4, <2>5 DEF TypeEnds
  <1>4. CASE UNCHANGED <<ctl, thread, keysDown>>
    BY <1>4, <1>t DEF TypeEnds
  <1>5. QED
    BY ONLY [Next]_vars, <1>1, <1>2, <1>3, <1>4, Zenon
    DEF Next, Keyboard, Mouse, FirstFrame, Modifier, KeyPressed, KeyReleased, FocusLost,
        ApiText, NavButton, DevButton, MousePressed, MouseReleased, MouseMotion,
        GestureCancelled, MouseScroll, vars, userVars, uiVars, deviceVars, kbdRest,
        mouseRest

(* Every step keeps the types of the flags. *)
LEMMA FlagsStep == IInv /\ [Next]_vars => TypeFlags'
  <1> SUFFICES ASSUME IInv, [Next]_vars PROVE TypeFlags'
    OBVIOUS
  <1> USE DEF userVars, uiVars, deviceVars, kbdRest, mouseRest
  <1>t. TypeFlags
    BY TypeParts DEF IInv
  <1>1. CASE Connect
    BY <1>1, <1>t, Zenon DEF Connect, TypeFlags
  <1>2. CASE FirstFrame
    BY <1>2, <1>t, Zenon DEF FirstFrame, TypeFlags
  <1>3. CASE Dispatch
    <2>1. Head(wire).down \in BOOLEAN
      BY <1>3, TypeParts, MessageFields DEF IInv, TypeWire, Dispatch
    <2> DEFINE m == Head(wire)
    <2>2. InjectKey(m) \/ InjectButton(m) \/ InjectPassing(m) \/ InjectText(m) \/ Perform(m)
      BY <1>3 DEF Dispatch
    <2>3. shown' = shown /\ injector' = injector
      BY <1>3 DEF Dispatch
    <2>4. touch' = touch \/ touch' = m.down
      BY <2>2, Zenon DEF InjectKey, InjectButton, InjectPassing, InjectText, Perform
    <2>5. QED
      BY <1>t, <2>1, <2>3, <2>4, Zenon DEF TypeFlags
  <1>4. CASE UNCHANGED <<shown, injector, touch>>
    BY <1>4, <1>t, Zenon DEF TypeFlags
  <1>5. QED
    BY ONLY [Next]_vars, <1>1, <1>2, <1>3, <1>4, Zenon
    DEF Next, Keyboard, Mouse, PeerGone, Modifier, KeyPressed, KeyReleased, FocusLost,
        ApiText, NavButton, DevButton, MousePressed, MouseReleased, MouseMotion,
        GestureCancelled, MouseScroll, vars, userVars, uiVars, deviceVars, kbdRest,
        mouseRest

(* What a step does to the messages in flight. *)
Moved ==
  \/ wire' = wire
  \/ \E m \in Carried : Puts(m)
  \/ \E m, l \in Carried :
       ctl = "open" /\ wire' = Append(Append(wire, m), l) /\ Len(wire) + 2 <= WireCap
  \/ wire # <<>> /\ wire' = Tail(wire)
  \/ wire' = <<>>

(* What is carried is a message. *)
LEMMA CarriedIsMessage == Carried \subseteq Message
  BY DEF Carried

(* How a step may change the channel. *)
LEMMA WireMoves == IInv /\ [Next]_vars => Moved
  <1> SUFFICES ASSUME IInv, [Next]_vars PROVE Moved
    OBVIOUS
  <1> USE DEF userVars, uiVars, deviceVars, kbdRest, mouseRest
  <1>t. wire \in Seq(Message)
    BY TypeParts DEF IInv, TypeWire
  <1>1. CASE PeerGone
    BY <1>1 DEF PeerGone, Moved
  <1>2. ASSUME NEW k \in Keys, KeyPressed(k) PROVE Moved
    <2>1. CASE SentAsKey(k)
      <3>1. Key(k, TRUE) \in Carried
        BY <1>2, KeyMessage DEF Codes
      <3>2. Puts(Key(k, TRUE))
        BY <1>2, <1>t, <2>1, <3>1, CarriedIsMessage, SendPuts DEF KeyPressed, SentAsText
      <3>3. QED
        BY <3>1, <3>2 DEF Moved
    <2>2. CASE SentAsText(k) /\ SendsText(1) /\ CanSend(1)
      <3>1. wire' = wire \/ (1 <= MaxText /\ Puts(Text(1)))
        BY <1>t, <2>2, TextStep
      <3>2. QED
        BY <3>1, TextMessage DEF Moved
    <2>3. QED
      BY <1>2, <2>1, <2>2 DEF KeyPressed, Moved
  <1>3. ASSUME NEW k \in Keys, KeyReleased(k) PROVE Moved
    <2>1. Key(k, FALSE) \in Carried
      BY <1>3, KeyMessage DEF Codes
    <2>2. wire' = wire \/ (CanSend(1) /\ Send(<<Key(k, FALSE)>>))
      BY <1>3, Zenon DEF KeyReleased
    <2>3. wire' = wire \/ Puts(Key(k, FALSE))
      BY <1>t, <2>1, <2>2, CarriedIsMessage, SendPuts
    <2>4. QED
      BY <2>1, <2>3 DEF Moved
  <1>4. ASSUME NEW n \in TextLens, ApiText(n) PROVE Moved
    <2>1. n \in Nat /\ SendsText(n) /\ CanSend(1)
      BY <1>4, MaxTextAssumption DEF ApiText
    <2>2. wire' = wire \/ (n <= MaxText /\ Puts(Text(n)))
      BY <1>t, <2>1, TextStep
    <2>3. QED
      BY <2>1, <2>2, TextMessage DEF Moved
  <1>5. ASSUME NEW c \in NavButtons, NavButton(c) PROVE Moved
    <2>1. Key(c, TRUE) \in Carried /\ Key(c, FALSE) \in Carried
      BY <1>5, KeyMessage DEF Codes
    <2>2. \/ ctl # "open" /\ wire' = wire
          \/ /\ ctl = "open" /\ wire' = Append(Append(wire, Key(c, TRUE)), Key(c, FALSE))
             /\ Len(wire) + 2 <= WireCap
      BY <1>5, <1>t, <2>1, CarriedIsMessage, SendTwo DEF NavButton
    <2>3. QED
      BY <2>1, <2>2 DEF Moved
  <1>6. ASSUME NEW a \in DeviceActions, DevButton(a) PROVE Moved
    <2>1. Msg("action", a, FALSE, 0) \in Carried
      BY <1>6, ActionMessage
    <2>2. Puts(Msg("action", a, FALSE, 0))
      BY <1>6, <1>t, <2>1, CarriedIsMessage, SendPuts DEF DevButton
    <2>3. QED
      BY <2>1, <2>2 DEF Moved
  <1>7. ASSUME NEW b \in MouseButtons, NEW i \in Inside, MousePressed(b, i) PROVE Moved
    <2>1. Button(b, TRUE) \in Carried
      BY <1>7, ButtonMessage
    <2>2. wire' = wire \/ (CanSend(1) /\ Send(<<Button(b, TRUE)>>))
      BY <1>7, Zenon DEF MousePressed
    <2>3. wire' = wire \/ Puts(Button(b, TRUE))
      BY <1>t, <2>1, <2>2, CarriedIsMessage, SendPuts
    <2>4. QED
      BY <2>1, <2>3 DEF Moved
  <1>8. ASSUME NEW i \in Inside, MouseReleased(i) PROVE Moved
    <2>1. gesture \in MouseButtons
      BY <1>8, TypeParts DEF IInv, TypeUser, MouseReleased
    <2>2. Button(gesture, FALSE) \in Carried
      BY <2>1, ButtonMessage
    <2>3. Puts(Button(gesture, FALSE))
      BY <1>8, <1>t, <2>2, CarriedIsMessage, SendPuts DEF MouseReleased
    <2>4. QED
      BY <2>2, <2>3 DEF Moved
  <1>9. ASSUME NEW i \in Inside, MouseMotion(i) PROVE Moved
    <2>1. ("left" \in buttons) \in BOOLEAN
      OBVIOUS
    <2>2. Msg("motion", "none", "left" \in buttons, 0) \in Carried
      BY ONLY <2>1, MotionMessage
    <2>3. Puts(Msg("motion", "none", "left" \in buttons, 0))
      BY <1>9, <1>t, <2>2, CarriedIsMessage, SendPuts DEF MouseMotion
    <2>4. QED
      BY <2>2, <2>3 DEF Moved
  <1>10. CASE MouseScroll
    <2>1. Msg("scroll", "none", FALSE, 0) \in Carried
      BY <1>10, ScrollMessage
    <2>2. Puts(Msg("scroll", "none", FALSE, 0))
      BY <1>10, <1>t, <2>1, CarriedIsMessage, SendPuts DEF MouseScroll
    <2>3. QED
      BY <2>1, <2>2 DEF Moved
  <1>11. CASE Dispatch
    BY <1>11 DEF Dispatch, Moved
  <1>12. CASE UNCHANGED <<wire>>
    BY <1>12 DEF Moved
  <1>13. QED
    BY ONLY [Next]_vars, <1>1, <1>2, <1>3, <1>4, <1>5, <1>6, <1>7, <1>8, <1>9, <1>10,
       <1>11, <1>12, Zenon
    DEF Next, Keyboard, Mouse, Connect, FirstFrame, Modifier, FocusLost,
        GestureCancelled, vars, userVars, uiVars, deviceVars, kbdRest, mouseRest

(* Every step keeps the channel's messages among those a handler sends. *)
LEMMA WireStep == IInv /\ [Next]_vars => TypeWire' /\ \A i \in DOMAIN wire' : wire'[i] \in Carried
  <1> SUFFICES ASSUME IInv, [Next]_vars
               PROVE  TypeWire' /\ \A i \in DOMAIN wire' : wire'[i] \in Carried
    OBVIOUS
  <1>t. wire \in Seq(Message) /\ Len(wire) <= WireCap /\ Len(wire) \in Nat
        /\ \A i \in DOMAIN wire : wire[i] \in Carried
    BY TypeParts DEF IInv, TypeWire, Channel
  <1>c. WireCap \in Nat
    BY WireCapAssumption
  <1>1. CASE wire' = wire
    BY <1>1, <1>t DEF TypeWire
  <1>2. ASSUME NEW m \in Carried, ctl = "open", wire' = Append(wire, m), Len(wire) + 1 <= WireCap
        PROVE  TypeWire' /\ \A i \in DOMAIN wire' : wire'[i] \in Carried
    <2>1. m \in Message
      BY CarriedIsMessage
    <2>2. wire' \in Seq(Message) /\ Len(wire') = Len(wire) + 1
      BY <1>2, <1>t, <2>1
    <2>3. \A i \in DOMAIN wire' : wire'[i] = m \/ (i \in DOMAIN wire /\ wire'[i] = wire[i])
      BY <1>2, <1>t, <2>1
    <2>4. QED
      BY <1>2, <1>t, <2>2, <2>3 DEF TypeWire
  <1>3. ASSUME NEW m \in Carried, NEW l \in Carried, wire' = Append(Append(wire, m), l),
               Len(wire) + 2 <= WireCap
        PROVE  TypeWire' /\ \A i \in DOMAIN wire' : wire'[i] \in Carried
    <2>1. m \in Message /\ l \in Message
      BY CarriedIsMessage
    <2> DEFINE v == Append(wire, m)
    <2>2. v \in Seq(Message) /\ Len(v) = Len(wire) + 1
      BY <1>t, <2>1
    <2>3. \A i \in DOMAIN v : v[i] = m \/ (i \in DOMAIN wire /\ v[i] = wire[i])
      BY <1>t, <2>1
    <2>4. wire' = Append(v, l)
      BY <1>3
    <2> HIDE DEF v
    <2>5. wire' \in Seq(Message) /\ Len(wire') = Len(wire) + 2
      BY <2>1, <2>2, <2>4, <1>t
    <2>6. \A i \in DOMAIN wire' : wire'[i] = l \/ (i \in DOMAIN v /\ wire'[i] = v[i])
      BY <2>1, <2>2, <2>4
    <2>7. QED
      BY <1>3, <1>t, <2>3, <2>5, <2>6 DEF TypeWire
  <1>4. CASE wire # <<>> /\ wire' = Tail(wire)
    <2>1. wire' \in Seq(Message) /\ Len(wire') = Len(wire) - 1
      BY <1>4, <1>t
    <2>2. \A i \in DOMAIN wire' : i + 1 \in DOMAIN wire /\ wire'[i] = wire[i + 1]
      BY <1>4, <1>t
    <2>3. Len(wire') <= WireCap
      BY ONLY <1>t, <1>c, <2>1
    <2>4. QED
      BY <1>t, <2>1, <2>2, <2>3 DEF TypeWire
  <1>5. CASE wire' = <<>>
    <2>1. wire' \in Seq(Message) /\ Len(wire') = 0 /\ DOMAIN wire' = {}
      BY <1>5
    <2>2. QED
      BY <2>1, <1>c DEF TypeWire
  <1>6. QED
    BY <1>1, <1>2, <1>3, <1>4, <1>5, WireMoves DEF Moved, Puts

(* Every step preserves the type invariant. *)
LEMMA TypeStep == IInv /\ [Next]_vars => TypeOK'
  BY UserStep, EndsStep, FlagsStep, WireStep, TypeParts, PTL

(* Every step keeps the state of the channel. *)
LEMMA ChannelStep == IInv /\ [Next]_vars => Channel'
  <1> SUFFICES ASSUME IInv, [Next]_vars PROVE Channel'
    OBVIOUS
  <1> USE DEF userVars, uiVars, deviceVars, kbdRest, mouseRest
  <1>t. Channel
    BY DEF IInv
  <1>w. \A i \in DOMAIN wire' : wire'[i] \in Carried
    BY WireStep
  <1>f. TypeFlags
    BY TypeParts DEF IInv
  <1>1. CASE Connect
    BY <1>1, <1>t, <1>w, <1>f DEF Connect, Channel
  <1>2. CASE FirstFrame
    BY <1>2, <1>t, <1>w, <1>f DEF FirstFrame, Channel
  <1>3. CASE PeerGone
    BY <1>3, <1>t, <1>w, <1>f DEF PeerGone, Channel
  <1>4. ASSUME NEW k \in Keys, KeyPressed(k) PROVE Channel'
    <2>1. UNCHANGED <<ctl, thread, injector, shown, buttons, keysDown, touch>>
      BY <1>4 DEF KeyPressed
    <2>2. ctl = "none" => wire' = wire
      BY <1>4 DEF KeyPressed, Send, SendsText
    <2>3. QED
      BY ONLY <1>t, <1>w, <2>1, <2>2, Zenon DEF Channel
  <1>5. ASSUME NEW k \in Keys, KeyReleased(k) PROVE Channel'
    <2>1. UNCHANGED <<ctl, thread, injector, shown, buttons, keysDown, touch>>
      BY <1>5 DEF KeyReleased
    <2>2. ctl = "none" => wire' = wire
      BY <1>5 DEF KeyReleased, Send, SendsText
    <2>3. QED
      BY ONLY <1>t, <1>w, <2>1, <2>2, Zenon DEF Channel
  <1>6. ASSUME NEW n \in TextLens, ApiText(n) PROVE Channel'
    <2>1. UNCHANGED <<ctl, thread, injector, shown, buttons, keysDown, touch>>
      BY <1>6 DEF ApiText
    <2>2. ctl = "none" => wire' = wire
      BY <1>6 DEF ApiText, Send, SendsText
    <2>3. QED
      BY ONLY <1>t, <1>w, <2>1, <2>2, Zenon DEF Channel
  <1>7. ASSUME NEW c \in NavButtons, NavButton(c) PROVE Channel'
    <2>1. UNCHANGED <<ctl, thread, injector, shown, buttons, keysDown, touch>>
      BY <1>7 DEF NavButton
    <2>2. ctl = "none" => wire' = wire
      BY <1>7 DEF NavButton, Send, SendsText
    <2>3. QED
      BY ONLY <1>t, <1>w, <2>1, <2>2, Zenon DEF Channel
  <1>8. ASSUME NEW a \in DeviceActions, DevButton(a) PROVE Channel'
    <2>1. UNCHANGED <<ctl, thread, injector, shown, buttons, keysDown, touch>>
      BY <1>8 DEF DevButton
    <2>2. ctl = "none" => wire' = wire
      BY <1>8 DEF DevButton, Send, SendsText
    <2>3. QED
      BY ONLY <1>t, <1>w, <2>1, <2>2, Zenon DEF Channel
  <1>9. ASSUME NEW b \in MouseButtons, NEW i \in Inside, MousePressed(b, i) PROVE Channel'
    <2>1. UNCHANGED <<ctl, thread, injector, shown, keysDown, touch>>
      BY <1>9 DEF MousePressed
    <2>2. ctl = "none" => wire' = wire
      BY <1>9 DEF MousePressed, Send
    <2>3. shown = FALSE => buttons' = buttons
      BY <1>9 DEF MousePressed, Inside
    <2>4. QED
      BY ONLY <1>t, <1>w, <2>1, <2>2, <2>3, Zenon DEF Channel
  <1>10. ASSUME NEW i \in Inside, MouseReleased(i) PROVE Channel'
    <2>1. UNCHANGED <<ctl, thread, injector, shown, keysDown, touch>>
          /\ buttons' = buttons \ Bits(gesture)
      BY <1>10 DEF MouseReleased
    <2>2. ctl = "none" => wire' = wire
      BY <1>10 DEF MouseReleased, Send
    <2>3. buttons = {} => buttons' = {}
      BY <2>1
    <2>4. QED
      BY ONLY <1>t, <1>w, <2>1, <2>2, <2>3, Zenon DEF Channel
  <1>11. ASSUME NEW i \in Inside, MouseMotion(i) PROVE Channel'
    <2>1. UNCHANGED <<ctl, thread, injector, shown, buttons, keysDown, touch>>
      BY <1>11 DEF MouseMotion
    <2>2. ctl = "none" => wire' = wire
      BY <1>11 DEF MouseMotion, Send, SendsText
    <2>3. QED
      BY ONLY <1>t, <1>w, <2>1, <2>2, Zenon DEF Channel
  <1>12. CASE MouseScroll
    <2>1. UNCHANGED <<ctl, thread, injector, shown, buttons, keysDown, touch>>
      BY <1>12 DEF MouseScroll
    <2>2. ctl = "none" => wire' = wire
      BY <1>12 DEF MouseScroll, Send, SendsText
    <2>3. QED
      BY ONLY <1>t, <1>w, <2>1, <2>2, Zenon DEF Channel
  <1>13. CASE Dispatch
    <2> DEFINE m == Head(wire)
    <2>1. InjectKey(m) \/ InjectButton(m) \/ InjectPassing(m) \/ InjectText(m) \/ Perform(m)
      BY <1>13 DEF Dispatch
    <2>2. ctl' = ctl /\ shown' = shown /\ injector' = injector /\ buttons' = buttons
          /\ thread = "run"
      BY <1>13 DEF Dispatch
    <2>3. m \in Carried
      BY <1>13, TypeParts DEF IInv, TypeWire, Channel, Dispatch
    <2> HIDE DEF m
    <2>4. ctl # "none"
      BY <1>t, <2>2 DEF Channel
    <2>5. thread' = thread
      <3>1. ASSUME InjectText(m) PROVE thread' = thread
        <4>1. m.len <= MaxText /\ m.len \in Nat
          BY <2>3, <3>1, CarriedIsMessage, MessageFields DEF Carried, InjectText
        <4>2. ~(m.len > MaxText)
          BY <4>1, MaxTextAssumption
        <4>3. QED
          BY <3>1, <4>2, Zenon DEF InjectText
      <3>2. QED
        BY <2>1, <3>1, Zenon DEF InjectKey, InjectButton, InjectPassing, Perform
    <2>6. injector = FALSE => keysDown' = keysDown /\ touch' = touch
      <3>1. ASSUME injector = FALSE, InjectKey(m) PROVE keysDown' = keysDown /\ touch' = touch
        BY <3>1, Zenon DEF InjectKey
      <3>2. ASSUME injector = FALSE, InjectButton(m) PROVE keysDown' = keysDown /\ touch' = touch
        BY <3>2, Zenon DEF InjectButton
      <3>3. QED
        BY <2>1, <3>1, <3>2, Zenon DEF InjectPassing, InjectText, Perform
    <2>7. QED
      BY ONLY <1>t, <1>w, <2>2, <2>4, <2>5, <2>6, Zenon DEF Channel
  <1>14. CASE UNCHANGED <<ctl, thread, injector, shown, buttons, keysDown, touch, wire>>
    BY ONLY <1>14, <1>t, <1>w, Zenon DEF Channel
  <1>15. QED
    BY ONLY [Next]_vars, <1>1, <1>2, <1>3, <1>4, <1>5, <1>6, <1>7, <1>8, <1>9, <1>10,
       <1>11, <1>12, <1>13, <1>14, Zenon
    DEF Next, Keyboard, Mouse, Modifier, FocusLost, GestureCancelled, vars, userVars,
        uiVars, deviceVars, kbdRest, mouseRest

-----------------------------------------------------------------------------
(* What a message put on the wire changes. *)
LEMMA PutsEffect ==
  ASSUME TypeOK, NEW m \in Message, ctl = "open", Puts(m), UNCHANGED <<keysDown, touch>>
  PROVE  /\ \A k \in Codes :
              /\ m.type = "key" /\ m.what = k => (KeyDown(k)' <=> m.down)
              /\ ~(m.type = "key" /\ m.what = k) => (KeyDown(k)' <=> KeyDown(k))
         /\ m.type = "button" /\ m.what = "left" => (TouchAfter(Len(wire))' <=> m.down)
         /\ ~(m.type = "button" /\ m.what = "left")
              => (TouchAfter(Len(wire))' <=> TouchAfter(Len(wire)))
         /\ \A n \in 0 .. Len(wire) : TouchAfter(n)' <=> TouchAfter(n)
  <1>1. wire \in Seq(Message) /\ wire' = Append(wire, m) /\ touch \in BOOLEAN
    BY TypeParts DEF TypeWire, TypeFlags, Puts
  <1>2. ASSUME NEW k \in Codes
        PROVE  /\ m.type = "key" /\ m.what = k => (KeyDown(k)' <=> m.down)
               /\ ~(m.type = "key" /\ m.what = k) => (KeyDown(k)' <=> KeyDown(k))
    <2> DEFINE b == k \in keysDown
    <2>1. b \in BOOLEAN
      OBVIOUS
    <2>2. (KeyDown(k)' <=> Down(Append(wire, m), "key", k, b, Len(Append(wire, m))))
          /\ (KeyDown(k) <=> Down(wire, "key", k, b, Len(wire)))
      BY ONLY <1>1, keysDown' = keysDown DEF KeyDown
    <2> HIDE DEF b
    <2>3. /\ Len(Append(wire, m)) = Len(wire) + 1
          /\ m.type = "key" /\ m.what = k =>
               (Down(Append(wire, m), "key", k, b, Len(wire) + 1) <=> m.down)
          /\ ~(m.type = "key" /\ m.what = k) =>
               (Down(Append(wire, m), "key", k, b, Len(wire) + 1)
                  <=> Down(wire, "key", k, b, Len(wire)))
      BY ONLY <1>1, <2>1, DownAppend, m \in Message
    <2>4. QED
      BY ONLY <2>2, <2>3
  <1>3. /\ Len(Append(wire, m)) = Len(wire) + 1
        /\ \A n \in 0 .. Len(wire) :
             Down(Append(wire, m), "button", "left", touch, n)
               <=> Down(wire, "button", "left", touch, n)
        /\ m.type = "button" /\ m.what = "left" =>
             (Down(Append(wire, m), "button", "left", touch, Len(wire) + 1) <=> m.down)
        /\ ~(m.type = "button" /\ m.what = "left") =>
             (Down(Append(wire, m), "button", "left", touch, Len(wire) + 1)
                <=> Down(wire, "button", "left", touch, Len(wire)))
    BY ONLY <1>1, DownAppend, m \in Message
  <1>4. TouchAfter(Len(wire))' <=> Down(Append(wire, m), "button", "left", touch, Len(wire) + 1)
    BY ONLY <1>1, <1>3, touch' = touch DEF TouchAfter
  <1>5. \A n \in 0 .. Len(wire) :
          TouchAfter(n)' <=> Down(Append(wire, m), "button", "left", touch, n)
    BY ONLY <1>1, touch' = touch DEF TouchAfter
  <1>6. QED
    BY ONLY <1>2, <1>3, <1>4, <1>5 DEF TouchAfter

(* A message about neither a key nor a button changes nothing that is pressed, and a *)
(* step that leaves wire and device alone does not either.                           *)
LEMMA SameEffect ==
  ASSUME UNCHANGED <<wire, keysDown, touch>>
  PROVE  /\ \A k \in Codes : KeyDown(k)' <=> KeyDown(k)
         /\ TouchAfter(Len(wire))' <=> TouchAfter(Len(wire))
         /\ \A n \in 0 .. Len(wire) : TouchAfter(n)' <=> TouchAfter(n)
  BY Zenon DEF KeyDown, TouchAfter

(* Reading a message: what will be pressed in the end stays the same, except that a      *)
(* server without an InputManager presses nothing.                                        *)
LEMMA DispatchEffect ==
  ASSUME TypeOK, Channel, Dispatch
  PROVE  /\ \A k \in Codes : KeyDown(k)' => KeyDown(k)
         /\ TouchAfter(Len(wire))' => TouchAfter(Len(wire))
         /\ injector => \A n \in 0 .. Len(wire) - 1 : TouchAfter(n)' <=> TouchAfter(n + 1)
  <1> DEFINE m == Head(wire)
  <1>1. /\ wire \in Seq(Message) /\ wire # <<>> /\ wire' = Tail(wire) /\ Len(wire) \in Nat
        /\ touch \in BOOLEAN /\ injector \in BOOLEAN /\ Len(wire) >= 1
        /\ m = wire[1] /\ m \in Message /\ Len(wire') = Len(wire) - 1
    BY TypeParts DEF TypeWire, TypeFlags, Dispatch
  <1>2. InjectKey(m) \/ InjectButton(m) \/ InjectPassing(m) \/ InjectText(m) \/ Perform(m)
    BY DEF Dispatch
  <1>3. m.down \in BOOLEAN
    BY <1>1, MessageFields
  <1> HIDE DEF m
  <1>n. Len(wire) \in 1 .. Len(wire)
    BY ONLY <1>1
  <1>4. ASSUME NEW k \in Codes PROVE KeyDown(k)' => KeyDown(k)
    <2> DEFINE c == IF About(wire, 1, "key", k) THEN wire[1].down ELSE k \in keysDown
    <2>1. (k \in keysDown) \in BOOLEAN
      OBVIOUS
    <2>2. Down(wire, "key", k, k \in keysDown, Len(wire))
            <=> Down(Tail(wire), "key", k, c, Len(wire) - 1)
      BY ONLY <1>1, <1>n, <2>1, DownTail
    <2>3. k \in keysDown' => c
      <3>1. CASE InjectKey(m)
        <4>1. injector = FALSE => k \notin keysDown'
          BY <3>1, Zenon DEF InjectKey, Channel
        <4>2. CASE injector = TRUE
          <5>1. keysDown' = IF m.down THEN keysDown \cup {m.what} ELSE keysDown \ {m.what}
            BY <3>1, <4>2, Zenon DEF InjectKey
          <5>2. m.type = "key"
            BY <3>1 DEF InjectKey
          <5>3. CASE m.what = k
            <6>1. c <=> m.down
              BY ONLY <1>1, <5>2, <5>3, Zenon DEF About
            <6>2. k \in keysDown' => m.down
              BY ONLY <5>1, <5>3
            <6>3. QED
              BY ONLY <6>1, <6>2
          <5>4. CASE m.what # k
            <6>1. c <=> k \in keysDown
              BY ONLY <1>1, <5>2, <5>4, Zenon DEF About
            <6>2. k \in keysDown' => k \in keysDown
              BY ONLY <5>1, <5>4
            <6>3. QED
              BY ONLY <6>1, <6>2
          <5>5. QED
            BY <5>3, <5>4
        <4>3. QED
          BY ONLY <1>1, <4>1, <4>2, Zenon
      <3>2. CASE ~InjectKey(m)
        <4>1. keysDown' = keysDown /\ m.type # "key"
          BY <1>2, <3>2 DEF InjectButton, InjectPassing, InjectText, Perform, deviceVars
        <4>2. ~About(wire, 1, "key", k)
          BY ONLY <1>1, <4>1 DEF About
        <4>3. QED
          BY ONLY <4>1, <4>2, Zenon
      <3>3. QED
        BY <3>1, <3>2
    <2> HIDE DEF c
    <2>4. KeyDown(k)' => Down(Tail(wire), "key", k, c, Len(wire) - 1)
      <3>1. KeyDown(k)' <=> Down(Tail(wire), "key", k, k \in keysDown', Len(wire) - 1)
        BY ONLY <1>1 DEF KeyDown
      <3>2. QED
        BY ONLY <3>1, <2>3 DEF Down
    <2>5. QED
      BY ONLY <2>2, <2>4 DEF KeyDown
  <1> DEFINE d == IF About(wire, 1, "button", "left") THEN wire[1].down ELSE touch
  <1>5. (touch' => d) /\ (injector => (touch' <=> d))
    <2>1. CASE InjectButton(m)
      <3>1. injector = FALSE => touch' = FALSE
        BY <2>1, Zenon DEF InjectButton, Channel
      <3>2. CASE injector = TRUE
        <4>1. touch' = (IF m.what = "left" THEN m.down ELSE touch) /\ m.type = "button"
          BY <2>1, <3>2 DEF InjectButton
        <4>2. CASE m.what = "left"
          <5>1. About(wire, 1, "button", "left") /\ touch' = wire[1].down
            BY ONLY <1>1, <4>1, <4>2 DEF About
          <5>2. QED
            BY ONLY <5>1, Zenon
        <4>3. CASE m.what # "left"
          <5>1. ~About(wire, 1, "button", "left") /\ touch' = touch
            BY ONLY <1>1, <4>1, <4>3 DEF About
          <5>2. QED
            BY ONLY <5>1, Zenon
        <4>4. QED
          BY <4>2, <4>3
      <3>3. QED
        BY ONLY <1>1, <3>1, <3>2, Zenon
    <2>2. CASE ~InjectButton(m)
      <3>1. touch' = touch /\ m.type # "button"
        BY <1>2, <2>2 DEF InjectKey, InjectPassing, InjectText, Perform, deviceVars
      <3>2. ~About(wire, 1, "button", "left")
        BY ONLY <1>1, <3>1 DEF About
      <3>3. QED
        BY ONLY <3>1, <3>2, Zenon
    <2>3. QED
      BY <2>1, <2>2
  <1>6. \A n \in 1 .. Len(wire) : TouchAfter(n) <=> Down(Tail(wire), "button", "left", d, n - 1)
    BY ONLY <1>1, DownTail DEF TouchAfter
  <1> HIDE DEF d
  <1>7. \A n \in 0 .. Len(wire) - 1 :
          TouchAfter(n)' <=> Down(Tail(wire), "button", "left", touch', n)
    BY ONLY <1>1 DEF TouchAfter
  <1>8. TouchAfter(Len(wire))' <=> Down(Tail(wire), "button", "left", touch', Len(wire) - 1)
    BY ONLY <1>1 DEF TouchAfter
  <1>9. TouchAfter(Len(wire))' => TouchAfter(Len(wire))
    <2>1. TouchAfter(Len(wire)) <=> Down(Tail(wire), "button", "left", d, Len(wire) - 1)
      BY ONLY <1>6, <1>n
    <2>2. QED
      BY ONLY <2>1, <1>5, <1>8 DEF Down
  <1>10. ASSUME injector, NEW n \in 0 .. Len(wire) - 1 PROVE TouchAfter(n)' <=> TouchAfter(n + 1)
    <2>1. n + 1 \in 1 .. Len(wire) /\ (n + 1) - 1 = n
      BY ONLY <1>1, n \in 0 .. Len(wire) - 1
    <2>2. TouchAfter(n + 1) <=> Down(Tail(wire), "button", "left", d, n)
      BY ONLY <1>6, <2>1
    <2>3. QED
      BY ONLY <2>2, <1>7, <1>5, <1>10 DEF Down
  <1>11. QED
    BY ONLY <1>4, <1>9, <1>10

(* A handler that sends nothing about a key, and lets go of no mark. *)
LEMMA KeysNeutral ==
  ASSUME TypeOK, KeysKept, UNCHANGED <<ctl, keysDown, touch>>,
         wire' = wire \/ \E m \in Message : m.type # "key" /\ Puts(m),
         marked \subseteq marked',
         held \cup unseen \subseteq held' \cup unseen' \cup {"left", "right", "side"}
  PROVE  KeysKept'
  <1> SUFFICES ASSUME ctl = "open" PROVE KeysKept'
    BY DEF KeysKept
  <1>1. \A k \in Codes : KeyDown(k)' <=> KeyDown(k)
    <2>1. CASE wire' = wire
      BY <2>1, SameEffect
    <2>2. ASSUME NEW m \in Message, m.type # "key", Puts(m)
          PROVE  \A k \in Codes : KeyDown(k)' <=> KeyDown(k)
      BY <2>2, PutsEffect
    <2>3. QED
      BY <2>1, <2>2
  <1>2. {"left", "right", "side"} \cap (Letters \cup Navs) = {} /\ Letters \cup Navs \subseteq Codes
    BY ButtonsAssumption DEF Keys, Codes
  <1>3. QED
    BY <1>1, <1>2 DEF KeysKept

(* Where the messages are after one more is put on the wire. *)
LEMMA PutsPlaces ==
  ASSUME wire \in Seq(Message), NEW m \in Message, wire' = Append(wire, m)
  PROVE  /\ \A i \in DOMAIN wire' :
              \/ wire'[i] = m /\ i - 1 = Len(wire)
              \/ i \in DOMAIN wire /\ wire'[i] = wire[i] /\ i - 1 \in 0 .. Len(wire)
         /\ Len(wire) \in 0 .. Len(wire)
  OBVIOUS

(* A handler that sends nothing about the touch, and forgets none. *)
LEMMA TouchNeutral ==
  ASSUME TypeOK, TouchKept, UNCHANGED <<ctl, injector, keysDown, touch>>,
         \/ wire' = wire
         \/ \E m \in Message :
              m.type # "motion" /\ ~(m.type = "button" /\ m.what = "left") /\ Puts(m),
         gesture = "left" \/ "left" \in unseen => gesture' = "left" \/ "left" \in unseen',
         "left" \in buttons' => "left" \in buttons
  PROVE  TouchKept'
  <1> SUFFICES ASSUME ctl = "open" PROVE TouchKept'
    BY DEF TouchKept
  <1>t. wire \in Seq(Message) /\ Len(wire) \in Nat
    BY TypeParts DEF TypeWire
  <1>1. /\ TouchAfter(Len(wire))' <=> TouchAfter(Len(wire))
        /\ \A n \in 0 .. Len(wire) : TouchAfter(n)' <=> TouchAfter(n)
        /\ \A i \in DOMAIN wire' :
             wire'[i].type = "motion" => i \in DOMAIN wire /\ wire'[i] = wire[i] /\ i - 1 \in 0 .. Len(wire)
    <2>1. CASE wire' = wire
      <3>1. /\ TouchAfter(Len(wire))' <=> TouchAfter(Len(wire))
            /\ \A n \in 0 .. Len(wire) : TouchAfter(n)' <=> TouchAfter(n)
        BY <2>1, SameEffect
      <3>2. QED
        BY <1>t, <2>1, <3>1
    <2>2. ASSUME NEW m \in Message, m.type # "motion", Puts(m),
                 ~(m.type = "button" /\ m.what = "left")
          PROVE  /\ TouchAfter(Len(wire))' <=> TouchAfter(Len(wire))
                 /\ \A n \in 0 .. Len(wire) : TouchAfter(n)' <=> TouchAfter(n)
                 /\ \A i \in DOMAIN wire' :
                      wire'[i].type = "motion" =>
                        i \in DOMAIN wire /\ wire'[i] = wire[i] /\ i - 1 \in 0 .. Len(wire)
      <3>1. /\ TouchAfter(Len(wire))' <=> TouchAfter(Len(wire))
            /\ \A n \in 0 .. Len(wire) : TouchAfter(n)' <=> TouchAfter(n)
        BY <2>2, PutsEffect
      <3>2. wire' = Append(wire, m)
        BY <2>2 DEF Puts
      <3>3. QED
        BY ONLY <1>t, <2>2, <3>1, <3>2, PutsPlaces
    <2>3. QED
      BY <2>1, <2>2
  <1>2. QED
    BY ONLY <1>1, TouchKept, ctl = "open", UNCHANGED <<ctl, injector>>,
       gesture = "left" \/ "left" \in unseen => gesture' = "left" \/ "left" \in unseen',
       "left" \in buttons' => "left" \in buttons, Zenon
    DEF TouchKept

(* The two messages of a click on the button bar. *)
LEMMA TwoEffect ==
  ASSUME TypeOK, NEW c \in Codes, UNCHANGED <<keysDown, touch>>,
         wire' = Append(Append(wire, Key(c, TRUE)), Key(c, FALSE))
  PROVE  /\ \A k \in Codes : KeyDown(k)' => KeyDown(k)
         /\ TouchAfter(Len(wire))' <=> TouchAfter(Len(wire))
         /\ \A n \in 0 .. Len(wire) : TouchAfter(n)' <=> TouchAfter(n)
         /\ \A i \in DOMAIN wire' :
              wire'[i].type = "motion" => i \in DOMAIN wire /\ wire'[i] = wire[i] /\ i - 1 \in 0 .. Len(wire)
  <1> DEFINE m == Key(c, TRUE)
             l == Key(c, FALSE)
             v == Append(wire, m)
  <1>0. wire \in Seq(Message) /\ touch \in BOOLEAN
    BY TypeParts DEF TypeWire, TypeFlags
  <1>1. /\ Len(wire) \in Nat /\ m.type = "key" /\ l.type = "key"
        /\ m.what = c /\ l.what = c /\ l.down = FALSE
    <2>1. m.type = "key" /\ l.type = "key" /\ m.what = c /\ l.what = c /\ l.down = FALSE
      BY ONLY KeyMessage, c \in Codes
    <2>2. QED
      BY DEF Key, Msg
  <1>m. m \in Message /\ l \in Message
    <2>1. m \in Carried /\ l \in Carried
      BY ONLY KeyMessage, c \in Codes
    <2>2. QED
      BY ONLY <2>1, CarriedIsMessage
  <1> HIDE DEF m, l
  <1>2. v \in Seq(Message) /\ Len(v) = Len(wire) + 1 /\ Len(v) \in Nat
    BY ONLY <1>0, <1>m
  <1>v. v \in Seq(Message)
    BY ONLY <1>2
  <1>3. wire' = Append(v, l)
    BY DEF m, l
  <1>4. \A i \in DOMAIN v : v[i] = m \/ (i \in DOMAIN wire /\ v[i] = wire[i] /\ i - 1 \in 0 .. Len(wire))
    BY ONLY <1>0, <1>m
  <1>d. v = Append(wire, m)
    OBVIOUS
  <1> HIDE DEF v
  <1>5. \A i \in DOMAIN wire' : wire'[i] = l \/ (i \in DOMAIN v /\ wire'[i] = v[i])
    BY ONLY <1>v, <1>m, <1>3
  <1>6. ASSUME NEW k \in Codes PROVE KeyDown(k)' => KeyDown(k)
    <2> DEFINE b == k \in keysDown
    <2>1. b \in BOOLEAN
      OBVIOUS
    <2>2. (KeyDown(k)' <=> Down(Append(v, l), "key", k, b, Len(Append(v, l))))
          /\ (KeyDown(k) <=> Down(wire, "key", k, b, Len(wire)))
      BY ONLY <1>3, keysDown' = keysDown DEF KeyDown
    <2> HIDE DEF b
    <2>3. /\ Len(Append(v, l)) = Len(v) + 1
          /\ l.type = "key" /\ l.what = k =>
               (Down(Append(v, l), "key", k, b, Len(v) + 1) <=> l.down)
          /\ ~(l.type = "key" /\ l.what = k) =>
               (Down(Append(v, l), "key", k, b, Len(v) + 1) <=> Down(v, "key", k, b, Len(v)))
      BY ONLY <1>v, <1>m, <2>1, DownAppend
    <2>4. ~(m.type = "key" /\ m.what = k) =>
            (Down(v, "key", k, b, Len(wire) + 1) <=> Down(wire, "key", k, b, Len(wire)))
      BY ONLY <1>0, <1>m, <1>d, <2>1, DownAppend
    <2>5. CASE k = c
      BY ONLY <1>1, <2>2, <2>3, <2>5
    <2>6. CASE k # c
      BY ONLY <1>1, <1>2, <2>2, <2>3, <2>4, <2>6
    <2>7. QED
      BY <2>5, <2>6
  <1>7. /\ Len(Append(v, l)) = Len(v) + 1
        /\ \A n \in 0 .. Len(v) :
             Down(Append(v, l), "button", "left", touch, n) <=> Down(v, "button", "left", touch, n)
        /\ ~(l.type = "button" /\ l.what = "left") =>
             (Down(Append(v, l), "button", "left", touch, Len(v) + 1)
                <=> Down(v, "button", "left", touch, Len(v)))
    BY ONLY <1>0, <1>v, <1>m, DownAppend
  <1>8. /\ \A n \in 0 .. Len(wire) :
             Down(v, "button", "left", touch, n) <=> Down(wire, "button", "left", touch, n)
        /\ ~(m.type = "button" /\ m.what = "left") =>
             (Down(v, "button", "left", touch, Len(wire) + 1)
                <=> Down(wire, "button", "left", touch, Len(wire)))
    BY ONLY <1>0, <1>m, <1>d, DownAppend
  <1>9. TouchAfter(Len(wire))' <=> TouchAfter(Len(wire))
    <2>1. TouchAfter(Len(wire))' <=> Down(Append(v, l), "button", "left", touch, Len(v) + 1)
      BY ONLY <1>3, <1>7, touch' = touch DEF TouchAfter
    <2>2. TouchAfter(Len(wire)) <=> Down(wire, "button", "left", touch, Len(wire))
      BY DEF TouchAfter
    <2>3. QED
      BY ONLY <1>1, <1>2, <1>7, <1>8, <2>1, <2>2
  <1>10. ASSUME NEW n \in 0 .. Len(wire) PROVE TouchAfter(n)' <=> TouchAfter(n)
    <2>1. n \in 0 .. Len(v)
      BY ONLY <1>1, <1>2, <1>10
    <2>2. TouchAfter(n)' <=> Down(Append(v, l), "button", "left", touch, n)
      BY ONLY <1>3, touch' = touch DEF TouchAfter
    <2>3. TouchAfter(n) <=> Down(wire, "button", "left", touch, n)
      BY DEF TouchAfter
    <2>4. QED
      BY ONLY <1>7, <1>8, <2>1, <2>2, <2>3, <1>10
  <1>11. ASSUME NEW i \in DOMAIN wire', wire'[i].type = "motion"
         PROVE  i \in DOMAIN wire /\ wire'[i] = wire[i] /\ i - 1 \in 0 .. Len(wire)
    <2>1. wire'[i] # l /\ wire'[i] # m
      BY ONLY <1>1, <1>11
    <2>2. i \in DOMAIN v /\ wire'[i] = v[i]
      BY ONLY <1>5, <2>1, <1>11
    <2>3. QED
      BY ONLY <1>4, <2>1, <2>2
  <1>12. QED
    BY <1>6, <1>9, <1>10, <1>11

-----------------------------------------------------------------------------
(* What the handlers that send one message put on the wire. *)
LEMMA TextSends ==
  ASSUME TypeOK, NEW n \in Nat, CanSend(1), SendsText(n)
  PROVE  wire' = wire \/ \E m \in Message : m.type = "text" /\ Puts(m)
  <1>1. wire \in Seq(Message)
    BY TypeParts DEF TypeWire
  <1>2. wire' = wire \/ Puts(Text(n))
    BY <1>1, TextStep
  <1>3. QED
    BY <1>2, TextMessage

(* What a device action sends. *)
LEMMA DevSends ==
  ASSUME TypeOK, NEW a \in DeviceActions, DevButton(a)
  PROVE  \E m \in Message : m.type = "action" /\ Puts(m)
  <1>1. wire \in Seq(Message)
    BY TypeParts DEF TypeWire
  <1>2. Msg("action", a, FALSE, 0) \in Message /\ Msg("action", a, FALSE, 0).type = "action"
    BY ActionMessage, CarriedIsMessage
  <1>3. Puts(Msg("action", a, FALSE, 0))
    BY <1>1, <1>2, SendPuts DEF DevButton
  <1>4. QED
    BY <1>2, <1>3

(* What a press of a mouse button sends. *)
LEMMA PressSends ==
  ASSUME TypeOK, NEW b \in MouseButtons, NEW i \in Inside, MousePressed(b, i)
  PROVE  \/ UNCHANGED <<wire, buttons, unseen>>
         \/ /\ buttons' = buttons \cup Bits(b) /\ unseen' = unseen \ {b}
            /\ \E m \in Message : m.type = "button" /\ m.what = b /\ m.down = TRUE /\ Puts(m)
  <1>1. wire \in Seq(Message)
    BY TypeParts DEF TypeWire
  <1>2. Button(b, TRUE) \in Message /\ Button(b, TRUE).type = "button"
        /\ Button(b, TRUE).what = b /\ Button(b, TRUE).down = TRUE
    BY ButtonMessage, CarriedIsMessage
  <1>3. CASE i
    <2>1. CanSend(1) /\ Send(<<Button(b, TRUE)>>) /\ buttons' = buttons \cup Bits(b)
          /\ unseen' = unseen \ {b}
      BY <1>3, Zenon DEF MousePressed
    <2>2. Puts(Button(b, TRUE))
      BY <1>1, <1>2, <2>1, SendPuts
    <2>3. QED
      BY <1>2, <2>1, <2>2
  <1>4. CASE ~i
    BY <1>4, Zenon DEF MousePressed
  <1>5. QED
    BY <1>3, <1>4

(* What a release sends. *)
LEMMA ReleaseSends ==
  ASSUME TypeOK, NEW i \in Inside, MouseReleased(i)
  PROVE  \E m \in Message : m.type = "button" /\ m.what = gesture /\ m.down = FALSE /\ Puts(m)
  <1>1. wire \in Seq(Message)
    BY TypeParts DEF TypeWire
  <1>2. gesture \in MouseButtons
    BY TypeParts DEF TypeUser, MouseReleased
  <1>3. Button(gesture, FALSE) \in Message /\ Button(gesture, FALSE).type = "button"
        /\ Button(gesture, FALSE).what = gesture /\ Button(gesture, FALSE).down = FALSE
    BY <1>2, ButtonMessage, CarriedIsMessage
  <1>4. Puts(Button(gesture, FALSE))
    BY <1>1, <1>3, SendPuts DEF MouseReleased
  <1>5. QED
    BY <1>3, <1>4

(* What a motion sends. *)
LEMMA MotionSends ==
  ASSUME TypeOK, NEW i \in Inside, MouseMotion(i)
  PROVE  \E m \in Message : m.type = "motion" /\ m.down = ("left" \in buttons) /\ Puts(m)
  <1> DEFINE d == "left" \in buttons
  <1>1. wire \in Seq(Message)
    BY TypeParts DEF TypeWire
  <1>2. d \in BOOLEAN
    OBVIOUS
  <1>3. Send(<<Msg("motion", "none", d, 0)>>) /\ CanSend(1)
    BY DEF MouseMotion
  <1> HIDE DEF d
  <1>4. Msg("motion", "none", d, 0) \in Message /\ Msg("motion", "none", d, 0).type = "motion"
        /\ Msg("motion", "none", d, 0).down = d
    BY <1>2, MotionMessage, CarriedIsMessage
  <1>5. Puts(Msg("motion", "none", d, 0))
    BY <1>1, <1>3, <1>4, SendPuts
  <1>6. QED
    BY <1>4, <1>5 DEF d

(* What the wheel sends. *)
LEMMA ScrollSends ==
  ASSUME TypeOK, MouseScroll
  PROVE  \E m \in Message : m.type = "scroll" /\ Puts(m)
  <1>1. wire \in Seq(Message)
    BY TypeParts DEF TypeWire
  <1>2. Msg("scroll", "none", FALSE, 0) \in Message /\ Msg("scroll", "none", FALSE, 0).type = "scroll"
    BY ScrollMessage, CarriedIsMessage
  <1>3. Puts(Msg("scroll", "none", FALSE, 0))
    BY <1>1, <1>2, SendPuts DEF MouseScroll
  <1>4. QED
    BY <1>2, <1>3

(* What a button of the bar sends. *)
LEMMA NavSends ==
  ASSUME TypeOK, NEW c \in NavButtons, NavButton(c)
  PROVE  \/ wire' = wire
         \/ c \in Codes /\ wire' = Append(Append(wire, Key(c, TRUE)), Key(c, FALSE))
  <1>1. wire \in Seq(Message)
    BY TypeParts DEF TypeWire
  <1>2. c \in Codes
    BY DEF Codes
  <1>3. Key(c, TRUE) \in Message /\ Key(c, FALSE) \in Message
    BY <1>2, KeyMessage, CarriedIsMessage
  <1>4. CanSend(2) /\ Send(<<Key(c, TRUE), Key(c, FALSE)>>)
    BY DEF NavButton
  <1>5. QED
    BY <1>1, <1>2, <1>3, <1>4, SendTwo

(* Every step keeps the keys marked that are or will be down. *)
LEMMA KeysStep == IInv /\ [Next]_vars => KeysKept'
  <1> SUFFICES ASSUME IInv, [Next]_vars PROVE KeysKept'
    OBVIOUS
  <1> USE DEF userVars, uiVars, deviceVars, kbdRest, mouseRest
  <1>t. TypeOK /\ Channel /\ KeysKept
    BY DEF IInv
  <1>l. Letters \cup Navs \subseteq Codes /\ Keys \subseteq Codes /\ {"left", "right", "side"} \cap Keys = {}
    BY ButtonsAssumption DEF Keys, Codes
  <1>u. unseen \subseteq Keys \cup {"left"} /\ gesture \in MouseButtons \cup {"none"}
    BY <1>t, TypeParts DEF TypeUser
  <1>1. CASE Connect
    <2>1. wire' = <<>> /\ keysDown' = {}
      BY <1>1, <1>t DEF Connect, Channel
    <2>2. ASSUME NEW k PROVE ~KeyDown(k)'
      <3>1. Len(wire') = 0 /\ k \notin keysDown'
        BY ONLY <2>1
      <3>2. QED
        BY ONLY <3>1 DEF KeyDown, Down
    <2>3. QED
      BY ONLY <2>2, Zenon DEF KeysKept
  <1>2. CASE PeerGone
    BY <1>2 DEF PeerGone, KeysKept
  <1>3. ASSUME NEW k \in Keys, KeyPressed(k) PROVE KeysKept'
    <2>0. /\ UNCHANGED <<ctl, keysDown, touch>> /\ held' = held \cup {k} /\ unseen' = unseen \ {k}
          /\ CanSend(1)
      BY <1>3 DEF KeyPressed
    <2>1. CASE SentAsKey(k) /\ Send(<<Key(k, TRUE)>>) /\ marked' = marked \cup {k}
      <3> SUFFICES ASSUME ctl = "open" PROVE KeysKept'
        BY <2>0 DEF KeysKept
      <3>1. Key(k, TRUE) \in Message /\ Key(k, TRUE).type = "key" /\ Key(k, TRUE).what = k
        BY <1>3, <1>l, KeyMessage, CarriedIsMessage
      <3>2. Puts(Key(k, TRUE))
        BY <1>t, <2>0, <2>1, <3>1, SendPuts, TypeParts DEF TypeWire
      <3>3. \A j \in Codes : j # k => (KeyDown(j)' <=> KeyDown(j))
        BY ONLY <1>t, <2>0, <3>1, <3>2, ctl = "open", PutsEffect
      <3>4. QED
        BY ONLY <1>t, <1>l, <2>0, <2>1, <3>3, ctl = "open", k \in Keys DEF KeysKept
    <2>2. CASE ~SentAsKey(k)
      <3>1. wire' = wire \/ \E m \in Message : m.type = "text" /\ Puts(m)
        <4>1. wire' = wire \/ SendsText(1)
          BY <1>3, <2>2, Zenon DEF KeyPressed
        <4>2. QED
          BY ONLY <1>t, <2>0, <4>1, TextSends
      <3>2. marked' = marked
        BY <1>3, <2>2, Zenon DEF KeyPressed
      <3>3. held \cup unseen \subseteq held' \cup unseen' \cup {"left", "right", "side"}
        BY ONLY <2>0
      <3>4. wire' = wire \/ \E m \in Message : m.type # "key" /\ Puts(m)
        BY ONLY <3>1
      <3>5. QED
        BY ONLY <1>t, <2>0, <3>2, <3>3, <3>4, KeysNeutral
    <2>3. QED
      BY <1>3, <2>1, <2>2, Zenon DEF KeyPressed, SentAsText
  <1>4. ASSUME NEW k \in Keys, KeyReleased(k) PROVE KeysKept'
    <2>0. UNCHANGED <<ctl, keysDown, touch, unseen>> /\ held' = held \ {k} /\ CanSend(1)
      BY <1>4 DEF KeyReleased
    <2> SUFFICES ASSUME ctl = "open" PROVE KeysKept'
      BY <2>0 DEF KeysKept
    <2>1. CASE (NavKey(k) \/ AlnumKey(k)) /\ k \in marked
      <3>0. Send(<<Key(k, FALSE)>>) /\ marked' = marked \ {k}
        BY <1>4, <2>1, Zenon DEF KeyReleased
      <3>1. Key(k, FALSE) \in Message /\ Key(k, FALSE).type = "key" /\ Key(k, FALSE).what = k
            /\ Key(k, FALSE).down = FALSE
        BY <1>4, <1>l, KeyMessage, CarriedIsMessage
      <3>2. Puts(Key(k, FALSE))
        BY <1>t, <2>0, <3>0, <3>1, SendPuts, TypeParts DEF TypeWire
      <3>3. \A j \in Codes : j # k => (KeyDown(j)' <=> KeyDown(j))
        BY ONLY <1>t, <2>0, <3>1, <3>2, ctl = "open", PutsEffect
      <3>4. ~KeyDown(k)'
        <4>1. KeyDown(k)' <=> Key(k, FALSE).down
          BY ONLY <1>t, <1>l, <2>0, <3>1, <3>2, ctl = "open", k \in Keys, PutsEffect
        <4>2. QED
          BY ONLY <3>1, <4>1, Zenon
      <3>5. QED
        BY ONLY <1>t, <1>l, <2>0, <3>0, <3>3, <3>4, ctl = "open", k \in Keys DEF KeysKept
    <2>2. CASE ~((NavKey(k) \/ AlnumKey(k)) /\ k \in marked)
      <3>0. wire' = wire /\ marked' = marked
        BY <1>4, <2>2, Zenon DEF KeyReleased
      <3>1. \A j \in Codes : KeyDown(j)' <=> KeyDown(j)
        BY ONLY <2>0, <3>0, SameEffect
      <3>2. k \in Letters \cup Navs => k \notin marked
        BY <2>2, Zenon DEF NavKey, AlnumKey
      <3>3. QED
        BY ONLY <1>t, <1>l, <2>0, <3>0, <3>1, <3>2, ctl = "open", k \in Keys DEF KeysKept
    <2>3. QED
      BY <2>1, <2>2
  <1>5. CASE FocusLost
    <2>1. UNCHANGED <<ctl, keysDown, touch, wire, marked>> /\ held' = {} /\ unseen' = unseen \cup held
      BY <1>5 DEF FocusLost
    <2>2. held \cup unseen \subseteq held' \cup unseen' \cup {"left", "right", "side"}
      BY ONLY <2>1
    <2>3. QED
      BY ONLY <1>t, <2>1, <2>2, KeysNeutral
  <1>6. ASSUME NEW n \in TextLens, ApiText(n) PROVE KeysKept'
    <2>0. UNCHANGED <<ctl, keysDown, touch, held, unseen, marked>> /\ SendsText(n) /\ CanSend(1)
      BY <1>6 DEF ApiText
    <2>1. n \in Nat
      BY <1>6, MaxTextAssumption
    <2>2. wire' = wire \/ \E m \in Message : m.type # "key" /\ Puts(m)
      BY ONLY <1>t, <2>0, <2>1, TextSends
    <2>3. held \cup unseen \subseteq held' \cup unseen' \cup {"left", "right", "side"}
      BY ONLY <2>0
    <2>4. QED
      BY ONLY <1>t, <2>0, <2>2, <2>3, KeysNeutral
  <1>7. ASSUME NEW c \in NavButtons, NavButton(c) PROVE KeysKept'
    <2>0. UNCHANGED <<ctl, keysDown, touch, held, unseen, marked>>
      BY <1>7 DEF NavButton
    <2>1. \/ wire' = wire
          \/ c \in Codes /\ wire' = Append(Append(wire, Key(c, TRUE)), Key(c, FALSE))
      BY ONLY <1>t, <1>7, NavSends, c \in NavButtons
    <2>2. \A k \in Codes : KeyDown(k)' => KeyDown(k)
      <3>1. CASE wire' = wire
        BY ONLY <2>0, <3>1, SameEffect
      <3>2. CASE c \in Codes /\ wire' = Append(Append(wire, Key(c, TRUE)), Key(c, FALSE))
        BY ONLY <1>t, <2>0, <3>2, TwoEffect
      <3>3. QED
        BY ONLY <2>1, <3>1, <3>2
    <2>3. QED
      BY ONLY <1>t, <1>l, <2>0, <2>2 DEF KeysKept
  <1>8. ASSUME NEW a \in DeviceActions, DevButton(a) PROVE KeysKept'
    <2>0. UNCHANGED <<ctl, keysDown, touch, held, unseen, marked>>
      BY <1>8 DEF DevButton
    <2>1. wire' = wire \/ \E m \in Message : m.type # "key" /\ Puts(m)
      BY ONLY <1>t, <1>8, DevSends, a \in DeviceActions
    <2>2. held \cup unseen \subseteq held' \cup unseen' \cup {"left", "right", "side"}
      BY ONLY <2>0
    <2>3. QED
      BY ONLY <1>t, <2>0, <2>1, <2>2, KeysNeutral
  <1>9. ASSUME NEW b \in MouseButtons, NEW i \in Inside, MousePressed(b, i) PROVE KeysKept'
    <2>0. UNCHANGED <<ctl, keysDown, touch, held, marked>>
      BY <1>9 DEF MousePressed
    <2>1. /\ wire' = wire \/ \E m \in Message : m.type # "key" /\ Puts(m)
          /\ unseen' = unseen \/ unseen' = unseen \ {b}
      BY ONLY <1>t, <1>9, PressSends, b \in MouseButtons, i \in Inside
    <2>2. b \in {"left", "right", "side"}
      BY <1>9, ButtonsAssumption
    <2>3. held \cup unseen \subseteq held' \cup unseen' \cup {"left", "right", "side"}
      BY ONLY <2>0, <2>1, <2>2
    <2>4. QED
      BY ONLY <1>t, <2>0, <2>1, <2>3, KeysNeutral
  <1>10. ASSUME NEW i \in Inside, MouseReleased(i) PROVE KeysKept'
    <2>0. UNCHANGED <<ctl, keysDown, touch, held, marked>> /\ unseen' = unseen \ {gesture}
          /\ gesture # "none"
      BY <1>10 DEF MouseReleased
    <2>1. wire' = wire \/ \E m \in Message : m.type # "key" /\ Puts(m)
      BY ONLY <1>t, <1>10, ReleaseSends, i \in Inside
    <2>2. gesture \in {"left", "right", "side"}
      BY <1>u, <2>0, ButtonsAssumption
    <2>3. held \cup unseen \subseteq held' \cup unseen' \cup {"left", "right", "side"}
      BY ONLY <2>0, <2>1, <2>2
    <2>4. QED
      BY ONLY <1>t, <2>0, <2>1, <2>3, KeysNeutral
  <1>11. CASE GestureCancelled
    <2>1. UNCHANGED <<ctl, keysDown, touch, wire, marked, held>>
          /\ (unseen' = unseen \/ unseen' = unseen \cup {"left"})
      BY <1>11 DEF GestureCancelled
    <2>2. held \cup unseen \subseteq held' \cup unseen' \cup {"left", "right", "side"}
      BY ONLY <2>1
    <2>3. QED
      BY ONLY <1>t, <2>1, <2>2, KeysNeutral
  <1>12. ASSUME NEW i \in Inside, MouseMotion(i) PROVE KeysKept'
    <2>0. UNCHANGED <<ctl, keysDown, touch, held, unseen, marked>>
      BY <1>12 DEF MouseMotion
    <2>1. wire' = wire \/ \E m \in Message : m.type # "key" /\ Puts(m)
      BY ONLY <1>t, <1>12, MotionSends, i \in Inside
    <2>2. held \cup unseen \subseteq held' \cup unseen' \cup {"left", "right", "side"}
      BY ONLY <2>0
    <2>3. QED
      BY ONLY <1>t, <2>0, <2>1, <2>2, KeysNeutral
  <1>13. CASE MouseScroll
    <2>0. UNCHANGED <<ctl, keysDown, touch, held, unseen, marked>>
      BY <1>13 DEF MouseScroll
    <2>1. wire' = wire \/ \E m \in Message : m.type # "key" /\ Puts(m)
      BY ONLY <1>t, <1>13, ScrollSends
    <2>2. held \cup unseen \subseteq held' \cup unseen' \cup {"left", "right", "side"}
      BY ONLY <2>0
    <2>3. QED
      BY ONLY <1>t, <2>0, <2>1, <2>2, KeysNeutral
  <1>14. CASE Dispatch
    <2>0. UNCHANGED <<ctl, held, unseen, marked>>
      BY <1>14 DEF Dispatch
    <2>1. \A k \in Codes : KeyDown(k)' => KeyDown(k)
      BY ONLY <1>t, <1>14, DispatchEffect
    <2>2. QED
      BY ONLY <1>t, <1>l, <2>0, <2>1 DEF KeysKept
  <1>15. CASE UNCHANGED <<ctl, wire, keysDown, touch, held, unseen, marked>>
    <2>1. held \cup unseen \subseteq held' \cup unseen' \cup {"left", "right", "side"}
      BY ONLY <1>15
    <2>2. QED
      BY ONLY <1>t, <1>15, <2>1, KeysNeutral
  <1>16. QED
    BY ONLY [Next]_vars, <1>1, <1>2, <1>3, <1>4, <1>5, <1>6, <1>7, <1>8, <1>9, <1>10,
       <1>11, <1>12, <1>13, <1>14, <1>15, Zenon
    DEF Next, Keyboard, Mouse, FirstFrame, Modifier, vars, userVars, uiVars, deviceVars,
        kbdRest, mouseRest

(* Every step keeps the touch in order. *)
LEMMA TouchStep == IInv /\ [Next]_vars => TouchKept'
  <1> SUFFICES ASSUME IInv, [Next]_vars PROVE TouchKept'
    OBVIOUS
  <1> USE DEF userVars, uiVars, deviceVars, kbdRest, mouseRest
  <1>t. TypeOK /\ Channel /\ TouchKept
    BY DEF IInv
  <1>l. "left" \notin Keys
    BY ButtonsAssumption
  <1>w. wire \in Seq(Message) /\ Len(wire) \in Nat
    BY <1>t, TypeParts DEF TypeWire
  <1>1. CASE Connect
    <2>1. wire' = <<>> /\ touch' = FALSE /\ buttons' = {}
      BY <1>1, <1>t DEF Connect, Channel
    <2>2. Len(wire') = 0 /\ DOMAIN wire' = {}
      BY ONLY <2>1
    <2>3. ~TouchAfter(Len(wire))'
      BY ONLY <2>1, <2>2 DEF TouchAfter, Down
    <2>4. QED
      BY ONLY <2>1, <2>2, <2>3 DEF TouchKept
  <1>2. CASE PeerGone
    BY <1>2 DEF PeerGone, TouchKept
  <1>3. ASSUME NEW k \in Keys, KeyPressed(k) PROVE TouchKept'
    <2>0. UNCHANGED <<ctl, injector, keysDown, touch, gesture, buttons>> /\ unseen' = unseen \ {k}
          /\ CanSend(1)
      BY <1>3 DEF KeyPressed
    <2>1. \/ wire' = wire
          \/ \E m \in Message :
               m.type # "motion" /\ ~(m.type = "button" /\ m.what = "left") /\ Puts(m)
      <3>1. Key(k, TRUE) \in Message /\ Key(k, TRUE).type = "key"
        BY <1>3, KeyMessage, CarriedIsMessage DEF Codes
      <3>2. wire' = wire \/ SendsText(1) \/ Send(<<Key(k, TRUE)>>)
        BY <1>3, Zenon DEF KeyPressed
      <3>3. CASE SendsText(1)
        BY ONLY <1>t, <2>0, <3>3, TextSends
      <3>4. CASE Send(<<Key(k, TRUE)>>)
        <4>1. Puts(Key(k, TRUE))
          BY ONLY <1>w, <2>0, <3>1, <3>4, SendPuts
        <4>2. QED
          BY ONLY <3>1, <4>1
      <3>5. QED
        BY ONLY <3>2, <3>3, <3>4
    <2>2. "left" \in unseen => "left" \in unseen'
      BY ONLY <1>l, <2>0, k \in Keys
    <2>3. QED
      BY ONLY <1>t, <2>0, <2>1, <2>2, TouchNeutral
  <1>4. ASSUME NEW k \in Keys, KeyReleased(k) PROVE TouchKept'
    <2>0. UNCHANGED <<ctl, injector, keysDown, touch, gesture, buttons, unseen>> /\ CanSend(1)
      BY <1>4 DEF KeyReleased
    <2>1. \/ wire' = wire
          \/ \E m \in Message :
               m.type # "motion" /\ ~(m.type = "button" /\ m.what = "left") /\ Puts(m)
      <3>1. Key(k, FALSE) \in Message /\ Key(k, FALSE).type = "key"
        BY <1>4, KeyMessage, CarriedIsMessage DEF Codes
      <3>2. wire' = wire \/ Send(<<Key(k, FALSE)>>)
        BY <1>4, Zenon DEF KeyReleased
      <3>3. CASE Send(<<Key(k, FALSE)>>)
        <4>1. Puts(Key(k, FALSE))
          BY ONLY <1>w, <2>0, <3>1, <3>3, SendPuts
        <4>2. QED
          BY ONLY <3>1, <4>1
      <3>4. QED
        BY ONLY <3>2, <3>3
    <2>2. QED
      BY ONLY <1>t, <2>0, <2>1, TouchNeutral
  <1>5. CASE FocusLost
    <2>1. UNCHANGED <<ctl, injector, keysDown, touch, wire, gesture, buttons>>
          /\ unseen' = unseen \cup held
      BY <1>5 DEF FocusLost
    <2>2. "left" \in unseen => "left" \in unseen'
      BY ONLY <2>1
    <2>3. QED
      BY ONLY <1>t, <2>1, <2>2, TouchNeutral
  <1>6. ASSUME NEW n \in TextLens, ApiText(n) PROVE TouchKept'
    <2>0. /\ UNCHANGED <<ctl, injector, keysDown, touch, unseen, gesture, buttons>>
          /\ SendsText(n) /\ CanSend(1)
      BY <1>6 DEF ApiText
    <2>1. n \in Nat
      BY <1>6, MaxTextAssumption
    <2>2. \/ wire' = wire
          \/ \E m \in Message :
               m.type # "motion" /\ ~(m.type = "button" /\ m.what = "left") /\ Puts(m)
      BY ONLY <1>t, <2>0, <2>1, TextSends
    <2>3. QED
      BY ONLY <1>t, <2>0, <2>2, TouchNeutral
  <1>7. ASSUME NEW c \in NavButtons, NavButton(c) PROVE TouchKept'
    <2>0. UNCHANGED <<ctl, injector, keysDown, touch, unseen, gesture, buttons>>
      BY <1>7 DEF NavButton
    <2>1. \/ wire' = wire
          \/ c \in Codes /\ wire' = Append(Append(wire, Key(c, TRUE)), Key(c, FALSE))
      BY ONLY <1>t, <1>7, NavSends, c \in NavButtons
    <2>2. CASE wire' = wire
      BY ONLY <1>t, <2>0, <2>2, TouchNeutral
    <2>3. CASE c \in Codes /\ wire' = Append(Append(wire, Key(c, TRUE)), Key(c, FALSE))
      <3>1. /\ TouchAfter(Len(wire))' <=> TouchAfter(Len(wire))
            /\ \A n \in 0 .. Len(wire) : TouchAfter(n)' <=> TouchAfter(n)
            /\ \A i \in DOMAIN wire' :
                 wire'[i].type = "motion" =>
                   i \in DOMAIN wire /\ wire'[i] = wire[i] /\ i - 1 \in 0 .. Len(wire)
        BY ONLY <1>t, <2>0, <2>3, TwoEffect
      <3>2. QED
        BY ONLY <1>t, <2>0, <3>1, Zenon DEF TouchKept
    <2>4. QED
      BY ONLY <2>1, <2>2, <2>3
  <1>8. ASSUME NEW a \in DeviceActions, DevButton(a) PROVE TouchKept'
    <2>0. UNCHANGED <<ctl, injector, keysDown, touch, unseen, gesture, buttons>>
      BY <1>8 DEF DevButton
    <2>1. \/ wire' = wire
          \/ \E m \in Message :
               m.type # "motion" /\ ~(m.type = "button" /\ m.what = "left") /\ Puts(m)
      BY ONLY <1>t, <1>8, DevSends, a \in DeviceActions
    <2>2. QED
      BY ONLY <1>t, <2>0, <2>1, TouchNeutral
  <1>9. ASSUME NEW b \in MouseButtons, NEW i \in Inside, MousePressed(b, i) PROVE TouchKept'
    <2>0. UNCHANGED <<ctl, injector, keysDown, touch>> /\ gesture = "none" /\ gesture' = b
      BY <1>9 DEF MousePressed
    <2>1. \/ UNCHANGED <<wire, buttons, unseen>>
          \/ /\ buttons' = buttons \cup Bits(b) /\ unseen' = unseen \ {b}
             /\ \E m \in Message : m.type = "button" /\ m.what = b /\ m.down = TRUE /\ Puts(m)
      BY ONLY <1>t, <1>9, PressSends, b \in MouseButtons, i \in Inside
    <2>2. CASE UNCHANGED <<wire, buttons, unseen>>
      BY ONLY <1>t, <2>0, <2>2, TouchNeutral
    <2>3. ASSUME NEW m \in Message, m.type = "button", m.what = b, m.down = TRUE, Puts(m),
                 buttons' = buttons \cup Bits(b), unseen' = unseen \ {b}
          PROVE  TouchKept'
      <3>1. CASE b # "left"
        <4>1. /\ "left" \in buttons' => "left" \in buttons
              /\ "left" \in unseen => "left" \in unseen'
          BY ONLY <2>3, <3>1 DEF Bits
        <4>2. \E l \in Message :
                 l.type # "motion" /\ ~(l.type = "button" /\ l.what = "left") /\ Puts(l)
          BY ONLY <2>3, <3>1
        <4>3. QED
          BY ONLY <1>t, <2>0, <4>1, <4>2, TouchNeutral
      <3>2. CASE b = "left" /\ ctl = "open"
        <4>1. TouchAfter(Len(wire))' /\ \A n \in 0 .. Len(wire) : TouchAfter(n)' <=> TouchAfter(n)
          <5>1. /\ TouchAfter(Len(wire))' <=> m.down
                /\ \A n \in 0 .. Len(wire) : TouchAfter(n)' <=> TouchAfter(n)
            BY ONLY <1>t, <2>0, <2>3, <3>2, PutsEffect
          <5>2. QED
            BY ONLY <5>1, <2>3, Zenon
        <4>2. wire' = Append(wire, m)
          BY ONLY <2>3, <3>2 DEF Puts
        <4>3. \A j \in DOMAIN wire' :
                wire'[j].type = "motion" =>
                  j \in DOMAIN wire /\ wire'[j] = wire[j] /\ j - 1 \in 0 .. Len(wire)
          BY ONLY <1>w, <2>3, <4>2, PutsPlaces
        <4>4. QED
          BY ONLY <1>t, <2>0, <3>2, <4>1, <4>3, Zenon DEF TouchKept
      <3>3. CASE ctl # "open"
        BY ONLY <2>0, <3>3 DEF TouchKept
      <3>4. QED
        BY <3>1, <3>2, <3>3
    <2>4. QED
      BY ONLY <2>1, <2>2, <2>3
  <1>10. ASSUME NEW i \in Inside, MouseReleased(i) PROVE TouchKept'
    <2>0. /\ UNCHANGED <<ctl, injector, keysDown, touch>> /\ gesture # "none" /\ gesture' = "none"
          /\ buttons' = buttons \ Bits(gesture) /\ unseen' = unseen \ {gesture}
      BY <1>10 DEF MouseReleased
    <2>1. PICK m \in Message : m.type = "button" /\ m.what = gesture /\ m.down = FALSE /\ Puts(m)
      BY ONLY <1>t, <1>10, ReleaseSends, i \in Inside
    <2>2. CASE gesture # "left"
      <3>1. /\ "left" \in buttons' => "left" \in buttons
            /\ "left" \in unseen => "left" \in unseen'
        BY ONLY <2>0, <2>2
      <3>2. \E l \in Message :
               l.type # "motion" /\ ~(l.type = "button" /\ l.what = "left") /\ Puts(l)
        BY ONLY <2>1, <2>2
      <3>3. QED
        BY ONLY <1>t, <2>0, <2>2, <3>1, <3>2, TouchNeutral
    <2>3. CASE gesture = "left" /\ ctl = "open"
      <3>1. ~TouchAfter(Len(wire))' /\ \A n \in 0 .. Len(wire) : TouchAfter(n)' <=> TouchAfter(n)
        <4>1. /\ TouchAfter(Len(wire))' <=> m.down
              /\ \A n \in 0 .. Len(wire) : TouchAfter(n)' <=> TouchAfter(n)
          BY ONLY <1>t, <2>0, <2>1, <2>3, PutsEffect
        <4>2. QED
          BY ONLY <4>1, <2>1, Zenon
      <3>2. wire' = Append(wire, m)
        BY ONLY <2>1, <2>3 DEF Puts
      <3>3. \A j \in DOMAIN wire' :
              wire'[j].type = "motion" =>
                j \in DOMAIN wire /\ wire'[j] = wire[j] /\ j - 1 \in 0 .. Len(wire)
        BY ONLY <1>w, <2>1, <3>2, PutsPlaces
      <3>4. "left" \notin buttons'
        BY ONLY <2>0, <2>3 DEF Bits
      <3>5. QED
        BY ONLY <1>t, <2>0, <2>3, <3>1, <3>3, <3>4, Zenon DEF TouchKept
    <2>4. CASE ctl # "open"
      BY ONLY <2>0, <2>4 DEF TouchKept
    <2>5. QED
      BY <2>2, <2>3, <2>4
  <1>11. CASE GestureCancelled
    <2>1. UNCHANGED <<ctl, injector, keysDown, touch, wire, buttons>>
      BY <1>11 DEF GestureCancelled
    <2>2. gesture = "left" \/ "left" \in unseen => "left" \in unseen'
      BY <1>11 DEF GestureCancelled
    <2>3. QED
      BY ONLY <1>t, <2>1, <2>2, TouchNeutral
  <1>12. ASSUME NEW i \in Inside, MouseMotion(i) PROVE TouchKept'
    <2>0. UNCHANGED <<ctl, injector, keysDown, touch, unseen, gesture, buttons>>
      BY <1>12 DEF MouseMotion
    <2> SUFFICES ASSUME ctl = "open" PROVE TouchKept'
      BY <2>0 DEF TouchKept
    <2>1. PICK m \in Message : m.type = "motion" /\ m.down = ("left" \in buttons) /\ Puts(m)
      BY ONLY <1>t, <1>12, MotionSends, i \in Inside
    <2>2. wire' = Append(wire, m)
      BY ONLY <2>1, ctl = "open" DEF Puts
    <2>3. /\ TouchAfter(Len(wire))' <=> TouchAfter(Len(wire))
          /\ \A n \in 0 .. Len(wire) : TouchAfter(n)' <=> TouchAfter(n)
      BY ONLY <1>t, <2>0, <2>1, ctl = "open", PutsEffect
    <2>4. /\ \A j \in DOMAIN wire' :
               \/ wire'[j] = m /\ j - 1 = Len(wire)
               \/ j \in DOMAIN wire /\ wire'[j] = wire[j] /\ j - 1 \in 0 .. Len(wire)
          /\ Len(wire) \in 0 .. Len(wire)
      BY ONLY <1>w, <2>1, <2>2, PutsPlaces
    <2>5. ASSUME injector, NEW j \in DOMAIN wire', wire'[j].type = "motion", wire'[j].down
          PROVE  TouchAfter(j - 1)'
      <3>1. CASE wire'[j] = m /\ j - 1 = Len(wire)
        <4>1. "left" \in buttons
          BY ONLY <2>1, <2>5, <3>1, Zenon
        <4>2. TouchAfter(Len(wire))
          BY ONLY <1>t, <2>5, <4>1, ctl = "open" DEF TouchKept
        <4>3. j - 1 \in 0 .. Len(wire) /\ TouchAfter(j - 1)
          BY ONLY <2>4, <3>1, <4>2
        <4>4. QED
          BY ONLY <2>3, <4>3
      <3>2. CASE j \in DOMAIN wire /\ wire'[j] = wire[j] /\ j - 1 \in 0 .. Len(wire)
        <4>1. TouchAfter(j - 1)
          BY ONLY <1>t, <2>5, <3>2, ctl = "open", Zenon DEF TouchKept
        <4>2. QED
          BY ONLY <2>3, <3>2, <4>1
      <3>3. QED
        BY ONLY <2>4, <3>1, <3>2, j \in DOMAIN wire'
    <2>6. QED
      BY ONLY <1>t, <2>0, <2>3, <2>5, ctl = "open", Zenon DEF TouchKept
  <1>13. CASE MouseScroll
    <2>0. UNCHANGED <<ctl, injector, keysDown, touch, unseen, gesture, buttons>>
      BY <1>13 DEF MouseScroll
    <2>1. \/ wire' = wire
          \/ \E m \in Message :
               m.type # "motion" /\ ~(m.type = "button" /\ m.what = "left") /\ Puts(m)
      BY ONLY <1>t, <1>13, ScrollSends
    <2>2. QED
      BY ONLY <1>t, <2>0, <2>1, TouchNeutral
  <1>14. CASE Dispatch
    <2>0. UNCHANGED <<ctl, injector, unseen, gesture, buttons>> /\ wire # <<>> /\ wire' = Tail(wire)
      BY <1>14 DEF Dispatch
    <2> SUFFICES ASSUME ctl = "open" PROVE TouchKept'
      BY <2>0 DEF TouchKept
    <2>1. /\ TouchAfter(Len(wire))' => TouchAfter(Len(wire))
          /\ injector => \A n \in 0 .. Len(wire) - 1 : TouchAfter(n)' <=> TouchAfter(n + 1)
      BY ONLY <1>t, <1>14, DispatchEffect
    <2>2. /\ Len(wire') = Len(wire) - 1 /\ Len(wire) - 1 \in 0 .. Len(wire) - 1
          /\ (Len(wire) - 1) + 1 = Len(wire)
      BY ONLY <1>w, <2>0
    <2>3. \A j \in DOMAIN wire' :
            /\ j + 1 \in DOMAIN wire /\ wire'[j] = wire[j + 1]
            /\ j - 1 \in 0 .. Len(wire) - 1 /\ (j - 1) + 1 = j /\ (j + 1) - 1 = j
      BY ONLY <1>w, <2>0
    <2>4. ASSUME injector, "left" \in buttons PROVE TouchAfter(Len(wire))'
      <3>1. TouchAfter(Len(wire))
        BY ONLY <1>t, <2>4, ctl = "open" DEF TouchKept
      <3>2. \A n : n = Len(wire) - 1 => TouchAfter(n)'
        BY ONLY <2>1, <2>2, <2>4, <3>1
      <3>3. Down(wire', "button", "left", touch', Len(wire) - 1)
        BY ONLY <3>2 DEF TouchAfter
      <3>4. QED
        BY ONLY <2>2, <3>3 DEF TouchAfter
    <2>5. ASSUME injector, NEW j \in DOMAIN wire', wire'[j].type = "motion", wire'[j].down
          PROVE  TouchAfter(j - 1)'
      <3>0. /\ j + 1 \in DOMAIN wire /\ wire'[j] = wire[j + 1]
            /\ j - 1 \in 0 .. Len(wire) - 1 /\ (j - 1) + 1 = j /\ (j + 1) - 1 = j
        BY ONLY <2>3, j \in DOMAIN wire'
      <3>1. TouchAfter((j + 1) - 1)
        BY ONLY <1>t, <2>5, <3>0, ctl = "open", Zenon DEF TouchKept
      <3>2. TouchAfter((j - 1) + 1)
        BY ONLY <3>0, <3>1
      <3>3. QED
        BY ONLY <2>1, <2>5, <3>0, <3>2
    <2>6. QED
      BY ONLY <1>t, <2>0, <2>1, <2>4, <2>5, ctl = "open", Zenon DEF TouchKept
  <1>15. CASE UNCHANGED <<ctl, injector, wire, keysDown, touch, unseen, gesture, buttons>>
    BY ONLY <1>t, <1>15, TouchNeutral
  <1>16. QED
    BY ONLY [Next]_vars, <1>1, <1>2, <1>3, <1>4, <1>5, <1>6, <1>7, <1>8, <1>9, <1>10,
       <1>11, <1>12, <1>13, <1>14, <1>15, Zenon
    DEF Next, Keyboard, Mouse, FirstFrame, Modifier, vars, userVars, uiVars, deviceVars,
        kbdRest, mouseRest

-----------------------------------------------------------------------------
(* The initial states satisfy the inductive invariant. *)
LEMMA InitInv == Init => IInv
  <1> SUFFICES ASSUME Init PROVE IInv
    OBVIOUS
  <1>1. TypeUser /\ TypeEnds
    BY DEF Init, TypeUser, TypeEnds
  <1>2. TypeFlags
    BY Zenon DEF Init, TypeFlags
  <1>3. TypeWire /\ DOMAIN wire = {}
    BY WireCapAssumption DEF Init, TypeWire
  <1>4. Channel
    BY <1>3 DEF Init, Channel
  <1>5. KeysKept /\ TouchKept
    BY DEF Init, KeysKept, TouchKept
  <1>6. QED
    BY <1>1, <1>2, <1>3, <1>4, <1>5, TypeParts DEF IInv

(* Every step preserves the inductive invariant. *)
LEMMA InvStep == IInv /\ [Next]_vars => IInv'
  BY TypeStep, ChannelStep, KeysStep, TouchStep DEF IInv

(* The inductive invariant holds in every reachable state. *)
LEMMA Invariance == Spec => []IInv
  BY InitInv, InvStep, PTL DEF Spec

(* KeyDown and TouchAfter say what Input's properties say with a maximum. *)
LEMMA WillBeDown ==
  ASSUME TypeOK
  PROVE  /\ \A k \in Codes : KeyWillBeDown(k) => KeyDown(k)
         /\ TouchWillBeDown => TouchAfter(Len(wire))
  <1>1. wire \in Seq(Message) /\ touch \in BOOLEAN
    BY TypeParts DEF TypeWire, TypeFlags
  <1>2. ASSUME NEW k \in Codes, KeyWillBeDown(k) PROVE KeyDown(k)
    <2> DEFINE b == k \in keysDown
    <2>1. b \in BOOLEAN
      OBVIOUS
    <2>2. IF Last("key", k) = 0 THEN b ELSE wire[Last("key", k)].down
      BY <1>2, Zenon DEF KeyWillBeDown
    <2>3. KeyDown(k) <=> Down(wire, "key", k, b, Len(wire))
      BY DEF KeyDown
    <2> HIDE DEF b
    <2>4. QED
      BY ONLY <1>1, <2>1, <2>2, <2>3, NewestCounts
  <1>3. ASSUME TouchWillBeDown PROVE TouchAfter(Len(wire))
    <2>1. Down(wire, "button", "left", touch, Len(wire))
            <=> IF Last("button", "left") = 0 THEN touch ELSE wire[Last("button", "left")].down
      BY ONLY <1>1, NewestCounts
    <2>2. QED
      BY ONLY <1>3, <2>1, Zenon DEF TouchWillBeDown, TouchAfter
  <1>4. QED
    BY <1>2, <1>3

(* Nothing that rc_client_send_text agrees to send, and nothing any other handler sends,  *)
(* ends ControlReceiver's thread: a text is never longer than what dispatch accepts.       *)
THEOREM ControlThreadSurvives == Spec => []ChannelInv
  <1>1. IInv => ChannelInv
    BY DEF IInv, Channel, TypeOK, ChannelInv, ControlSurvives
  <1>2. QED
    BY <1>1, Invariance, PTL

(* Every key that is, or is going, down on the device is marked in keys_down, and a letter  *)
(* or navigation key comes up once the user lets go of it, for any keys and any order of     *)
(* presses, repeats, modifiers and button-bar clicks (on_key_pressed, on_key_released).       *)
THEOREM NoKeySticks == Spec => []KeysHold
  <1>1. ASSUME IInv PROVE KeysHold
    <2>1. TypeOK /\ KeysKept
      BY <1>1 DEF IInv
    <2>2. \A k \in Codes : KeyWillBeDown(k) => KeyDown(k)
      BY <2>1, WillBeDown
    <2>3. Letters \cup Navs \subseteq Codes
      BY DEF Codes, Keys
    <2>4. QED
      BY ONLY <2>1, <2>2, <2>3 DEF KeysKept, KeysHold, KeysAreTracked, KeysComeUp
  <1>2. QED
    BY <1>1, Invariance, PTL

(* A touch comes up with the mouse button, and a MOVE reaches the device only between its   *)
(* DOWN and its UP, wherever the pointer is when they are sent (on_pressed, on_motion,        *)
(* on_released).                                                                             *)
THEOREM TouchIsWellFormed == Spec => []TouchHolds
  <1>1. ASSUME IInv PROVE TouchHolds
    <2>1. TypeOK /\ TouchKept
      BY <1>1 DEF IInv
    <2>2. TouchWillBeDown => TouchAfter(Len(wire))
      BY <2>1, WillBeDown
    <2>3. TouchComesUp
      BY ONLY <2>1, <2>2 DEF TouchKept, TouchComesUp
    <2>4. MovesAreTouches
      <3> SUFFICES ASSUME ctl = "open", injector, wire # <<>>, Head(wire).type = "motion",
                          Head(wire).down
                   PROVE  touch
        BY DEF MovesAreTouches
      <3>1. wire \in Seq(Message)
        BY <2>1, TypeParts DEF TypeWire
      <3>2. 1 \in DOMAIN wire /\ wire[1] = Head(wire)
        BY ONLY <3>1, wire # <<>>
      <3>3. TouchAfter(1 - 1)
        BY <2>1, <3>2, Zenon DEF TouchKept
      <3>4. \A j \in 1 .. 1 - 1 : FALSE
        OBVIOUS
      <3>5. QED
        BY ONLY <3>3, <3>4, Zenon DEF TouchAfter, Down
    <2>5. QED
      BY <2>3, <2>4 DEF TouchHolds
  <1>2. QED
    BY <1>1, Invariance, PTL

=============================================================================
