-------------------------- MODULE AgentSlotsProofs --------------------------
(***************************************************************************)
(* The device table of rc-agent is sound for any number of devices, slots,   *)
(* addresses and stream ports, and for any port bases whose ranges do not     *)
(* overlap: slots are not shared, a public port leads to the device that owns  *)
(* it, what discovery lists can be connected to, and the agent leaves no        *)
(* forward of its own behind.                                                   *)
(***************************************************************************)
EXTENDS AgentSlots, SequenceTheorems, FiniteSetTheorems, TLAPS

(* A slot's ports are those of its index; a slot may have given up streaming. *)
SlotShape ==
  \A i \in 1 .. Len(slots) :
    slots[i].adb = AdbPort(i) /\ slots[i].stream \in {0, StreamPorts(i)}

(* Which forward slot i may install, and which listener was made for it. *)
IsAdbForward(f, i) == f.loc = AdbPort(i) + LocOffset /\ f.dev = TcpipPort
IsStreamForward(f, i) ==
  \E m \in Ks : f.loc = StreamPorts(i) + m + LocOffset /\ f.dev = StreamBase + m
ForwardShape ==
  \A f \in fwds : \E i \in 1 .. Len(slots) :
    f.serial = slots[i].serial /\ (IsAdbForward(f, i) \/ IsStreamForward(f, i))

ListenerShape ==
  \A n \in 1 .. Len(ls) :
    ls[n].kind # "discovery" =>
      /\ ls[n].owner \in 1 .. Len(slots)
      /\ ls[n].kind = "adb" => ls[n].dst = AdbPort(ls[n].owner) + LocOffset
      /\ ls[n].kind = "stream" =>
           ls[n].m \in Ks /\ ls[n].dst = StreamPorts(ls[n].owner) + ls[n].m + LocOffset

(* The adb port of slot i is bound; it is from the moment add_listener succeeds. *)
HasAdbPort(i) ==
  \E n \in 1 .. Len(ls) : /\ ls[n].kind \in {"adb", "direct"}
                          /\ ls[n].owner = i /\ ls[n].port = AdbPort(i)
BoundShape ==
  /\ \A i \in 1 .. Len(slots) : slots[i].ready => HasAdbPort(i)
  /\ pc \in {"bindStream", "ready"} \/ (pc = "bindAdb" /\ made) => HasAdbPort(cur)
  /\ pc = "bindStream" => slots[cur].stream # 0

IInv ==
  /\ TypeOK /\ SlotShape /\ OneSlotPerSerial
  /\ ForwardShape /\ ListenerShape /\ BoundShape

(* Ports are natural numbers. *)
LEMMA PortsNat ==
  ASSUME NEW i \in 1 .. MaxSlots
  PROVE  AdbPort(i) \in Nat /\ StreamPorts(i) \in Nat
<1>1. i - 1 \in Nat
  BY SizesAssumption
<1>2. (i - 1) * StreamCount \in Nat
  BY <1>1, SizesAssumption
<1> QED
  BY <1>1, <1>2, PortsAssumption DEF AdbPort, StreamPorts

(* The constants that port numbers are made of. *)
LEMMA OffsetsNat ==
  /\ AdbBase \in Nat /\ StreamBase \in Nat /\ LocOffset \in Nat /\ TcpipPort \in Nat
  /\ StreamCount \in Nat
<1>1. {AdbBase, StreamBase, LocOffset, TcpipPort, DiscoveryPort} \subseteq Nat
  BY PortsAssumption
<1>2. StreamCount \in Nat
  BY SizesAssumption
<1> QED
  BY <1>1, <1>2

(* Sums of port numbers and offsets are natural numbers. *)
LEMMA SumsNat == \A a, b, c \in Nat : a + b \in Nat /\ a + b + c \in Nat
OBVIOUS

(* The stream ranges of two slots do not overlap, nor do they meet the adb ports. *)
LEMMA PortsDistinct ==
  ASSUME NEW i \in 1 .. MaxSlots, NEW j \in 1 .. MaxSlots, NEW a \in Ks, NEW b \in Ks
  PROVE  /\ StreamPorts(i) + a = StreamPorts(j) + b => i = j /\ a = b
         /\ AdbPort(i) # StreamPorts(j) + b
         /\ AdbPort(i) = AdbPort(j) => i = j
<1> USE SizesAssumption, PortsAssumption DEF Ks
<1> DEFINE S == StreamCount
<1>1. \A x, y \in 0 .. MaxSlots : x < y => x * S + S <= y * S
  <2> SUFFICES ASSUME NEW x \in 0 .. MaxSlots, NEW y \in 0 .. MaxSlots, x < y
               PROVE  x * S + S <= y * S
    OBVIOUS
  <2>1. (x + 1) * S <= y * S
    OBVIOUS
  <2>2. (x + 1) * S = x * S + S
    OBVIOUS
  <2> QED
    BY <2>1, <2>2
<1>2. (i - 1) * S \in Nat /\ (j - 1) * S \in Nat
  OBVIOUS
<1>3. (j - 1) * S + S <= MaxSlots * S
  BY <1>1
<1>4. StreamPorts(i) + a = StreamPorts(j) + b => i = j /\ a = b
  <2>1. CASE i < j
    <3>1. (i - 1) * S + S <= (j - 1) * S
      BY <1>1, <2>1
    <3> QED
      BY <1>2, <2>1, <3>1 DEF StreamPorts
  <2>2. CASE j < i
    <3>1. (j - 1) * S + S <= (i - 1) * S
      BY <1>1, <2>2
    <3> QED
      BY <1>2, <2>2, <3>1 DEF StreamPorts
  <2>3. CASE i = j
    BY <1>2, <2>3 DEF StreamPorts
  <2> QED
    BY <2>1, <2>2, <2>3
<1>5. AdbPort(i) # StreamPorts(j) + b
  BY <1>2, <1>3 DEF AdbPort, StreamPorts
<1>6. AdbPort(i) = AdbPort(j) => i = j
  BY DEF AdbPort
<1> QED
  BY <1>4, <1>5, <1>6

(* IInv implies that connections are routed to the owner of their port. *)
LEMMA InvRoutes == IInv => RoutesToOwner
<1> SUFFICES ASSUME IInv, NEW n \in DOMAIN ls, NEW f \in fwds,
                    ls[n].kind \in {"adb", "stream"}, f.loc = ls[n].dst
             PROVE  /\ f.serial = slots[ls[n].owner].serial
                    /\ f.dev = IF ls[n].kind = "adb" THEN TcpipPort
                                                     ELSE StreamBase + ls[n].m
  BY DEF RoutesToOwner
<1> DEFINE o == ls[n].owner
<1>1. n \in 1 .. Len(ls) /\ Len(slots) \in Nat /\ Len(slots) <= MaxSlots /\ MaxSlots \in Nat
  BY SizesAssumption DEF IInv, TypeOK
<1>2. o \in 1 .. Len(slots) /\ o \in 1 .. MaxSlots
  BY <1>1 DEF IInv, ListenerShape
<1>3. PICK i \in 1 .. Len(slots) :
        f.serial = slots[i].serial /\ (IsAdbForward(f, i) \/ IsStreamForward(f, i))
  BY DEF IInv, ForwardShape
<1>4. i \in 1 .. MaxSlots
  BY <1>1
<1>5. /\ LocOffset \in Nat /\ AdbPort(i) \in Nat /\ AdbPort(o) \in Nat
      /\ StreamPorts(i) \in Nat /\ StreamPorts(o) \in Nat
  BY <1>2, <1>4, PortsNat, PortsAssumption
<1>6. Ks \subseteq Int
  BY SizesAssumption DEF Ks
<1> HIDE DEF o
<1>7. CASE ls[n].kind = "adb"
  <2>1. f.loc = AdbPort(o) + LocOffset
    BY <1>1, <1>7 DEF IInv, ListenerShape, o
  <2>2. ~IsStreamForward(f, i)
    <3> SUFFICES ASSUME NEW m \in Ks, f.loc = StreamPorts(i) + m + LocOffset
                 PROVE  FALSE
      BY DEF IsStreamForward
    <3>1. AdbPort(o) = StreamPorts(i) + m
      BY <1>5, <1>6, <2>1
    <3> QED
      BY <1>2, <1>4, <3>1, PortsDistinct
  <2>3. i = o
    <3>1. AdbPort(i) = AdbPort(o)
      BY <1>3, <1>5, <2>1, <2>2 DEF IsAdbForward
    <3>2. 0 \in Ks
      BY SizesAssumption DEF Ks
    <3> QED
      BY <1>2, <1>4, <3>1, <3>2, PortsDistinct
  <2> QED
    BY <1>3, <1>7, <2>2, <2>3 DEF IsAdbForward, o
<1>8. CASE ls[n].kind = "stream"
  <2>1. PICK q \in Ks : q = ls[n].m /\ f.loc = StreamPorts(o) + q + LocOffset
    BY <1>1, <1>8 DEF IInv, ListenerShape, o
  <2>2. q \in Int
    BY <1>6
  <2>3. ~IsAdbForward(f, i)
    <3> SUFFICES ASSUME f.loc = AdbPort(i) + LocOffset PROVE FALSE
      BY DEF IsAdbForward
    <3>1. AdbPort(i) = StreamPorts(o) + q
      BY <1>5, <2>1, <2>2
    <3> QED
      BY <1>2, <1>4, <3>1, PortsDistinct
  <2>4. PICK m \in Ks : f.loc = StreamPorts(i) + m + LocOffset /\ f.dev = StreamBase + m
    BY <1>3, <2>3 DEF IsStreamForward
  <2>5. m \in Int
    BY <1>6
  <2>6. StreamPorts(i) + m = StreamPorts(o) + q
    <3>1. StreamPorts(i) + m + LocOffset = StreamPorts(o) + q + LocOffset
      BY <2>1, <2>4
    <3> QED
      BY <1>5, <2>2, <2>5, <3>1
  <2>7. i = o /\ m = q
    BY <1>2, <1>4, <2>6, PortsDistinct
  <2> QED
    BY <1>3, <1>8, <2>1, <2>4, <2>7 DEF o
<1> QED
  BY <1>7, <1>8

(* IInv implies that a listed device has its adb port bound. *)
LEMMA InvBound == IInv => ListedIsBound
BY DEF IInv, TypeOK, BoundShape, SlotShape, HasAdbPort, ListedIsBound, Listed

(* How a step may change the tables.  Phase B2 adds a slot for a serial that has none; *)
(* an old slot keeps its owner, its adb port and its readiness.                        *)
Grown ==
  \E d \in Serials :
    /\ ~HasSlot(d) /\ Len(slots) < MaxSlots
    /\ slots' = Append(slots, NewSlot(d, Len(slots) + 1))
SlotsKeep ==
  /\ Len(slots') = Len(slots) \/ (Grown /\ Len(slots') = Len(slots) + 1)
  /\ \A i \in 1 .. Len(slots) :
       /\ slots'[i].serial = slots[i].serial /\ slots'[i].adb = slots[i].adb
       /\ slots'[i].stream \in {slots[i].stream, 0}
       /\ slots[i].ready => slots'[i].ready
       /\ slots'[i].ready => slots[i].ready \/ (pc = "ready" /\ i = cur)

(* A listener is added for the slot in hand. *)
IsNewListener(e) ==
  /\ e \in Listener /\ e.owner = cur
  /\ \/ /\ pc = "bindAdb" /\ e.kind \in {"adb", "direct"} /\ e.port = slots[cur].adb
        /\ e.kind = "adb" => e.dst = slots[cur].adb + LocOffset
     \/ /\ e.kind = "stream" /\ k \in Ks /\ e.m = k /\ slots[cur].stream # 0
        /\ e.dst = slots[cur].stream + k + LocOffset
Added ==
  /\ slots' = slots /\ cur \in 1 .. Len(slots)
  /\ \E e : IsNewListener(e) /\ ls' = Append(ls, e)
ListenersKeep ==
  /\ Len(ls') = Len(ls) \/ (Added /\ Len(ls') = Len(ls) + 1)
  /\ \A n \in 1 .. Len(ls) : ls'[n] = ls[n]

(* A forward is added for the slot in hand. *)
IsNewForward(f) ==
  /\ cur \in 1 .. Len(slots) /\ f.serial = slots[cur].serial
  /\ \/ f.loc = slots[cur].adb + LocOffset /\ f.dev = TcpipPort
     \/ /\ k \in Ks /\ slots[cur].stream # 0
        /\ f.loc = slots[cur].stream + k + LocOffset /\ f.dev = StreamBase + k
ForwardsKeep == \A f \in fwds' : f \in fwds \/ IsNewForward(f)

(* The parts of TypeOK. *)
SlotsOK == slots \in Seq(Slot) /\ Len(slots) <= MaxSlots
ListenersOK == ls \in Seq(Listener) /\ Len(ls) <= MaxListeners
ForwardsOK ==
  /\ fwds \subseteq Forward /\ refused \subseteq Forward
  /\ recorded \subseteq Serials \X Nat /\ lost \subseteq Serials \X Nat
ControlOK ==
  /\ plugged \subseteq Serials /\ devs \subseteq Serials
  /\ changes \in 0 .. MaxChanges
  /\ pc \in PCs /\ main \in {"accept", "exited"}
  /\ cur \in Nat /\ k \in 0 .. StreamCount /\ ips \subseteq Ips
  /\ pc \in {"forward", "tcpip", "stream", "bindAdb", "bindStream", "ready"} =>
       cur \in 1 .. Len(slots)
FlagsOK == made \in BOOLEAN /\ stop \in BOOLEAN

(* Every step keeps the slots. *)
LEMMA SlotsStep == IInv /\ [Next]_vars => SlotsOK' /\ SlotsKeep
<1> SUFFICES ASSUME IInv, [Next]_vars PROVE SlotsOK' /\ SlotsKeep
  OBVIOUS
<1> USE DEF IInv, TypeOK, SlotsOK
<1>1. CASE \E d \in Serials : Plug(d)
  BY <1>1 DEF Plug, envOnly, SlotsKeep
<1>2. CASE \E d \in Serials : Unplug(d)
  BY <1>2 DEF Unplug, envOnly, SlotsKeep
<1>3. CASE Signal
  BY <1>3 DEF Signal, agentVars, SlotsKeep
<1>4. CASE Scan
  BY <1>4 DEF Scan, world, SlotsKeep
<1>5. CASE RescanEnds
  BY <1>5 DEF RescanEnds, world, SlotsKeep
<1>6. CASE Mark
  <2>1. \A i \in 1 .. Len(slots) : slots[i] \in Slot
    BY ElementOfSeq
  <2>2. DOMAIN slots = 1 .. Len(slots) /\ Len(slots) \in Nat
    BY LenProperties
  <2> DEFINE new(i, x, y) == [slots[i] EXCEPT !.back = x, !.present = y]
             back(i) == slots[i].back \/ (slots[i].serial \in devs /\ ~slots[i].present
                                          /\ slots[i].ready)
             seen(i) == slots[i].serial \in devs
  <2>a. \A i \in 1 .. Len(slots), x, y \in BOOLEAN : new(i, x, y) \in Slot
    BY <2>1 DEF Slot
  <2>b. \A i \in 1 .. Len(slots) : back(i) \in BOOLEAN /\ seen(i) \in BOOLEAN
    BY SMT
  <2>c. slots' = [i \in 1 .. Len(slots) |-> new(i, back(i), seen(i))]
    BY <1>6, <2>2, Zenon DEF Mark
  <2>3. slots' \in [1 .. Len(slots) -> Slot]
    <3> HIDE DEF new, back, seen
    <3> QED
      BY <2>a, <2>b, <2>c
  <2>4. slots' \in Seq(Slot) /\ Len(slots') = Len(slots)
    BY <2>2, <2>3, SeqDef
  <2>5. \A i \in 1 .. Len(slots) :
          /\ slots'[i].serial = slots[i].serial /\ slots'[i].adb = slots[i].adb
          /\ slots'[i].stream = slots[i].stream /\ slots'[i].ready = slots[i].ready
    BY <1>6, <2>1, <2>2 DEF Mark, Slot
  <2> QED
    BY <2>4, <2>5 DEF SlotsKeep
<1>7. CASE PickRefresh
  <2>1. CASE slots' = slots
    BY <2>1 DEF SlotsKeep
  <2>2. CASE slots' # slots
    <3>1. PICK i \in DOMAIN slots : slots' = [slots EXCEPT ![i].back = FALSE]
      BY <1>7, <2>2 DEF PickRefresh
    <3>2. i \in 1 .. Len(slots) /\ slots[i] \in Slot
      BY <3>1, LenProperties, ElementOfSeq
    <3>3. PICK e \in Slot : e = [slots[i] EXCEPT !.back = FALSE]
      BY <3>2 DEF Slot
    <3>4. slots' = [slots EXCEPT ![i] = e]
      BY <3>1, <3>2, <3>3
    <3>5. /\ slots' \in Seq(Slot) /\ Len(slots') = Len(slots)
          /\ \A j \in 1 .. Len(slots) : slots'[j] = IF j = i THEN e ELSE slots[j]
      BY <3>2, <3>4, ExceptSeq
    <3> QED
      BY <3>2, <3>3, <3>5 DEF SlotsKeep, Slot
  <2> QED
    BY <2>1, <2>2
<1>8. CASE Alloc
  <2>1. PICK d \in devs : d \in Serials /\ (slots' = slots \/
          (~HasSlot(d) /\ slots' = Append(slots, NewSlot(d, Len(slots) + 1)) /\ Len(slots) < MaxSlots))
    BY <1>8, SizesAssumption DEF Alloc
  <2>2. CASE slots' = slots
    BY <2>2 DEF SlotsKeep
  <2>3. CASE ~HasSlot(d) /\ slots' = Append(slots, NewSlot(d, Len(slots) + 1))
             /\ Len(slots) < MaxSlots
    <3>1. Len(slots) + 1 \in 1 .. MaxSlots
      BY <2>3, LenProperties, SizesAssumption
    <3>2. NewSlot(d, Len(slots) + 1) \in Slot
      BY <2>1, <3>1, PortsNat DEF NewSlot, Slot
    <3>3. /\ slots' \in Seq(Slot) /\ Len(slots') = Len(slots) + 1
          /\ \A i \in 1 .. Len(slots) : slots'[i] = slots[i]
      BY <2>3, <3>2, AppendProperties
    <3>4. Grown
      BY <2>1, <2>3 DEF Grown
    <3> QED
      BY <3>1, <3>3, <3>4 DEF SlotsKeep
  <2> QED
    BY <2>1, <2>2, <2>3
<1>9. CASE ScanDone
  BY <1>9 DEF ScanDone, world, SlotsKeep
<1>10. CASE RelayDirectly
  BY <1>10 DEF RelayDirectly, setupOnly, world, AfterSetup, SlotsKeep
<1>11. CASE ForwardAdb
  BY <1>11 DEF ForwardAdb, setupOnly, world, AdbForward, SlotsKeep
<1>12. CASE ForwardAdbFails
  BY <1>12 DEF ForwardAdbFails, setupOnly, world, AdbForward, SlotsKeep
<1>13. CASE Tcpip
  BY <1>13 DEF Tcpip, setupOnly, world, AdbForward, AfterSetup, SlotsKeep
<1>14. CASE ForwardStream
  BY <1>14 DEF ForwardStream, setupOnly, world, AdbForward, SlotsKeep
<1>15. CASE ForwardStreamFails
  <2>1. cur \in 1 .. Len(slots) /\ slots[cur] \in Slot
    BY <1>15, ElementOfSeq DEF ForwardStreamFails
  <2>2. PICK e \in Slot : e = [slots[cur] EXCEPT !.stream = 0]
    BY <2>1 DEF Slot
  <2>3. slots' = [slots EXCEPT ![cur] = e]
    BY <1>15, <2>1, <2>2 DEF ForwardStreamFails
  <2>4. /\ slots' \in Seq(Slot) /\ Len(slots') = Len(slots)
        /\ \A j \in 1 .. Len(slots) : slots'[j] = IF j = cur THEN e ELSE slots[j]
    BY <2>1, <2>3, ExceptSeq
  <2>5. \A i \in 1 .. Len(slots) :
          /\ slots'[i].serial = slots[i].serial /\ slots'[i].adb = slots[i].adb
          /\ slots'[i].stream \in {slots[i].stream, 0}
          /\ slots[i].ready => slots'[i].ready
          /\ slots'[i].ready => slots[i].ready \/ (pc = "ready" /\ i = cur)
    BY <1>15, <2>1, <2>2, <2>4 DEF Slot, ForwardStreamFails
  <2> QED
    BY <2>4, <2>5 DEF SlotsKeep
<1>16. CASE Forwarded
  BY <1>16 DEF Forwarded, world, SlotsKeep
<1>17. CASE BindAdb
  BY <1>17 DEF BindAdb, world, AddListener, SlotsKeep
<1>18. CASE AdbBound
  BY <1>18 DEF AdbBound, world, SlotsKeep
<1>19. CASE BindStream
  BY <1>19 DEF BindStream, world, AddListener, SlotsKeep
<1>20. CASE StreamBound
  BY <1>20 DEF StreamBound, world, SlotsKeep
<1>21. CASE Ready
  <2>1. cur \in 1 .. Len(slots) /\ slots[cur] \in Slot
    BY <1>21, ElementOfSeq DEF Ready
  <2>2. PICK e \in Slot : e = [slots[cur] EXCEPT !.ready = TRUE]
    BY <2>1 DEF Slot
  <2>3. slots' = [slots EXCEPT ![cur] = e]
    BY <1>21, <2>1, <2>2 DEF Ready
  <2>4. /\ slots' \in Seq(Slot) /\ Len(slots') = Len(slots)
        /\ \A j \in 1 .. Len(slots) : slots'[j] = IF j = cur THEN e ELSE slots[j]
    BY <2>1, <2>3, ExceptSeq
  <2>5. \A i \in 1 .. Len(slots) :
          /\ slots'[i].serial = slots[i].serial /\ slots'[i].adb = slots[i].adb
          /\ slots'[i].stream \in {slots[i].stream, 0}
          /\ slots[i].ready => slots'[i].ready
          /\ slots'[i].ready => slots[i].ready \/ (pc = "ready" /\ i = cur)
    BY <1>21, <2>1, <2>2, <2>4 DEF Slot, Ready
  <2> QED
    BY <2>4, <2>5 DEF SlotsKeep
<1>22. CASE Cleanup
  BY <1>22 DEF Cleanup, SlotsKeep
<1>23. CASE Exited \/ UNCHANGED vars
  BY <1>23 DEF Exited, vars, agentVars, SlotsKeep
<1> QED
  BY <1>1, <1>2, <1>3, <1>4, <1>5, <1>6, <1>7, <1>8, <1>9, <1>10, <1>11, <1>12, <1>13,
     <1>14, <1>15, <1>16, <1>17, <1>18, <1>19, <1>20, <1>21, <1>22, <1>23 DEF Next,
     RescanNext

(* Every step keeps the listeners. *)
LEMMA ListenersStep == IInv /\ [Next]_vars => ListenersOK' /\ ListenersKeep
<1> SUFFICES ASSUME IInv, [Next]_vars PROVE ListenersOK' /\ ListenersKeep
  OBVIOUS
<1> USE DEF IInv, TypeOK, ListenersOK
<1>1. CASE \E d \in Serials : Plug(d)
  BY <1>1 DEF Plug, envOnly, ListenersKeep
<1>2. CASE \E d \in Serials : Unplug(d)
  BY <1>2 DEF Unplug, envOnly, ListenersKeep
<1>3. CASE Signal
  BY <1>3 DEF Signal, agentVars, ListenersKeep
<1>4. CASE Scan
  BY <1>4 DEF Scan, world, ListenersKeep
<1>5. CASE RescanEnds
  BY <1>5 DEF RescanEnds, world, ListenersKeep
<1>6. CASE Mark
  BY <1>6 DEF Mark, world, ListenersKeep
<1>7. CASE PickRefresh
  BY <1>7 DEF PickRefresh, world, ListenersKeep
<1>8. CASE Alloc
  BY <1>8 DEF Alloc, world, ListenersKeep
<1>9. CASE ScanDone
  BY <1>9 DEF ScanDone, world, ListenersKeep
<1>10. CASE RelayDirectly
  BY <1>10 DEF RelayDirectly, setupOnly, world, AfterSetup, ListenersKeep
<1>11. CASE ForwardAdb
  BY <1>11 DEF ForwardAdb, setupOnly, world, AdbForward, ListenersKeep
<1>12. CASE ForwardAdbFails
  BY <1>12 DEF ForwardAdbFails, setupOnly, world, AdbForward, ListenersKeep
<1>13. CASE Tcpip
  BY <1>13 DEF Tcpip, setupOnly, world, AdbForward, AfterSetup, ListenersKeep
<1>14. CASE ForwardStream
  BY <1>14 DEF ForwardStream, setupOnly, world, AdbForward, ListenersKeep
<1>15. CASE ForwardStreamFails
  BY <1>15 DEF ForwardStreamFails, world, ListenersKeep
<1>16. CASE Forwarded
  BY <1>16 DEF Forwarded, world, ListenersKeep
<1>17. CASE BindAdb
  <2>1. CASE ls' = ls
    BY <2>1 DEF ListenersKeep
  <2>2. CASE ls' # ls
    <3>1. cur \in 1 .. Len(slots) /\ slots[cur] \in Slot
      BY <1>17, ElementOfSeq DEF BindAdb
    <3>p. /\ slots[cur].adb \in Nat /\ slots[cur].stream \in Nat /\ LocOffset \in Nat
          /\ k \in Nat /\ cur \in Nat
      BY <3>1, OffsetsNat DEF Slot
    <3>q. \A x, y, z \in Nat : x + y \in Nat /\ x + y + z \in Nat
      OBVIOUS
    <3>s. (k < StreamCount => k \in Ks) /\ (pc = "bindStream" => slots[cur].stream # 0)
      BY <3>p, SizesAssumption DEF Ks, BoundShape
    <3>r. \A kind \in {"adb", "direct", "stream"}, port, dst, m \in Nat :
            [kind |-> kind, port |-> port, dst |-> dst, owner |-> cur, m |-> m] \in Listener
      BY <3>p DEF Listener
    <3>2. PICK e \in Listener :
            IsNewListener(e) /\ slots' = slots /\ ls' = Append(ls, e) /\ Len(ls) < MaxListeners
      BY <1>17, <2>2, <3>p, <3>q, <3>r, <3>s DEF BindAdb, AddListener, IsNewListener
    <3>3. /\ ls' \in Seq(Listener) /\ Len(ls') = Len(ls) + 1 /\ Len(ls) \in Nat
          /\ \A i \in 1 .. Len(ls) : ls'[i] = ls[i]
      BY <3>2, AppendProperties, LenProperties
    <3>4. Added
      BY <3>1, <3>2 DEF Added
    <3> QED
      BY <3>2, <3>3, <3>4, SizesAssumption DEF ListenersKeep
  <2> QED
    BY <2>1, <2>2
<1>18. CASE AdbBound
  BY <1>18 DEF AdbBound, world, ListenersKeep
<1>19. CASE BindStream
  <2>1. CASE ls' = ls
    BY <2>1 DEF ListenersKeep
  <2>2. CASE ls' # ls
    <3>1. cur \in 1 .. Len(slots) /\ slots[cur] \in Slot
      BY <1>19, ElementOfSeq DEF BindStream
    <3>p. /\ slots[cur].adb \in Nat /\ slots[cur].stream \in Nat /\ LocOffset \in Nat
          /\ k \in Nat /\ cur \in Nat
      BY <3>1, OffsetsNat DEF Slot
    <3>q. \A x, y, z \in Nat : x + y \in Nat /\ x + y + z \in Nat
      OBVIOUS
    <3>s. (k < StreamCount => k \in Ks) /\ (pc = "bindStream" => slots[cur].stream # 0)
      BY <3>p, SizesAssumption DEF Ks, BoundShape
    <3>r. \A kind \in {"adb", "direct", "stream"}, port, dst, m \in Nat :
            [kind |-> kind, port |-> port, dst |-> dst, owner |-> cur, m |-> m] \in Listener
      BY <3>p DEF Listener
    <3>2. PICK e \in Listener :
            IsNewListener(e) /\ slots' = slots /\ ls' = Append(ls, e) /\ Len(ls) < MaxListeners
      BY <1>19, <2>2, <3>p, <3>q, <3>r, <3>s DEF BindStream, AddListener, IsNewListener
    <3>3. /\ ls' \in Seq(Listener) /\ Len(ls') = Len(ls) + 1 /\ Len(ls) \in Nat
          /\ \A i \in 1 .. Len(ls) : ls'[i] = ls[i]
      BY <3>2, AppendProperties, LenProperties
    <3>4. Added
      BY <3>1, <3>2 DEF Added
    <3> QED
      BY <3>2, <3>3, <3>4, SizesAssumption DEF ListenersKeep
  <2> QED
    BY <2>1, <2>2
<1>20. CASE StreamBound
  BY <1>20 DEF StreamBound, world, ListenersKeep
<1>21. CASE Ready
  BY <1>21 DEF Ready, world, ListenersKeep
<1>22. CASE Cleanup
  BY <1>22 DEF Cleanup, ListenersKeep
<1>23. CASE Exited \/ UNCHANGED vars
  BY <1>23 DEF Exited, vars, agentVars, ListenersKeep
<1> QED
  BY <1>1, <1>2, <1>3, <1>4, <1>5, <1>6, <1>7, <1>8, <1>9, <1>10, <1>11, <1>12, <1>13,
     <1>14, <1>15, <1>16, <1>17, <1>18, <1>19, <1>20, <1>21, <1>22, <1>23 DEF Next,
     RescanNext

(* What adb_forward, killed or not, does to adb's table and to the record of it. *)
LEMMA AdbForwardAdds ==
  ASSUME ForwardsOK, slots[cur].serial \in Serials, NEW table \in SUBSET fwds,
         NEW loc \in Nat, NEW dev \in Nat, refused' = refused,
         AdbForward(table, loc, dev) \/ AdbForwardKilled(table, loc, dev)
  PROVE  /\ ForwardsOK'
         /\ \A f \in fwds' :
              f \in fwds \/ (f.serial = slots[cur].serial /\ f.loc = loc /\ f.dev = dev)
<1>1. [serial |-> slots[cur].serial, loc |-> loc, dev |-> dev] \in Forward
  BY DEF Forward
<1>2. <<slots[cur].serial, loc>> \in Serials \X Nat
  OBVIOUS
<1>3. recorded' \subseteq Serials \X Nat /\ lost' \subseteq Serials \X Nat
  BY <1>2 DEF AdbForward, AdbForwardKilled, ForwardsOK
<1> QED
  BY <1>1, <1>3 DEF AdbForward, AdbForwardKilled, AdbInstalls, ForwardsOK

(* Every step keeps the types of the forwards. *)
LEMMA ForwardsStep == IInv /\ [Next]_vars => ForwardsOK' /\ ForwardsKeep
<1> SUFFICES ASSUME IInv, [Next]_vars PROVE ForwardsOK' /\ ForwardsKeep
  OBVIOUS
<1> USE DEF IInv, TypeOK, ForwardsOK
<1>1. CASE \E d \in Serials : Plug(d)
  BY <1>1 DEF Plug, envOnly, ForwardsKeep
<1>2. CASE \E d \in Serials : Unplug(d)
  BY <1>2 DEF Unplug, envOnly, ForwardsKeep
<1>3. CASE Signal
  BY <1>3 DEF Signal, agentVars, ForwardsKeep
<1>4. CASE Scan
  BY <1>4 DEF Scan, world, ForwardsKeep
<1>5. CASE RescanEnds
  BY <1>5 DEF RescanEnds, world, ForwardsKeep
<1>6. CASE Mark
  BY <1>6 DEF Mark, world, ForwardsKeep
<1>7. CASE PickRefresh
  BY <1>7 DEF PickRefresh, world, ForwardsKeep
<1>8. CASE Alloc
  BY <1>8 DEF Alloc, world, ForwardsKeep
<1>9. CASE ScanDone
  BY <1>9 DEF ScanDone, world, ForwardsKeep
<1>10. CASE RelayDirectly
  BY <1>10 DEF RelayDirectly, setupOnly, world, AfterSetup, ForwardsKeep
<1>11. CASE ForwardAdb
  <2>1. cur \in 1 .. Len(slots) /\ slots[cur] \in Slot /\ slots' = slots /\ refused' = refused
    BY <1>11, ElementOfSeq DEF ForwardAdb, setupOnly, world
  <2>2. /\ slots[cur].serial \in Serials /\ slots[cur].adb \in Nat /\ slots[cur].stream \in Nat
        /\ LocOffset \in Nat /\ TcpipPort \in Nat /\ StreamBase \in Nat /\ k \in Nat
    BY <2>1, OffsetsNat DEF Slot
  <2> DEFINE loc == slots[cur].adb + LocOffset
             dev == TcpipPort
  <2>3. loc \in Nat /\ dev \in Nat
    BY <2>2, SumsNat
  <2>5. \A f : f.serial = slots[cur].serial /\ f.loc = loc /\ f.dev = dev => IsNewForward(f)
    BY <2>1 DEF IsNewForward
  <2> HIDE DEF loc, dev
  <2>6. ASSUME NEW table \in SUBSET fwds,
               AdbForward(table, loc, dev) \/ AdbForwardKilled(table, loc, dev)
        PROVE  ForwardsOK' /\ ForwardsKeep
    <3>1. ForwardsOK
      OBVIOUS
    <3>2. /\ ForwardsOK'
          /\ \A f \in fwds' :
               f \in fwds \/ (f.serial = slots[cur].serial /\ f.loc = loc /\ f.dev = dev)
      BY <2>1, <2>2, <2>3, <2>6, <3>1, AdbForwardAdds
    <3> QED
      BY <2>5, <3>2 DEF ForwardsKeep
  <2>7. AdbForward(fwds, loc, dev)
    BY <1>11 DEF ForwardAdb, loc, dev
  <2> QED
    BY <2>6, <2>7
<1>12. CASE ForwardAdbFails
  <2>1. cur \in 1 .. Len(slots) /\ slots[cur] \in Slot /\ slots' = slots /\ refused' = refused
    BY <1>12, ElementOfSeq DEF ForwardAdbFails, setupOnly, world
  <2>2. /\ slots[cur].serial \in Serials /\ slots[cur].adb \in Nat /\ slots[cur].stream \in Nat
        /\ LocOffset \in Nat /\ TcpipPort \in Nat /\ StreamBase \in Nat /\ k \in Nat
    BY <2>1, OffsetsNat DEF Slot
  <2> DEFINE loc == slots[cur].adb + LocOffset
             dev == TcpipPort
  <2>3. loc \in Nat /\ dev \in Nat
    BY <2>2, SumsNat
  <2>5. \A f : f.serial = slots[cur].serial /\ f.loc = loc /\ f.dev = dev => IsNewForward(f)
    BY <2>1 DEF IsNewForward
  <2> HIDE DEF loc, dev
  <2>6. ASSUME NEW table \in SUBSET fwds,
               AdbForward(table, loc, dev) \/ AdbForwardKilled(table, loc, dev)
        PROVE  ForwardsOK' /\ ForwardsKeep
    <3>1. ForwardsOK
      OBVIOUS
    <3>2. /\ ForwardsOK'
          /\ \A f \in fwds' :
               f \in fwds \/ (f.serial = slots[cur].serial /\ f.loc = loc /\ f.dev = dev)
      BY <2>1, <2>2, <2>3, <2>6, <3>1, AdbForwardAdds
    <3> QED
      BY <2>5, <3>2 DEF ForwardsKeep
  <2>7. \/ AdbForward(fwds, loc, dev) \/ AdbForwardKilled(fwds, loc, dev)
        \/ fwds' = fwds /\ recorded' = recorded /\ lost' = lost
    BY <1>12 DEF ForwardAdbFails, loc, dev
  <2>8. CASE fwds' = fwds /\ recorded' = recorded /\ lost' = lost
    BY <2>1, <2>8 DEF ForwardsKeep
  <2> QED
    BY <2>6, <2>7, <2>8
<1>13. CASE Tcpip
  <2>1. cur \in 1 .. Len(slots) /\ slots[cur] \in Slot /\ slots' = slots /\ refused' = refused
    BY <1>13, ElementOfSeq DEF Tcpip, setupOnly, world
  <2>2. /\ slots[cur].serial \in Serials /\ slots[cur].adb \in Nat /\ slots[cur].stream \in Nat
        /\ LocOffset \in Nat /\ TcpipPort \in Nat /\ StreamBase \in Nat /\ k \in Nat
    BY <2>1, OffsetsNat DEF Slot
  <2> DEFINE loc == slots[cur].adb + LocOffset
             dev == TcpipPort
  <2>3. loc \in Nat /\ dev \in Nat
    BY <2>2, SumsNat
  <2>5. \A f : f.serial = slots[cur].serial /\ f.loc = loc /\ f.dev = dev => IsNewForward(f)
    BY <2>1 DEF IsNewForward
  <2> HIDE DEF loc, dev
  <2>6. ASSUME NEW table \in SUBSET fwds,
               AdbForward(table, loc, dev) \/ AdbForwardKilled(table, loc, dev)
        PROVE  ForwardsOK' /\ ForwardsKeep
    <3>1. ForwardsOK
      OBVIOUS
    <3>2. /\ ForwardsOK'
          /\ \A f \in fwds' :
               f \in fwds \/ (f.serial = slots[cur].serial /\ f.loc = loc /\ f.dev = dev)
      BY <2>1, <2>2, <2>3, <2>6, <3>1, AdbForwardAdds
    <3> QED
      BY <2>5, <3>2 DEF ForwardsKeep
  <2>7. \E table \in SUBSET fwds :
          \/ AdbForward(table, loc, dev) \/ AdbForwardKilled(table, loc, dev)
          \/ fwds' = table /\ recorded' = recorded /\ lost' = lost
    <3> DEFINE rest == {f \in fwds : f.serial # slots[cur].serial}
    <3>1. PICK table \in {fwds, rest} :
            \/ AdbForward(table, loc, dev) \/ AdbForwardKilled(table, loc, dev)
            \/ fwds' = table /\ recorded' = recorded /\ lost' = lost
      BY <1>13 DEF Tcpip, loc, dev
    <3>2. table \in SUBSET fwds
      OBVIOUS
    <3> QED
      BY <3>1, <3>2
  <2>8. ASSUME NEW table \in SUBSET fwds,
               fwds' = table, recorded' = recorded, lost' = lost
        PROVE  ForwardsOK' /\ ForwardsKeep
    BY <2>1, <2>8 DEF ForwardsKeep
  <2> QED
    BY <2>6, <2>7, <2>8
<1>14. CASE ForwardStream
  <2>1. cur \in 1 .. Len(slots) /\ slots[cur] \in Slot /\ slots' = slots /\ refused' = refused
    BY <1>14, ElementOfSeq DEF ForwardStream, setupOnly, world
  <2>2. /\ slots[cur].serial \in Serials /\ slots[cur].adb \in Nat /\ slots[cur].stream \in Nat
        /\ LocOffset \in Nat /\ TcpipPort \in Nat /\ StreamBase \in Nat /\ k \in Nat
    BY <2>1, OffsetsNat DEF Slot
  <2> DEFINE loc == slots[cur].stream + k + LocOffset
             dev == StreamBase + k
  <2>3. loc \in Nat /\ dev \in Nat
    BY <2>2, SumsNat
  <2>4. k \in Ks /\ slots[cur].stream # 0
    BY <1>14, <2>2, SizesAssumption DEF ForwardStream, Ks
  <2>5. \A f : f.serial = slots[cur].serial /\ f.loc = loc /\ f.dev = dev => IsNewForward(f)
    BY <2>1, <2>4 DEF IsNewForward
  <2> HIDE DEF loc, dev
  <2>6. ASSUME NEW table \in SUBSET fwds,
               AdbForward(table, loc, dev) \/ AdbForwardKilled(table, loc, dev)
        PROVE  ForwardsOK' /\ ForwardsKeep
    <3>1. ForwardsOK
      OBVIOUS
    <3>2. /\ ForwardsOK'
          /\ \A f \in fwds' :
               f \in fwds \/ (f.serial = slots[cur].serial /\ f.loc = loc /\ f.dev = dev)
      BY <2>1, <2>2, <2>3, <2>6, <3>1, AdbForwardAdds
    <3> QED
      BY <2>5, <3>2 DEF ForwardsKeep
  <2>7. AdbForward(fwds, loc, dev)
    BY <1>14 DEF ForwardStream, loc, dev
  <2> QED
    BY <2>6, <2>7
<1>15. CASE ForwardStreamFails
  <2>1. cur \in 1 .. Len(slots) /\ slots[cur] \in Slot /\ refused' = refused
    BY <1>15, ElementOfSeq DEF ForwardStreamFails, world
  <2>2. /\ slots[cur].serial \in Serials /\ slots[cur].adb \in Nat /\ slots[cur].stream \in Nat
        /\ LocOffset \in Nat /\ TcpipPort \in Nat /\ StreamBase \in Nat /\ k \in Nat
    BY <2>1, OffsetsNat DEF Slot
  <2> DEFINE loc == slots[cur].stream + k + LocOffset
             dev == StreamBase + k
  <2>3. loc \in Nat /\ dev \in Nat
    BY <2>2, SumsNat
  <2>4. k \in Ks /\ slots[cur].stream # 0
    BY <1>15, <2>2, SizesAssumption DEF ForwardStreamFails, Ks
  <2>5. \A f : f.serial = slots[cur].serial /\ f.loc = loc /\ f.dev = dev => IsNewForward(f)
    BY <2>1, <2>4 DEF IsNewForward
  <2> HIDE DEF loc, dev
  <2>6. ASSUME NEW table \in SUBSET fwds,
               AdbForward(table, loc, dev) \/ AdbForwardKilled(table, loc, dev)
        PROVE  ForwardsOK' /\ ForwardsKeep
    <3>1. ForwardsOK
      OBVIOUS
    <3>2. /\ ForwardsOK'
          /\ \A f \in fwds' :
               f \in fwds \/ (f.serial = slots[cur].serial /\ f.loc = loc /\ f.dev = dev)
      BY <2>1, <2>2, <2>3, <2>6, <3>1, AdbForwardAdds
    <3> QED
      BY <2>5, <3>2 DEF ForwardsKeep
  <2>7. \/ AdbForwardKilled(fwds, loc, dev)
        \/ fwds' = fwds /\ recorded' = recorded /\ lost' = lost
    BY <1>15 DEF ForwardStreamFails, loc, dev
  <2>8. CASE fwds' = fwds /\ recorded' = recorded /\ lost' = lost
    BY <2>1, <2>8 DEF ForwardsKeep
  <2> QED
    BY <2>6, <2>7, <2>8
<1>16. CASE Forwarded
  BY <1>16 DEF Forwarded, world, ForwardsKeep
<1>17. CASE BindAdb
  BY <1>17 DEF BindAdb, world, AddListener, ForwardsKeep
<1>18. CASE AdbBound
  BY <1>18 DEF AdbBound, world, ForwardsKeep
<1>19. CASE BindStream
  BY <1>19 DEF BindStream, world, AddListener, ForwardsKeep
<1>20. CASE StreamBound
  BY <1>20 DEF StreamBound, world, ForwardsKeep
<1>21. CASE Ready
  BY <1>21 DEF Ready, world, ForwardsKeep
<1>22. CASE Cleanup
  BY <1>22 DEF Cleanup, ForwardsKeep
<1>23. CASE Exited \/ UNCHANGED vars
  BY <1>23 DEF Exited, vars, agentVars, ForwardsKeep
<1> QED
  BY <1>1, <1>2, <1>3, <1>4, <1>5, <1>6, <1>7, <1>8, <1>9, <1>10, <1>11, <1>12, <1>13,
     <1>14, <1>15, <1>16, <1>17, <1>18, <1>19, <1>20, <1>21, <1>22, <1>23 DEF Next,
     RescanNext

(* Every step keeps the types of the control state. *)
LEMMA ControlStep == IInv /\ [Next]_vars => ControlOK'
<1> SUFFICES ASSUME IInv, [Next]_vars PROVE ControlOK'
  OBVIOUS
<1> USE DEF IInv, TypeOK, ControlOK, PCs
<1>1. CASE \E d \in Serials : Plug(d)
  BY <1>1, SizesAssumption DEF Plug, envOnly
<1>2. CASE \E d \in Serials : Unplug(d)
  BY <1>2, SizesAssumption DEF Unplug, envOnly
<1>3. CASE Signal
  BY <1>3, SizesAssumption DEF Signal, agentVars
<1>4. CASE Scan
  BY <1>4, SizesAssumption DEF Scan, world
<1>5. CASE RescanEnds
  BY <1>5, SizesAssumption DEF RescanEnds, world
<1>6. CASE Mark
  <2>1. Len(slots) \in Nat /\ Len(slots') >= Len(slots)
    BY LenProperties, SlotsStep DEF SlotsKeep
  <2> QED
    BY <1>6, <2>1 DEF Mark, world
<1>7. CASE PickRefresh
  <2>1. DOMAIN slots = 1 .. Len(slots) /\ Len(slots) \in Nat /\ Len(slots') >= Len(slots)
    BY LenProperties, SlotsStep DEF SlotsKeep
  <2> QED
    BY <1>7, <2>1 DEF PickRefresh, world
<1>8. CASE Alloc
  <2>1. Len(slots) \in Nat /\ Len(slots') \in {Len(slots), Len(slots) + 1}
    BY LenProperties, SlotsStep DEF SlotsKeep
  <2>2. slots' # slots => Len(slots') = Len(slots) + 1
    BY <1>8, AppendProperties DEF Alloc
  <2> QED
    BY <1>8, <2>1, <2>2 DEF Alloc, world
<1>9. CASE ScanDone
  BY <1>9, SizesAssumption DEF ScanDone, world
<1>10. CASE RelayDirectly
  BY <1>10, SizesAssumption DEF RelayDirectly, setupOnly, world, AfterSetup
<1>11. CASE ForwardAdb
  BY <1>11, SizesAssumption DEF ForwardAdb, setupOnly, world, AdbForward
<1>12. CASE ForwardAdbFails
  BY <1>12, SizesAssumption DEF ForwardAdbFails, setupOnly, world, AdbForward
<1>13. CASE Tcpip
  BY <1>13, SizesAssumption DEF Tcpip, setupOnly, world, AdbForward, AfterSetup
<1>14. CASE ForwardStream
  BY <1>14, SizesAssumption DEF ForwardStream, setupOnly, world, AdbForward
<1>15. CASE ForwardStreamFails
  <2>1. Len(slots) \in Nat /\ Len(slots') >= Len(slots)
    BY LenProperties, SlotsStep DEF SlotsKeep
  <2> QED
    BY <1>15, <2>1 DEF ForwardStreamFails, world
<1>16. CASE Forwarded
  BY <1>16, SizesAssumption DEF Forwarded, world
<1>17. CASE BindAdb
  BY <1>17, SizesAssumption DEF BindAdb, world, AddListener
<1>18. CASE AdbBound
  BY <1>18, SizesAssumption DEF AdbBound, world
<1>19. CASE BindStream
  BY <1>19, SizesAssumption DEF BindStream, world, AddListener
<1>20. CASE StreamBound
  BY <1>20, SizesAssumption DEF StreamBound, world
<1>21. CASE Ready
  <2>1. Len(slots) \in Nat /\ Len(slots') >= Len(slots)
    BY LenProperties, SlotsStep DEF SlotsKeep
  <2> QED
    BY <1>21, <2>1 DEF Ready, world
<1>22. CASE Cleanup
  BY <1>22, SizesAssumption DEF Cleanup
<1>23. CASE Exited \/ UNCHANGED vars
  BY <1>23, SizesAssumption DEF Exited, vars, agentVars
<1> QED
  BY <1>1, <1>2, <1>3, <1>4, <1>5, <1>6, <1>7, <1>8, <1>9, <1>10, <1>11, <1>12, <1>13,
     <1>14, <1>15, <1>16, <1>17, <1>18, <1>19, <1>20, <1>21, <1>22, <1>23 DEF Next,
     RescanNext

(* Every step keeps the flags Boolean. *)
LEMMA FlagsStep == IInv /\ [Next]_vars => FlagsOK'
<1> SUFFICES ASSUME IInv, [Next]_vars PROVE FlagsOK'
  OBVIOUS
<1> USE DEF IInv, TypeOK, FlagsOK
<1>1. CASE \E d \in Serials : Plug(d)
  BY <1>1 DEF Plug, envOnly
<1>2. CASE \E d \in Serials : Unplug(d)
  BY <1>2 DEF Unplug, envOnly
<1>3. CASE Signal
  BY <1>3 DEF Signal, agentVars
<1>4. CASE Scan
  BY <1>4 DEF Scan, world
<1>5. CASE RescanEnds
  BY <1>5 DEF RescanEnds, world
<1>6. CASE Mark
  BY <1>6 DEF Mark, world
<1>7. CASE PickRefresh
  BY <1>7 DEF PickRefresh, world
<1>8. CASE Alloc
  BY <1>8 DEF Alloc, world
<1>9. CASE ScanDone
  BY <1>9 DEF ScanDone, world
<1>10. CASE RelayDirectly
  BY <1>10 DEF RelayDirectly, setupOnly, world, AfterSetup
<1>11. CASE ForwardAdb
  BY <1>11 DEF ForwardAdb, setupOnly, world, AdbForward
<1>12. CASE ForwardAdbFails
  BY <1>12 DEF ForwardAdbFails, setupOnly, world, AdbForward
<1>13. CASE Tcpip
  BY <1>13 DEF Tcpip, setupOnly, world, AdbForward, AfterSetup
<1>14. CASE ForwardStream
  BY <1>14 DEF ForwardStream, setupOnly, world, AdbForward
<1>15. CASE ForwardStreamFails
  BY <1>15 DEF ForwardStreamFails, world
<1>16. CASE Forwarded
  BY <1>16 DEF Forwarded, world
<1>17. CASE BindAdb
  BY <1>17 DEF BindAdb, world, AddListener
<1>18. CASE AdbBound
  BY <1>18 DEF AdbBound, world
<1>19. CASE BindStream
  BY <1>19 DEF BindStream, world, AddListener
<1>20. CASE StreamBound
  BY <1>20 DEF StreamBound, world
<1>21. CASE Ready
  BY <1>21 DEF Ready, world
<1>22. CASE Cleanup
  BY <1>22 DEF Cleanup
<1>23. CASE Exited \/ UNCHANGED vars
  BY <1>23 DEF Exited, vars, agentVars
<1> QED
  BY <1>1, <1>2, <1>3, <1>4, <1>5, <1>6, <1>7, <1>8, <1>9, <1>10, <1>11, <1>12, <1>13,
     <1>14, <1>15, <1>16, <1>17, <1>18, <1>19, <1>20, <1>21, <1>22, <1>23 DEF Next,
     RescanNext

(* Every step keeps all the types. *)
LEMMA TypeStep == IInv /\ [Next]_vars => TypeOK'
BY SlotsStep, ListenersStep, ForwardsStep, ControlStep, FlagsStep
   DEF SlotsOK, ListenersOK, ForwardsOK, ControlOK, FlagsOK, TypeOK

(* Every step keeps a slot's ports those of its index, and its serial its own. *)
LEMMA SlotShapeStep == IInv /\ [Next]_vars => SlotShape' /\ OneSlotPerSerial'
<1> SUFFICES ASSUME IInv, [Next]_vars PROVE SlotShape' /\ OneSlotPerSerial'
  OBVIOUS
<1>1. SlotsKeep /\ slots' \in Seq(Slot) /\ slots \in Seq(Slot)
  BY SlotsStep DEF SlotsOK, IInv, TypeOK
<1>2. /\ Len(slots) \in Nat /\ DOMAIN slots = 1 .. Len(slots)
      /\ Len(slots') \in Nat /\ DOMAIN slots' = 1 .. Len(slots')
  BY <1>1, LenProperties
<1>3. \A i \in 1 .. Len(slots) :
        /\ slots'[i].serial = slots[i].serial /\ slots'[i].adb = AdbPort(i)
        /\ slots'[i].stream \in {0, StreamPorts(i)}
  BY <1>1 DEF SlotsKeep, SlotShape, IInv
<1>4. \A i, j \in 1 .. Len(slots) : slots'[i].serial = slots'[j].serial => i = j
  BY <1>2, <1>3 DEF IInv, OneSlotPerSerial
<1>5. CASE Len(slots') = Len(slots)
  BY <1>2, <1>3, <1>4, <1>5 DEF SlotShape, OneSlotPerSerial, AdbPort, StreamPorts
<1>6. CASE Grown /\ Len(slots') = Len(slots) + 1
  <2>1. PICK d \in Serials : /\ ~HasSlot(d)
                             /\ slots' = Append(slots, NewSlot(d, Len(slots) + 1))
    BY <1>6 DEF Grown
  <2> DEFINE l == Len(slots) + 1
  <2>2. slots'[l] = NewSlot(d, l)
    BY <1>1, <1>2, <2>1
  <2>3. /\ slots'[l].serial = d /\ slots'[l].adb = AdbPort(l)
        /\ slots'[l].stream \in {0, StreamPorts(l)}
    BY <2>2 DEF NewSlot
  <2>4. \A i \in 1 .. Len(slots) : slots'[i].serial # d
    BY <1>2, <1>3, <2>1 DEF HasSlot
  <2>5. \A i \in 1 .. Len(slots') : i \in 1 .. Len(slots) \/ i = l
    BY <1>2, <1>6
  <2> HIDE DEF l
  <2>6. SlotShape'
    BY <1>3, <2>3, <2>5 DEF SlotShape, AdbPort, StreamPorts
  <2>7. OneSlotPerSerial'
    BY <1>2, <1>4, <2>3, <2>4, <2>5 DEF OneSlotPerSerial
  <2> QED
    BY <2>6, <2>7
<1> QED
  BY <1>1, <1>5, <1>6 DEF SlotsKeep

(* Every step keeps listeners pointing to the forwards of their slot. *)
LEMMA ListenerShapeStep == IInv /\ [Next]_vars => ListenerShape'
<1> SUFFICES ASSUME IInv, [Next]_vars PROVE ListenerShape'
  OBVIOUS
<1>1. SlotsKeep /\ ListenersKeep /\ ls \in Seq(Listener)
  BY SlotsStep, ListenersStep DEF IInv, TypeOK
<1>2. Len(slots) \in Nat /\ Len(slots') >= Len(slots) /\ Len(ls) \in Nat
  BY <1>1, LenProperties DEF SlotsKeep, IInv, TypeOK
<1> DEFINE Shape(e) ==
      e.kind # "discovery" =>
        /\ e.owner \in 1 .. Len(slots)
        /\ e.kind = "adb" => e.dst = AdbPort(e.owner) + LocOffset
        /\ e.kind = "stream" => e.m \in Ks /\ e.dst = StreamPorts(e.owner) + e.m + LocOffset
<1>3. \A n \in 1 .. Len(ls) : Shape(ls'[n])
  BY <1>1 DEF ListenersKeep, ListenerShape, IInv
<1>4. CASE Len(ls') = Len(ls)
  BY <1>2, <1>3, <1>4 DEF ListenerShape, SlotsKeep, AdbPort, StreamPorts
<1>5. CASE Added /\ Len(ls') = Len(ls) + 1
  <2>1. PICK e : IsNewListener(e) /\ ls' = Append(ls, e)
    BY <1>5 DEF Added
  <2>2. e \in Listener /\ cur \in 1 .. Len(slots)
    BY <1>5, <2>1 DEF Added, IsNewListener
  <2>3. ls'[Len(ls) + 1] = e
    BY <1>1, <1>2, <2>1, <2>2
  <2>4. slots[cur].adb = AdbPort(cur) /\ slots[cur].stream \in {0, StreamPorts(cur)}
    BY <2>2 DEF IInv, SlotShape
  <2>5. Shape(e)
    BY <2>1, <2>2, <2>4 DEF IsNewListener
  <2>6. \A n \in 1 .. Len(ls') : n \in 1 .. Len(ls) \/ n = Len(ls) + 1
    BY <1>2, <1>5
  <2>7. \A n \in 1 .. Len(ls') : Shape(ls'[n])
    BY <1>3, <2>3, <2>5, <2>6
  <2> QED
    BY <1>2, <2>7 DEF ListenerShape, AdbPort, StreamPorts
<1> QED
  BY <1>1, <1>4, <1>5 DEF ListenersKeep

(* Every step keeps forwards those of a slot of their device. *)
LEMMA ForwardShapeStep == IInv /\ [Next]_vars => ForwardShape'
<1> SUFFICES ASSUME IInv, [Next]_vars PROVE ForwardShape'
  OBVIOUS
<1>1. SlotsKeep /\ ForwardsKeep
  BY SlotsStep, ForwardsStep
<1>2. Len(slots) \in Nat /\ Len(slots') \in Nat /\ Len(slots') >= Len(slots)
  BY <1>1, LenProperties DEF SlotsKeep, IInv, TypeOK
<1>3. SUFFICES ASSUME NEW f \in fwds'
               PROVE  \E i \in 1 .. Len(slots) :
                        /\ f.serial = slots[i].serial
                        /\ IsAdbForward(f, i) \/ IsStreamForward(f, i)
  BY <1>1, <1>2 DEF ForwardShape, SlotsKeep, IsAdbForward, IsStreamForward, AdbPort,
     StreamPorts
<1>4. CASE f \in fwds
  BY <1>4 DEF IInv, ForwardShape
<1>5. CASE IsNewForward(f)
  <2>1. cur \in 1 .. Len(slots)
    BY <1>5 DEF IsNewForward
  <2>2. slots[cur].adb = AdbPort(cur) /\ slots[cur].stream \in {0, StreamPorts(cur)}
    BY <2>1 DEF IInv, SlotShape
  <2> QED
    BY <1>5, <2>1, <2>2 DEF IsNewForward, IsAdbForward, IsStreamForward
<1> QED
  BY <1>1, <1>3, <1>4, <1>5 DEF ForwardsKeep

(* How the control state comes to claim a bound adb port: a step either leaves the      *)
(* claim as it was or has just bound the port; stream ports are bound for slots that     *)
(* stream.                                                                               *)
Claims == pc \in {"bindStream", "ready"} \/ (pc = "bindAdb" /\ made)
JustBound ==
  /\ pc = "bindAdb" /\ slots' = slots
  /\ \E e \in Listener : /\ ls' = Append(ls, e) /\ e.kind \in {"adb", "direct"}
                         /\ e.owner = cur /\ e.port = slots[cur].adb
ClaimsKeep ==
  /\ Claims' => cur' = cur /\ (Claims \/ JustBound)
  /\ pc' = "bindStream" => slots'[cur'].stream # 0

(* Every step keeps what the control state claims. *)
LEMMA ClaimsStep == IInv /\ [Next]_vars => ClaimsKeep
<1> SUFFICES ASSUME IInv, [Next]_vars PROVE ClaimsKeep
  OBVIOUS
<1> USE DEF IInv, TypeOK, BoundShape
<1>1. CASE \E d \in Serials : Plug(d)
  BY <1>1 DEF Plug, envOnly, ClaimsKeep, Claims
<1>2. CASE \E d \in Serials : Unplug(d)
  BY <1>2 DEF Unplug, envOnly, ClaimsKeep, Claims
<1>3. CASE Signal
  BY <1>3 DEF Signal, agentVars, ClaimsKeep, Claims
<1>4. CASE Scan
  BY <1>4 DEF Scan, world, ClaimsKeep, Claims
<1>5. CASE RescanEnds
  BY <1>5 DEF RescanEnds, world, ClaimsKeep, Claims
<1>6. CASE Mark
  BY <1>6 DEF Mark, world, ClaimsKeep, Claims
<1>7. CASE PickRefresh
  BY <1>7 DEF PickRefresh, world, ClaimsKeep, Claims
<1>8. CASE Alloc
  BY <1>8 DEF Alloc, world, ClaimsKeep, Claims
<1>9. CASE ScanDone
  BY <1>9 DEF ScanDone, world, ClaimsKeep, Claims
<1>10. CASE RelayDirectly
  BY <1>10 DEF RelayDirectly, setupOnly, world, AfterSetup, ClaimsKeep, Claims
<1>11. CASE ForwardAdb
  BY <1>11 DEF ForwardAdb, setupOnly, world, AdbForward, ClaimsKeep, Claims
<1>12. CASE ForwardAdbFails
  BY <1>12 DEF ForwardAdbFails, setupOnly, world, AdbForward, ClaimsKeep, Claims
<1>13. CASE Tcpip
  BY <1>13 DEF Tcpip, setupOnly, world, AdbForward, AfterSetup, ClaimsKeep, Claims
<1>14. CASE ForwardStream
  BY <1>14 DEF ForwardStream, setupOnly, world, AdbForward, ClaimsKeep, Claims
<1>15. CASE ForwardStreamFails
  BY <1>15 DEF ForwardStreamFails, world, ClaimsKeep, Claims
<1>16. CASE Forwarded
  BY <1>16 DEF Forwarded, world, ClaimsKeep, Claims
<1>17. CASE BindAdb
  <2>1. cur \in 1 .. Len(slots) /\ slots[cur] \in Slot
    BY <1>17, ElementOfSeq DEF BindAdb
  <2>2. slots[cur].adb \in Nat /\ LocOffset \in Nat
    BY <2>1, PortsAssumption DEF Slot
  <2>3. \A x \in {"adb", "direct"}, dst \in Nat :
          [kind |-> x, port |-> slots[cur].adb, dst |-> dst, owner |-> cur, m |-> 0]
            \in Listener
    BY <2>2 DEF Listener
  <2>4. slots[cur].adb + LocOffset \in Nat
    BY <2>2
  <2>5. made' # made => JustBound
    BY <1>17, <2>2, <2>3, <2>4 DEF BindAdb, AddListener, JustBound, world
  <2> QED
    BY <1>17, <2>5 DEF BindAdb, AddListener, ClaimsKeep, Claims, world
<1>18. CASE AdbBound
  BY <1>18 DEF AdbBound, world, ClaimsKeep, Claims
<1>19. CASE BindStream
  BY <1>19 DEF BindStream, world, AddListener, ClaimsKeep, Claims
<1>20. CASE StreamBound
  BY <1>20 DEF StreamBound, world, ClaimsKeep, Claims
<1>21. CASE Ready
  BY <1>21 DEF Ready, world, ClaimsKeep, Claims
<1>22. CASE Cleanup
  BY <1>22 DEF Cleanup, ClaimsKeep, Claims
<1>23. CASE Exited \/ UNCHANGED vars
  BY <1>23 DEF Exited, vars, agentVars, ClaimsKeep, Claims
<1> QED
  BY <1>1, <1>2, <1>3, <1>4, <1>5, <1>6, <1>7, <1>8, <1>9, <1>10, <1>11, <1>12, <1>13,
     <1>14, <1>15, <1>16, <1>17, <1>18, <1>19, <1>20, <1>21, <1>22, <1>23 DEF Next,
     RescanNext

(* Every step keeps the adb ports of ready slots bound. *)
LEMMA BoundShapeStep == IInv /\ [Next]_vars => BoundShape'
<1> SUFFICES ASSUME IInv, [Next]_vars PROVE BoundShape'
  OBVIOUS
<1>1. SlotsKeep /\ ListenersKeep /\ ClaimsKeep /\ ls \in Seq(Listener) /\ slots \in Seq(Slot)
  BY SlotsStep, ListenersStep, ClaimsStep DEF IInv, TypeOK
<1>2. Len(slots) \in Nat /\ Len(ls) \in Nat /\ Len(ls') >= Len(ls)
  BY <1>1, LenProperties DEF ListenersKeep
<1>3. \A i : HasAdbPort(i) => HasAdbPort(i)'
  BY <1>1, <1>2 DEF HasAdbPort, ListenersKeep, AdbPort
<1>4. Claims => HasAdbPort(cur)
  BY DEF IInv, BoundShape, Claims
<1>5. ASSUME NEW i \in 1 .. Len(slots'), slots'[i].ready
      PROVE  HasAdbPort(i)'
  <2>1. CASE i \in 1 .. Len(slots)
    <3>1. slots[i].ready \/ (pc = "ready" /\ i = cur)
      BY <1>1, <1>5, <2>1 DEF SlotsKeep
    <3>2. HasAdbPort(i)
      BY <1>4, <2>1, <3>1 DEF IInv, BoundShape, Claims
    <3> QED
      BY <1>3, <3>2
  <2>2. CASE i \notin 1 .. Len(slots)
    <3>1. Grown /\ i = Len(slots) + 1
      BY <1>1, <1>2, <2>2 DEF SlotsKeep
    <3>2. PICK d \in Serials : slots' = Append(slots, NewSlot(d, i))
      BY <3>1 DEF Grown
    <3>3. slots'[i] = NewSlot(d, i)
      BY <1>1, <1>2, <3>1, <3>2
    <3>4. ~slots'[i].ready
      BY <3>3 DEF NewSlot
    <3> QED
      BY <1>5, <3>4
  <2> QED
    BY <2>1, <2>2
<1>6. ASSUME Claims' PROVE HasAdbPort(cur)'
  <2>1. cur' = cur /\ (Claims \/ JustBound)
    BY <1>1, <1>6 DEF ClaimsKeep
  <2>2. CASE Claims
    BY <1>3, <1>4, <2>1, <2>2 DEF HasAdbPort, AdbPort
  <2>3. CASE JustBound
    <3>1. PICK e \in Listener : /\ ls' = Append(ls, e) /\ e.kind \in {"adb", "direct"}
                                /\ e.owner = cur /\ e.port = slots[cur].adb
      BY <2>3 DEF JustBound
    <3>2. ls'[Len(ls) + 1] = e /\ Len(ls') = Len(ls) + 1
      BY <1>1, <1>2, <3>1
    <3>3. cur \in 1 .. Len(slots)
      BY <2>3 DEF JustBound, IInv, TypeOK
    <3>4. slots[cur].adb = AdbPort(cur)
      BY <3>3 DEF IInv, SlotShape
    <3>5. Len(ls) + 1 \in 1 .. Len(ls')
      BY <1>2, <3>2
    <3> QED
      BY <2>1, <3>1, <3>2, <3>4, <3>5 DEF HasAdbPort, AdbPort
  <2> QED
    BY <2>1, <2>2, <2>3
<1>7. pc' = "bindStream" => slots'[cur'].stream # 0
  BY <1>1 DEF ClaimsKeep
<1> QED
  BY <1>5, <1>6, <1>7 DEF BoundShape, Claims, HasAdbPort, AdbPort

(* The initial states satisfy the inductive invariant. *)
LEMMA InitIInv == Init => IInv
<1> SUFFICES ASSUME Init PROVE IInv
  OBVIOUS
<1>1. PICK n \in 1 .. MaxListeners :
        ls = [i \in 1 .. n |->
                [kind |-> "discovery", port |-> DiscoveryPort, dst |-> 0,
                 owner |-> 0, m |-> 0]]
  BY DEF Init
<1>2. n \in Nat /\ n <= MaxListeners
  BY SizesAssumption
<1>3. /\ ls \in [1 .. n -> Listener]
      /\ \A i \in 1 .. n : ls[i].kind = "discovery"
  BY <1>1, PortsAssumption DEF Listener
<1>4. ls \in Seq(Listener) /\ Len(ls) = n
  BY <1>2, <1>3, SeqDef
<1>5. slots \in Seq(Slot) /\ Len(slots) = 0 /\ slots = <<>>
  BY DEF Init
<1>6. TypeOK
  <2>1. made \in BOOLEAN /\ stop \in BOOLEAN
    BY DEF Init
  <2>2. 0 \in 0 .. MaxChanges /\ 0 \in 0 .. StreamCount /\ Len(slots) <= MaxSlots
    BY <1>5, SizesAssumption
  <2>3. /\ plugged \subseteq Serials /\ devs \subseteq Serials /\ ips \subseteq Ips
        /\ fwds \subseteq Forward /\ recorded \subseteq Serials \X Nat
        /\ lost \subseteq Serials \X Nat /\ refused \subseteq Forward
    BY DEF Init
  <2>4. changes = 0 /\ cur = 0 /\ k = 0 /\ pc \in {"idle", "mark"} /\ main = "accept"
    BY DEF Init
  <2> QED
    BY <1>2, <1>4, <1>5, <2>1, <2>2, <2>3, <2>4 DEF TypeOK, PCs
<1>7. SlotShape /\ OneSlotPerSerial /\ ForwardShape /\ BoundShape
  BY <1>5 DEF Init, SlotShape, OneSlotPerSerial, ForwardShape, BoundShape
<1>8. ListenerShape
  BY <1>3, <1>4 DEF ListenerShape
<1> QED
  BY <1>6, <1>7, <1>8 DEF IInv

(* Every step preserves the inductive invariant. *)
LEMMA NextStep == IInv /\ [Next]_vars => IInv'
BY TypeStep, SlotShapeStep, ListenerShapeStep, ForwardShapeStep, BoundShapeStep DEF IInv

(* The inductive invariant holds in every reachable state. *)
LEMMA Invariance == Spec => []IInv
BY InitIInv, NextStep, PTL DEF Spec

(* No serial ever gets two slots (find_slot before the table grows). *)
THEOREM SlotsAreNotShared == Spec => []OneSlotPerSerial
<1>1. IInv => OneSlotPerSerial
  BY DEF IInv
<1> QED
  BY <1>1, Invariance, PTL

(* The tables of rescan_once never outgrow their capacities, the rescan thread never     *)
(* works on a slot that does not exist, and a connection to a public port reaches the     *)
(* device that owns the port, and the port meant on it, whatever the rescans have           *)
(* installed.                                                                              *)
THEOREM RoutingIsSound == Spec => []RoutingInv
<1>1. IInv => RoutingInv
  BY InvRoutes DEF IInv, RoutingInv
<1> QED
  BY <1>1, Invariance, PTL

(* A device that discovery lists has its adb port bound. *)
THEOREM ListingIsSound == Spec => []ListedIsBound
BY InvBound, Invariance, PTL

(* A slot keeps its owner and its adb port for good, and listeners never change: the     *)
(* accept loop may read below its snapshot of the count without the lock.                *)
THEOREM GrowthIsMonotone == Spec => TablesOnlyGrow
<1> DEFINE Grows ==
      /\ \A i \in DOMAIN slots :
           /\ i \in DOMAIN slots'
           /\ slots'[i].serial = slots[i].serial /\ slots'[i].adb = slots[i].adb
           /\ slots'[i].stream \in {slots[i].stream, 0}
           /\ slots[i].ready => slots'[i].ready
      /\ \A i \in DOMAIN ls : i \in DOMAIN ls' /\ ls'[i] = ls[i]
<1>1. ASSUME IInv, [Next]_vars PROVE [Grows]_vars
  <2>1. /\ SlotsKeep /\ ListenersKeep
        /\ slots \in Seq(Slot) /\ slots' \in Seq(Slot)
        /\ ls \in Seq(Listener) /\ ls' \in Seq(Listener)
    BY <1>1, SlotsStep, ListenersStep DEF SlotsOK, ListenersOK, IInv, TypeOK
  <2>2. /\ DOMAIN slots = 1 .. Len(slots) /\ DOMAIN slots' = 1 .. Len(slots')
        /\ DOMAIN ls = 1 .. Len(ls) /\ DOMAIN ls' = 1 .. Len(ls')
        /\ Len(slots) \in Nat /\ Len(slots') \in Nat /\ Len(ls) \in Nat /\ Len(ls') \in Nat
    BY <2>1, LenProperties
  <2>a. Len(slots') = Len(slots) \/ Len(slots') = Len(slots) + 1
    BY <2>1 DEF SlotsKeep
  <2>b. Len(ls') = Len(ls) \/ Len(ls') = Len(ls) + 1
    BY <2>1 DEF ListenersKeep
  <2>c. \A x, y \in Nat : y = x \/ y = x + 1 => 1 .. x \subseteq 1 .. y
    OBVIOUS
  <2>3. 1 .. Len(slots) \subseteq 1 .. Len(slots') /\ 1 .. Len(ls) \subseteq 1 .. Len(ls')
    BY <2>2, <2>a, <2>b, <2>c
  <2>4. \A i \in DOMAIN ls : i \in DOMAIN ls' /\ ls'[i] = ls[i]
    BY <2>1, <2>2, <2>3 DEF ListenersKeep
  <2>5. \A i \in DOMAIN slots :
          /\ i \in DOMAIN slots'
          /\ slots'[i].serial = slots[i].serial /\ slots'[i].adb = slots[i].adb
          /\ slots'[i].stream \in {slots[i].stream, 0}
          /\ slots[i].ready => slots'[i].ready
    BY <2>1, <2>2, <2>3 DEF SlotsKeep
  <2> QED
    BY <2>4, <2>5
<1> QED
  BY <1>1, Invariance, PTL DEF Spec, TablesOnlyGrow

-----------------------------------------------------------------------------
(* The exit.  A slot has StreamCount + 1 local ports of its own; number x of them,      *)
(* with the slot's serial, is a pair that adb_forward may have to keep for the exit.     *)
LocalPort(i, x) == (IF x = 0 THEN AdbPort(i) ELSE StreamPorts(i) + (x - 1)) + LocOffset
Owed(i, x) == <<slots[i].serial, LocalPort(i, x)>>

RecordedShape ==
  \A p \in recorded : \E i \in 1 .. Len(slots), x \in 0 .. StreamCount : p = Owed(i, x)
AllRecorded ==
  main = "accept" => \A f \in fwds : <<f.serial, f.loc>> \in recorded \cup lost
Ended == main = "exited" => pc = "exited" /\ CleanExit
ExitInv == RecordedShape /\ AllRecorded /\ Ended

(* How a step may change adb's forwards and the record of them, the cleanup aside: it  *)
(* adds none, or one that is recorded, or one whose command is killed.                  *)
Keeps ==
  /\ recorded' = recorded /\ lost' = lost /\ fwds' \subseteq fwds
  /\ main' = main /\ refused' = refused
  /\ pc = "exited" => pc' = "exited"
Adds(pair) ==
  /\ cur \in 1 .. Len(slots) /\ main' = main /\ pc # "exited"
  /\ \A f \in fwds' : f \in fwds \/ <<f.serial, f.loc>> = pair
Records ==
  \E x \in 0 .. StreamCount :
    /\ Adds(Owed(cur, x))
    /\ recorded' = IF Cardinality(recorded) < MaxFwds
                     THEN recorded \cup {Owed(cur, x)} ELSE recorded
    /\ lost' = lost \ {Owed(cur, x)}
Loses ==
  \E pair :
    /\ Adds(pair)
    /\ recorded' = recorded /\ lost' = lost \cup ({pair} \ recorded)

(* The table g_fwds has room for a pair it does not hold yet. *)
LEMMA RoomToRecord ==
  ASSUME IInv, RecordedShape, NEW i \in 1 .. Len(slots), NEW x \in 0 .. StreamCount
  PROVE  Owed(i, x) \in recorded \/ Cardinality(recorded) < MaxFwds
<1> DEFINE I == 1 .. Len(slots)
           X == 0 .. StreamCount
           S == I \X X
           g == [q \in S |-> Owed(q[1], q[2])]
           T == {g[q] : q \in S}
           p == Owed(i, x)
<1>1. Len(slots) \in Nat /\ Len(slots) <= MaxSlots /\ MaxSlots \in Nat
      /\ StreamCount \in Nat /\ MaxFwds \in Nat
  BY LenProperties, SizesAssumption DEF IInv, TypeOK
<1>2. IsFiniteSet(I) /\ Cardinality(I) = Len(slots)
  <2>1. PICK n \in Nat : n = Len(slots)
    BY <1>1
  <2>2. /\ IsFiniteSet(1 .. n)
        /\ Cardinality(1 .. n) = IF 1 > n THEN 0 ELSE n - 1 + 1
    BY FS_Interval
  <2>3. Cardinality(1 .. n) = n
    BY <2>2
  <2> QED
    BY <2>1, <2>2, <2>3
<1>3. IsFiniteSet(X) /\ Cardinality(X) = StreamCount + 1
  <2>1. 0 \in Int /\ StreamCount \in Int /\ ~(0 > StreamCount)
    BY <1>1
  <2>2. Cardinality(0 .. StreamCount) = StreamCount - 0 + 1 /\ IsFiniteSet(0 .. StreamCount)
    BY <2>1, FS_Interval
  <2> QED
    BY <1>1, <2>2
<1>4. IsFiniteSet(S) /\ Cardinality(S) = Len(slots) * (StreamCount + 1)
  <2>1. IsFiniteSet(I \X X) /\ Cardinality(I \X X) = Cardinality(I) * Cardinality(X)
    <3> HIDE DEF I, X
    <3> QED
      BY <1>2, <1>3, FS_Product
  <2> QED
    BY <1>2, <1>3, <2>1
<1>5. g \in Surjection(S, T)
  <2> HIDE DEF S
  <2> QED
    BY DEF Surjection
<1>6. IsFiniteSet(T) /\ Cardinality(T) <= Cardinality(S)
  <2> HIDE DEF S, g, T
  <2> QED
    BY <1>4, <1>5, FS_Surjection
<1>7. \A j \in I, y \in X : Owed(j, y) \in T
  <2> SUFFICES ASSUME NEW j \in I, NEW y \in X
               PROVE  Owed(j, y) \in T
    OBVIOUS
  <2> HIDE DEF I, X
  <2>1. <<j, y>> \in S
    OBVIOUS
  <2>2. g[<<j, y>>] = Owed(j, y)
    BY <2>1
  <2> QED
    BY <2>1, <2>2
<1>8. recorded \subseteq T /\ p \in T
  <2> HIDE DEF T
  <2> QED
    BY <1>7 DEF RecordedShape
<1> HIDE DEF I, X, S, g, T, p
<1>9. IsFiniteSet(recorded) /\ Cardinality(recorded) \in Nat /\ Cardinality(T) \in Nat
  BY <1>6, <1>8, FS_Subset, FS_CardinalityType
<1>10. p \notin recorded => Cardinality(recorded) + 1 <= Cardinality(T)
  <2>1. recorded \cup {p} \in SUBSET T
    BY <1>8
  <2>2. Cardinality(recorded \cup {p}) <= Cardinality(T)
    BY <1>6, <2>1, FS_Subset
  <2>3. p \notin recorded => Cardinality(recorded \cup {p}) = Cardinality(recorded) + 1
    BY <1>9, FS_AddElement
  <2> QED
    BY <2>2, <2>3
<1>11. Len(slots) * (StreamCount + 1) <= MaxSlots * (StreamCount + 1)
  BY <1>1
<1>12. Cardinality(T) <= MaxFwds
  <2>1. Cardinality(S) \in Nat /\ MaxSlots * (StreamCount + 1) \in Nat
    BY <1>1, <1>4
  <2> QED
    BY <1>1, <1>4, <1>6, <1>9, <1>11, <2>1, FwdsAssumption
<1>13. p \in recorded \/ Cardinality(recorded) < MaxFwds
  BY <1>1, <1>9, <1>10, <1>12
<1> QED
  BY <1>13 DEF p

(* What one call of adb_forward does to the forwards and their record, if it succeeds   *)
(* and if it is killed.                                                                  *)
LEMMA AdbForwardRecords ==
  ASSUME NEW table \in SUBSET fwds, NEW loc, NEW dev,
         NEW x \in 0 .. StreamCount, loc = LocalPort(cur, x),
         cur \in 1 .. Len(slots), main' = main, pc # "exited",
         AdbForward(table, loc, dev) \/ AdbForwardKilled(table, loc, dev)
  PROVE  Records \/ Loses
<1>1. Adds(Owed(cur, x))
  <2>1. AdbInstalls(table, loc, dev)
    BY DEF AdbForward, AdbForwardKilled
  <2> QED
    BY <2>1 DEF AdbInstalls, Adds, Owed
<1>2. CASE AdbForward(table, loc, dev)
  BY <1>1, <1>2 DEF AdbForward, Records, Owed
<1>3. CASE AdbForwardKilled(table, loc, dev)
  BY <1>1, <1>3 DEF AdbForwardKilled, Loses, Owed
<1> QED
  BY <1>2, <1>3

(* Every step but the cleanup keeps the record of adb's forwards complete, but for the   *)
(* pairs of killed commands.                                                             *)
LEMMA RecordStep == IInv /\ [Next]_vars => Keeps \/ Records \/ Loses \/ Cleanup
<1> SUFFICES ASSUME IInv, [Next]_vars PROVE Keeps \/ Records \/ Loses \/ Cleanup
  OBVIOUS
<1> USE DEF IInv, TypeOK
<1>a. ASSUME cur \in 1 .. Len(slots)
      PROVE  slots[cur].adb + LocOffset = LocalPort(cur, 0) /\ 0 \in 0 .. StreamCount
  BY <1>a, SizesAssumption DEF SlotShape, LocalPort
<1>b. ASSUME cur \in 1 .. Len(slots), slots[cur].stream # 0, k < StreamCount
      PROVE  /\ slots[cur].stream + k + LocOffset = LocalPort(cur, k + 1)
             /\ k + 1 \in 0 .. StreamCount
  <2>1. slots[cur].stream = StreamPorts(cur) /\ k \in Nat /\ StreamCount \in Nat
    BY <1>b, SizesAssumption DEF SlotShape
  <2>2. k + 1 \in 0 .. StreamCount /\ (k + 1) - 1 = k /\ k + 1 # 0
    BY <1>b, <2>1
  <2> QED
    BY <2>1, <2>2 DEF LocalPort
<1>1. CASE \E d \in Serials : Plug(d)
  BY <1>1 DEF Plug, envOnly, Keeps
<1>2. CASE \E d \in Serials : Unplug(d)
  BY <1>2 DEF Unplug, envOnly, Keeps
<1>3. CASE Signal
  BY <1>3 DEF Signal, agentVars, Keeps
<1>4. CASE Scan \/ RescanEnds \/ Mark \/ ScanDone
  BY <1>4 DEF Scan, RescanEnds, Mark, ScanDone, world, Keeps
<1>5. CASE PickRefresh
  BY <1>5 DEF PickRefresh, world, Keeps
<1>6. CASE Alloc
  BY <1>6 DEF Alloc, world, Keeps
<1>7. CASE RelayDirectly
  BY <1>7 DEF RelayDirectly, setupOnly, world, Keeps
<1>8. CASE ForwardAdb
  <2>1. /\ cur \in 1 .. Len(slots) /\ main' = main /\ pc # "exited"
        /\ AdbForward(fwds, slots[cur].adb + LocOffset, TcpipPort)
    BY <1>8 DEF ForwardAdb, setupOnly, world
  <2> QED
    BY <1>a, <2>1, AdbForwardRecords
<1>9. CASE ForwardAdbFails
  <2> DEFINE loc == slots[cur].adb + LocOffset
  <2>1. /\ cur \in 1 .. Len(slots) /\ main' = main /\ pc # "exited" /\ refused' = refused
        /\ \/ UNCHANGED <<fwds, recorded, lost>>
           \/ AdbForward(fwds, loc, TcpipPort) \/ AdbForwardKilled(fwds, loc, TcpipPort)
    BY <1>9 DEF ForwardAdbFails, setupOnly, world
  <2>2. CASE UNCHANGED <<fwds, recorded, lost>>
    BY <2>1, <2>2 DEF Keeps
  <2>3. CASE AdbForward(fwds, loc, TcpipPort) \/ AdbForwardKilled(fwds, loc, TcpipPort)
    BY <1>a, <2>1, <2>3, AdbForwardRecords
  <2> QED
    BY <2>1, <2>2, <2>3
<1>10. CASE Tcpip
  <2> DEFINE loc == slots[cur].adb + LocOffset
             rest == {f \in fwds : f.serial # slots[cur].serial}
  <2>1. /\ cur \in 1 .. Len(slots) /\ main' = main /\ pc # "exited" /\ refused' = refused
    BY <1>10 DEF Tcpip, setupOnly, world
  <2>2. PICK table \in {fwds, rest} :
          \/ fwds' = table /\ recorded' = recorded /\ lost' = lost
          \/ AdbForward(table, loc, TcpipPort) \/ AdbForwardKilled(table, loc, TcpipPort)
    BY <1>10 DEF Tcpip
  <2>3. table \in SUBSET fwds
    OBVIOUS
  <2>4. CASE fwds' = table /\ recorded' = recorded /\ lost' = lost
    BY <2>1, <2>3, <2>4 DEF Keeps
  <2>5. CASE AdbForward(table, loc, TcpipPort) \/ AdbForwardKilled(table, loc, TcpipPort)
    BY <1>a, <2>1, <2>3, <2>5, AdbForwardRecords
  <2> QED
    BY <2>2, <2>4, <2>5
<1>11. CASE ForwardStream
  <2>1. /\ cur \in 1 .. Len(slots) /\ main' = main /\ pc # "exited"
        /\ AdbForward(fwds, slots[cur].stream + k + LocOffset, StreamBase + k)
        /\ slots[cur].stream # 0 /\ k < StreamCount
    BY <1>11 DEF ForwardStream, setupOnly, world
  <2> QED
    BY <1>b, <2>1, AdbForwardRecords
<1>12. CASE ForwardStreamFails
  <2> DEFINE loc == slots[cur].stream + k + LocOffset
             dev == StreamBase + k
  <2>1. /\ cur \in 1 .. Len(slots) /\ main' = main /\ pc # "exited" /\ refused' = refused
        /\ UNCHANGED <<fwds, recorded, lost>> \/ AdbForwardKilled(fwds, loc, dev)
        /\ slots[cur].stream # 0 /\ k < StreamCount
    BY <1>12 DEF ForwardStreamFails, world
  <2>2. CASE UNCHANGED <<fwds, recorded, lost>>
    BY <2>1, <2>2 DEF Keeps
  <2>3. CASE AdbForwardKilled(fwds, loc, dev)
    BY <1>b, <2>1, <2>3, AdbForwardRecords
  <2> QED
    BY <2>1, <2>2, <2>3
<1>13. CASE BindAdb \/ BindStream
  BY <1>13 DEF BindAdb, BindStream, world, Keeps
<1>14. CASE Forwarded \/ AdbBound \/ StreamBound \/ Ready
  BY <1>14 DEF Forwarded, AdbBound, StreamBound, Ready, world, Keeps
<1>15. CASE Exited \/ UNCHANGED vars
  BY <1>15 DEF Exited, vars, agentVars, Keeps
<1> QED
  BY <1>1, <1>2, <1>3, <1>4, <1>5, <1>6, <1>7, <1>8, <1>9, <1>10, <1>11, <1>12, <1>13,
     <1>14, <1>15 DEF Next, RescanNext

(* Every step preserves the invariant of the exit. *)
LEMMA ExitStep == IInv /\ ExitInv /\ [Next]_vars => ExitInv'
<1> SUFFICES ASSUME IInv, ExitInv, [Next]_vars PROVE ExitInv'
  OBVIOUS
<1>1. SlotsKeep /\ Len(slots) \in Nat
  BY SlotsStep, LenProperties DEF IInv, TypeOK
<1>2. \A i \in 1 .. Len(slots) : \A x :
         i \in 1 .. Len(slots') /\ Owed(i, x)' = Owed(i, x)
  BY <1>1 DEF SlotsKeep, Owed, LocalPort, AdbPort, StreamPorts
<1>3. CASE Keeps
  <2>1. RecordedShape'
    BY <1>2, <1>3 DEF Keeps, ExitInv, RecordedShape
  <2>2. AllRecorded' /\ Ended'
    BY <1>3 DEF Keeps, ExitInv, AllRecorded, Ended, CleanExit
  <2> QED
    BY <2>1, <2>2 DEF ExitInv
<1>4. CASE Records
  <2>1. PICK x \in 0 .. StreamCount :
          /\ Adds(Owed(cur, x))
          /\ recorded' = IF Cardinality(recorded) < MaxFwds
                           THEN recorded \cup {Owed(cur, x)} ELSE recorded
          /\ lost' = lost \ {Owed(cur, x)}
    BY <1>4 DEF Records
  <2>2. cur \in 1 .. Len(slots) /\ main' = main /\ pc # "exited"
    BY <2>1 DEF Adds
  <2>3. recorded' = recorded \cup {Owed(cur, x)}
    <3>1. Owed(cur, x) \in recorded \/ Cardinality(recorded) < MaxFwds
      BY <2>2, RoomToRecord DEF ExitInv
    <3> QED
      BY <2>1, <3>1
  <2>4. \A p \in recorded' : \E i \in 1 .. Len(slots), y \in 0 .. StreamCount : p = Owed(i, y)
    BY <2>2, <2>3 DEF ExitInv, RecordedShape
  <2>5. RecordedShape'
    BY <1>2, <2>4 DEF RecordedShape
  <2>6. AllRecorded'
    <3>1. \A f \in fwds' : f \in fwds \/ <<f.serial, f.loc>> = Owed(cur, x)
      BY <2>1 DEF Adds
    <3>2. recorded \cup lost \subseteq recorded' \cup lost' /\ Owed(cur, x) \in recorded'
      BY <2>1, <2>3
    <3> HIDE DEF Owed
    <3> QED
      BY <2>2, <3>1, <3>2 DEF ExitInv, AllRecorded
  <2>7. Ended'
    BY <2>2 DEF ExitInv, Ended
  <2> QED
    BY <2>5, <2>6, <2>7 DEF ExitInv
<1>5. CASE Loses
  <2>1. PICK pair :
          /\ Adds(pair)
          /\ recorded' = recorded /\ lost' = lost \cup ({pair} \ recorded)
    BY <1>5 DEF Loses
  <2>2. RecordedShape'
    BY <1>2, <2>1 DEF ExitInv, RecordedShape
  <2>3. AllRecorded'
    BY <2>1 DEF Adds, ExitInv, AllRecorded
  <2>4. Ended'
    BY <2>1 DEF Adds, ExitInv, Ended
  <2> QED
    BY <2>2, <2>3, <2>4 DEF ExitInv
<1>6. CASE Cleanup
  <2>1. /\ main = "accept" /\ pc = "exited" /\ pc' = pc /\ main' = "exited"
        /\ recorded' = {} /\ lost' = lost
    BY <1>6 DEF Cleanup
  <2>2. \A f \in fwds : <<f.serial, f.loc>> \in recorded \cup lost
    BY <2>1 DEF ExitInv, AllRecorded
  <2>3. \A f \in fwds' : f \in refused' \/ <<f.serial, f.loc>> \in lost'
    BY <1>6, <2>1, <2>2 DEF Cleanup
  <2> QED
    BY <2>1, <2>3 DEF ExitInv, RecordedShape, AllRecorded, Ended, CleanExit
<1> QED
  BY <1>3, <1>4, <1>5, <1>6, RecordStep

(* When the agent has exited, a forward of it that is left in adb is one that adb refused *)
(* to remove, or one that a killed command installed without entering it in g_fwds: every *)
(* command that succeeds enters its pair, for which g_fwds is large enough, and main      *)
(* joins the rescan thread before cleanup_forwards.                                       *)
THEOREM ExitIsClean == Spec => []CleanExit
<1>1. Init => ExitInv
  BY DEF Init, ExitInv, RecordedShape, AllRecorded, Ended
<1>2. IInv /\ ExitInv => CleanExit
  BY DEF IInv, TypeOK, ExitInv, Ended, CleanExit
<1> QED
  BY <1>1, <1>2, ExitStep, Invariance, PTL DEF Spec

=============================================================================
