------------------------------ MODULE AgentSlots ------------------------------
(***************************************************************************)
(* The device table of rc-agent (frontends/agent/discovery.c, adb.c and the  *)
(* frame of main.c): the rescan thread finds devices with `adb devices`,      *)
(* gives each new serial a slot for good, installs adb forwards and binds the  *)
(* slot's public ports, while devices come and go, the accept loop answers     *)
(* discovery from the same table, and a signal may stop the agent.             *)
(*                                                                         *)
(* rescan_once is split where it drops g_lock or runs adb; between two of its  *)
(* steps the devices and the discovery clients see what it has done so far.    *)
(* A discovery answer is a pure reading of the table under the lock (Listed).  *)
(***************************************************************************)
EXTENDS Integers, Sequences, FiniteSets

CONSTANTS
  Serials,       \* the serials adb may report
  Wireless,      \* those of kind "wireless": reached directly, no adb forward
  Malformed,     \* wireless ones whose serial holds no usable host
  Ips,           \* g_bind_ips
  MaxSlots, MaxListeners, MaxFwds,          \* the tables' capacities
  AdbBase, StreamBase, StreamCount, LocOffset, TcpipPort, DiscoveryPort,
  NoStream,      \* --no-stream
  BindMayFail,   \* may a public port be taken by somebody else?
  AdbMayFail,    \* may an adb command fail for a device that is there?
  MaxChanges     \* bound: how often a device is plugged or unplugged

ASSUME SetsAssumption == Wireless \subseteq Serials /\ Malformed \subseteq Wireless
ASSUME SizesAssumption ==
  /\ MaxSlots \in Nat /\ MaxListeners \in Nat /\ MaxFwds \in Nat
  /\ StreamCount \in Nat \ {0} /\ MaxChanges \in Nat
ASSUME PortsAssumption ==
  /\ {AdbBase, StreamBase, LocOffset, TcpipPort, DiscoveryPort} \subseteq Nat
  /\ StreamBase # 0
  /\ \/ AdbBase + MaxSlots <= StreamBase
     \/ StreamBase + MaxSlots * StreamCount <= AdbBase
(* g_fwds holds 128 pairs: room for every forward of every slot, 8 * (4 + 1). *)
ASSUME FwdsAssumption == MaxSlots * (StreamCount + 1) <= MaxFwds
ASSUME FlagsAssumption == {NoStream, BindMayFail, AdbMayFail} \subseteq BOOLEAN

VARIABLES
  plugged,   \* what `adb devices` would report now
  changes,   \* how often that has changed
  fwds,      \* adb's forward table
  recorded,  \* g_fwds: the forwards to remove at exit
  lost,      \* forwards not in g_fwds whose command was killed once adb had done its work
  slots,     \* g_slots
  ls,        \* g_ls, in the order of the array
  pc,        \* the rescan thread
  devs,      \* its local devs[], minus the ones phase B2 is done with
  cur,       \* the slot being set up or refreshed
  k,         \* establish_forwards and bind_listeners: the stream port in hand
  ips,       \* add_listener: the addresses still to bind
  made,      \* add_listener: has an address been bound?
  stop,      \* g_stop
  main,      \* main: "accept", "exited"
  refused    \* forwards adb refused to remove at exit

agentVars == <<fwds, recorded, lost, slots, ls, pc, devs, cur, k, ips, made>>
vars == <<plugged, changes, agentVars, stop, main, refused>>

PCs == {"idle", "mark", "refresh", "alloc", "forward", "tcpip", "stream",
        "bindAdb", "bindStream", "ready", "exited"}
Ks == 0 .. StreamCount - 1
Forward == [serial : Serials, loc : Nat, dev : Nat]
Slot == [serial : Serials, adb : Nat, stream : Nat, present : BOOLEAN,
         ready : BOOLEAN, back : BOOLEAN]

(* A listener's group points into the slot it was made for: owner and m say which  *)
(* slot and which of its stream ports (for the adb port, which has no group, they  *)
(* only serve to state RoutesToOwner).                                             *)
Listener == [kind : {"discovery", "adb", "direct", "stream"}, port : Nat, dst : Nat,
             owner : Nat, m : Nat]

TypeOK ==
  /\ plugged \subseteq Serials /\ devs \subseteq Serials
  /\ changes \in 0 .. MaxChanges
  /\ fwds \subseteq Forward /\ recorded \subseteq Serials \X Nat /\ lost \subseteq Serials \X Nat
  /\ slots \in Seq(Slot) /\ Len(slots) <= MaxSlots
  /\ ls \in Seq(Listener) /\ Len(ls) <= MaxListeners
  /\ pc \in PCs /\ main \in {"accept", "exited"}
  /\ cur \in Nat /\ k \in 0 .. StreamCount
  /\ pc \in {"forward", "tcpip", "stream", "bindAdb", "bindStream", "ready"} =>
       cur \in 1 .. Len(slots)
  /\ ips \subseteq Ips
  /\ made \in BOOLEAN /\ stop \in BOOLEAN
  /\ refused \subseteq Forward

-----------------------------------------------------------------------------
(* Slot i of the code is element i + 1 of the sequence.                      *)

AdbPort(i) == AdbBase + i - 1
(* Faulty variant of StreamPorts: the slots' ranges overlap. *)
StreamPortsOverlapping(i) == StreamBase + i - 1

StreamPorts(i) == StreamBase + (i - 1) * StreamCount
NewSlot(d, i) ==
  [serial |-> d, adb |-> AdbPort(i), stream |-> IF NoStream THEN 0 ELSE StreamPorts(i),
   present |-> TRUE, ready |-> FALSE, back |-> FALSE]

(* discovery_write lists the slots that are both present and ready. *)
Listed(i) == slots[i].present /\ slots[i].ready
ListedSerials == {slots[i].serial : i \in {j \in DOMAIN slots : Listed(j)}}

(* find_slot. *)
HasSlot(d) == \E i \in DOMAIN slots : slots[i].serial = d

(* The discovery port is bound on every address that allows it, on one at least;  *)
(* the agent is in the rescan_once of main, whose list_devices may have failed.     *)
Init ==
  /\ plugged \in SUBSET Serials /\ changes = 0
  /\ fwds = {} /\ recorded = {} /\ lost = {} /\ slots = <<>>
  /\ \E n \in 1 .. MaxListeners :
       /\ n = Cardinality(Ips) \/ (BindMayFail /\ n < Cardinality(Ips))
       /\ ls = [i \in 1 .. n |->
                  [kind |-> "discovery", port |-> DiscoveryPort, dst |-> 0,
                   owner |-> 0, m |-> 0]]
  /\ \/ pc = "mark" /\ devs = plugged
     \/ pc = "idle" /\ devs = {}
  /\ cur = 0 /\ k = 0 /\ ips = {} /\ made = FALSE
  /\ stop = FALSE /\ main = "accept" /\ refused = {}

-----------------------------------------------------------------------------
(* Devices and signals.                                                      *)

envOnly == <<recorded, lost, slots, ls, pc, devs, cur, k, ips, made, stop, main, refused>>

(* adb lists a serial that it did not list before: a device, or what verify_guest_adb *)
(* has connected and `adb disconnect' has failed to remove.                            *)
Plug(d) ==
  /\ changes < MaxChanges /\ d \notin plugged
  /\ plugged' = plugged \cup {d} /\ changes' = changes + 1
  /\ UNCHANGED <<fwds, envOnly>>

(* adb drops the forwards of a device that disappears. *)
Unplug(d) ==
  /\ changes < MaxChanges /\ d \in plugged
  /\ plugged' = plugged \ {d} /\ changes' = changes + 1
  /\ fwds' = {f \in fwds : f.serial # d}
  /\ UNCHANGED envOnly

(* SIGINT, SIGTERM: on_signal. *)
Signal ==
  /\ ~stop /\ stop' = TRUE
  /\ UNCHANGED <<plugged, changes, agentVars, main, refused>>

-----------------------------------------------------------------------------
(* The rescan thread.                                                        *)

world == <<plugged, changes, stop, main, refused>>
setupOnly == <<world, slots, ls, devs, cur, ips, made>>

(* Faulty variant of Scan: the thread does not look at g_stop before a round. *)
ScanIgnoringStop ==
  /\ pc = "idle"
  /\ pc' = "mark" /\ devs' = plugged
  /\ UNCHANGED <<world, fwds, recorded, lost, slots, ls, cur, k, ips, made>>

(* rescan_thread: a new round, unless the agent is to stop; list_devices runs  *)
(* without the lock, and a failing `adb devices` ends the round.               *)
Scan ==
  /\ pc = "idle" /\ ~stop
  /\ pc' = "mark" /\ devs' = plugged
  /\ UNCHANGED <<world, fwds, recorded, lost, slots, ls, cur, k, ips, made>>

RescanEnds ==
  /\ pc = "idle" /\ stop /\ pc' = "exited"
  /\ UNCHANGED <<world, fwds, recorded, lost, slots, ls, devs, cur, k, ips, made>>

(* Faulty variant of Mark: a slot that was present once stays so. *)
MarkKeepsPresent ==
  /\ pc = "mark" /\ pc' = "refresh"
  /\ slots' = [i \in DOMAIN slots |->
       [slots[i] EXCEPT !.present = @ \/ slots[i].serial \in devs]]
  /\ UNCHANGED <<world, fwds, recorded, lost, ls, devs, cur, k, ips, made>>

(* Phase A, under the lock: who is present, who has come back. *)
Mark ==
  /\ pc = "mark" /\ pc' = "refresh"
  /\ slots' = [i \in DOMAIN slots |->
       LET seen == slots[i].serial \in devs IN
       [slots[i] EXCEPT !.back = @ \/ (seen /\ ~slots[i].present /\ slots[i].ready),
                        !.present = seen]]
  /\ UNCHANGED <<world, fwds, recorded, lost, ls, devs, cur, k, ips, made>>

(* Phase B1: the next slot that has come back is refreshed. *)
PickRefresh ==
  /\ pc = "refresh"
  /\ LET back == {i \in DOMAIN slots : slots[i].back} IN
     IF back = {}
       THEN pc' = "alloc" /\ UNCHANGED <<slots, cur>>
       ELSE \E i \in back :
              /\ \A j \in back : i <= j
              /\ slots' = [slots EXCEPT ![i].back = FALSE]
              /\ cur' = i /\ pc' = "forward"
  /\ UNCHANGED <<world, fwds, recorded, lost, ls, devs, k, ips, made>>

(* Faulty variant of Alloc: a full table gives an absent device's slot away. *)
AllocReusing ==
  /\ pc = "alloc"
  /\ \E d \in devs :
       /\ devs' = devs \ {d}
       /\ IF HasSlot(d) THEN UNCHANGED <<slots, cur, pc>>
          ELSE IF Len(slots) < MaxSlots
            THEN /\ slots' = Append(slots, NewSlot(d, Len(slots) + 1))
                 /\ cur' = Len(slots) + 1 /\ pc' = "forward"
          ELSE \/ \E i \in DOMAIN slots :
                    /\ ~slots[i].present
                    /\ slots' = [slots EXCEPT ![i] = NewSlot(d, i)]
                    /\ cur' = i /\ pc' = "forward"
               \/ UNCHANGED <<slots, cur, pc>>
  /\ UNCHANGED <<world, fwds, recorded, lost, ls, k, ips, made>>

(* Phase B2: a listed device that has no slot gets the next one, if there is one. *)
Alloc ==
  /\ pc = "alloc"
  /\ \E d \in devs :
       /\ devs' = devs \ {d}
       /\ IF HasSlot(d) \/ Len(slots) >= MaxSlots
            THEN UNCHANGED <<slots, cur, pc>>
            ELSE /\ slots' = Append(slots, NewSlot(d, Len(slots) + 1))
                 /\ cur' = Len(slots) + 1 /\ pc' = "forward"
  /\ UNCHANGED <<world, fwds, recorded, lost, ls, k, ips, made>>

ScanDone ==
  /\ pc = "alloc" /\ devs = {} /\ pc' = "idle"
  /\ UNCHANGED <<world, fwds, recorded, lost, slots, ls, devs, cur, k, ips, made>>

(* Where a setup or a refresh goes on after a failure, and a refresh after its   *)
(* success: a slot in its first setup is not ready.                              *)
AfterSetup == IF slots[cur].ready THEN "refresh" ELSE "alloc"

(* `adb forward': adb (re)binds the local port.  `table` is adb's forward table before *)
(* the call.                                                                          *)
AdbInstalls(table, loc, dev) ==
  LET d == slots[cur].serial IN
  /\ d \in plugged
  /\ fwds' = {f \in table : f.loc # loc} \cup {[serial |-> d, loc |-> loc, dev |-> dev]}

(* adb_forward: the command succeeds, and the pair is kept for the exit once, while   *)
(* there is room.                                                                     *)
AdbForward(table, loc, dev) ==
  LET pair == <<slots[cur].serial, loc>> IN
  /\ AdbInstalls(table, loc, dev)
  /\ recorded' = IF Cardinality(recorded) < MaxFwds THEN recorded \cup {pair} ELSE recorded
  /\ lost' = lost \ {pair}

(* The command is killed, by the timeout of run_cmd or by the terminal's SIGINT, which *)
(* reaches the child as well, when adb's server has already done what it was asked:    *)
(* adb_forward fails without keeping the pair.                                         *)
AdbForwardKilled(table, loc, dev) ==
  /\ AdbMayFail
  /\ AdbInstalls(table, loc, dev)
  /\ lost' = lost \cup ({<<slots[cur].serial, loc>>} \ recorded)
  /\ UNCHANGED recorded

AdbFails == AdbMayFail \/ slots[cur].serial \notin plugged

(* establish_forwards, the adb port of a wireless device: nothing to forward. *)
RelayDirectly ==
  /\ pc = "forward" /\ slots[cur].serial \in Wireless
  /\ IF slots[cur].serial \in Malformed
       THEN pc' = AfterSetup /\ UNCHANGED k
       ELSE pc' = "stream" /\ k' = 0
  /\ UNCHANGED <<setupOnly, fwds, recorded, lost>>

(* establish_forwards, the adb port of any other: forwarded and verified. *)
ForwardAdb ==
  /\ pc = "forward" /\ slots[cur].serial \notin Wireless
  /\ pc' = "stream" /\ k' = 0
  /\ AdbForward(fwds, slots[cur].adb + LocOffset, TcpipPort)
  /\ UNCHANGED setupOnly

(* The forward fails, or works but the guest's adbd does not listen on TCP, or is    *)
(* killed.                                                                           *)
ForwardAdbFails ==
  /\ pc = "forward" /\ slots[cur].serial \notin Wireless
  /\ pc' = "tcpip"
  /\ \/ AdbFails /\ UNCHANGED <<fwds, recorded, lost>>
     \/ AdbForward(fwds, slots[cur].adb + LocOffset, TcpipPort)
     \/ AdbForwardKilled(fwds, slots[cur].adb + LocOffset, TcpipPort)
  /\ UNCHANGED <<setupOnly, k>>

(* `adb tcpip` restarts adbd, which costs the device its forwards, or fails, which is  *)
(* not looked at; then the second and last try, which may fail like the first.         *)
Tcpip ==
  /\ pc = "tcpip"
  /\ \E table \in {fwds, {f \in fwds : f.serial # slots[cur].serial}} :
       /\ table = fwds => AdbFails \/ \A f \in fwds : f.serial # slots[cur].serial
       /\ \/ /\ AdbForward(table, slots[cur].adb + LocOffset, TcpipPort)
             /\ pc' = "stream" /\ k' = 0
          \/ /\ AdbForward(table, slots[cur].adb + LocOffset, TcpipPort)
             /\ AdbMayFail /\ pc' = AfterSetup /\ UNCHANGED k
          \/ /\ AdbForwardKilled(table, slots[cur].adb + LocOffset, TcpipPort)
             /\ pc' = AfterSetup /\ UNCHANGED k
          \/ AdbFails /\ pc' = AfterSetup /\ fwds' = table /\ UNCHANGED <<recorded, lost, k>>
  /\ UNCHANGED setupOnly

(* The stream forwards; the first that fails gives up streaming for the slot. *)
ForwardStream ==
  /\ pc = "stream" /\ slots[cur].stream # 0 /\ k < StreamCount
  /\ AdbForward(fwds, slots[cur].stream + k + LocOffset, StreamBase + k)
  /\ k' = k + 1
  /\ UNCHANGED <<setupOnly, pc>>

ForwardStreamFails ==
  /\ pc = "stream" /\ slots[cur].stream # 0 /\ k < StreamCount
  /\ \/ AdbFails /\ UNCHANGED <<fwds, recorded, lost>>
     \/ AdbForwardKilled(fwds, slots[cur].stream + k + LocOffset, StreamBase + k)
  /\ slots' = [slots EXCEPT ![cur].stream = 0]
  /\ UNCHANGED <<world, ls, pc, devs, cur, k, ips, made>>

(* establish_forwards returns 0: a refresh is over, a new slot binds its ports. *)
Forwarded ==
  /\ pc = "stream" /\ (slots[cur].stream = 0 \/ k = StreamCount)
  /\ IF slots[cur].ready
       THEN pc' = "refresh" /\ UNCHANGED <<ips, made, k>>
       ELSE pc' = "bindAdb" /\ ips' = Ips /\ made' = FALSE /\ k' = 0
  /\ UNCHANGED <<world, fwds, recorded, lost, slots, ls, devs, cur>>

(* add_listener, one address: bound and appended under the lock, or closed again  *)
(* when the table is full, or not bound because the port is taken.                *)
AddListener(kind, port, dst, m) ==
  \E ip \in ips :
    /\ ips' = ips \ {ip}
    /\ IF Len(ls) < MaxListeners
         THEN \/ /\ ls' = Append(ls, [kind |-> kind, port |-> port, dst |-> dst,
                                       owner |-> cur, m |-> m])
                 /\ made' = TRUE
              \/ BindMayFail /\ UNCHANGED <<ls, made>>
         ELSE UNCHANGED <<ls, made>>

BindAdb ==
  /\ pc = "bindAdb"
  /\ IF slots[cur].serial \in Wireless
       THEN AddListener("direct", slots[cur].adb, 0, 0)
       ELSE AddListener("adb", slots[cur].adb, slots[cur].adb + LocOffset, 0)
  /\ UNCHANGED <<world, fwds, recorded, lost, slots, pc, devs, cur, k>>

(* Faulty variant of AdbBound: the slot goes on without its adb port. *)
AdbBoundUnchecked ==
  /\ pc = "bindAdb" /\ ips = {}
  /\ pc' = IF slots[cur].stream # 0 THEN "bindStream" ELSE "ready"
  /\ ips' = Ips
  /\ UNCHANGED <<world, fwds, recorded, lost, slots, ls, devs, cur, k, made>>

(* bind_listeners gives up without an adb port; the slot stays not ready. *)
AdbBound ==
  /\ pc = "bindAdb" /\ ips = {}
  /\ pc' = IF ~made THEN "alloc" ELSE IF slots[cur].stream # 0 THEN "bindStream" ELSE "ready"
  /\ ips' = Ips
  /\ UNCHANGED <<world, fwds, recorded, lost, slots, ls, devs, cur, k, made>>

(* The stream ports; what add_listener returns for them is not looked at. *)
BindStream ==
  /\ pc = "bindStream" /\ k < StreamCount
  /\ AddListener("stream", slots[cur].stream + k, slots[cur].stream + k + LocOffset, k)
  /\ UNCHANGED <<world, fwds, recorded, lost, slots, pc, devs, cur, k>>

StreamBound ==
  /\ pc = "bindStream" /\ ips = {} /\ k < StreamCount
  /\ k' = k + 1 /\ ips' = Ips
  /\ pc' = IF k + 1 = StreamCount THEN "ready" ELSE pc
  /\ UNCHANGED <<world, fwds, recorded, lost, slots, ls, devs, cur, made>>

Ready ==
  /\ pc = "ready" /\ pc' = "alloc"
  /\ slots' = [slots EXCEPT ![cur].ready = TRUE]
  /\ UNCHANGED <<world, fwds, recorded, lost, ls, devs, cur, k, ips, made>>

RescanNext ==
  \/ Scan \/ RescanEnds \/ Mark \/ PickRefresh \/ Alloc \/ ScanDone
  \/ RelayDirectly \/ ForwardAdb \/ ForwardAdbFails \/ Tcpip \/ ForwardStream
  \/ ForwardStreamFails \/ Forwarded
  \/ BindAdb \/ AdbBound \/ BindStream \/ StreamBound \/ Ready

-----------------------------------------------------------------------------
(* Faulty variant of Cleanup: the rescan thread is not joined first. *)
CleanupUnjoined ==
  LET mine == {f \in fwds : <<f.serial, f.loc>> \in recorded} IN
  /\ main = "accept" /\ stop
  /\ main' = "exited"
  /\ refused' \in SUBSET mine
  /\ fwds' = (fwds \ mine) \cup refused'
  /\ recorded' = {}
  /\ UNCHANGED <<plugged, changes, lost, slots, ls, pc, devs, cur, k, ips, made, stop>>

(* The end of main: the accept loop has seen g_stop, the rescan thread is joined, *)
(* and every recorded forward removed as far as adb lets it.                      *)
Cleanup ==
  LET mine == {f \in fwds : <<f.serial, f.loc>> \in recorded} IN
  /\ main = "accept" /\ stop /\ pc = "exited"
  /\ main' = "exited"
  /\ refused' \in SUBSET mine
  /\ fwds' = (fwds \ mine) \cup refused'
  /\ recorded' = {}
  /\ UNCHANGED <<plugged, changes, lost, slots, ls, pc, devs, cur, k, ips, made, stop>>

Exited == main = "exited" /\ UNCHANGED vars

Next ==
  \/ \E d \in Serials : Plug(d) \/ Unplug(d)
  \/ Signal \/ RescanNext \/ Cleanup \/ Exited

(* The rescan thread goes on and main ends after a signal; nobody owes the agent *)
(* a device, or a signal.                                                        *)
Spec == Init /\ [][Next]_vars /\ WF_vars(RescanNext) /\ WF_vars(Cleanup)

-----------------------------------------------------------------------------
(* Slots are never shared: a serial has at most one, whatever order devices come, *)
(* go and return in (rescan_once, find_slot).                                      *)
OneSlotPerSerial ==
  \A i, j \in DOMAIN slots : slots[i].serial = slots[j].serial => i = j

(* A slot never changes its owner or its ports except that it may stop streaming,  *)
(* and the listener table only grows: the accept loop reads entries below its       *)
(* snapshot without the lock, and desktops keep using ports they were told.         *)
TablesOnlyGrow ==
  [][ /\ \A i \in DOMAIN slots :
           /\ i \in DOMAIN slots'
           /\ slots'[i].serial = slots[i].serial /\ slots'[i].adb = slots[i].adb
           /\ slots'[i].stream \in {slots[i].stream, 0}
           /\ slots[i].ready => slots'[i].ready
      /\ \A i \in DOMAIN ls : i \in DOMAIN ls' /\ ls'[i] = ls[i] ]_vars

(* A connection accepted on a public port can only reach the device that owns the   *)
(* port's slot, and on it the port meant: no forward another slot has installed     *)
(* answers on the local port this listener relays to.                                *)
RoutesToOwner ==
  \A n \in DOMAIN ls, f \in fwds :
    ls[n].kind \in {"adb", "stream"} /\ f.loc = ls[n].dst =>
      /\ f.serial = slots[ls[n].owner].serial
      /\ f.dev = IF ls[n].kind = "adb" THEN TcpipPort ELSE StreamBase + ls[n].m

(* The invariant of the agent's tables: within their capacities, and no port leads     *)
(* astray, whatever devices adb lists, its own leftovers (a 127.0.0.1 connection that    *)
(* `adb disconnect' did not remove) included.                                             *)
RoutingInv == TypeOK /\ RoutesToOwner

(* Whoever discovery lists can be connected to: its adb port is bound. *)
ListedIsBound ==
  \A i \in DOMAIN slots :
    Listed(i) => \E n \in DOMAIN ls :
                   /\ ls[n].kind \in {"adb", "direct"}
                   /\ ls[n].owner = i /\ ls[n].port = slots[i].adb

(* When the agent has exited, no forward of it is left in adb, even if the signal came *)
(* in the middle of a rescan, except for two kinds: those adb refused to remove, and    *)
(* those that a killed command installed, were not in g_fwds already, and that no later *)
(* command entered (adb_forward, cleanup_forwards).                                     *)
CleanExit ==
  main = "exited" => \A f \in fwds : f \in refused \/ <<f.serial, f.loc>> \in lost

(* Liveness.  A device that is pulled out for good is hidden, unless the agent stops. *)
GoneIsHidden ==
  \A d \in Serials :
    <>[](d \notin plugged) => <>[](stop \/ d \notin ListedSerials)

(* A device that has been set up once and is plugged in for good is listed, however  *)
(* often it was away and whatever fails in refreshing it.                           *)
BackIsListed ==
  \A d \in Serials :
    <>[](d \in plugged /\ \E i \in DOMAIN slots : slots[i].serial = d /\ slots[i].ready)
      => <>[](stop \/ d \in ListedSerials)

(* Discovery follows the devices: who is gone for good is hidden, who is back for good *)
(* is listed (rescan_once's phase A, discovery_write).                                  *)
ListingFollowsDevices == GoneIsHidden /\ BackIsListed

(* A signal ends the agent, however far a rescan has come. *)
StopExits == stop ~> main = "exited"

=============================================================================
