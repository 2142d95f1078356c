---------------------------- MODULE SessionTable ----------------------------
(***************************************************************************)
(* The sessions of one desktop application and the stream ports they take   *)
(* on the devices.  session_new (GTK, UI thread) gives a session of a device*)
(* registered as behind an rc-agent the lowest stream index k that no live  *)
(* session of the same serial has, and one of any other wireless serial the *)
(* lowest LAN port that no live session at all has; with no index left it   *)
(* goes through adb.  A device of an agent that the chooser has not         *)
(* registered (its row was clicked before the probe of its host answered,   *)
(* see Chooser) is taken for a plain wireless one, and its LAN port is then *)
(* a port of the agent's machine, where some slot may be relayed.  The      *)
(* start thread then deploys a server that binds the port on the device,    *)
(* connects its channels to whatever server listens where the port leads,   *)
(* presents its token on each, and falls back to the adb tunnel when no     *)
(* device_meta comes.  A server takes the connections one by one and closes *)
(* those with another token.  session_teardown ends a session and frees its *)
(* index.                                                                   *)
(*                                                                          *)
(* The server is a process of its own on the device.  The desktop ends the  *)
(* `adb shell' that started it and closes the sockets; the server's own end *)
(* is a step of the device, some time later.                                *)
(*                                                                          *)
(* Ports on the device are counted from RC_LAN_BASE_PORT, public ports of   *)
(* the agent from the base of its first slot.                               *)
(***************************************************************************)
EXTENDS Integers, Sequences, FiniteSets, SequencesExt

CONSTANTS
  AgentDevs,    \* devices behind the agent, in the order of its slots
  WifiDevs,     \* wireless devices, reached directly
  StreamCount,  \* STREAM_COUNT: stream ports for each device of the agent
  Channels,     \* connections of a session: video, and audio and control if asked for
  MaxSessions   \* bound: sessions opened in one behaviour

ASSUME SessionAssumptions ==
  /\ AgentDevs \in Seq(Range(AgentDevs)) /\ IsInjective(AgentDevs)
  /\ Range(AgentDevs) \cap WifiDevs = {}
  /\ StreamCount \in Nat \ {0} /\ Channels \in Nat \ {0} /\ MaxSessions \in Nat

VARIABLES
  sessions,  \* app->sessions, the oldest first
  servers    \* the servers on the devices: [dev, port, token, state]

vars == <<sessions, servers>>

Devs == Range(AgentDevs) \cup WifiDevs
Ids == 1 .. MaxSessions
Slot(dev) == CHOOSE i \in DOMAIN AgentDevs : AgentDevs[i] = dev

(* The stream path on_row_activated chooses for a serial: Chooser's Path.     *)
Paths(dev) == IF dev \in WifiDevs THEN {"lan"} ELSE {"agent", "lan", "tunnel"}

(* `path' is the one the session was opened with, `lan' is lan_port and `k'   *)
(* is stream_k; -1: none.  `links' are its connections, video first: each to  *)
(* the server with the token `to', with the session's own token under way,    *)
(* accepted, or refused and closed.  `peer' is the token of the server whose   *)
(* device_meta has come, 0: none.                                             *)
Links == [to : Ids, st : {"sent", "taken", "closed"}]
Sessions ==
  [dev : Devs, path : {"agent", "lan", "tunnel"}, lan : -1 .. MaxSessions,
   k : -1 .. StreamCount - 1, links : Seq(Links), peer : 0 .. MaxSessions,
   phase : {"probe", "run", "connect", "lan", "tunnel", "failed"}, torn : BOOLEAN]
Servers ==
  [dev : Devs, port : 0 .. MaxSessions + StreamCount, token : Ids,
   state : {"starting", "accepting", "serving"}]

TypeOK ==
  /\ sessions \in Seq(Sessions) /\ Len(sessions) <= MaxSessions
  /\ \A i \in DOMAIN sessions : Len(sessions[i].links) <= Channels
  /\ servers \subseteq Servers

Init == sessions = <<>> /\ servers = {}

(* Faulty variant of Live: torn sessions count as well. *)
LiveOrTorn == DOMAIN sessions

(* The sessions that count for the allocation: those not torn down. *)
Live == {i \in DOMAIN sessions : ~sessions[i].torn}
UsesLan(i) == sessions[i].lan >= 0 \/ sessions[i].k >= 0

-----------------------------------------------------------------------------
(* The UI thread.                                                            *)

(* alloc_lan_port: the lowest port that no live session has.                  *)
alloc_lan_port ==
  CHOOSE p \in 0 .. MaxSessions :
    /\ \A i \in Live : sessions[i].lan # p
    /\ \A q \in 0 .. p - 1 : \E i \in Live : sessions[i].lan = q

FreeKs(dev) ==
  {k \in 0 .. StreamCount - 1 : \A i \in Live : sessions[i].dev = dev => sessions[i].k # k}

(* Faulty variant of alloc_stream_k: the number of live sessions of the device. *)
alloc_stream_k_counting(dev) ==
  LET n == Cardinality({i \in Live : sessions[i].dev = dev /\ sessions[i].k >= 0})
  IN  IF n < StreamCount THEN n ELSE -1

(* alloc_stream_k: the lowest of the device's indexes that no live session of *)
(* the same serial has, or -1.                                                *)
alloc_stream_k(dev) ==
  LET free == FreeKs(dev)
  IN  IF free = {} THEN -1 ELSE CHOOSE k \in free : \A j \in free : k <= j

(* session_new: the transport and its ports.  A LAN session probes its port   *)
(* first (connect == listen), one through the agent's range does not.         *)
session_new(dev, path) ==
  LET k == IF path = "agent" THEN alloc_stream_k(dev) ELSE -1
      lan == IF path = "lan" THEN alloc_lan_port ELSE -1
      phase == IF lan >= 0 THEN "probe" ELSE IF k >= 0 THEN "run" ELSE "tunnel"
  IN  /\ Len(sessions) < MaxSessions
      /\ sessions' = Append(sessions, [dev |-> dev, path |-> path, lan |-> lan, k |-> k,
                                       links |-> <<>>, peer |-> 0, phase |-> phase, torn |-> FALSE])
      /\ UNCHANGED servers

(* session_teardown, also from session_free: marks the session, waits for the *)
(* start thread, stops and destroys the client.                               *)
session_teardown(i) ==
  /\ i \in Live
  /\ sessions' = [sessions EXCEPT ![i].torn = TRUE, ![i].phase = "failed",
                                  ![i].links = <<>>, ![i].peer = 0]
  /\ UNCHANGED servers

-----------------------------------------------------------------------------
(* The start thread of session i.                                            *)

(* The port that the server of a session binds on its device.                 *)
DevicePort(i) == IF sessions[i].k >= 0 THEN sessions[i].k ELSE sessions[i].lan

(* The public port of the agent that a session's connection goes to: the one  *)
(* session_new computes from the slot's stream_base, or its LAN port.         *)
PublicPort(i) ==
  IF sessions[i].k >= 0 THEN (Slot(sessions[i].dev) - 1) * StreamCount + sessions[i].k
                        ELSE sessions[i].lan

(* Where the session's connection arrives: a wireless session goes straight to *)
(* the device; one to the agent's machine is forwarded to the device of the   *)
(* slot that has the public port.                                             *)
Target(i) ==
  IF sessions[i].dev \in WifiDevs
    THEN [dev |-> sessions[i].dev, port |-> sessions[i].lan]
    ELSE LET slot == PublicPort(i) \div StreamCount + 1
         IN  [dev |-> IF slot \in DOMAIN AgentDevs THEN AgentDevs[slot] ELSE "nobody",
              port |-> PublicPort(i) % StreamCount]

At(t, states) == {s \in servers : s.dev = t.dev /\ s.port = t.port /\ s.state \in states}

Enter(i, phase, peer) ==
  sessions' = [sessions EXCEPT ![i].phase = phase, ![i].peer = peer]

(* deploy_tcp's probe: a port that answers before the deployment belongs to   *)
(* somebody else (an old server, a relay of the agent, a service unknown to   *)
(* the model), and the session takes the tunnel.  A listener that does not    *)
(* answer in time is missed.                                                  *)
Probe(i) ==
  /\ i \in Live /\ sessions[i].phase = "probe"
  /\ Enter(i, "run", 0) \/ Enter(i, "tunnel", 0)
  /\ UNCHANGED servers

(* rc_adb_run_server with a fresh token; a failure of adb is the session's.   *)
RunServer(i) ==
  /\ i \in Live /\ sessions[i].phase = "run"
  /\ \/ /\ Enter(i, "connect", 0)
        /\ servers' = servers \cup {[dev |-> sessions[i].dev, port |-> DevicePort(i),
                                     token |-> i, state |-> "starting"]}
     \/ Enter(i, "failed", 0) /\ UNCHANGED servers

(* connect_retry: the session's next channel reaches whoever listens there,   *)
(* and sends its token.  A server that serves still listens, but takes nobody *)
(* any more.                                                                  *)
Connect(i) ==
  /\ i \in Live /\ sessions[i].phase = "connect" /\ Len(sessions[i].links) < Channels
  /\ \E s \in At(Target(i), {"accepting", "serving"}) :
       sessions' = [sessions EXCEPT ![i].links = Append(@, [to |-> s.token, st |-> "sent"])]
  /\ UNCHANGED servers

(* read_meta_timeout: with every channel connected, device_meta comes over    *)
(* the first, from the server that has accepted it and all it waits for.      *)
ReadMeta(i) ==
  /\ i \in Live /\ sessions[i].phase = "connect" /\ Len(sessions[i].links) = Channels
  /\ sessions[i].links[1].st = "taken"
  /\ \E s \in servers :
       /\ s.token = sessions[i].links[1].to /\ s.state = "serving"
       /\ Enter(i, "lan", s.token)
  /\ UNCHANGED servers

(* No connection in time, the adb process dead, or no device_meta (the server *)
(* has closed the connection, or serves somebody else): rc_server_teardown    *)
(* closes the channels, and the session takes the adb tunnel.                 *)
FallBack(i) ==
  /\ i \in Live /\ sessions[i].phase = "connect"
  /\ sessions' = [sessions EXCEPT ![i].phase = "tunnel", ![i].links = <<>>]
  /\ UNCHANGED servers

-----------------------------------------------------------------------------
(* The servers on the devices.                                               *)

(* new ServerSocket(port): binds, or meets a BindException and ends.          *)
Bind(s) ==
  /\ s.state = "starting"
  /\ IF At([dev |-> s.dev, port |-> s.port], {"accepting", "serving"}) = {}
       THEN servers' = (servers \ {s}) \cup {[s EXCEPT !.state = "accepting"]}
       ELSE servers' = servers \ {s}
  /\ UNCHANGED sessions

(* Faulty variant of Authed: the token is not compared. *)
AuthedAnyone(s, i) == TRUE

(* Is the token of a connection from session i the server's own?              *)
Authed(s, i) == s.token = i

(* The connections that a server has accepted.                                *)
Taken(s) ==
  {l \in (DOMAIN sessions) \X (1 .. Channels) :
     /\ l[2] \in DOMAIN sessions[l[1]].links
     /\ sessions[l[1]].links[l[2]] = [to |-> s.token, st |-> "taken"]}

(* acceptAuthed: the server takes the next connection of session i, reads the *)
(* token, and accepts the connection or closes it and goes on waiting.  With  *)
(* all its channels it sends device_meta and serves.  (What a connection that *)
(* its session has closed meanwhile still holds is left out: only the         *)
(* session's own server would accept it, and nobody reads its device_meta.)   *)
acceptAuthed(s, i) ==
  /\ s.state = "accepting"
  /\ \E c \in DOMAIN sessions[i].links :
       /\ sessions[i].links[c] = [to |-> s.token, st |-> "sent"]
       /\ \A b \in 1 .. c - 1 : sessions[i].links[b] # [to |-> s.token, st |-> "sent"]
       /\ sessions' = [sessions EXCEPT
                          ![i].links[c].st = IF Authed(s, i) THEN "taken" ELSE "closed"]
  /\ servers' = IF Cardinality(Taken(s)') = Channels
                  THEN (servers \ {s}) \cup {[s EXCEPT !.state = "serving"]} ELSE servers

(* The end of a server whose session has closed its sockets and ended its     *)
(* adb shell, at a time of its own; or a crash, which its session sees as a   *)
(* lost stream.                                                               *)
Exit(s) ==
  /\ servers' = servers \ {s}
  /\ sessions' = [i \in DOMAIN sessions |->
                    IF sessions[i].peer = s.token
                      THEN [sessions[i] EXCEPT !.phase = "failed", !.links = <<>>, !.peer = 0]
                      ELSE sessions[i]]

Next ==
  \/ \E dev \in Devs : \E path \in Paths(dev) : session_new(dev, path)
  \/ \E i \in DOMAIN sessions :
       session_teardown(i) \/ Probe(i) \/ RunServer(i) \/ Connect(i) \/ ReadMeta(i)
         \/ FallBack(i)
  \/ \E s \in servers : Bind(s) \/ Exit(s) \/ \E i \in DOMAIN sessions : acceptAuthed(s, i)

Spec == Init /\ [][Next]_vars

-----------------------------------------------------------------------------
(* A session may connect to a server that is not its own: its port may have   *)
(* been another session's a moment ago and that one's server may still accept *)
(* there, or the port may be relayed to another device altogether; and its    *)
(* channels may reach different servers, one after the other.  But once it    *)
(* streams over the LAN, every channel of it has been accepted by the server  *)
(* that it deployed itself (deploy_tcp, acceptAuthed).                        *)
OwnServerOnly ==
  \A i \in Live : sessions[i].phase = "lan" =>
    /\ sessions[i].peer = i
    /\ \A c \in 1 .. Channels : sessions[i].links[c] = [to |-> i, st |-> "taken"]

(* No two live sessions of a device that take their ports from the same pool  *)
(* have the same stream port on it (alloc_lan_port, alloc_stream_k), whatever *)
(* was opened and closed before.                                              *)
PortsDistinct ==
  \A i, j \in Live :
    /\ i # j /\ sessions[i].dev = sessions[j].dev /\ UsesLan(i) /\ UsesLan(j)
    /\ sessions[i].path = sessions[j].path
    => DevicePort(i) # DevicePort(j)

(* A session through the agent connects to the port that the agent forwards   *)
(* to its own device and to the port its own server binds, and not into the   *)
(* range of the next slot (session_new, docs/AGENT_PROTOCOL.md section 2.2).  *)
RoutesHome ==
  \A i \in Live :
    sessions[i].k >= 0 => Target(i) = [dev |-> sessions[i].dev, port |-> DevicePort(i)]

(* The invariant of app->sessions and its ports.                              *)
PortsInv == TypeOK /\ PortsDistinct /\ RoutesHome

(* A registered device of the agent is sent to the adb tunnel only while as   *)
(* many of its sessions are open as it has stream ports; closed ones, which   *)
(* stay in app->sessions, take none away.                                     *)
TunnelOnlyWhenFull ==
  [][\A dev \in Range(AgentDevs) :
       (/\ Len(sessions') > Len(sessions)
        /\ Last(sessions').dev = dev /\ Last(sessions').path = "agent"
        /\ Last(sessions').k = -1)
       => Cardinality({i \in DOMAIN sessions :
                         /\ sessions[i].dev = dev /\ sessions[i].k >= 0
                         /\ ~sessions[i].torn}) = StreamCount]_vars
=============================================================================
