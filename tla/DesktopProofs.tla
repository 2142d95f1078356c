--------------------------- MODULE DesktopProofs ---------------------------
(***************************************************************************)
(* Proofs about SessionTable, Chooser and Desktop.                          *)
(*                                                                          *)
(* SessionTable, for any devices, any number of stream ports and any number *)
(* of sessions: the ports of live sessions are distinct, a session through  *)
(* the agent reaches its own device, a session streams from the server it   *)
(* deployed, and the tunnel is taken only for want of ports.                *)
(*                                                                          *)
(* Chooser, for any windows, hosts and devices: labels, reports and options *)
(* are right.                                                               *)
(*                                                                          *)
(* Desktop: the two together implement SessionTable, because the registry   *)
(* holds devices of agents only; and because it forgets none of them, the   *)
(* ports of two live sessions meet in one case only.                        *)
(***************************************************************************)
EXTENDS Desktop, FiniteSetTheorems, WellFoundedInduction, TLAPS

-----------------------------------------------------------------------------
(* SessionTable.                                                              *)

(* What session_new stores hangs together, and stays so: a stream index only  *)
(* for a device of the agent, a LAN port only on the "lan" path, and a start  *)
(* that is under way over the network has one of the two.                     *)
Coherent(r) ==
  /\ r.k >= 0 => r.path = "agent" /\ r.dev \in Range(AgentDevs) /\ r.lan = -1
  /\ r.lan >= 0 => r.path = "lan"
  /\ r.phase \in {"probe", "run", "connect", "lan"} => r.lan >= 0 \/ r.k >= 0

AllCoherent == \A i \in DOMAIN sessions : Coherent(sessions[i])

(* Every channel of session i has been accepted by the server with its token. *)
AllTaken(i) ==
  \A c \in 1 .. Channels : /\ c \in DOMAIN sessions[i].links
                           /\ sessions[i].links[c] = [to |-> i, st |-> "taken"]

(* A server accepts connections of its own session only. *)
OwnTaken ==
  \A i \in DOMAIN sessions : \A c \in DOMAIN sessions[i].links :
    sessions[i].links[c].st = "taken" => sessions[i].links[c].to = i

(* A server has been deployed by a session, which deploys no other. *)
Deployed ==
  \A s \in servers : s.token \in DOMAIN sessions /\ sessions[s.token].phase \notin {"probe", "run"}

(* A server that serves has all channels of its session, unless that has given up. *)
ServesAll ==
  \A s \in servers :
    s.state = "serving" /\ sessions[s.token].phase = "connect" => AllTaken(s.token)

(* A session that streams over the LAN has its own server's device_meta. *)
LanOwn ==
  \A i \in DOMAIN sessions : sessions[i].phase = "lan" => sessions[i].peer = i /\ AllTaken(i)

Handshake == OwnTaken /\ Deployed /\ ServesAll /\ LanOwn

IInv == TypeOK /\ AllCoherent /\ PortsDistinct /\ Handshake

-----------------------------------------------------------------------------
(* The constants are numbers. *)
LEMMA Numbers ==
  /\ MaxSessions \in Nat /\ StreamCount \in Nat /\ StreamCount >= 1 /\ 0 \in 0 .. MaxSessions
  /\ Channels \in Nat /\ Channels >= 1
  BY SessionAssumptions

(* A set of numbers that is not empty has a least one. *)
LEMMA LeastNumber ==
  ASSUME NEW T, T \subseteq Nat, T # {}
  PROVE  \E x \in T : \A y \in T : x <= y
  <1>1. PICK x \in T : \A y \in T : ~ (<<y, x>> \in OpToRel(<, Nat))
    BY NatLessThanWellFounded, WFMin, Zenon
  <1>2. \A y \in T : ~(y < x)
    BY <1>1, Zenon DEF OpToRel
  <1>3. \A y \in T : x <= y
    BY ONLY <1>2, T \subseteq Nat, x \in T
  <1>4. QED
    BY ONLY <1>3, x \in T

(* There are fewer live sessions than LAN ports, so one port is free. *)
LEMMA FreePort ==
  ASSUME TypeOK, Len(sessions) < MaxSessions
  PROVE  \E p \in 0 .. MaxSessions : \A i \in Live : sessions[i].lan # p
  <1> SUFFICES ASSUME \A p \in 0 .. MaxSessions : \E i \in Live : sessions[i].lan = p
               PROVE  FALSE
    OBVIOUS
  <1> DEFINE n == Len(sessions)
             f == [p \in 0 .. MaxSessions |-> CHOOSE i \in Live : sessions[i].lan = p]
  <1>1. n \in Nat /\ MaxSessions \in Nat /\ Live \subseteq 1 .. n
    BY SessionAssumptions DEF TypeOK, Live
  <1>2. \A p \in 0 .. MaxSessions : f[p] \in Live /\ sessions[f[p]].lan = p
    OBVIOUS
  <1>3. f \in [0 .. MaxSessions -> 1 .. n]
    BY ONLY <1>1, <1>2
  <1>4. /\ IsFiniteSet(0 .. MaxSessions) /\ Cardinality(0 .. MaxSessions) = MaxSessions + 1
        /\ IsFiniteSet(1 .. n) /\ Cardinality(1 .. n) = n
    <2>1. /\ IsFiniteSet(0 .. MaxSessions)
          /\ Cardinality(0 .. MaxSessions) = IF 0 > MaxSessions THEN 0 ELSE MaxSessions - 0 + 1
          /\ IsFiniteSet(1 .. n) /\ Cardinality(1 .. n) = IF 1 > n THEN 0 ELSE n - 1 + 1
      BY ONLY <1>1, FS_Interval, 0 \in Int, 1 \in Int, MaxSessions \in Int, n \in Int
    <2>2. QED
      BY ONLY <1>1, <2>1
  <1> HIDE DEF f, n
  <1>5. Cardinality(1 .. n) < Cardinality(0 .. MaxSessions)
    BY ONLY <1>1, <1>4, Len(sessions) < MaxSessions DEF n
  <1>6. PICK p, q \in 0 .. MaxSessions : p # q /\ f[p] = f[q]
    BY ONLY <1>3, <1>4, <1>5, FS_PigeonHole
  <1>7. QED
    BY ONLY <1>2, <1>6

(* alloc_lan_port. *)
LEMMA LanPort ==
  ASSUME TypeOK, Len(sessions) < MaxSessions
  PROVE  alloc_lan_port \in 0 .. MaxSessions /\ \A i \in Live : sessions[i].lan # alloc_lan_port
  <1> DEFINE T == {p \in 0 .. MaxSessions : \A i \in Live : sessions[i].lan # p}
  <1>0. T # {}
    <2>1. \E p \in 0 .. MaxSessions : \A i \in Live : sessions[i].lan # p
      BY FreePort
    <2>2. QED
      BY ONLY <2>1
  <1>1. MaxSessions \in Nat /\ T \subseteq Nat /\ T # {}
    BY <1>0, SessionAssumptions
  <1>2. PICK p \in T : \A q \in T : p <= q
    BY ONLY <1>1, LeastNumber
  <1>3. \A q \in 0 .. p - 1 : q \in 0 .. MaxSessions /\ ~(p <= q)
    BY ONLY <1>1, p \in 0 .. MaxSessions, p \in T
  <1>4. \A q \in 0 .. p - 1 : \E i \in Live : sessions[i].lan = q
    BY ONLY <1>2, <1>3
  <1>5. p \in 0 .. MaxSessions /\ \A i \in Live : sessions[i].lan # p
    OBVIOUS
  <1>6. QED
    BY ONLY <1>4, <1>5 DEF alloc_lan_port

(* alloc_stream_k. *)
LEMMA StreamK ==
  ASSUME NEW dev
  PROVE  \/ FreeKs(dev) = {} /\ alloc_stream_k(dev) = -1
         \/ alloc_stream_k(dev) \in FreeKs(dev)
  <1>1. FreeKs(dev) \subseteq Nat
    BY SessionAssumptions DEF FreeKs
  <1>2. CASE FreeKs(dev) = {}
    BY <1>2 DEF alloc_stream_k
  <1>3. CASE FreeKs(dev) # {}
    <2>1. \E k \in FreeKs(dev) : \A j \in FreeKs(dev) : k <= j
      BY ONLY <1>1, <1>3, LeastNumber
    <2>2. QED
      BY ONLY <1>3, <2>1 DEF alloc_stream_k
  <1>4. QED
    BY <1>2, <1>3

-----------------------------------------------------------------------------
OnNet == {"probe", "run", "connect", "lan"}

(* A step that opens no session: what session_new chose stays, and torn sessions stay    *)
(* torn.                                                                                 *)
Keeps ==
  /\ sessions' \in Seq(Sessions) /\ DOMAIN sessions' = DOMAIN sessions
  /\ Len(sessions') = Len(sessions)
  /\ \A i \in DOMAIN sessions :
       /\ sessions'[i].dev = sessions[i].dev /\ sessions'[i].path = sessions[i].path
       /\ sessions'[i].lan = sessions[i].lan /\ sessions'[i].k = sessions[i].k
       /\ sessions[i].torn => sessions'[i].torn
       /\ sessions'[i].phase \in OnNet => sessions[i].phase \in OnNet
       /\ Len(sessions'[i].links) <= Channels

(* The fields of a session. *)
LEMMA SessionFields ==
  ASSUME NEW r \in Sessions
  PROVE  /\ r.dev \in Devs /\ r.path \in {"agent", "lan", "tunnel"} /\ r.lan \in -1 .. MaxSessions
         /\ r.k \in -1 .. StreamCount - 1 /\ r.peer \in 0 .. MaxSessions
         /\ r.phase \in OnNet \cup {"tunnel", "failed"}
  BY DEF Sessions, OnNet

(* The connections of a session. *)
LEMMA SessionLinks ==
  ASSUME NEW r \in Sessions
  PROVE  /\ r.links \in Seq(Links) /\ Len(r.links) \in Nat /\ DOMAIN r.links = 1 .. Len(r.links)
         /\ \A c \in DOMAIN r.links : r.links[c] \in Links
<1>1. r.links \in Seq(Links)
  BY DEF Sessions
<1> QED
  BY ONLY <1>1

(* No connections. *)
LEMMA NoLinks == <<>> \in Seq(Links) /\ Len(<<>>) = 0 /\ DOMAIN <<>> = {} /\ 0 <= Channels
  BY Numbers

(* A session is torn or not. *)
LEMMA SessionTorn ==
  ASSUME NEW r \in Sessions
  PROVE  r.torn \in BOOLEAN
  BY DEF Sessions

(* What session i, already open, is set to. *)
LEMMA OneChanges ==
  ASSUME TypeOK, NEW i \in DOMAIN sessions, NEW r \in Sessions,
         sessions' = [sessions EXCEPT ![i] = r],
         r.dev = sessions[i].dev, r.path = sessions[i].path, r.lan = sessions[i].lan,
         r.k = sessions[i].k, sessions[i].torn => r.torn,
         r.phase \in OnNet => sessions[i].phase \in OnNet, Len(r.links) <= Channels
  PROVE  Keeps
  <1>1. sessions \in Seq(Sessions)
    BY DEF TypeOK
  <1>2. sessions' \in Seq(Sessions) /\ DOMAIN sessions' = DOMAIN sessions /\ Len(sessions') = Len(sessions)
    BY ONLY <1>1, sessions' = [sessions EXCEPT ![i] = r], i \in DOMAIN sessions, r \in Sessions
  <1>3. sessions'[i] = r /\ \A j \in DOMAIN sessions : j # i => sessions'[j] = sessions[j]
    BY ONLY <1>1, sessions' = [sessions EXCEPT ![i] = r], i \in DOMAIN sessions
  <1>4. QED
    BY <1>2, <1>3 DEF Keeps, TypeOK

(* A session that enters a phase keeps its ports and those of the others. *)
LEMMA EnterKeeps ==
  ASSUME TypeOK, NEW i \in DOMAIN sessions, NEW phase \in OnNet \cup {"tunnel", "failed"},
         NEW peer \in 0 .. MaxSessions, Enter(i, phase, peer),
         phase \in OnNet => sessions[i].phase \in OnNet
  PROVE  Keeps
  <1> DEFINE r == [sessions[i] EXCEPT !.phase = phase, !.peer = peer]
  <1>1. sessions \in Seq(Sessions) /\ sessions[i] \in Sessions
    BY DEF TypeOK
  <1>2. sessions' = [sessions EXCEPT ![i] = r]
    BY <1>1 DEF Enter, Sessions
  <1>3. r \in Sessions
    BY <1>1 DEF Sessions, OnNet
  <1>4. /\ r.dev = sessions[i].dev /\ r.path = sessions[i].path /\ r.lan = sessions[i].lan
        /\ r.k = sessions[i].k /\ r.phase = phase /\ r.links = sessions[i].links
    BY <1>1 DEF Sessions
  <1>5. r.torn = sessions[i].torn
    BY <1>1 DEF Sessions
  <1> HIDE DEF r
  <1>6. QED
    BY <1>2, <1>3, <1>4, <1>5, OneChanges DEF TypeOK

(* So does one whose connections change. *)
LEMMA LinksKeep ==
  ASSUME TypeOK, NEW i \in DOMAIN sessions, NEW phase \in OnNet \cup {"tunnel", "failed"},
         NEW links \in Seq(Links), Len(links) <= Channels,
         sessions' = [sessions EXCEPT ![i].phase = phase, ![i].links = links],
         phase \in OnNet => sessions[i].phase \in OnNet
  PROVE  Keeps
  <1> DEFINE r == [sessions[i] EXCEPT !.phase = phase, !.links = links]
  <1>1. sessions \in Seq(Sessions) /\ sessions[i] \in Sessions
    BY DEF TypeOK
  <1>2. sessions' = [sessions EXCEPT ![i] = r]
    BY <1>1 DEF Sessions
  <1>3. r \in Sessions
    BY <1>1 DEF Sessions, OnNet
  <1>4. /\ r.dev = sessions[i].dev /\ r.path = sessions[i].path /\ r.lan = sessions[i].lan
        /\ r.k = sessions[i].k /\ r.phase = phase /\ r.links = links
    BY <1>1 DEF Sessions
  <1>5. sessions[i].torn => r.torn
    BY <1>1 DEF Sessions
  <1> HIDE DEF r
  <1>6. Len(r.links) <= Channels /\ (r.phase \in OnNet => sessions[i].phase \in OnNet)
    BY <1>4
  <1>7. QED
    BY ONLY TypeOK, i \in DOMAIN sessions, <1>2, <1>3, <1>4, <1>5, <1>6, OneChanges

(* What a session is once its connections are others. *)
LEMMA Linked ==
  ASSUME TypeOK, NEW i \in DOMAIN sessions, NEW links \in Seq(Links), Len(links) <= Channels,
         sessions' = [sessions EXCEPT ![i].links = links]
  PROVE  /\ Keeps
         /\ sessions'[i].links = links /\ sessions'[i].phase = sessions[i].phase
         /\ sessions'[i].peer = sessions[i].peer
         /\ \A j \in DOMAIN sessions : j # i => sessions'[j] = sessions[j]
  <1> DEFINE r == [sessions[i] EXCEPT !.links = links]
  <1>1. sessions \in Seq(Sessions) /\ sessions[i] \in Sessions
    BY DEF TypeOK
  <1>2. sessions' = [sessions EXCEPT ![i] = r]
    BY <1>1 DEF Sessions
  <1>3. r \in Sessions
    BY <1>1 DEF Sessions
  <1>4. /\ r.dev = sessions[i].dev /\ r.path = sessions[i].path /\ r.lan = sessions[i].lan
        /\ r.k = sessions[i].k /\ r.phase = sessions[i].phase /\ r.links = links
        /\ r.peer = sessions[i].peer
    BY <1>1 DEF Sessions
  <1>5. sessions[i].torn => r.torn
    BY <1>1 DEF Sessions
  <1> HIDE DEF r
  <1>6. Len(r.links) <= Channels /\ (r.phase \in OnNet => sessions[i].phase \in OnNet)
    BY <1>4
  <1>7. Keeps
    BY ONLY TypeOK, i \in DOMAIN sessions, <1>2, <1>3, <1>4, <1>5, <1>6, OneChanges
  <1>8. sessions'[i] = r /\ \A j \in DOMAIN sessions : j # i => sessions'[j] = sessions[j]
    BY ONLY <1>1, <1>2, i \in DOMAIN sessions
  <1>9. QED
    BY ONLY <1>4, <1>7, <1>8

(* A teardown keeps the ports of the other sessions. *)
LEMMA TeardownKeeps ==
  ASSUME TypeOK, NEW i \in DOMAIN sessions, session_teardown(i)
  PROVE  Keeps
  <1> DEFINE r == [sessions[i] EXCEPT !.torn = TRUE, !.phase = "failed", !.links = <<>>, !.peer = 0]
  <1>1. sessions \in Seq(Sessions) /\ sessions[i] \in Sessions
    BY DEF TypeOK
  <1>2. sessions' = [sessions EXCEPT ![i] = r]
    BY <1>1 DEF session_teardown, Sessions
  <1>3. r \in Sessions
    BY ONLY <1>1, Numbers, NoLinks DEF Sessions
  <1>4. /\ r.dev = sessions[i].dev /\ r.path = sessions[i].path /\ r.lan = sessions[i].lan
        /\ r.k = sessions[i].k /\ r.phase = "failed" /\ r.links = <<>>
    BY <1>1 DEF Sessions
  <1>5. r.torn
    BY <1>1 DEF Sessions
  <1> HIDE DEF r
  <1>6. QED
    BY <1>2, <1>3, <1>4, <1>5, NoLinks, OneChanges DEF OnNet

(* The end of a server keeps the sessions. *)
LEMMA ExitKeeps ==
  ASSUME TypeOK, NEW s \in servers, Exit(s)
  PROVE  Keeps
  <1> DEFINE F(i) == [sessions[i] EXCEPT !.phase = "failed", !.links = <<>>, !.peer = 0]
  <1>1. sessions \in Seq(Sessions)
    BY DEF TypeOK
  <1>2. ASSUME NEW i \in DOMAIN sessions
        PROVE  /\ F(i) \in Sessions /\ F(i).dev = sessions[i].dev /\ F(i).path = sessions[i].path
               /\ F(i).lan = sessions[i].lan /\ F(i).k = sessions[i].k /\ F(i).phase = "failed"
               /\ Len(F(i).links) <= Channels
    <2>1. sessions[i] \in Sessions
      BY <1>1
    <2>2. QED
      BY ONLY <2>1, Numbers, NoLinks DEF Sessions
  <1>3. \A i \in DOMAIN sessions : F(i).torn = sessions[i].torn
    <2> TAKE i \in DOMAIN sessions
    <2>1. sessions[i] \in Sessions
      BY <1>1
    <2>2. QED
      BY <2>1 DEF Sessions
  <1>4. sessions' = [i \in DOMAIN sessions |->
                       IF sessions[i].peer = s.token THEN F(i) ELSE sessions[i]]
    BY DEF Exit
  <1> HIDE DEF F
  <1>5. DOMAIN sessions' = DOMAIN sessions
        /\ \A i \in DOMAIN sessions : sessions'[i] = F(i) \/ sessions'[i] = sessions[i]
    BY ONLY <1>4
  <1>6. sessions' \in Seq(Sessions) /\ Len(sessions') = Len(sessions)
    <2>1. DOMAIN sessions = 1 .. Len(sessions) /\ Len(sessions) \in Nat
      BY ONLY <1>1
    <2>2. \A i \in 1 .. Len(sessions) : sessions[i] \in Sessions
      BY ONLY <1>1
    <2>3. sessions' \in [1 .. Len(sessions) -> Sessions]
      BY ONLY <1>2, <1>4, <2>1, <2>2
    <2>4. QED
      BY ONLY <2>1, <2>3
  <1>7. \A i \in DOMAIN sessions : Len(sessions[i].links) <= Channels
    BY DEF TypeOK
  <1>8. QED
    BY ONLY <1>2, <1>3, <1>5, <1>6, <1>7 DEF Keeps, OnNet

(* Such a step preserves what is true of the sessions. *)
LEMMA KeepsSafe ==
  ASSUME IInv, Keeps
  PROVE  /\ AllCoherent' /\ PortsDistinct'
         /\ sessions' \in Seq(Sessions) /\ Len(sessions') <= MaxSessions
         /\ \A i \in DOMAIN sessions' : Len(sessions'[i].links) <= Channels
  <1>1. AllCoherent'
    BY DEF IInv, AllCoherent, Coherent, Keeps, OnNet
  <1>2. Live' \subseteq Live
    BY DEF Keeps, Live
  <1>3. PortsDistinct'
    <2> SUFFICES ASSUME NEW i \in Live', NEW j \in Live', i # j,
                        sessions'[i].dev = sessions'[j].dev, UsesLan(i)', UsesLan(j)',
                        sessions'[i].path = sessions'[j].path
                 PROVE  DevicePort(i)' # DevicePort(j)'
      BY DEF PortsDistinct
    <2>1. i \in Live /\ j \in Live /\ i \in DOMAIN sessions /\ j \in DOMAIN sessions
      BY <1>2 DEF Live
    <2>2. /\ UsesLan(i) /\ UsesLan(j) /\ DevicePort(i)' = DevicePort(i) /\ DevicePort(j)' = DevicePort(j)
          /\ sessions[i].dev = sessions[j].dev /\ sessions[i].path = sessions[j].path
      BY <2>1 DEF Keeps, UsesLan, DevicePort
    <2>3. QED
      BY <2>1, <2>2 DEF IInv, PortsDistinct
  <1>4. QED
    BY <1>1, <1>3 DEF IInv, TypeOK, Keeps

-----------------------------------------------------------------------------
(* What session_new appends. *)
LEMMA NewSession ==
  ASSUME IInv, NEW dev \in Devs, NEW path \in Paths(dev), session_new(dev, path)
  PROVE  \E r \in Sessions :
           /\ sessions' = Append(sessions, r) /\ Len(sessions) < MaxSessions
           /\ r.dev = dev /\ r.path = path /\ Coherent(r)
           /\ r.phase \notin {"connect", "lan"} /\ r.links = <<>>
           /\ path = "agent" /\ r.k = -1 => FreeKs(dev) = {}
           /\ r.k >= 0 => r.k \in FreeKs(dev)
           /\ r.lan >= 0 => \A i \in Live : sessions[i].lan # r.lan
  <1> DEFINE k == IF path = "agent" THEN alloc_stream_k(dev) ELSE -1
             lan == IF path = "lan" THEN alloc_lan_port ELSE -1
             phase == IF lan >= 0 THEN "probe" ELSE IF k >= 0 THEN "run" ELSE "tunnel"
             r == [dev |-> dev, path |-> path, lan |-> lan, k |-> k, links |-> <<>>, peer |-> 0,
                   phase |-> phase, torn |-> FALSE]
  <1>1. Len(sessions) < MaxSessions /\ sessions' = Append(sessions, r)
    BY DEF session_new
  <1>2. path \in {"agent", "lan", "tunnel"} /\ (path = "agent" => dev \in Range(AgentDevs))
    BY DEF Paths, Devs
  <1>3. /\ k \in -1 .. StreamCount - 1
        /\ k >= 0 => path = "agent" /\ k \in FreeKs(dev)
        /\ path = "agent" /\ k = -1 => FreeKs(dev) = {}
    <2>1. -1 \in -1 .. StreamCount - 1 /\ ~(-1 >= 0) /\ FreeKs(dev) \subseteq 0 .. StreamCount - 1
          /\ 0 .. StreamCount - 1 \subseteq -1 .. StreamCount - 1 /\ -1 \notin 0 .. StreamCount - 1
      BY ONLY Numbers DEF FreeKs
    <2>2. QED
      BY ONLY <2>1, StreamK
  <1>4. /\ lan \in -1 .. MaxSessions
        /\ lan >= 0 => path = "lan" /\ \A i \in Live : sessions[i].lan # lan
    <2>1. alloc_lan_port \in 0 .. MaxSessions /\ \A i \in Live : sessions[i].lan # alloc_lan_port
      BY <1>1, LanPort DEF IInv
    <2>2. -1 \in -1 .. MaxSessions /\ ~(-1 >= 0) /\ 0 .. MaxSessions \subseteq -1 .. MaxSessions
      BY ONLY Numbers
    <2>3. QED
      BY ONLY <2>1, <2>2
  <1>5. path # "lan" => lan = -1
    OBVIOUS
  <1>6. phase \in {"probe", "run", "tunnel"} /\ (phase \in {"probe", "run"} => lan >= 0 \/ k >= 0)
    OBVIOUS
  <1> HIDE DEF k, lan, phase
  <1>7. r \in Sessions
    BY ONLY <1>2, <1>3, <1>4, <1>6, Numbers, NoLinks, dev \in Devs DEF Sessions
  <1>8. /\ r.dev = dev /\ r.path = path /\ r.k = k /\ r.lan = lan /\ r.phase = phase
        /\ r.links = <<>>
    OBVIOUS
  <1> HIDE DEF r
  <1>9. Coherent(r)
    BY ONLY <1>2, <1>3, <1>4, <1>5, <1>6, <1>8 DEF Coherent
  <1>10. r.phase \notin {"connect", "lan"}
    BY ONLY <1>6, <1>8
  <1>11. QED
    BY ONLY <1>1, <1>3, <1>4, <1>7, <1>8, <1>9, <1>10

(* A new session gets ports that no live one has. *)
LEMMA NewSafe ==
  ASSUME IInv, NEW dev \in Devs, NEW path \in Paths(dev), session_new(dev, path)
  PROVE  /\ AllCoherent' /\ PortsDistinct'
         /\ sessions' \in Seq(Sessions) /\ Len(sessions') <= MaxSessions
         /\ \A i \in DOMAIN sessions' : Len(sessions'[i].links) <= Channels
  <1>1. PICK r \in Sessions :
           /\ sessions' = Append(sessions, r) /\ Len(sessions) < MaxSessions
           /\ r.dev = dev /\ r.path = path /\ Coherent(r)
           /\ r.phase \notin {"connect", "lan"} /\ r.links = <<>>
           /\ path = "agent" /\ r.k = -1 => FreeKs(dev) = {}
           /\ r.k >= 0 => r.k \in FreeKs(dev)
           /\ r.lan >= 0 => \A i \in Live : sessions[i].lan # r.lan
    BY NewSession
  <1>2. sessions \in Seq(Sessions)
    BY DEF IInv, TypeOK
  <1>n. PICK n \in Nat : n = Len(sessions) + 1
    BY ONLY <1>2
  <1>3. /\ sessions' \in Seq(Sessions) /\ Len(sessions') = n /\ sessions'[n] = r
        /\ DOMAIN sessions' = DOMAIN sessions \cup {n} /\ n \notin DOMAIN sessions
        /\ \A i \in DOMAIN sessions : sessions'[i] = sessions[i]
    BY ONLY <1>1, <1>2, <1>n, r \in Sessions
  <1>4. Len(sessions') <= MaxSessions
    BY ONLY <1>1, <1>2, <1>3, <1>n, Numbers
  <1>5. AllCoherent'
    BY ONLY <1>1, <1>3, IInv DEF IInv, AllCoherent, Coherent
  <1>6. \A i \in DOMAIN sessions' : Len(sessions'[i].links) <= Channels
    BY <1>1, <1>3, NoLinks DEF IInv, TypeOK
  <1>7. \A i \in Live' : i = n \/ (i \in Live /\ i \in DOMAIN sessions)
    BY <1>3 DEF Live
  <1>8. ASSUME NEW i \in Live, i \in DOMAIN sessions, sessions[i].dev = dev, sessions[i].path = path,
               UsesLan(i), r.lan >= 0 \/ r.k >= 0
        PROVE  /\ sessions[i].k >= 0 => r.k >= 0 /\ r.k # sessions[i].k
               /\ ~(sessions[i].k >= 0) => ~(r.k >= 0) /\ r.lan # sessions[i].lan
    <2>1. Coherent(sessions[i]) /\ sessions[i] \in Sessions
      BY <1>2, <1>8 DEF IInv, AllCoherent
    <2>2. r.k >= 0 => \A j \in Live : sessions[j].dev = dev => sessions[j].k # r.k
      BY ONLY <1>1 DEF FreeKs
    <2>3. sessions[i].k >= 0 \/ sessions[i].lan >= 0
      BY ONLY <1>8 DEF UsesLan
    <2>4. QED
      BY ONLY <1>1, <1>8, <2>1, <2>2, <2>3 DEF Coherent
  <1>9. PortsDistinct'
    <2> SUFFICES ASSUME NEW i \in Live', NEW j \in Live', i # j,
                        sessions'[i].dev = sessions'[j].dev, UsesLan(i)', UsesLan(j)',
                        sessions'[i].path = sessions'[j].path
                 PROVE  DevicePort(i)' # DevicePort(j)'
      BY DEF PortsDistinct
    <2>1. \A l \in DOMAIN sessions :
            (UsesLan(l)' <=> UsesLan(l)) /\ DevicePort(l)' = DevicePort(l)
      BY ONLY <1>3 DEF UsesLan, DevicePort
    <2>2. /\ UsesLan(n)' <=> r.lan >= 0 \/ r.k >= 0
          /\ DevicePort(n)' = IF r.k >= 0 THEN r.k ELSE r.lan
      BY ONLY <1>3 DEF UsesLan, DevicePort
    <2>3. ASSUME NEW l \in Live, l \in DOMAIN sessions, sessions[l].dev = dev, sessions[l].path = path,
                 UsesLan(l), UsesLan(n)'
          PROVE  DevicePort(l)' # DevicePort(n)'
      <3>1. r.lan >= 0 \/ r.k >= 0
        BY ONLY <2>2, <2>3
      <3>2. /\ sessions[l].k >= 0 => r.k >= 0 /\ r.k # sessions[l].k
            /\ ~(sessions[l].k >= 0) => ~(r.k >= 0) /\ r.lan # sessions[l].lan
        BY ONLY <1>8, <2>3, <3>1
      <3>3. DevicePort(l)' = IF sessions[l].k >= 0 THEN sessions[l].k ELSE sessions[l].lan
        BY ONLY <1>3, <2>3 DEF DevicePort
      <3>4. QED
        BY ONLY <2>2, <3>2, <3>3
    <2>4. CASE i = n
      <3>1. j \in Live /\ j \in DOMAIN sessions
        BY ONLY <1>7, <2>4, j \in Live', i # j
      <3>2. sessions[j].dev = dev /\ sessions[j].path = path /\ UsesLan(j) /\ UsesLan(n)'
        BY <1>1, <1>3, <2>1, <2>4, <3>1
      <3>3. DevicePort(j)' # DevicePort(n)'
        BY ONLY <2>3, <3>1, <3>2
      <3>4. QED
        BY ONLY <2>4, <3>3
    <2>5. CASE j = n
      <3>1. i \in Live /\ i \in DOMAIN sessions
        BY ONLY <1>7, <2>5, i \in Live', i # j
      <3>2. sessions[i].dev = dev /\ sessions[i].path = path /\ UsesLan(i) /\ UsesLan(n)'
        BY <1>1, <1>3, <2>1, <2>5, <3>1
      <3>3. DevicePort(i)' # DevicePort(n)'
        BY ONLY <2>3, <3>1, <3>2
      <3>4. QED
        BY ONLY <2>5, <3>3
    <2>6. CASE i # n /\ j # n
      <3>1. i \in Live /\ j \in Live /\ i \in DOMAIN sessions /\ j \in DOMAIN sessions
        BY <1>7, <2>6
      <3>2. QED
        BY <1>3, <2>1, <3>1 DEF IInv, PortsDistinct
    <2>7. QED
      BY <2>4, <2>5, <2>6
  <1>10. QED
    BY <1>3, <1>4, <1>5, <1>6, <1>9

-----------------------------------------------------------------------------
(* The fields of a server. *)
LEMMA ServerFields ==
  ASSUME NEW s \in Servers
  PROVE  /\ [s EXCEPT !.state = "accepting"] \in Servers /\ [s EXCEPT !.state = "serving"] \in Servers
         /\ s.token \in Ids
  BY DEF Servers

(* A live session is in the table. *)
LEMMA LiveSession ==
  ASSUME TypeOK, NEW i \in Live
  PROVE  i \in DOMAIN sessions /\ sessions[i] \in Sessions /\ i \in Ids
  <1>1. sessions \in Seq(Sessions) /\ i \in DOMAIN sessions /\ Len(sessions) <= MaxSessions
    BY DEF TypeOK, Live
  <1>2. QED
    BY ONLY <1>1, Numbers DEF Ids

(* The port a deployed server binds. *)
LEMMA PortType ==
  ASSUME IInv, NEW i \in Live, sessions[i].phase = "run"
  PROVE  DevicePort(i) \in 0 .. MaxSessions + StreamCount
  <1>1. i \in DOMAIN sessions /\ sessions[i] \in Sessions
    BY LiveSession DEF IInv
  <1>2. sessions[i].lan \in -1 .. MaxSessions /\ sessions[i].k \in -1 .. StreamCount - 1
    BY ONLY <1>1, SessionFields
  <1>3. sessions[i].lan >= 0 \/ sessions[i].k >= 0
    BY <1>1 DEF IInv, AllCoherent, Coherent
  <1>4. QED
    BY ONLY <1>2, <1>3, Numbers DEF DevicePort

(* A channel more. *)
LEMMA ConnectKeeps ==
  ASSUME TypeOK, NEW i \in DOMAIN sessions, Connect(i)
  PROVE  /\ Keeps /\ Len(sessions[i].links) < Channels
         /\ \E s \in servers :
              sessions'[i].links = Append(sessions[i].links, [to |-> s.token, st |-> "sent"])
         /\ sessions'[i].phase = sessions[i].phase /\ sessions'[i].peer = sessions[i].peer
         /\ \A j \in DOMAIN sessions : j # i => sessions'[j] = sessions[j]
  <1>1. PICK s \in servers : sessions' = [sessions EXCEPT ![i].links =
                                            Append(@, [to |-> s.token, st |-> "sent"])]
    BY DEF Connect, At
  <1> DEFINE links == Append(sessions[i].links, [to |-> s.token, st |-> "sent"])
  <1>2. /\ sessions \in Seq(Sessions) /\ sessions[i] \in Sessions /\ s \in Servers
        /\ Len(sessions[i].links) < Channels
    BY DEF TypeOK, Connect
  <1>3. [to |-> s.token, st |-> "sent"] \in Links
    BY <1>2, ServerFields DEF Links
  <1>4. links \in Seq(Links) /\ Len(links) = Len(sessions[i].links) + 1
    BY ONLY <1>2, <1>3, SessionLinks
  <1>5. Len(links) <= Channels
    BY ONLY <1>2, <1>4, SessionLinks, Numbers
  <1>6. sessions' = [sessions EXCEPT ![i].links = links]
    BY <1>1
  <1> HIDE DEF links
  <1>7. QED
    BY <1>2, <1>4, <1>5, <1>6, Linked DEF links

(* A server has answered one channel. *)
LEMMA AcceptKeeps ==
  ASSUME TypeOK, NEW s \in servers, NEW i \in DOMAIN sessions, acceptAuthed(s, i)
  PROVE  /\ Keeps
         /\ \E c \in DOMAIN sessions[i].links, st \in {"taken", "closed"} :
              /\ sessions[i].links[c].st = "sent" /\ (st = "taken" => s.token = i)
              /\ sessions'[i].links = [sessions[i].links EXCEPT ![c] = [to |-> s.token, st |-> st]]
         /\ sessions'[i].phase = sessions[i].phase /\ sessions'[i].peer = sessions[i].peer
         /\ \A j \in DOMAIN sessions : j # i => sessions'[j] = sessions[j]
  <1> DEFINE st == IF Authed(s, i) THEN "taken" ELSE "closed"
  <1>1. PICK c \in DOMAIN sessions[i].links :
          /\ sessions[i].links[c] = [to |-> s.token, st |-> "sent"]
          /\ sessions' = [sessions EXCEPT ![i].links[c].st = st]
    BY DEF acceptAuthed
  <1> DEFINE new == [to |-> s.token, st |-> st]
             links == [sessions[i].links EXCEPT ![c] = new]
  <1>2. /\ sessions \in Seq(Sessions) /\ sessions[i] \in Sessions /\ s \in Servers
        /\ Len(sessions[i].links) <= Channels
    BY DEF TypeOK
  <1>3. st \in {"taken", "closed"} /\ (st = "taken" => s.token = i)
    BY DEF Authed
  <1> HIDE DEF st
  <1>4. new \in Links
    BY <1>2, <1>3, ServerFields DEF Links
  <1>5. new = [sessions[i].links[c] EXCEPT !.st = st]
    BY ONLY <1>1
  <1>6. sessions' = [sessions EXCEPT ![i].links = links]
    BY ONLY <1>1, <1>5
  <1> HIDE DEF new
  <1>7. links \in Seq(Links) /\ Len(links) = Len(sessions[i].links)
    BY ONLY <1>1, <1>2, <1>4, SessionLinks
  <1>8. Len(links) <= Channels
    BY ONLY <1>2, <1>7
  <1> HIDE DEF links
  <1>9. /\ Keeps /\ sessions'[i].links = links /\ sessions'[i].phase = sessions[i].phase
        /\ sessions'[i].peer = sessions[i].peer
        /\ \A j \in DOMAIN sessions : j # i => sessions'[j] = sessions[j]
    BY ONLY TypeOK, i \in DOMAIN sessions, <1>6, <1>7, <1>8, Linked
  <1>10. sessions[i].links[c].st = "sent"
    BY ONLY <1>1
  <1>11. QED
    BY <1>3, <1>9, <1>10 DEF links, new

(* What each step does: it opens a session, or keeps those there are. *)
LEMMA StepKinds ==
  ASSUME IInv, [Next]_vars
  PROVE  /\ servers' \subseteq Servers
         /\ \/ Keeps
            \/ \E dev \in Devs : \E path \in Paths(dev) : session_new(dev, path)
            \/ sessions' = sessions
  <1>t. TypeOK /\ servers \subseteq Servers
    BY DEF IInv, TypeOK
  <1>0. /\ "probe" \in OnNet /\ "run" \in OnNet /\ "connect" \in OnNet /\ "lan" \in OnNet
        /\ "tunnel" \notin OnNet /\ "failed" \notin OnNet /\ 0 \in 0 .. MaxSessions
    BY Numbers DEF OnNet
  <1>1. ASSUME NEW dev \in Devs, NEW path \in Paths(dev), session_new(dev, path)
        PROVE  servers' \subseteq Servers
    BY <1>t, <1>1 DEF session_new
  <1>2. ASSUME NEW i \in DOMAIN sessions, session_teardown(i)
        PROVE  servers' \subseteq Servers /\ Keeps
    BY <1>t, <1>2, TeardownKeeps DEF session_teardown
  <1>3. ASSUME NEW i \in DOMAIN sessions, Probe(i)
        PROVE  servers' \subseteq Servers /\ Keeps
    <2>1. /\ servers' = servers /\ sessions[i].phase = "probe"
          /\ Enter(i, "run", 0) \/ Enter(i, "tunnel", 0)
      BY <1>3 DEF Probe
    <2>2. QED
      BY <1>t, <1>0, <2>1, EnterKeeps
  <1>4. ASSUME NEW i \in DOMAIN sessions, RunServer(i)
        PROVE  servers' \subseteq Servers /\ Keeps
    <2>1. /\ i \in Live /\ sessions[i].phase = "run"
          /\ Enter(i, "connect", 0) \/ Enter(i, "failed", 0)
      BY <1>4 DEF RunServer
    <2>2. Keeps
      BY <1>t, <1>0, <2>1, EnterKeeps
    <2>3. /\ sessions[i].dev \in Devs /\ DevicePort(i) \in 0 .. MaxSessions + StreamCount
          /\ i \in Ids
      <3>1. DevicePort(i) \in 0 .. MaxSessions + StreamCount
        BY <2>1, PortType
      <3>2. sessions[i] \in Sessions /\ i \in Ids
        BY <1>t, <2>1, LiveSession
      <3>3. sessions[i].dev \in Devs
        BY ONLY <3>2, SessionFields
      <3>4. QED
        BY <3>1, <3>2, <3>3
    <2>4. [dev |-> sessions[i].dev, port |-> DevicePort(i), token |-> i, state |-> "starting"]
            \in Servers
      BY ONLY <2>3 DEF Servers
    <2>5. QED
      BY <1>t, <1>4, <2>2, <2>4 DEF RunServer
  <1>5. ASSUME NEW i \in DOMAIN sessions, Connect(i)
        PROVE  servers' \subseteq Servers /\ Keeps
    BY <1>t, <1>5, ConnectKeeps DEF Connect
  <1>m. ASSUME NEW i \in DOMAIN sessions, ReadMeta(i)
        PROVE  servers' \subseteq Servers /\ Keeps
    <2>1. PICK s \in servers : sessions[i].phase = "connect" /\ Enter(i, "lan", s.token)
      BY <1>m DEF ReadMeta
    <2>2. s.token \in 0 .. MaxSessions
      <3>1. s.token \in 1 .. MaxSessions
        BY <1>t, ServerFields DEF Ids
      <3>2. QED
        BY ONLY <3>1, Numbers
    <2>3. QED
      BY <1>t, <1>0, <1>m, <2>1, <2>2, EnterKeeps DEF ReadMeta
  <1>6. ASSUME NEW i \in DOMAIN sessions, FallBack(i)
        PROVE  servers' \subseteq Servers /\ Keeps
    BY <1>t, <1>0, <1>6, NoLinks, LinksKeep DEF FallBack
  <1>a. ASSUME NEW s \in servers, NEW i \in DOMAIN sessions, acceptAuthed(s, i)
        PROVE  servers' \subseteq Servers /\ Keeps
    <2>1. servers' \subseteq Servers
      BY <1>t, <1>a, ServerFields DEF acceptAuthed
    <2>2. QED
      BY <1>t, <1>a, <2>1, AcceptKeeps
  <1>7. ASSUME NEW s \in servers, Bind(s)
        PROVE  servers' \subseteq Servers /\ sessions' = sessions
    BY <1>t, <1>7, ServerFields DEF Bind
  <1>8. ASSUME NEW s \in servers, Exit(s)
        PROVE  servers' \subseteq Servers /\ Keeps
    <2>1. servers' \subseteq Servers
      BY <1>t, <1>8 DEF Exit
    <2>2. QED
      BY <1>t, <1>8, <2>1, ExitKeeps
  <1>9. CASE UNCHANGED vars
    BY <1>t, <1>9 DEF vars
  <1>10. QED
    BY ONLY [Next]_vars, <1>1, <1>2, <1>3, <1>4, <1>5, <1>m, <1>6, <1>7, <1>8, <1>a, <1>9,
            Zenon DEF Next

-----------------------------------------------------------------------------
(* The handshake. *)

(* A server that accepts its own session's connections only, and has accepted as many as *)
(* it waits for, has accepted all of them.  (The table and the token are variables of    *)
(* the lemma: it is used of the state after a step.)                                      *)
LEMMA CountedAll ==
  ASSUME NEW table, NEW t,
         \A i \in DOMAIN table : \A c \in DOMAIN table[i].links :
           table[i].links[c].st = "taken" => table[i].links[c].to = i,
         Cardinality({l \in (DOMAIN table) \X (1 .. Channels) :
                        /\ l[2] \in DOMAIN table[l[1]].links
                        /\ table[l[1]].links[l[2]] = [to |-> t, st |-> "taken"]}) = Channels
  PROVE  \A c \in 1 .. Channels : /\ c \in DOMAIN table[t].links
                                  /\ table[t].links[c] = [to |-> t, st |-> "taken"]
  <1> DEFINE T == {l \in (DOMAIN table) \X (1 .. Channels) :
                     /\ l[2] \in DOMAIN table[l[1]].links
                     /\ table[l[1]].links[l[2]] = [to |-> t, st |-> "taken"]}
             P == {t} \X (1 .. Channels)
  <1>1. \A l \in T : l \in P
    <2> TAKE l \in T
    <2>1. /\ l \in (DOMAIN table) \X (1 .. Channels) /\ l[1] \in DOMAIN table
          /\ l[2] \in DOMAIN table[l[1]].links
          /\ table[l[1]].links[l[2]] = [to |-> t, st |-> "taken"]
      OBVIOUS
    <2>2. l[1] = t
      <3>1. table[l[1]].links[l[2]].st = "taken" /\ table[l[1]].links[l[2]].to = t
        BY ONLY <2>1
      <3> QED
        BY <2>1, <3>1
    <2> QED
      BY ONLY <2>1, <2>2
  <1>2. IsFiniteSet(1 .. Channels) /\ Cardinality(1 .. Channels) = Channels
    <2>1. /\ IsFiniteSet(1 .. Channels)
          /\ Cardinality(1 .. Channels) = IF 1 > Channels THEN 0 ELSE Channels - 1 + 1
      BY ONLY Numbers, FS_Interval, 1 \in Int, Channels \in Int
    <2> QED
      BY ONLY <2>1, Numbers
  <1>3. IsFiniteSet({t}) /\ Cardinality({t}) = 1
    BY ONLY FS_Singleton
  <1>4. IsFiniteSet(P) /\ Cardinality(P) = Channels
    <2>1. IsFiniteSet(P) /\ Cardinality(P) = 1 * Channels
      BY ONLY <1>2, <1>3, FS_Product
    <2> QED
      BY ONLY <2>1, Numbers
  <1>5. Cardinality(T) = Channels
    OBVIOUS
  <1>6. P = T
    <2> HIDE DEF P, T
    <2>1. T \in SUBSET P
      BY ONLY <1>1
    <2> QED
      BY ONLY <1>4, <1>5, <2>1, FS_Subset
  <1>7. \A c \in 1 .. Channels : <<t, c>> \in T
    BY ONLY <1>6
  <1> QED
    BY <1>7

(* A step in which nobody connects, and nothing is accepted: connections stay or are      *)
(* closed with what they were for, and servers stay, bind or end.                         *)
Calm ==
  /\ DOMAIN sessions' = DOMAIN sessions
  /\ \A i \in DOMAIN sessions :
       /\ sessions'[i].links \in {sessions[i].links, <<>>}
       /\ sessions'[i].phase \in {"connect", "lan"} =>
            /\ sessions'[i].phase = sessions[i].phase /\ sessions'[i].peer = sessions[i].peer
            /\ sessions'[i].links = sessions[i].links
       /\ sessions'[i].phase \in {"probe", "run"} => sessions[i].phase \in {"probe", "run"}
  /\ \A t \in servers' : \E s \in servers :
       s.token = t.token /\ (t.state = "serving" => s.state = "serving")

(* Such a step keeps the handshake as it should be. *)
LEMMA CalmKeeps ==
  ASSUME Handshake, Calm
  PROVE  Handshake'
  <1>1. OwnTaken'
    <2> SUFFICES ASSUME NEW i \in DOMAIN sessions, NEW c \in DOMAIN sessions'[i].links,
                        sessions'[i].links[c].st = "taken"
                 PROVE  sessions'[i].links[c].to = i
      BY DEF OwnTaken, Calm
    <2>1. sessions'[i].links = sessions[i].links
      BY NoLinks DEF Calm
    <2> QED
      BY <2>1 DEF Handshake, OwnTaken
  <1>2. Deployed'
    BY DEF Handshake, Deployed, Calm
  <1>3. ServesAll'
    <2> SUFFICES ASSUME NEW t \in servers', t.state = "serving",
                        sessions'[t.token].phase = "connect"
                 PROVE  AllTaken(t.token)'
      BY DEF ServesAll
    <2>1. PICK s \in servers : s.token = t.token /\ s.state = "serving"
      BY DEF Calm
    <2>2. /\ t.token \in DOMAIN sessions /\ sessions[t.token].phase = "connect"
          /\ sessions'[t.token].links = sessions[t.token].links
      BY <2>1 DEF Handshake, Deployed, Calm
    <2> QED
      BY <2>1, <2>2 DEF Handshake, ServesAll, AllTaken
  <1>4. LanOwn'
    <2> SUFFICES ASSUME NEW i \in DOMAIN sessions, sessions'[i].phase = "lan"
                 PROVE  sessions'[i].peer = i /\ AllTaken(i)'
      BY DEF LanOwn, Calm
    <2>1. /\ sessions[i].phase = "lan" /\ sessions'[i].peer = sessions[i].peer
          /\ sessions'[i].links = sessions[i].links
      BY DEF Calm
    <2> QED
      BY <2>1 DEF Handshake, LanOwn, AllTaken
  <1> QED
    BY <1>1, <1>2, <1>3, <1>4 DEF Handshake

(* What entering a phase leaves alone. *)
LEMMA EnterIs ==
  ASSUME TypeOK, NEW i \in DOMAIN sessions, NEW phase, NEW peer, Enter(i, phase, peer)
  PROVE  /\ DOMAIN sessions' = DOMAIN sessions /\ sessions'[i].phase = phase
         /\ sessions'[i].peer = peer /\ sessions'[i].links = sessions[i].links
         /\ \A j \in DOMAIN sessions : j # i => sessions'[j] = sessions[j]
  <1>1. sessions \in Seq(Sessions) /\ sessions[i] \in Sessions
    BY DEF TypeOK
  <1> QED
    BY <1>1 DEF Enter, Sessions

(* The steps that do that. *)
LEMMA CalmSteps ==
  ASSUME IInv,
         \/ UNCHANGED vars
         \/ \E i \in DOMAIN sessions : session_teardown(i) \/ Probe(i) \/ FallBack(i)
         \/ \E s \in servers : Bind(s) \/ Exit(s)
  PROVE  Calm
  <1>t. TypeOK /\ sessions \in Seq(Sessions) /\ \A i \in DOMAIN sessions : sessions[i] \in Sessions
    BY DEF IInv, TypeOK
  <1>1. CASE UNCHANGED vars
    BY <1>1 DEF Calm, vars
  <1>2. ASSUME NEW i \in DOMAIN sessions, session_teardown(i) PROVE Calm
    <2>1. /\ DOMAIN sessions' = DOMAIN sessions /\ servers' = servers
          /\ sessions'[i].phase = "failed" /\ sessions'[i].links = <<>>
          /\ \A j \in DOMAIN sessions : j # i => sessions'[j] = sessions[j]
      BY <1>t, <1>2 DEF session_teardown, Sessions
    <2> QED
      BY <2>1 DEF Calm
  <1>3. ASSUME NEW i \in DOMAIN sessions, Probe(i) PROVE Calm
    <2>1. /\ Enter(i, "run", 0) \/ Enter(i, "tunnel", 0)
          /\ servers' = servers /\ sessions[i].phase = "probe"
      BY <1>3 DEF Probe
    <2>2. /\ DOMAIN sessions' = DOMAIN sessions /\ sessions'[i].links = sessions[i].links
          /\ sessions'[i].phase \in {"run", "tunnel"}
          /\ \A j \in DOMAIN sessions : j # i => sessions'[j] = sessions[j]
      BY <1>t, <2>1, EnterIs
    <2> QED
      BY <2>1, <2>2 DEF Calm
  <1>4. ASSUME NEW i \in DOMAIN sessions, FallBack(i) PROVE Calm
    <2>1. /\ DOMAIN sessions' = DOMAIN sessions /\ servers' = servers
          /\ sessions'[i].phase = "tunnel" /\ sessions'[i].links = <<>>
          /\ \A j \in DOMAIN sessions : j # i => sessions'[j] = sessions[j]
      BY <1>t, <1>4 DEF FallBack, Sessions
    <2> QED
      BY <2>1 DEF Calm
  <1>5. ASSUME NEW s \in servers, Bind(s) PROVE Calm
    <2>1. /\ sessions' = sessions
          /\ \A t \in servers' : t \in servers \/ t = [s EXCEPT !.state = "accepting"]
      BY <1>5 DEF Bind
    <2>2. LET t == [s EXCEPT !.state = "accepting"] IN t.token = s.token /\ t.state # "serving"
      BY DEF IInv, TypeOK, Servers
    <2> QED
      BY <2>1, <2>2 DEF Calm
  <1>6. ASSUME NEW s \in servers, Exit(s) PROVE Calm
    <2>1. /\ DOMAIN sessions' = DOMAIN sessions /\ servers' \subseteq servers
          /\ \A i \in DOMAIN sessions :
               \/ sessions'[i] = sessions[i]
               \/ sessions'[i] = [sessions[i] EXCEPT !.phase = "failed", !.links = <<>>, !.peer = 0]
      BY <1>6 DEF Exit
    <2>2. \A i \in DOMAIN sessions :
            LET r == [sessions[i] EXCEPT !.phase = "failed", !.links = <<>>, !.peer = 0]
            IN  r.phase = "failed" /\ r.links = <<>>
      BY <1>t DEF Sessions
    <2>3. \A i \in DOMAIN sessions :
            sessions'[i] = sessions[i] \/ (sessions'[i].phase = "failed" /\ sessions'[i].links = <<>>)
      BY ONLY <2>1, <2>2
    <2> QED
      BY ONLY <2>1, <2>3 DEF Calm
  <1> QED
    BY <1>1, <1>2, <1>3, <1>4, <1>5, <1>6

(* A new session has no connection, and no server is its own. *)
LEMMA NewHandshake ==
  ASSUME IInv, NEW dev \in Devs, NEW path \in Paths(dev), session_new(dev, path)
  PROVE  Handshake'
  <1>1. PICK r \in Sessions :
           /\ sessions' = Append(sessions, r) /\ r.phase \notin {"connect", "lan"} /\ r.links = <<>>
    BY NewSession
  <1>2. sessions \in Seq(Sessions) /\ servers' = servers
    BY DEF IInv, TypeOK, session_new
  <1>n. PICK n \in Nat : n = Len(sessions) + 1
    BY ONLY <1>2
  <1>3. /\ sessions'[n] = r /\ DOMAIN sessions' = DOMAIN sessions \cup {n} /\ n \notin DOMAIN sessions
        /\ \A i \in DOMAIN sessions : sessions'[i] = sessions[i]
    BY ONLY <1>1, <1>2, <1>n, r \in Sessions
  <1>4. DOMAIN r.links = {}
    BY <1>1, NoLinks
  <1>5. OwnTaken'
    BY <1>3, <1>4 DEF IInv, Handshake, OwnTaken
  <1>6. Deployed'
    BY <1>2, <1>3 DEF IInv, Handshake, Deployed
  <1>7. ServesAll'
    BY <1>2, <1>3 DEF IInv, Handshake, Deployed, ServesAll, AllTaken
  <1>8. LanOwn'
    <2> SUFFICES ASSUME NEW i \in DOMAIN sessions', sessions'[i].phase = "lan"
                 PROVE  sessions'[i].peer = i /\ AllTaken(i)'
      BY DEF LanOwn
    <2>1. i \in DOMAIN sessions /\ sessions'[i] = sessions[i]
      BY <1>1, <1>3
    <2> QED
      BY <2>1 DEF IInv, Handshake, LanOwn, AllTaken
  <1> QED
    BY <1>5, <1>6, <1>7, <1>8 DEF Handshake

(* A session that deploys a server has none yet. *)
LEMMA RunHandshake ==
  ASSUME IInv, NEW i \in DOMAIN sessions, RunServer(i)
  PROVE  Handshake'
  <1>t. TypeOK
    BY DEF IInv
  <1>1. sessions[i].phase = "run" /\ \A s \in servers : s.token # i /\ s.token \in DOMAIN sessions
    BY DEF RunServer, IInv, Handshake, Deployed
  <1>2. /\ sessions'[i].phase \in {"connect", "failed"} /\ sessions'[i].links = sessions[i].links
        /\ DOMAIN sessions' = DOMAIN sessions
        /\ \A j \in DOMAIN sessions : j # i => sessions'[j] = sessions[j]
    BY <1>t, EnterIs DEF RunServer
  <1>3. \A s \in servers' : s \in servers \/ (s.token = i /\ s.state = "starting")
    BY DEF RunServer
  <1>4. OwnTaken'
    BY <1>2 DEF IInv, Handshake, OwnTaken
  <1>5. Deployed'
    BY <1>1, <1>2, <1>3 DEF IInv, Handshake, Deployed
  <1>6. ServesAll'
    BY <1>1, <1>2, <1>3 DEF IInv, Handshake, ServesAll, AllTaken
  <1>7. LanOwn'
    <2> SUFFICES ASSUME NEW j \in DOMAIN sessions, sessions'[j].phase = "lan"
                 PROVE  sessions'[j].peer = j /\ AllTaken(j)'
      BY <1>2 DEF LanOwn
    <2>1. j # i /\ sessions'[j] = sessions[j]
      BY ONLY <1>2, sessions'[j].phase = "lan", j \in DOMAIN sessions
    <2>2. LanOwn
      BY DEF IInv, Handshake
    <2> QED
      BY ONLY <2>1, <2>2, sessions'[j].phase = "lan", j \in DOMAIN sessions DEF LanOwn, AllTaken
  <1> QED
    BY <1>4, <1>5, <1>6, <1>7 DEF Handshake

(* A session that still connects has no server that serves. *)
LEMMA ConnectHandshake ==
  ASSUME IInv, NEW i \in DOMAIN sessions, Connect(i)
  PROVE  Handshake'
  <1>t. TypeOK /\ sessions[i] \in Sessions
    BY DEF IInv, TypeOK
  <1>1. PICK s \in servers :
           sessions'[i].links = Append(sessions[i].links, [to |-> s.token, st |-> "sent"])
    BY <1>t, ConnectKeeps
  <1>2. /\ DOMAIN sessions' = DOMAIN sessions /\ sessions'[i].phase = sessions[i].phase
        /\ \A j \in DOMAIN sessions : j # i => sessions'[j] = sessions[j]
        /\ sessions[i].phase = "connect" /\ servers' = servers
    BY <1>t, ConnectKeeps DEF Keeps, Connect
  <1>3. \A c \in DOMAIN sessions'[i].links :
          \/ c \in DOMAIN sessions[i].links /\ sessions'[i].links[c] = sessions[i].links[c]
          \/ sessions'[i].links[c] = [to |-> s.token, st |-> "sent"]
    <2>1. sessions[i].links \in Seq(Links)
      BY <1>t, SessionLinks
    <2> QED
      BY ONLY <1>1, <2>1
  <1>4. ~AllTaken(i)
    <2>1. /\ Len(sessions[i].links) < Channels /\ Len(sessions[i].links) \in Nat
          /\ DOMAIN sessions[i].links = 1 .. Len(sessions[i].links)
      BY <1>t, ConnectKeeps, SessionLinks
    <2>2. Channels \in 1 .. Channels /\ Channels \notin DOMAIN sessions[i].links
      BY ONLY <2>1, Numbers
    <2> QED
      BY ONLY <2>2 DEF AllTaken
  <1>5. OwnTaken'
    <2> SUFFICES ASSUME NEW j \in DOMAIN sessions, NEW c \in DOMAIN sessions'[j].links,
                        sessions'[j].links[c].st = "taken"
                 PROVE  sessions'[j].links[c].to = j
      BY <1>2 DEF OwnTaken
    <2>1. c \in DOMAIN sessions[j].links /\ sessions'[j].links[c] = sessions[j].links[c]
      BY <1>2, <1>3
    <2> QED
      BY <2>1 DEF IInv, Handshake, OwnTaken
  <1>6. Deployed'
    BY <1>2 DEF IInv, Handshake, Deployed
  <1>7. ServesAll'
    BY <1>2, <1>4 DEF IInv, Handshake, Deployed, ServesAll, AllTaken
  <1>8. LanOwn'
    <2> SUFFICES ASSUME NEW j \in DOMAIN sessions, sessions'[j].phase = "lan"
                 PROVE  sessions'[j].peer = j /\ AllTaken(j)'
      BY <1>2 DEF LanOwn
    <2>1. j # i /\ sessions'[j] = sessions[j]
      BY ONLY <1>2, sessions'[j].phase = "lan", j \in DOMAIN sessions
    <2>2. LanOwn
      BY DEF IInv, Handshake
    <2> QED
      BY ONLY <2>1, <2>2, sessions'[j].phase = "lan", j \in DOMAIN sessions DEF LanOwn, AllTaken
  <1> QED
    BY <1>5, <1>6, <1>7, <1>8 DEF Handshake

(* device_meta over an accepted channel is from the session's own server, and that has    *)
(* all channels.                                                                          *)
LEMMA MetaHandshake ==
  ASSUME IInv, NEW i \in DOMAIN sessions, ReadMeta(i)
  PROVE  Handshake'
  <1>t. TypeOK /\ sessions[i] \in Sessions
    BY DEF IInv, TypeOK
  <1>1. PICK s \in servers :
          /\ s.token = sessions[i].links[1].to /\ s.state = "serving" /\ Enter(i, "lan", s.token)
    BY DEF ReadMeta
  <1>2. /\ sessions[i].phase = "connect" /\ Len(sessions[i].links) = Channels
        /\ sessions[i].links[1].st = "taken" /\ servers' = servers
    BY DEF ReadMeta
  <1>3. s.token = i
    <2>1. 1 \in DOMAIN sessions[i].links
      BY <1>t, <1>2, SessionLinks, Numbers
    <2> QED
      BY <1>1, <1>2, <2>1 DEF IInv, Handshake, OwnTaken
  <1>4. AllTaken(i)
    BY <1>1, <1>2, <1>3 DEF IInv, Handshake, ServesAll
  <1>5. /\ DOMAIN sessions' = DOMAIN sessions /\ sessions'[i].phase = "lan"
        /\ sessions'[i].peer = i /\ sessions'[i].links = sessions[i].links
        /\ \A j \in DOMAIN sessions : j # i => sessions'[j] = sessions[j]
    BY <1>t, <1>1, <1>3, EnterIs
  <1>6. OwnTaken'
    BY <1>5 DEF IInv, Handshake, OwnTaken
  <1>7. Deployed'
    BY <1>2, <1>5 DEF IInv, Handshake, Deployed
  <1>8. ServesAll'
    BY <1>2, <1>5 DEF IInv, Handshake, Deployed, ServesAll, AllTaken
  <1>9. LanOwn'
    <2> SUFFICES ASSUME NEW j \in DOMAIN sessions, sessions'[j].phase = "lan"
                 PROVE  sessions'[j].peer = j /\ AllTaken(j)'
      BY <1>5 DEF LanOwn
    <2>1. CASE j = i
      BY <1>4, <1>5, <2>1 DEF AllTaken
    <2>2. CASE j # i
      <3>1. sessions'[j] = sessions[j]
        BY <1>5, <2>2
      <3> QED
        BY <3>1 DEF IInv, Handshake, LanOwn, AllTaken
    <2> QED
      BY <2>1, <2>2
  <1> QED
    BY <1>6, <1>7, <1>8, <1>9 DEF Handshake

(* A server that answers a channel accepts its own session's only, and serves when it has *)
(* them all.                                                                              *)
LEMMA AcceptHandshake ==
  ASSUME IInv, NEW s \in servers, NEW i \in DOMAIN sessions, acceptAuthed(s, i)
  PROVE  Handshake'
  <1>t. TypeOK /\ sessions[i] \in Sessions
    BY DEF IInv, TypeOK
  <1>1. PICK c \in DOMAIN sessions[i].links, st \in {"taken", "closed"} :
          /\ sessions[i].links[c].st = "sent" /\ (st = "taken" => s.token = i)
          /\ sessions'[i].links = [sessions[i].links EXCEPT ![c] = [to |-> s.token, st |-> st]]
    BY <1>t, AcceptKeeps
  <1>2. /\ DOMAIN sessions' = DOMAIN sessions /\ sessions'[i].phase = sessions[i].phase
        /\ sessions'[i].peer = sessions[i].peer
        /\ \A j \in DOMAIN sessions : j # i => sessions'[j] = sessions[j]
    BY <1>t, AcceptKeeps DEF Keeps
  <1>3. /\ DOMAIN sessions'[i].links = DOMAIN sessions[i].links
        /\ sessions'[i].links[c] = [to |-> s.token, st |-> st]
        /\ \A b \in DOMAIN sessions[i].links :
             b # c => sessions'[i].links[b] = sessions[i].links[b]
    BY ONLY <1>1
  <1>4. ~AllTaken(i)
    <2>1. c \in 1 .. Channels
      <3>1. /\ DOMAIN sessions[i].links = 1 .. Len(sessions[i].links)
            /\ Len(sessions[i].links) \in Nat /\ Len(sessions[i].links) <= Channels
        BY <1>t, SessionLinks DEF TypeOK
      <3> QED
        BY ONLY <1>1, <3>1, Numbers
    <2>2. sessions[i].links[c] # [to |-> i, st |-> "taken"]
      BY <1>1
    <2> QED
      BY <2>1, <2>2 DEF AllTaken
  <1>5. \A j \in DOMAIN sessions' : \A b \in DOMAIN sessions'[j].links :
          sessions'[j].links[b].st = "taken" => sessions'[j].links[b].to = j
    <2> SUFFICES ASSUME NEW j \in DOMAIN sessions, NEW b \in DOMAIN sessions'[j].links,
                        sessions'[j].links[b].st = "taken"
                 PROVE  sessions'[j].links[b].to = j
      BY <1>2
    <2>1. CASE j = i /\ b = c
      BY <1>1, <1>3, <2>1
    <2>2. CASE ~(j = i /\ b = c)
      <3>1. b \in DOMAIN sessions[j].links /\ sessions'[j].links[b] = sessions[j].links[b]
        BY <1>2, <1>3, <2>2
      <3> QED
        BY <3>1 DEF IInv, Handshake, OwnTaken
    <2> QED
      BY <2>1, <2>2
  <1>6. s \in Servers /\ s.state = "accepting"
    BY <1>t DEF TypeOK, acceptAuthed
  <1>7. \A t \in servers' :
          \/ t \in servers
          \/ t = [s EXCEPT !.state = "serving"] /\ Cardinality(Taken(s)') = Channels
    BY DEF acceptAuthed
  <1>8. [s EXCEPT !.state = "serving"].token = s.token
    BY <1>6 DEF Servers
  <1>9. Deployed'
    BY <1>2, <1>7, <1>8 DEF IInv, Handshake, Deployed
  <1>10. Cardinality(Taken(s)') = Channels => AllTaken(s.token)'
    <2> SUFFICES ASSUME Cardinality(Taken(s)') = Channels PROVE AllTaken(s.token)'
      OBVIOUS
    <2>1. Cardinality({l \in (DOMAIN sessions') \X (1 .. Channels) :
                        /\ l[2] \in DOMAIN sessions'[l[1]].links
                        /\ sessions'[l[1]].links[l[2]] = [to |-> s.token, st |-> "taken"]})
            = Channels
      BY DEF Taken
    <2>2. \A b \in 1 .. Channels :
            /\ b \in DOMAIN sessions'[s.token].links
            /\ sessions'[s.token].links[b] = [to |-> s.token, st |-> "taken"]
      BY ONLY <1>5, <2>1, CountedAll
    <2> QED
      BY <2>2 DEF AllTaken
  <1>11. ServesAll'
    <2> SUFFICES ASSUME NEW t \in servers', t.state = "serving",
                        sessions'[t.token].phase = "connect"
                 PROVE  AllTaken(t.token)'
      BY DEF ServesAll
    <2>1. CASE t \in servers
      <3>1. t.token \in DOMAIN sessions /\ sessions[t.token].phase = "connect" /\ AllTaken(t.token)
        BY <1>2, <2>1 DEF IInv, Handshake, Deployed, ServesAll
      <3>2. t.token # i /\ sessions'[t.token] = sessions[t.token]
        BY <1>2, <1>4, <3>1
      <3> QED
        BY <3>1, <3>2 DEF AllTaken
    <2>2. CASE t = [s EXCEPT !.state = "serving"] /\ Cardinality(Taken(s)') = Channels
      BY <1>8, <1>10, <2>2
    <2> QED
      BY <1>7, <2>1, <2>2
  <1>12. LanOwn'
    <2> SUFFICES ASSUME NEW j \in DOMAIN sessions, sessions'[j].phase = "lan"
                 PROVE  sessions'[j].peer = j /\ AllTaken(j)'
      BY <1>2 DEF LanOwn
    <2>1. sessions[j].phase = "lan" /\ sessions[j].peer = j /\ AllTaken(j)
      BY <1>2 DEF IInv, Handshake, LanOwn
    <2>2. j # i /\ sessions'[j] = sessions[j]
      BY <1>2, <1>4, <2>1
    <2> QED
      BY <2>1, <2>2 DEF AllTaken
  <1>13. OwnTaken'
    BY <1>5 DEF OwnTaken
  <1> QED
    BY <1>9, <1>11, <1>12, <1>13 DEF Handshake

(* Every step keeps the handshake. *)
LEMMA HandshakeStep ==
  ASSUME IInv, [Next]_vars
  PROVE  Handshake'
  <1>1. \/ UNCHANGED vars
        \/ \E dev \in Devs : \E path \in Paths(dev) : session_new(dev, path)
        \/ \E i \in DOMAIN sessions : RunServer(i) \/ Connect(i) \/ ReadMeta(i)
        \/ \E i \in DOMAIN sessions : session_teardown(i) \/ Probe(i) \/ FallBack(i)
        \/ \E s \in servers : Bind(s) \/ Exit(s)
        \/ \E s \in servers : \E i \in DOMAIN sessions : acceptAuthed(s, i)
    BY Zenon DEF Next
  <1>2. ASSUME \/ UNCHANGED vars
               \/ \E i \in DOMAIN sessions : session_teardown(i) \/ Probe(i) \/ FallBack(i)
               \/ \E s \in servers : Bind(s) \/ Exit(s)
        PROVE  Handshake'
    <2>1. Calm
      BY <1>2, CalmSteps
    <2> QED
      BY <2>1, CalmKeeps DEF IInv
  <1> QED
    BY <1>1, <1>2, NewHandshake, RunHandshake, ConnectHandshake, MetaHandshake, AcceptHandshake

(* The initial states satisfy the inductive invariant. *)
LEMMA InitInv == Init => IInv
  BY Numbers DEF Init, IInv, TypeOK, AllCoherent, PortsDistinct, Handshake, OwnTaken, Deployed,
                 ServesAll, LanOwn, Live

(* Every step preserves the inductive invariant. *)
LEMMA InvStep == IInv /\ [Next]_vars => IInv'
  <1> SUFFICES ASSUME IInv, [Next]_vars PROVE IInv'
    OBVIOUS
  <1>1. /\ servers' \subseteq Servers
        /\ \/ Keeps
           \/ \E dev \in Devs : \E path \in Paths(dev) : session_new(dev, path)
           \/ sessions' = sessions
    BY StepKinds
  <1>2. /\ AllCoherent' /\ PortsDistinct'
        /\ sessions' \in Seq(Sessions) /\ Len(sessions') <= MaxSessions
        /\ \A i \in DOMAIN sessions' : Len(sessions'[i].links) <= Channels
    <2>1. CASE Keeps
      BY <2>1, KeepsSafe
    <2>2. CASE \E dev \in Devs : \E path \in Paths(dev) : session_new(dev, path)
      BY <2>2, NewSafe
    <2>3. CASE sessions' = sessions
      <3>1. Keeps
        BY <2>3 DEF IInv, TypeOK, Keeps
      <3>2. QED
        BY <3>1, KeepsSafe
    <2>4. QED
      BY <1>1, <2>1, <2>2, <2>3
  <1>3. Handshake'
    BY HandshakeStep
  <1>4. QED
    BY <1>1, <1>2, <1>3 DEF IInv, TypeOK

(* The inductive invariant holds in every reachable state. *)
LEMMA Invariance == Spec => []IInv
  BY InitInv, InvStep, PTL DEF Spec

-----------------------------------------------------------------------------
(* Dividing what was put together gives the parts back. *)
LEMMA Division ==
  ASSUME NEW c \in Nat, c >= 1, NEW n \in Nat, NEW k \in 0 .. c - 1
  PROVE  (n * c + k) \div c = n /\ (n * c + k) % c = k
  OBVIOUS

(* The agent leads a session's public port to its own device and port. *)
LEMMA Routing == IInv => RoutesHome
  <1> SUFFICES ASSUME IInv, NEW i \in Live, sessions[i].k >= 0
               PROVE  Target(i) = [dev |-> sessions[i].dev, port |-> DevicePort(i)]
    BY DEF RoutesHome
  <1> DEFINE d == sessions[i].dev
             k == sessions[i].k
  <1>1. i \in DOMAIN sessions /\ sessions[i] \in Sessions
    BY LiveSession DEF IInv
  <1>2. d \in Range(AgentDevs) /\ d \notin WifiDevs
    BY <1>1, SessionAssumptions DEF IInv, AllCoherent, Coherent
  <1>3. k \in 0 .. StreamCount - 1
    <2>1. k \in -1 .. StreamCount - 1
      BY ONLY <1>1, SessionFields
    <2>2. QED
      BY ONLY <2>1, sessions[i].k >= 0, Numbers
  <1>4. PublicPort(i) = (Slot(d) - 1) * StreamCount + k /\ DevicePort(i) = k
    BY DEF PublicPort, DevicePort
  <1> HIDE DEF d, k
  <1>5. Slot(d) \in DOMAIN AgentDevs /\ AgentDevs[Slot(d)] = d
    BY ONLY <1>2 DEF Slot, Range
  <1>6. Slot(d) - 1 \in Nat /\ (Slot(d) - 1) + 1 = Slot(d)
    <2>1. DOMAIN AgentDevs = 1 .. Len(AgentDevs) /\ Len(AgentDevs) \in Nat
      BY SessionAssumptions
    <2>2. QED
      BY ONLY <1>5, <2>1
  <1>7. PublicPort(i) \div StreamCount = Slot(d) - 1 /\ PublicPort(i) % StreamCount = k
    BY ONLY <1>3, <1>4, <1>6, Numbers, Division
  <1>8. QED
    BY ONLY <1>2, <1>4, <1>5, <1>6, <1>7 DEF Target, d

(* A device without a free index has as many live sessions as indexes. *)
LEMMA FullHouse ==
  ASSUME IInv, NEW dev, FreeKs(dev) = {}
  PROVE  Cardinality({i \in DOMAIN sessions :
                        /\ sessions[i].dev = dev /\ sessions[i].k >= 0
                        /\ ~sessions[i].torn}) = StreamCount
  <1> DEFINE S == {i \in DOMAIN sessions : /\ sessions[i].dev = dev /\ sessions[i].k >= 0
                                           /\ ~sessions[i].torn}
             K == 0 .. StreamCount - 1
             f == [i \in S |-> sessions[i].k]
  <1>t. sessions \in Seq(Sessions) /\ TypeOK
    BY DEF IInv, TypeOK
  <1>0. \A i \in S : i \in Live /\ i \in DOMAIN sessions /\ sessions[i].dev = dev /\ sessions[i].k >= 0
    BY DEF Live
  <1>1. \A i \in S : sessions[i].k \in K
    <2> TAKE i \in S
    <2>1. sessions[i] \in Sessions /\ sessions[i].k >= 0
      BY <1>t
    <2>2. sessions[i].k \in -1 .. StreamCount - 1
      BY ONLY <2>1, SessionFields
    <2>3. QED
      BY ONLY <2>1, <2>2, Numbers
  <1>2. \A k \in K : \E i \in S : sessions[i].k = k
    <2> TAKE k \in K
    <2>1. PICK i \in Live : sessions[i].dev = dev /\ sessions[i].k = k
      BY DEF FreeKs
    <2>2. i \in DOMAIN sessions /\ ~sessions[i].torn
      BY DEF Live
    <2>3. k >= 0
      BY ONLY Numbers, k \in K
    <2>4. QED
      BY <2>1, <2>2, <2>3
  <1>3. \A i, j \in S : sessions[i].k = sessions[j].k => i = j
    <2> TAKE i, j \in S
    <2>1. /\ i \in Live /\ j \in Live /\ sessions[i].dev = sessions[j].dev
          /\ UsesLan(i) /\ UsesLan(j) /\ DevicePort(i) = sessions[i].k /\ DevicePort(j) = sessions[j].k
      BY <1>0 DEF UsesLan, DevicePort
    <2>2. sessions[i].path = sessions[j].path
      BY <1>0 DEF IInv, AllCoherent, Coherent
    <2>3. QED
      BY ONLY <2>1, <2>2, IInv DEF IInv, PortsDistinct
  <1>4. IsFiniteSet(S)
    <2>1. DOMAIN sessions = 1 .. Len(sessions) /\ Len(sessions) \in Nat
      BY ONLY <1>t
    <2>2. IsFiniteSet(1 .. Len(sessions))
      BY ONLY <2>1, FS_Interval, 1 \in Int, Len(sessions) \in Int
    <2>3. S \in SUBSET (1 .. Len(sessions))
      BY ONLY <2>1
    <2>4. QED
      BY ONLY <2>2, <2>3, FS_Subset
  <1>5. Cardinality(K) = StreamCount
    <2>1. Cardinality(K) = IF 0 > StreamCount - 1 THEN 0 ELSE (StreamCount - 1) - 0 + 1
      BY ONLY Numbers, FS_Interval, 0 \in Int, StreamCount - 1 \in Int
    <2>2. QED
      BY ONLY <2>1, Numbers
  <1> HIDE DEF S, K
  <1>6. f \in Surjection(S, K)
    BY ONLY <1>1, <1>2 DEF Surjection
  <1>7. f \in Injection(S, K)
    BY ONLY <1>1, <1>3 DEF Injection, IsInjective
  <1> HIDE DEF f
  <1>8. Cardinality(K) = Cardinality(S)
    BY ONLY <1>4, <1>6, <1>7, FS_Surjection
  <1>9. QED
    BY <1>5, <1>8 DEF S

-----------------------------------------------------------------------------
(* Live sessions of a device never share a stream port, and one through the agent reaches  *)
(* its own device and server, for any number of devices, stream ports and sessions           *)
(* (alloc_lan_port, alloc_stream_k, session_new).                                            *)
THEOREM PortsAreSound == Spec => []PortsInv
  <1>1. IInv => PortsInv
    BY Routing DEF IInv, PortsInv
  <1>2. QED
    BY <1>1, Invariance, PTL

(* A session streams over the LAN only from the server it deployed itself, on which all its  *)
(* channels end, whoever had its port before and whoever its channels reached on the way      *)
(* (deploy_tcp, acceptAuthed).                                                                *)
THEOREM StreamsFromOwnServer == Spec => []OwnServerOnly
  <1>1. IInv => OwnServerOnly
    BY DEF IInv, Handshake, LanOwn, AllTaken, OwnServerOnly, Live
  <1>2. QED
    BY <1>1, Invariance, PTL

(* session_new sends a registered device of the agent to the tunnel only when all its stream  *)
(* ports are taken by live sessions.                                                          *)
THEOREM TunnelForWantOfPorts == Spec => TunnelOnlyWhenFull
  <1> DEFINE Full(dev) ==
        Cardinality({i \in DOMAIN sessions : /\ sessions[i].dev = dev /\ sessions[i].k >= 0
                                             /\ ~sessions[i].torn}) = StreamCount
  <1>1. ASSUME IInv, [Next]_vars, NEW dev \in Range(AgentDevs), Len(sessions') > Len(sessions),
               Last(sessions').dev = dev, Last(sessions').path = "agent", Last(sessions').k = -1
        PROVE  Full(dev)
    <2>0. Len(sessions) \in Nat /\ sessions \in Seq(Sessions)
      BY <1>1 DEF IInv, TypeOK
    <2>1. Len(sessions') # Len(sessions)
      BY ONLY <1>1, <2>0
    <2>2. PICK d \in Devs : \E path \in Paths(d) : session_new(d, path)
      BY <1>1, <2>1, StepKinds DEF Keeps
    <2>3. PICK path \in Paths(d) : session_new(d, path)
      BY <2>2
    <2>4. PICK r \in Sessions :
             /\ sessions' = Append(sessions, r) /\ r.dev = d /\ r.path = path
             /\ path = "agent" /\ r.k = -1 => FreeKs(d) = {}
      BY <1>1, <2>3, NewSession
    <2>5. Last(sessions') = r
      BY ONLY <2>0, <2>4, r \in Sessions DEF Last
    <2>6. d = dev /\ FreeKs(dev) = {}
      BY ONLY <1>1, <2>4, <2>5
    <2>7. QED
      BY <1>1, <2>6, FullHouse
  <1>2. IInv /\ [Next]_vars =>
          [\A dev \in Range(AgentDevs) :
             (/\ Len(sessions') > Len(sessions)
              /\ Last(sessions').dev = dev /\ Last(sessions').path = "agent"
              /\ Last(sessions').k = -1)
             => Full(dev)]_vars
    BY <1>1
  <1>3. QED
    BY <1>2, Invariance, PTL DEF Spec, TunnelOnlyWhenFull

-----------------------------------------------------------------------------
(* Chooser.                                                                   *)

(* A session was opened from a window that was activated before, and a window that is
   gone has no rows. *)
WindowsKept ==
  /\ opened # NoSession => opened.at \notin unused
  /\ \A w \in Windows : w \notin windows \cup unused => DOMAIN rows[w] = {}

(* A row says "(agent)" of a device that is in the registry; while there has been one
   window only, of each such device. *)
LabelsKept ==
  \A w \in Windows : \A s \in DOMAIN rows[w] :
    /\ rows[w][s] => s \in DOMAIN agent_devs
    /\ Windows \ unused = {w} /\ s \in DOMAIN agent_devs => rows[w][s]

(* A probe that is under way has a list to fill and is of a host that is marked, and
   only a host with an agent reports devices, which are its own. *)
ProbesKept ==
  \A h \in Hosts :
    /\ probe[h].st # "none" => probe[h].list \in Windows \ unused /\ h \in probed_hosts
    /\ probe[h].devs # Refused =>
         h \in AgentHosts /\ \A s \in DOMAIN probe[h].devs : HostOf[s] = h

(* The same of a scan, which its window shows by an insensitive entry. *)
ScansKept ==
  \A w \in Windows :
    /\ busy[w] <=> scan[w].st # "none"
    /\ scan[w].st # "none" => scan[w].host \in probed_hosts /\ w \notin unused
    /\ \A s \in DOMAIN scan[w].ok \cup DOMAIN scan[w].todo :
         HostOf[s] = scan[w].host /\ scan[w].host \in AgentHosts

(* Who is in the registry was reported by its agent. *)
RegistryKept == \A s \in DOMAIN agent_devs : HostOf[s] \in probed_hosts \cap AgentHosts

ChooserIInv ==
  /\ ChooserTypeOK /\ WindowsKept /\ LabelsKept /\ ProbesKept /\ ScansKept /\ RegistryKept
  /\ OpenedAsShown

(* What is known of a table that holds a value for some keys. *)
LEMMA PartialIs ==
  ASSUME NEW D, NEW R, NEW f \in Partial(D, R)
  PROVE  DOMAIN f \subseteq D /\ f \in [DOMAIN f -> R]
<1>1. PICK P \in SUBSET D : f \in [P -> R]
  BY DEF Partial
<1> QED
  BY <1>1

(* A function on a part of the keys is such a table. *)
LEMMA IsPartial ==
  ASSUME NEW D, NEW R, NEW P \in SUBSET D, NEW f \in [P -> R]
  PROVE  f \in Partial(D, R) /\ DOMAIN f = P
BY DEF Partial

(* The empty tables. *)
LEMMA NothingIs ==
  /\ Nothing \in Partial(Wireless, Bases) /\ DOMAIN Nothing = {}
  /\ NoRows \in Partial(Serials, BOOLEAN) /\ DOMAIN NoRows = {}
<1>1. Nothing \in [{} -> Bases] /\ NoRows \in [{} -> BOOLEAN]
  BY DEF Nothing, NoRows
<1> QED
  BY <1>1, IsPartial

(* Entering one table of stream bases into another keeps what both hold. *)
LEMMA EnteredIs ==
  ASSUME NEW f \in Partial(Wireless, Bases), NEW g \in Partial(Wireless, Bases)
  PROVE  /\ Entered(f, g) \in Partial(Wireless, Bases)
         /\ DOMAIN Entered(f, g) = DOMAIN f \cup DOMAIN g
<1>1. /\ DOMAIN f \subseteq Wireless /\ f \in [DOMAIN f -> Bases]
      /\ DOMAIN g \subseteq Wireless /\ g \in [DOMAIN g -> Bases]
  BY PartialIs
<1>2. Entered(f, g) \in [DOMAIN f \cup DOMAIN g -> Bases]
  BY <1>1 DEF Entered
<1> QED
  BY <1>1, <1>2, IsPartial

(* A report that is entered into the registry makes it larger. *)
LEMMA RegisteredIs ==
  ASSUME agent_devs \in Partial(Wireless, Bases), NEW f \in Partial(Wireless, Bases)
  PROVE  /\ Registered(f) \in Partial(Wireless, Bases)
         /\ DOMAIN Registered(f) = DOMAIN f \cup DOMAIN agent_devs
BY EnteredIs DEF Registered

Probes == [st : {"none", "asking", "done"}, list : Windows \cup {NoWindow},
           devs : Partial(Wireless, Bases) \cup {Refused}]
Scans == [st : {"none", "asking", "connecting", "done"}, host : Hosts \cup {NoWindow},
          todo : Partial(Wireless, Bases), ok : Partial(Wireless, Bases)]

(* What listing the devices in window w does, with the registry reg and the probes prb:
   the rows of w are labelled by reg, and a host that is asked for the first time has a
   probe for w. *)
Lists(w, reg, prb) ==
  /\ rows' \in [Windows -> Partial(Serials, BOOLEAN)]
  /\ \A v \in Windows \ {w} : rows'[v] = rows[v]
  /\ w \in windows \cup unused => \A s \in DOMAIN rows'[w] : rows'[w][s] = (s \in DOMAIN reg)
  /\ w \notin windows \cup unused => rows' = rows
  /\ probed_hosts \subseteq probed_hosts' /\ probed_hosts' \subseteq Hosts
  /\ probe' \in [Hosts -> Probes]
  /\ \A h \in Hosts :
       \/ probe'[h] = prb[h]
       \/ h \in probed_hosts' /\ probe'[h] = [st |-> "asking", list |-> w, devs |-> Refused]

(* populate_devices does that. *)
LEMMA Populates ==
  ASSUME ChooserTypeOK, NEW w \in Windows, NEW reg, NEW prb \in [Hosts -> Probes],
         populate_devices(w, reg, prb)
  PROVE  Lists(w, reg, prb)
<1>1. PICK devs \in list_adb_devices :
        /\ rows' = IF w \in windows \cup unused
                   THEN [rows EXCEPT ![w] = [s \in devs |-> conn_label(reg, s)]]
                   ELSE rows
        /\ auto_probe_agents(w, devs, reg, prb)
  BY DEF populate_devices
<1>2. devs \subseteq Serials /\ rows \in [Windows -> Partial(Serials, BOOLEAN)]
  BY DEF list_adb_devices, ChooserTypeOK
<1> DEFINE new == [s \in devs |-> conn_label(reg, s)]
<1>3. new \in [devs -> BOOLEAN]
  BY DEF conn_label
<1>4. new \in Partial(Serials, BOOLEAN) /\ DOMAIN new = devs
  BY <1>2, <1>3, IsPartial
<1>5. /\ rows' \in [Windows -> Partial(Serials, BOOLEAN)]
      /\ \A v \in Windows \ {w} : rows'[v] = rows[v]
      /\ w \notin windows \cup unused => rows' = rows
      /\ w \in windows \cup unused => rows'[w] = new
  <2> HIDE DEF new
  <2> QED
    BY <1>1, <1>2, <1>4 DEF new
<1>6. w \in windows \cup unused => \A s \in DOMAIN rows'[w] : rows'[w][s] = (s \in DOMAIN reg)
  BY <1>5 DEF conn_label
<1>7. Unasked(devs, reg) \subseteq Hosts
  BY ChooserAssumption DEF Unasked
<1>8. probed_hosts \subseteq probed_hosts' /\ probed_hosts' \subseteq Hosts
  BY <1>1, <1>7 DEF auto_probe_agents, ChooserTypeOK
<1>9. [st |-> "asking", list |-> w, devs |-> Refused] \in Probes
  BY DEF Probes
<1>10. probe' \in [Hosts -> Probes]
  BY <1>1, <1>9 DEF auto_probe_agents
<1>11. \A h \in Hosts :
         \/ probe'[h] = prb[h]
         \/ h \in probed_hosts' /\ probe'[h] = [st |-> "asking", list |-> w, devs |-> Refused]
  BY <1>1 DEF auto_probe_agents
<1> QED
  BY <1>5, <1>6, <1>8, <1>10, <1>11 DEF Lists

(* Listing the devices keeps labels, probes and closed windows as they should be, with
   the registry as it is or grown. *)
LEMMA ListingKeeps ==
  ASSUME ChooserIInv, NEW w \in Windows, NEW prb \in [Hosts -> Probes],
         \A h \in Hosts : prb[h] \in {probe[h], NoProbe},
         Lists(w, agent_devs', prb), DOMAIN agent_devs \subseteq DOMAIN agent_devs',
         windows' \cup unused' = windows \cup unused, unused' \subseteq unused, w \notin unused'
  PROVE  /\ LabelsKept' /\ ProbesKept'
         /\ \A v \in Windows : v \notin windows' \cup unused' => DOMAIN rows'[v] = {}
<1> USE DEF ChooserIInv
<1>1. LabelsKept'
  <2> SUFFICES ASSUME NEW v \in Windows, NEW s \in DOMAIN rows'[v]
               PROVE  /\ rows'[v][s] => s \in DOMAIN agent_devs'
                      /\ Windows \ unused' = {v} /\ s \in DOMAIN agent_devs' => rows'[v][s]
    BY DEF LabelsKept
  <2>1. CASE v = w /\ w \in windows \cup unused
    BY <2>1 DEF Lists
  <2>2. CASE v = w /\ w \notin windows \cup unused
    <3>1. DOMAIN rows'[v] = {}
      BY <2>2 DEF Lists, WindowsKept
    <3> QED
      BY <3>1
  <2>3. CASE v # w
    <3>1. rows'[v] = rows[v] /\ Windows \ unused' # {v}
      BY <2>3 DEF Lists
    <3> QED
      BY <3>1 DEF LabelsKept
  <2> QED
    BY <2>1, <2>2, <2>3
<1>2. ProbesKept'
  <2> SUFFICES ASSUME NEW h \in Hosts
               PROVE  /\ probe'[h].st # "none" =>
                           probe'[h].list \in Windows \ unused' /\ h \in probed_hosts'
                      /\ probe'[h].devs # Refused =>
                           h \in AgentHosts /\ \A s \in DOMAIN probe'[h].devs : HostOf[s] = h
    BY DEF ProbesKept
  <2>1. CASE probe'[h] = probe[h]
    BY <2>1 DEF ProbesKept, Lists
  <2>2. CASE probe'[h] = NoProbe
    BY <2>2 DEF NoProbe
  <2>3. CASE h \in probed_hosts' /\ probe'[h] = [st |-> "asking", list |-> w, devs |-> Refused]
    BY <2>3
  <2> QED
    BY <2>1, <2>2, <2>3 DEF Lists
<1>3. ASSUME NEW v \in Windows, v \notin windows' \cup unused' PROVE DOMAIN rows'[v] = {}
  <2>1. DOMAIN rows[v] = {} /\ v \notin windows \cup unused
    BY <1>3 DEF WindowsKept
  <2> QED
    BY <2>1 DEF Lists
<1> QED
  BY <1>1, <1>2, <1>3

(* No host has been asked by somebody who is not marked: marking more hosts keeps scans
   and registry as they should be. *)
LEMMA MarkingKeeps ==
  ASSUME ChooserIInv, probed_hosts \subseteq probed_hosts', busy' = busy, scan' = scan,
         unused' \subseteq unused
  PROVE  ScansKept'
BY DEF ChooserIInv, ScansKept

(* Probes and scans, by their own sets. *)
LEMMA ProbesTyped == ChooserTypeOK => probe \in [Hosts -> Probes] /\ scan \in [Windows -> Scans]
BY DEF ChooserTypeOK, Probes, Scans

(* No probe and no scan are such. *)
LEMMA NoProbeTyped == NoProbe \in Probes /\ NoScan \in Scans
<1>1. Nothing \in Partial(Wireless, Bases)
  BY NothingIs
<1> HIDE DEF Nothing
<1> QED
  BY <1>1 DEF NoProbe, NoScan, Probes, Scans

-----------------------------------------------------------------------------
(* The steps of the UI thread that list the devices. *)

(* on_activate: the new window is listed, and the option widgets are its own. *)
LEMMA ActivateStep ==
  ASSUME ChooserIInv, NEW w \in Windows, on_activate(w)
  PROVE  ChooserIInv'
<1> USE DEF ChooserIInv
<1>1. Lists(w, agent_devs', probe)
  BY Populates, ProbesTyped DEF on_activate
<1>2. /\ windows' \cup unused' = windows \cup unused /\ DOMAIN agent_devs = DOMAIN agent_devs'
      /\ unused' \subseteq unused /\ w \notin unused'
  BY DEF on_activate
<1>3. LabelsKept' /\ ProbesKept'
      /\ \A v \in Windows : v \notin windows' \cup unused' => DOMAIN rows'[v] = {}
  BY <1>1, <1>2, ListingKeeps, ProbesTyped
<1>4. WindowsKept'
  BY <1>3 DEF WindowsKept, on_activate
<1>5. ScansKept'
  BY <1>1, MarkingKeeps DEF Lists, on_activate
<1>6. RegistryKept'
  BY <1>1 DEF RegistryKept, Lists, on_activate
<1>7. OpenedAsShown'
  BY DEF OpenedAsShown, WindowsKept, on_activate
<1>8. ChooserTypeOK'
  BY <1>1 DEF ChooserTypeOK, Lists, Probes, on_activate
<1> QED
  BY <1>3, <1>4, <1>5, <1>6, <1>7, <1>8

(* on_refresh. *)
LEMMA RefreshStep ==
  ASSUME ChooserIInv, NEW w \in Windows, on_refresh(w)
  PROVE  ChooserIInv'
<1> USE DEF ChooserIInv
<1>1. Lists(w, agent_devs', probe)
  BY Populates, ProbesTyped DEF on_refresh
<1>2. LabelsKept' /\ ProbesKept'
      /\ \A v \in Windows : v \notin windows' \cup unused' => DOMAIN rows'[v] = {}
  <2>1. w \notin unused' /\ unused' = unused
    BY DEF on_refresh, ChooserTypeOK
  <2> QED
    BY <1>1, <2>1, ListingKeeps, ProbesTyped DEF on_refresh
<1>3. WindowsKept'
  BY <1>2 DEF WindowsKept, on_refresh
<1>4. ScansKept' /\ RegistryKept' /\ OpenedAsShown'
  BY <1>1, MarkingKeeps DEF Lists, RegistryKept, OpenedAsShown, on_refresh
<1>5. ChooserTypeOK'
  BY <1>1 DEF ChooserTypeOK, Lists, Probes, on_refresh
<1> QED
  BY <1>2, <1>3, <1>4, <1>5

(* auto_probe_done: nothing, or the report is registered and the devices are listed. *)
LEMMA ProbeDoneStep ==
  ASSUME ChooserIInv, NEW h \in Hosts, auto_probe_done(h)
  PROVE  ChooserIInv' /\ DOMAIN agent_devs \subseteq DOMAIN agent_devs'
<1> USE DEF ChooserIInv
<1> DEFINE idle == [probe EXCEPT ![h] = NoProbe]
<1>1. /\ idle \in [Hosts -> Probes]
      /\ \A g \in Hosts : idle[g] \in {probe[g], NoProbe}
  BY ProbesTyped, NoProbeTyped
<1>2. CASE probe' = idle /\ UNCHANGED <<rows, agent_devs, probed_hosts>>
  <2>1. ChooserTypeOK'
    BY <1>1, <1>2 DEF ChooserTypeOK, Probes, auto_probe_done
  <2>2. ProbesKept'
    BY <1>1, <1>2 DEF ProbesKept, NoProbe, auto_probe_done
  <2>3. WindowsKept' /\ LabelsKept' /\ RegistryKept' /\ OpenedAsShown'
    BY <1>2 DEF WindowsKept, LabelsKept, RegistryKept, OpenedAsShown, auto_probe_done
  <2>4. ScansKept'
    BY <1>2, MarkingKeeps DEF auto_probe_done
  <2> QED
    BY <1>2, <2>1, <2>2, <2>3, <2>4
<1>3. CASE /\ probe[h].devs # Refused
           /\ agent_devs' = Registered(probe[h].devs)
           /\ populate_devices(probe[h].list, agent_devs', idle)
  <2> DEFINE w == probe[h].list
  <2>1. w \in Windows \ unused /\ h \in probed_hosts
    BY DEF auto_probe_done, ProbesKept
  <2>2. probe[h].devs \in Partial(Wireless, Bases) /\ agent_devs \in Partial(Wireless, Bases)
    BY <1>3, ProbesTyped DEF Probes, ChooserTypeOK
  <2>3. /\ agent_devs' \in Partial(Wireless, Bases)
        /\ DOMAIN agent_devs' = DOMAIN probe[h].devs \cup DOMAIN agent_devs
    BY <1>3, <2>2, RegisteredIs
  <2>4. Lists(w, agent_devs', idle)
    <3> HIDE DEF idle
    <3> QED
      BY <1>1, <1>3, <2>1, Populates
  <2>5. LabelsKept' /\ ProbesKept'
        /\ \A v \in Windows : v \notin windows' \cup unused' => DOMAIN rows'[v] = {}
    <3> HIDE DEF idle
    <3> QED
      BY <1>1, <2>1, <2>3, <2>4, ListingKeeps DEF auto_probe_done
  <2>6. WindowsKept'
    BY <2>5 DEF WindowsKept, auto_probe_done
  <2>7. ScansKept' /\ OpenedAsShown'
    BY <2>4, MarkingKeeps DEF Lists, OpenedAsShown, auto_probe_done
  <2>8. RegistryKept'
    <3> SUFFICES ASSUME NEW s \in DOMAIN agent_devs'
                 PROVE  HostOf[s] \in probed_hosts' \cap AgentHosts
      BY DEF RegistryKept
    <3>1. probed_hosts \subseteq probed_hosts'
      BY <2>4 DEF Lists
    <3>2. CASE s \in DOMAIN probe[h].devs
      BY <1>3, <2>1, <3>1, <3>2 DEF ProbesKept
    <3>3. CASE s \in DOMAIN agent_devs
      BY <3>1, <3>3 DEF RegistryKept
    <3> QED
      BY <2>3, <3>2, <3>3
  <2>9. ChooserTypeOK'
    BY <2>3, <2>4 DEF ChooserTypeOK, Lists, Probes, auto_probe_done
  <2> QED
    BY <2>3, <2>5, <2>6, <2>7, <2>8, <2>9
<1> QED
  BY <1>2, <1>3 DEF auto_probe_done

(* agent_scan_done: what was connected is registered, and the devices are listed. *)
LEMMA ScanDoneStep ==
  ASSUME ChooserIInv, NEW w \in Windows, agent_scan_done(w)
  PROVE  ChooserIInv' /\ DOMAIN agent_devs \subseteq DOMAIN agent_devs'
<1> USE DEF ChooserIInv
<1>1. scan[w] \in Scans /\ agent_devs \in Partial(Wireless, Bases)
  BY ProbesTyped DEF ChooserTypeOK
<1>2. /\ agent_devs' \in Partial(Wireless, Bases)
      /\ DOMAIN agent_devs' = DOMAIN scan[w].ok \cup DOMAIN agent_devs
  BY <1>1, RegisteredIs DEF Scans, agent_scan_done
<1>3. Lists(w, agent_devs', probe)
  BY Populates, ProbesTyped DEF agent_scan_done
<1>4. LabelsKept' /\ ProbesKept'
      /\ \A v \in Windows : v \notin windows' \cup unused' => DOMAIN rows'[v] = {}
  <2>1. w \notin unused' /\ unused' = unused
    BY DEF agent_scan_done, ScansKept
  <2> QED
    BY <1>2, <1>3, <2>1, ListingKeeps, ProbesTyped DEF agent_scan_done
<1>5. WindowsKept' /\ OpenedAsShown'
  BY <1>4 DEF WindowsKept, OpenedAsShown, agent_scan_done
<1>6. probed_hosts \subseteq probed_hosts'
  BY <1>3 DEF Lists
<1>7. scan' \in [Windows -> Scans] /\ busy' \in [Windows -> BOOLEAN]
  BY ProbesTyped, NoProbeTyped DEF agent_scan_done, ChooserTypeOK
<1>8. ScansKept'
  <2> SUFFICES ASSUME NEW v \in Windows
               PROVE  /\ busy'[v] <=> scan'[v].st # "none"
                      /\ scan'[v].st # "none" => scan'[v].host \in probed_hosts' /\ v \notin unused'
                      /\ \A s \in DOMAIN scan'[v].ok \cup DOMAIN scan'[v].todo :
                           HostOf[s] = scan'[v].host /\ scan'[v].host \in AgentHosts
    BY DEF ScansKept
  <2>1. CASE v = w
    <3>1. scan'[v] = NoScan /\ busy'[v] = FALSE
      BY <2>1, ProbesTyped DEF agent_scan_done, ChooserTypeOK
    <3> QED
      BY <3>1, NothingIs DEF NoScan
  <2>2. CASE v # w
    <3>1. scan'[v] = scan[v] /\ busy'[v] = busy[v]
      BY <2>2, ProbesTyped DEF agent_scan_done, ChooserTypeOK
    <3> QED
      BY <3>1, <1>6 DEF ScansKept, agent_scan_done
  <2> QED
    BY <2>1, <2>2
<1>9. RegistryKept'
  <2> SUFFICES ASSUME NEW s \in DOMAIN agent_devs'
               PROVE  HostOf[s] \in probed_hosts' \cap AgentHosts
    BY DEF RegistryKept
  <2>1. CASE s \in DOMAIN scan[w].ok
    BY <1>6, <2>1 DEF ScansKept, agent_scan_done
  <2>2. CASE s \in DOMAIN agent_devs
    BY <1>6, <2>2 DEF RegistryKept
  <2> QED
    BY <1>2, <2>1, <2>2
<1>10. ChooserTypeOK'
  BY <1>2, <1>3, <1>7 DEF ChooserTypeOK, Lists, Probes, Scans, agent_scan_done
<1> QED
  BY <1>2, <1>4, <1>5, <1>8, <1>9, <1>10

-----------------------------------------------------------------------------
(* The other steps of the user. *)

(* on_row_activated: the options read are those of the newest window, if it is open. *)
LEMMA OpenStep ==
  ASSUME ChooserIInv, NEW w \in Windows, NEW s \in Serials, on_row_activated(w, s)
  PROVE  ChooserIInv'
<1> USE DEF ChooserIInv
<1>1. /\ opened' = [path |-> Path(s), at |-> w, from |-> read_settings]
      /\ w \in windows /\ w \notin unused /\ dd' = dd /\ unused' = unused
  BY DEF on_row_activated, ChooserTypeOK
<1>2. Path(s) \in {"agent", "lan", "tunnel"} /\ read_settings \in Windows \cup {NoWindow}
  BY DEF Path, read_settings, ChooserTypeOK
<1>3. ChooserTypeOK'
  BY <1>1, <1>2 DEF ChooserTypeOK, on_row_activated
<1>4. OpenedAsShown'
  <2> SUFFICES ASSUME w = dd PROVE read_settings = w
    BY <1>1 DEF OpenedAsShown
  <2> QED
    BY <1>1 DEF read_settings
<1>5. WindowsKept' /\ LabelsKept' /\ ProbesKept' /\ ScansKept' /\ RegistryKept'
  BY <1>1 DEF WindowsKept, LabelsKept, ProbesKept, ScansKept, RegistryKept, on_row_activated
<1> QED
  BY <1>3, <1>4, <1>5

(* agent_scan_start: the host is marked before its scan begins. *)
LEMMA ScanStartStep ==
  ASSUME ChooserIInv, NEW w \in Windows, NEW h \in Hosts, agent_scan_start(w, h)
  PROVE  ChooserIInv'
<1> USE DEF ChooserIInv
<1> DEFINE new == [NoScan EXCEPT !.st = "asking", !.host = h]
<1>1. /\ new \in Scans /\ new.st = "asking" /\ new.host = h
      /\ DOMAIN new.ok = {} /\ DOMAIN new.todo = {}
  <2>1. Nothing \in Partial(Wireless, Bases) /\ DOMAIN Nothing = {}
    BY NothingIs
  <2> HIDE DEF Nothing
  <2> QED
    BY <2>1 DEF NoScan, Scans
<1>2. /\ scan' \in [Windows -> Scans] /\ scan'[w] = new
      /\ \A v \in Windows \ {w} : scan'[v] = scan[v]
  <2> HIDE DEF new
  <2> QED
    BY <1>1, ProbesTyped DEF agent_scan_start, new
<1>3. ChooserTypeOK'
  BY <1>2 DEF ChooserTypeOK, Scans, agent_scan_start
<1>4. ScansKept'
  <2> SUFFICES ASSUME NEW v \in Windows
               PROVE  /\ busy'[v] <=> scan'[v].st # "none"
                      /\ scan'[v].st # "none" => scan'[v].host \in probed_hosts' /\ v \notin unused'
                      /\ \A s \in DOMAIN scan'[v].ok \cup DOMAIN scan'[v].todo :
                           HostOf[s] = scan'[v].host /\ scan'[v].host \in AgentHosts
    BY DEF ScansKept
  <2>1. CASE v = w
    <3>1. busy'[w] = TRUE /\ h \in probed_hosts' /\ w \notin unused'
      BY DEF agent_scan_start, ChooserTypeOK
    <3>2. /\ scan'[v].st = "asking" /\ scan'[v].host = h
          /\ DOMAIN scan'[v].ok \cup DOMAIN scan'[v].todo = {}
      <4> HIDE DEF new, ChooserIInv
      <4> QED
        BY <1>1, <1>2, <2>1
    <3> HIDE DEF ChooserIInv
    <3> QED
      BY <2>1, <3>1, <3>2
  <2>2. CASE v # w
    BY <1>2, <2>2 DEF ScansKept, agent_scan_start, ChooserTypeOK
  <2> QED
    BY <2>1, <2>2
<1>5. WindowsKept' /\ LabelsKept' /\ ProbesKept' /\ RegistryKept' /\ OpenedAsShown'
  BY DEF WindowsKept, LabelsKept, ProbesKept, RegistryKept, OpenedAsShown, agent_scan_start
<1> QED
  BY <1>3, <1>4, <1>5

(* A window closes, with its rows. *)
LEMMA CloseStep ==
  ASSUME ChooserIInv, NEW w \in Windows, CloseWindow(w)
  PROVE  ChooserIInv'
<1> USE DEF ChooserIInv
<1>1. /\ rows' \in [Windows -> Partial(Serials, BOOLEAN)] /\ DOMAIN rows'[w] = {}
      /\ \A v \in Windows \ {w} : rows'[v] = rows[v]
  BY NothingIs DEF CloseWindow, ChooserTypeOK
<1>2. ChooserTypeOK'
  BY <1>1 DEF ChooserTypeOK, CloseWindow
<1>3. WindowsKept'
  BY <1>1 DEF WindowsKept, CloseWindow
<1>4. LabelsKept'
  <2> SUFFICES ASSUME NEW v \in Windows, NEW s \in DOMAIN rows'[v]
               PROVE  rows'[v] = rows[v] /\ agent_devs' = agent_devs /\ unused' = unused
    BY DEF LabelsKept
  <2> QED
    BY <1>1 DEF CloseWindow
<1>5. ProbesKept' /\ ScansKept' /\ RegistryKept' /\ OpenedAsShown'
  BY DEF ProbesKept, ScansKept, RegistryKept, OpenedAsShown, CloseWindow
<1> QED
  BY <1>2, <1>3, <1>4, <1>5

-----------------------------------------------------------------------------
(* The background threads. *)

(* What an agent answers are devices of its own. *)
LEMMA AnswerIs ==
  ASSUME NEW h \in Hosts, NEW ans \in agent_scan(h), ans # Refused
  PROVE  /\ ans \in Partial(Wireless, Bases) /\ h \in AgentHosts
         /\ \A s \in DOMAIN ans : HostOf[s] = h
<1> DEFINE Own == {s \in Wireless : HostOf[s] = h}
<1>1. ans \in Partial(Own, Bases) /\ h \in AgentHosts
  BY DEF agent_scan, Listings
<1>2. DOMAIN ans \subseteq Own /\ ans \in [DOMAIN ans -> Bases]
  <2> HIDE DEF Own
  <2> QED
    BY <1>1, PartialIs
<1>3. ans \in Partial(Wireless, Bases)
  BY <1>2, IsPartial
<1> QED
  BY <1>1, <1>2, <1>3

(* auto_probe_thread. *)
LEMMA ProbeThreadStep ==
  ASSUME ChooserIInv, NEW h \in Hosts, auto_probe_thread(h)
  PROVE  ChooserIInv'
<1> USE DEF ChooserIInv
<1>1. PICK ans \in agent_scan(h) : probe' = [probe EXCEPT ![h].st = "done", ![h].devs = ans]
  BY DEF auto_probe_thread
<1>2. ans \in Partial(Wireless, Bases) \cup {Refused}
  BY AnswerIs
<1>3. /\ probe' \in [Hosts -> Probes]
      /\ probe'[h].list = probe[h].list /\ probe'[h].devs = ans
      /\ \A g \in Hosts \ {h} : probe'[g] = probe[g]
  BY <1>1, <1>2, ProbesTyped DEF Probes
<1>4. ChooserTypeOK'
  BY <1>3 DEF ChooserTypeOK, Probes, auto_probe_thread
<1>5. ProbesKept'
  <2> SUFFICES ASSUME NEW g \in Hosts
               PROVE  /\ probe'[g].st # "none" =>
                           probe'[g].list \in Windows \ unused' /\ g \in probed_hosts'
                      /\ probe'[g].devs # Refused =>
                           g \in AgentHosts /\ \A s \in DOMAIN probe'[g].devs : HostOf[s] = g
    BY DEF ProbesKept
  <2>1. /\ probe[h].list \in Windows \ unused /\ h \in probed_hosts
        /\ probed_hosts' = probed_hosts /\ unused' = unused
    BY DEF ProbesKept, auto_probe_thread
  <2>2. CASE g = h
    BY <1>3, <2>1, <2>2, AnswerIs
  <2>3. CASE g # h
    BY <1>3, <2>1, <2>3 DEF ProbesKept
  <2> QED
    BY <2>2, <2>3
<1>6. WindowsKept' /\ LabelsKept' /\ ScansKept' /\ RegistryKept' /\ OpenedAsShown'
  BY DEF WindowsKept, LabelsKept, ScansKept, RegistryKept, OpenedAsShown, auto_probe_thread
<1> QED
  BY <1>4, <1>5, <1>6

(* The answer to a scan: nothing, or devices of the host that was asked, none of which
   has been connected. *)
LEMMA ScanAskStep ==
  ASSUME ChooserIInv, NEW w \in Windows, ScanAsk(w)
  PROVE  ChooserIInv'
<1> USE DEF ChooserIInv
<1> DEFINE Todo(ans) == IF ans = Refused THEN Nothing ELSE ans
<1>1. PICK ans \in agent_scan(scan[w].host) :
        scan' = [scan EXCEPT ![w].st = IF ans \in {Refused, Nothing} THEN "done" ELSE "connecting",
                             ![w].todo = Todo(ans)]
  BY DEF ScanAsk
<1>2. scan[w] \in Scans /\ scan[w].st = "asking" /\ scan[w].host \in probed_hosts
  BY ProbesTyped DEF ScanAsk, ScansKept
<1>3. scan[w].host \in Hosts
  BY <1>2 DEF ChooserTypeOK
<1>4. /\ Todo(ans) \in Partial(Wireless, Bases)
      /\ \A s \in DOMAIN Todo(ans) : HostOf[s] = scan[w].host /\ scan[w].host \in AgentHosts
  <2>1. CASE ans = Refused
    BY <2>1, NothingIs
  <2>2. CASE ans # Refused
    BY <1>3, <2>2, AnswerIs
  <2> QED
    BY <2>1, <2>2
<1> HIDE DEF Todo
<1>5. /\ scan' \in [Windows -> Scans]
      /\ scan'[w].st # "none" /\ scan'[w].host = scan[w].host
      /\ scan'[w].todo = Todo(ans) /\ scan'[w].ok = scan[w].ok
      /\ \A v \in Windows \ {w} : scan'[v] = scan[v]
  BY <1>1, <1>2, <1>4, ProbesTyped DEF Scans
<1>6. ChooserTypeOK'
  BY <1>5 DEF ChooserTypeOK, Scans, ScanAsk
<1>7. ScansKept'
  <2> SUFFICES ASSUME NEW v \in Windows
               PROVE  /\ busy'[v] <=> scan'[v].st # "none"
                      /\ scan'[v].st # "none" => scan'[v].host \in probed_hosts' /\ v \notin unused'
                      /\ \A s \in DOMAIN scan'[v].ok \cup DOMAIN scan'[v].todo :
                           HostOf[s] = scan'[v].host /\ scan'[v].host \in AgentHosts
    BY DEF ScansKept
  <2>1. busy' = busy /\ probed_hosts' = probed_hosts /\ unused' = unused
    BY DEF ScanAsk
  <2>2. CASE v = w
    BY <1>2, <1>4, <1>5, <2>1, <2>2 DEF ScansKept
  <2>3. CASE v # w
    BY <1>5, <2>1, <2>3 DEF ScansKept
  <2> QED
    BY <2>2, <2>3
<1>8. WindowsKept' /\ LabelsKept' /\ ProbesKept' /\ RegistryKept' /\ OpenedAsShown'
  BY DEF WindowsKept, LabelsKept, ProbesKept, RegistryKept, OpenedAsShown, ScanAsk
<1> QED
  BY <1>6, <1>7, <1>8

(* One device of the answer is connected, or not; it moves from what is to do to what is
   done, or is dropped. *)
LEMMA ScanConnectStep ==
  ASSUME ChooserIInv, NEW w \in Windows, ScanConnect(w)
  PROVE  ChooserIInv'
<1> USE DEF ChooserIInv
<1> DEFINE Left(s) == [d \in DOMAIN scan[w].todo \ {s} |-> scan[w].todo[d]]
           One(s) == [d \in {s} |-> scan[w].todo[d]]
           Ok(s, b) == IF b THEN Entered(One(s), scan[w].ok) ELSE scan[w].ok
<1>1. PICK s \in DOMAIN scan[w].todo, joined \in BOOLEAN, verified \in BOOLEAN :
        /\ adb' = IF joined THEN adb \cup {s} ELSE adb
        /\ scan' = [scan EXCEPT
                      ![w].todo = Left(s),
                      ![w].ok = IF verified THEN Entered(One(s), @) ELSE @,
                      ![w].st = IF Left(s) = Nothing THEN "done" ELSE "connecting"]
  BY DEF ScanConnect
<1>2. scan[w] \in Scans /\ scan[w].st = "connecting"
  BY ProbesTyped DEF ScanConnect
<1>3. /\ DOMAIN scan[w].todo \subseteq Wireless
      /\ scan[w].todo \in [DOMAIN scan[w].todo -> Bases]
  BY <1>2, PartialIs DEF Scans
<1>4. Left(s) \in Partial(Wireless, Bases) /\ DOMAIN Left(s) \subseteq DOMAIN scan[w].todo
  <2>1. Left(s) \in [DOMAIN scan[w].todo \ {s} -> Bases]
    BY <1>3
  <2> HIDE DEF Left
  <2> QED
    BY <1>3, <2>1, IsPartial
<1>5. One(s) \in Partial(Wireless, Bases) /\ DOMAIN One(s) = {s}
  <2>1. One(s) \in [{s} -> Bases]
    BY <1>3
  <2> HIDE DEF One
  <2> QED
    BY <1>3, <2>1, IsPartial
<1>6. /\ Ok(s, verified) \in Partial(Wireless, Bases)
      /\ DOMAIN Ok(s, verified) \subseteq DOMAIN scan[w].ok \cup DOMAIN scan[w].todo
  <2> HIDE DEF One
  <2>1. CASE verified
    <3>1. /\ Entered(One(s), scan[w].ok) \in Partial(Wireless, Bases)
          /\ DOMAIN Entered(One(s), scan[w].ok) = DOMAIN One(s) \cup DOMAIN scan[w].ok
      BY <1>2, <1>5, EnteredIs DEF Scans
    <3> QED
      BY <1>5, <2>1, <3>1
  <2>2. CASE ~verified
    BY <1>2, <2>2 DEF Scans
  <2> QED
    BY <2>1, <2>2
<1>7. scan' = [scan EXCEPT
                 ![w].todo = Left(s), ![w].ok = Ok(s, verified),
                 ![w].st = IF Left(s) = Nothing THEN "done" ELSE "connecting"]
  <2> HIDE DEF Left, One
  <2> QED
    BY <1>1, <1>2, ProbesTyped DEF Scans
<1> HIDE DEF Left, Ok
<1>8. /\ scan' \in [Windows -> Scans]
      /\ scan'[w].st # "none" /\ scan'[w].host = scan[w].host
      /\ scan'[w].todo = Left(s) /\ scan'[w].ok = Ok(s, verified)
      /\ \A v \in Windows \ {w} : scan'[v] = scan[v]
  BY <1>2, <1>4, <1>6, <1>7, ProbesTyped DEF Scans
<1>9. adb' \subseteq Serials
  BY <1>1, <1>3 DEF ChooserTypeOK, Serials
<1>10. ChooserTypeOK'
  BY <1>8, <1>9 DEF ChooserTypeOK, Scans, ScanConnect
<1>11. ScansKept'
  <2> SUFFICES ASSUME NEW v \in Windows
               PROVE  /\ busy'[v] <=> scan'[v].st # "none"
                      /\ scan'[v].st # "none" => scan'[v].host \in probed_hosts' /\ v \notin unused'
                      /\ \A d \in DOMAIN scan'[v].ok \cup DOMAIN scan'[v].todo :
                           HostOf[d] = scan'[v].host /\ scan'[v].host \in AgentHosts
    BY DEF ScansKept
  <2>1. busy' = busy /\ probed_hosts' = probed_hosts /\ unused' = unused
    BY DEF ScanConnect
  <2>2. CASE v = w
    BY <1>2, <1>4, <1>6, <1>8, <2>1, <2>2 DEF ScansKept
  <2>3. CASE v # w
    BY <1>8, <2>1, <2>3 DEF ScansKept
  <2> QED
    BY <2>2, <2>3
<1>12. WindowsKept' /\ LabelsKept' /\ ProbesKept' /\ RegistryKept' /\ OpenedAsShown'
  BY DEF WindowsKept, LabelsKept, ProbesKept, RegistryKept, OpenedAsShown, ScanConnect
<1> QED
  BY <1>10, <1>11, <1>12

-----------------------------------------------------------------------------
(* The chooser as a whole. *)

(* The initial states of the chooser. *)
LEMMA ChooserStarts == ChooserInit => ChooserIInv
<1> SUFFICES ASSUME ChooserInit PROVE ChooserIInv
  OBVIOUS
<1>1. scan \in [Windows -> Scans] /\ probe \in [Hosts -> Probes]
  BY NoProbeTyped DEF ChooserInit
<1>2. ChooserTypeOK
  BY <1>1, NothingIs DEF ChooserInit, ChooserTypeOK, Scans, Probes
<1>3. WindowsKept /\ LabelsKept /\ OpenedAsShown
  BY NothingIs DEF ChooserInit, WindowsKept, LabelsKept, OpenedAsShown
<1>4. ProbesKept
  BY DEF ChooserInit, ProbesKept, NoProbe
<1>5. ScansKept
  <2>1. \A w \in Windows : scan[w].st = "none" /\ scan[w].ok = Nothing /\ scan[w].todo = Nothing
    <3> HIDE DEF Nothing
    <3> QED
      BY DEF ChooserInit, NoScan
  <2> QED
    BY <2>1, NothingIs DEF ChooserInit, ScansKept
<1>6. RegistryKept
  BY NothingIs DEF ChooserInit, RegistryKept
<1> QED
  BY <1>2, <1>3, <1>4, <1>5, <1>6 DEF ChooserIInv

(* Devices come and go. *)
LEMMA AdbStep ==
  ASSUME ChooserIInv, NEW s \in Serials, AdbChanges(s)
  PROVE  ChooserIInv'
<1>1. ChooserTypeOK'
  BY DEF ChooserIInv, ChooserTypeOK, AdbChanges
<1>2. /\ WindowsKept' /\ LabelsKept' /\ ProbesKept' /\ ScansKept' /\ RegistryKept'
      /\ OpenedAsShown'
  BY DEF ChooserIInv, WindowsKept, LabelsKept, ProbesKept, ScansKept, RegistryKept,
         OpenedAsShown, AdbChanges
<1> QED
  BY <1>1, <1>2 DEF ChooserIInv

(* The end of the application changes nothing else. *)
LEMMA EndStep ==
  ASSUME ChooserIInv, LastSessionCloses
  PROVE  ChooserIInv'
<1>1. ChooserTypeOK'
  BY DEF ChooserIInv, ChooserTypeOK, LastSessionCloses
<1>2. /\ WindowsKept' /\ LabelsKept' /\ ProbesKept' /\ ScansKept' /\ RegistryKept'
      /\ OpenedAsShown'
  BY DEF ChooserIInv, WindowsKept, LabelsKept, ProbesKept, ScansKept, RegistryKept,
         OpenedAsShown, LastSessionCloses
<1> QED
  BY <1>1, <1>2 DEF ChooserIInv

(* Nor does a step of somebody else. *)
LEMMA ChooserRests ==
  ASSUME ChooserIInv, UNCHANGED chooserVars
  PROVE  ChooserIInv' /\ DOMAIN agent_devs \subseteq DOMAIN agent_devs'
<1>1. ChooserTypeOK'
  BY DEF ChooserIInv, ChooserTypeOK, chooserVars
<1>2. /\ WindowsKept' /\ LabelsKept' /\ ProbesKept' /\ ScansKept' /\ RegistryKept'
      /\ OpenedAsShown'
  BY DEF ChooserIInv, WindowsKept, LabelsKept, ProbesKept, ScansKept, RegistryKept,
         OpenedAsShown, chooserVars
<1> QED
  BY <1>1, <1>2 DEF ChooserIInv, chooserVars

(* Every step keeps the invariant, and what is in the registry. *)
LEMMA ChooserKeeps ==
  ASSUME ChooserIInv, [ChooserNext]_chooserVars
  PROVE  ChooserIInv' /\ DOMAIN agent_devs \subseteq DOMAIN agent_devs'
<1>1. CASE UNCHANGED chooserVars
  BY <1>1, ChooserRests
<1>2. ASSUME NEW w \in Windows, on_activate(w)
      PROVE  ChooserIInv' /\ agent_devs' = agent_devs
  BY <1>2, ActivateStep DEF on_activate
<1>3. ASSUME NEW w \in Windows, on_refresh(w)
      PROVE  ChooserIInv' /\ agent_devs' = agent_devs
  BY <1>3, RefreshStep DEF on_refresh
<1>4. ASSUME NEW w \in Windows, CloseWindow(w)
      PROVE  ChooserIInv' /\ agent_devs' = agent_devs
  BY <1>4, CloseStep DEF CloseWindow
<1>5. ASSUME NEW w \in Windows, NEW s \in Serials, on_row_activated(w, s)
      PROVE  ChooserIInv' /\ agent_devs' = agent_devs
  BY <1>5, OpenStep DEF on_row_activated
<1>6. ASSUME NEW w \in Windows, NEW h \in Hosts, agent_scan_start(w, h)
      PROVE  ChooserIInv' /\ agent_devs' = agent_devs
  BY <1>6, ScanStartStep DEF agent_scan_start
<1>7. ASSUME NEW w \in Windows, ScanAsk(w)
      PROVE  ChooserIInv' /\ agent_devs' = agent_devs
  BY <1>7, ScanAskStep DEF ScanAsk
<1>8. ASSUME NEW w \in Windows, ScanConnect(w)
      PROVE  ChooserIInv' /\ agent_devs' = agent_devs
  BY <1>8, ScanConnectStep DEF ScanConnect
<1>9. ASSUME NEW h \in Hosts, auto_probe_thread(h)
      PROVE  ChooserIInv' /\ agent_devs' = agent_devs
  BY <1>9, ProbeThreadStep DEF auto_probe_thread
<1>10. CASE LastSessionCloses
  BY <1>10, EndStep DEF LastSessionCloses
<1>11. ASSUME NEW s \in Serials, AdbChanges(s)
       PROVE  ChooserIInv' /\ agent_devs' = agent_devs
  BY <1>11, AdbStep DEF AdbChanges
<1> QED
  BY <1>1, <1>2, <1>3, <1>4, <1>5, <1>6, <1>7, <1>8, <1>9, <1>10, <1>11, ScanDoneStep,
     ProbeDoneStep DEF ChooserNext

(* It says what ChooserInv says. *)
LEMMA ChooserHolds == ChooserIInv => ChooserInv
<1> SUFFICES ASSUME ChooserIInv PROVE ChooserInv
  OBVIOUS
<1>1. LabelsMatch
  BY DEF ChooserIInv, LabelsKept, LabelsMatch, Path
<1>2. ReportsAreOwn
  BY DEF ChooserIInv, ProbesKept, ScansKept, RegistryKept, ReportsAreOwn
<1> QED
  BY <1>1, <1>2 DEF ChooserIInv, ChooserInv

(* In every behaviour of the chooser, for every set of windows, hosts and devices: no label
   "(agent)" is wrong, and until a second activation none is missing; a report holds
   devices of the host that was asked, which has an agent; and a session opened from the
   newest window has the options of that window (chooser.c, agent.c). *)
THEOREM ChooserIsSound == ChooserSpec => []ChooserInv
<1>1. ChooserInit => ChooserIInv
  BY ChooserStarts
<1>2. ChooserIInv /\ [ChooserNext]_chooserVars => ChooserIInv'
  BY ChooserKeeps
<1>3. ChooserIInv => ChooserInv
  BY ChooserHolds
<1> QED
  BY <1>1, <1>2, <1>3, PTL DEF ChooserSpec

-----------------------------------------------------------------------------
(* Desktop.                                                                   *)

(* What was opened by an agent's word was, and still is, in the registry. *)
AgentSessionsKnown ==
  \A i \in DOMAIN sessions : sessions[i].path # "lan" => sessions[i].dev \in DOMAIN agent_devs

DesktopIInv == ChooserIInv /\ IInv /\ AgentSessionsKnown /\ AgentStaysAgent

(* The path chosen for a wireless device is one that SessionTable allows it. *)
LEMMA PathAllowed ==
  ASSUME ChooserIInv, NEW s \in Wireless
  PROVE  /\ s \in Devs /\ Path(s) \in Paths(s)
         /\ Path(s) = "lan" <=> s \notin DOMAIN agent_devs
<1>1. s \in Devs
  BY DesktopAssumption
<1>2. s \in WifiDevs => s \notin DOMAIN agent_devs
  BY DesktopAssumption DEF ChooserIInv, RegistryKept
<1> QED
  BY <1>1, <1>2 DEF Path, Paths

(* A wired device is opened through the tunnel. *)
LEMMA WiredPath ==
  ASSUME ChooserIInv, NEW s \in Serials, s \notin Wireless
  PROVE  Path(s) = "tunnel"
<1>1. DOMAIN agent_devs \subseteq Wireless
  BY PartialIs DEF ChooserIInv, ChooserTypeOK
<1> QED
  BY <1>1 DEF Path

(* A step of the application is one of the chooser, or leaves it alone. *)
LEMMA StepOfChooser ==
  ASSUME [DesktopNext]_desktopVars
  PROVE  [ChooserNext]_chooserVars
<1>1. ASSUME NEW w \in Windows, NEW s \in Serials, OpenSession(w, s) PROVE ChooserNext
  BY <1>1 DEF OpenSession, ChooserNext
<1>2. ASSUME NEW i \in DOMAIN sessions, CloseSession(i) PROVE [ChooserNext]_chooserVars
  BY <1>2 DEF CloseSession, ChooserNext
<1>3. CASE CloseOther
  BY <1>3 DEF CloseOther, ChooserNext
<1>4. CASE ChooserStep
  BY <1>4 DEF ChooserStep, ChooserNext
<1>5. CASE SessionStep
  BY <1>5 DEF SessionStep
<1>6. CASE UNCHANGED desktopVars
  BY <1>6 DEF desktopVars
<1> QED
  BY <1>1, <1>2, <1>3, <1>4, <1>5, <1>6 DEF DesktopNext

(* It is one of the session table, or leaves it alone. *)
LEMMA StepOfTable ==
  ASSUME ChooserIInv, [DesktopNext]_desktopVars
  PROVE  [Next]_vars
<1>1. ASSUME NEW w \in Windows, NEW s \in Serials, OpenSession(w, s) PROVE [Next]_vars
  <2>1. CASE s \in Wireless
    <3>1. session_new(s, Path(s)) /\ s \in Devs /\ Path(s) \in Paths(s)
      BY <1>1, <2>1, PathAllowed DEF OpenSession
    <3> QED
      BY <3>1 DEF Next
  <2>2. CASE s \notin Wireless
    BY <1>1, <2>2, WiredPath DEF OpenSession
  <2> QED
    BY <2>1, <2>2
<1>2. ASSUME NEW i \in DOMAIN sessions, CloseSession(i) PROVE Next
  BY <1>2 DEF CloseSession, Next
<1>3. CASE CloseOther
  BY <1>3 DEF CloseOther
<1>4. CASE ChooserStep
  BY <1>4 DEF ChooserStep
<1>5. CASE SessionStep
  BY <1>5 DEF SessionStep, Next
<1>6. CASE UNCHANGED desktopVars
  BY <1>6 DEF desktopVars
<1> QED
  BY <1>1, <1>2, <1>3, <1>4, <1>5, <1>6 DEF DesktopNext

(* Start threads and servers open no session. *)
LEMMA TableKept ==
  ASSUME IInv, SessionStep
  PROVE  Keeps
<1>1. DOMAIN sessions' = DOMAIN sessions
  BY DEF SessionStep, Probe, RunServer, Connect, ReadMeta, FallBack, Enter, Bind, Exit, acceptAuthed
<1>2. \/ Keeps
      \/ \E dev \in Devs : \E path \in Paths(dev) : session_new(dev, path)
      \/ sessions' = sessions
  <2>1. Next
    BY DEF SessionStep, Next
  <2> QED
    BY <2>1, StepKinds
<1>3. ASSUME NEW dev \in Devs, NEW path \in Paths(dev), session_new(dev, path)
      PROVE  FALSE
  <2>1. PICK r \in Sessions : sessions' = Append(sessions, r)
    BY <1>3, NewSession
  <2>2. sessions \in Seq(Sessions)
    BY DEF IInv, TypeOK
  <2> QED
    BY ONLY <1>1, <2>1, <2>2
<1>4. ASSUME sessions' = sessions PROVE Keeps
  BY <1>4 DEF IInv, TypeOK, Keeps
<1> QED
  BY <1>2, <1>3, <1>4

(* What a step does to the table: it appends one session, with the path that the registry
   gives, or leaves devices and paths as they are. *)
LEMMA OpensByRegistry ==
  ASSUME ChooserIInv, IInv, [DesktopNext]_desktopVars
  PROVE  \/ Keeps
         \/ /\ agent_devs' = agent_devs
            /\ \E r \in Sessions :
                 /\ sessions' = Append(sessions, r)
                 /\ r.path = "lan" <=> r.dev \notin DOMAIN agent_devs
<1>0. ASSUME sessions' = sessions PROVE Keeps
  BY <1>0 DEF IInv, TypeOK, Keeps
<1>1. ASSUME NEW w \in Windows, NEW s \in Serials, OpenSession(w, s), s \in Wireless
      PROVE  /\ agent_devs' = agent_devs
             /\ \E r \in Sessions :
                  /\ sessions' = Append(sessions, r)
                  /\ r.path = "lan" <=> r.dev \notin DOMAIN agent_devs
  <2>1. /\ session_new(s, Path(s)) /\ s \in Devs /\ Path(s) \in Paths(s)
        /\ agent_devs' = agent_devs
    BY <1>1, PathAllowed DEF OpenSession, on_row_activated
  <2>2. \E r \in Sessions : sessions' = Append(sessions, r) /\ r.dev = s /\ r.path = Path(s)
    BY <2>1, NewSession
  <2> QED
    BY <1>1, <2>1, <2>2, PathAllowed
<1>2. ASSUME NEW w \in Windows, NEW s \in Serials, OpenSession(w, s), s \notin Wireless
      PROVE  sessions' = sessions
  BY <1>2, WiredPath DEF OpenSession, vars
<1>3. ASSUME NEW i \in DOMAIN sessions, CloseSession(i) PROVE Keeps
  BY <1>3, TeardownKeeps DEF CloseSession, IInv
<1>4. ASSUME CloseOther \/ ChooserStep \/ UNCHANGED desktopVars PROVE sessions' = sessions
  BY <1>4 DEF CloseOther, ChooserStep, desktopVars, vars
<1>5. CASE SessionStep
  BY <1>5, TableKept
<1> QED
  BY <1>0, <1>1, <1>2, <1>3, <1>4, <1>5 DEF DesktopNext

(* Every step keeps what was opened by an agent's word apart from what was not. *)
LEMMA DesktopKeeps ==
  ASSUME DesktopIInv, [DesktopNext]_desktopVars
  PROVE  DesktopIInv'
<1> USE DEF DesktopIInv
<1>1. ChooserIInv' /\ DOMAIN agent_devs \subseteq DOMAIN agent_devs'
  BY StepOfChooser, ChooserKeeps
<1>2. IInv'
  BY StepOfTable, InvStep
<1>3. CASE Keeps
  <2>1. AgentSessionsKnown'
    BY <1>1, <1>3 DEF AgentSessionsKnown, Keeps
  <2>2. AgentStaysAgent'
    BY <1>3 DEF AgentStaysAgent, Keeps
  <2> QED
    BY <1>1, <1>2, <2>1, <2>2
<1>4. ASSUME agent_devs' = agent_devs, NEW r \in Sessions, sessions' = Append(sessions, r),
             r.path = "lan" <=> r.dev \notin DOMAIN agent_devs
      PROVE  DesktopIInv'
  <2>1. sessions \in Seq(Sessions)
    BY DEF IInv, TypeOK
  <2>2. /\ Len(sessions) \in Nat /\ DOMAIN sessions = 1 .. Len(sessions)
        /\ DOMAIN sessions' = 1 .. Len(sessions) + 1
        /\ sessions'[Len(sessions) + 1] = r
        /\ \A i \in DOMAIN sessions : sessions'[i] = sessions[i]
    BY ONLY <1>4, <2>1
  <2> DEFINE n == Len(sessions) + 1
  <2>3. AgentSessionsKnown'
    <3> SUFFICES ASSUME NEW i \in DOMAIN sessions', sessions'[i].path # "lan"
                 PROVE  sessions'[i].dev \in DOMAIN agent_devs'
      BY DEF AgentSessionsKnown
    <3>1. CASE i = n
      BY <1>4, <2>2, <3>1
    <3>2. CASE i \in DOMAIN sessions
      BY <1>4, <2>2, <3>2 DEF AgentSessionsKnown
    <3> QED
      BY ONLY <2>2, <3>1, <3>2, i \in DOMAIN sessions'
  <2>4. AgentStaysAgent'
    <3> SUFFICES ASSUME NEW i \in DOMAIN sessions', NEW j \in DOMAIN sessions', i < j,
                        sessions'[i].dev = sessions'[j].dev, sessions'[i].path # "lan"
                 PROVE  sessions'[j].path # "lan"
      BY DEF AgentStaysAgent
    <3>1. i \in DOMAIN sessions /\ (j = n \/ j \in DOMAIN sessions)
      BY ONLY <2>2, i < j, i \in DOMAIN sessions', j \in DOMAIN sessions'
    <3>2. CASE j = n
      BY <1>4, <2>2, <3>1, <3>2 DEF AgentSessionsKnown
    <3>3. CASE j \in DOMAIN sessions
      BY <2>2, <3>1, <3>3 DEF AgentStaysAgent
    <3> QED
      BY <3>1, <3>2, <3>3
  <2> QED
    BY <1>1, <1>2, <2>3, <2>4
<1> QED
  BY <1>3, <1>4, OpensByRegistry

(* The initial states of the application. *)
LEMMA DesktopStarts == DesktopInit => DesktopIInv
<1> SUFFICES ASSUME DesktopInit PROVE DesktopIInv
  OBVIOUS
<1>1. ChooserIInv /\ IInv
  BY ChooserStarts, InitInv DEF DesktopInit
<1>2. DOMAIN sessions = {}
  BY DEF DesktopInit, Init
<1> QED
  BY <1>1, <1>2 DEF DesktopIInv, AgentSessionsKnown, AgentStaysAgent

(* Equal ports have different paths, and an agent's session is not followed by one over
   LAN. *)
LEMMA DesktopHolds == DesktopIInv => DesktopInv
<1> SUFFICES ASSUME DesktopIInv PROVE PortsMeetAfterLateProbe
  BY DEF DesktopIInv, DesktopInv
<1> SUFFICES ASSUME NEW i \in Live, NEW j \in Live, i < j, sessions[i].dev = sessions[j].dev,
                    UsesLan(i), UsesLan(j), DevicePort(i) = DevicePort(j)
             PROVE  sessions[i].path = "lan" /\ sessions[j].path = "agent"
  BY DEF PortsMeetAfterLateProbe
<1>1. i \in DOMAIN sessions /\ j \in DOMAIN sessions /\ sessions \in Seq(Sessions)
  BY DEF Live, DesktopIInv, IInv, TypeOK
<1>2. sessions[i].path \in {"agent", "lan"} /\ sessions[j].path \in {"agent", "lan"}
  BY <1>1 DEF DesktopIInv, IInv, AllCoherent, Coherent, UsesLan
<1>3. sessions[i].path # sessions[j].path
  <2>1. i # j
    BY <1>1
  <2> QED
    BY <2>1 DEF DesktopIInv, IInv, PortsDistinct
<1>4. ~(sessions[i].path = "agent" /\ sessions[j].path = "lan")
  BY <1>1 DEF DesktopIInv, AgentStaysAgent
<1> QED
  BY <1>2, <1>3, <1>4

(* The application implements SessionTable: the registry, in whatever order its scans and
   probes answer, gives every device a path that SessionTable allows it, and so what is
   proved of SessionTable holds of the application (on_row_activated, session_new). *)
THEOREM DesktopImplementsTable == DesktopSpec => Spec
<1>1. DesktopInit => DesktopIInv /\ Init
  BY DesktopStarts DEF DesktopInit
<1>2. DesktopIInv /\ [DesktopNext]_desktopVars => DesktopIInv'
  BY DesktopKeeps
<1>3. DesktopIInv /\ [DesktopNext]_desktopVars => [Next]_vars
  BY StepOfTable DEF DesktopIInv
<1> QED
  BY <1>1, <1>2, <1>3, PTL DEF DesktopSpec, Spec

(* Over a whole run, an agent's device is not mistaken for one on the network once a
   session was opened through its agent, and the ports of two live sessions of a device
   meet only when the older one preceded the agent's answer. *)
THEOREM RegistryAndTableAgree == DesktopSpec => []DesktopInv
<1>1. DesktopInit => DesktopIInv
  BY DesktopStarts
<1>2. DesktopIInv /\ [DesktopNext]_desktopVars => DesktopIInv'
  BY DesktopKeeps
<1>3. DesktopIInv => DesktopInv
  BY DesktopHolds
<1> QED
  BY <1>1, <1>2, <1>3, PTL DEF DesktopSpec
=============================================================================
