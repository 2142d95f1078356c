-------------------------- MODULE StreamRelayProofs --------------------------
(***************************************************************************)
(* Proofs about StreamRelay, for every choice of channels, every set of       *)
(* strangers, every number of chunks and every size of pre[]: the Group has     *)
(* one opener at a time, reconnecting loses and repeats nothing, and the        *)
(* server gives its roles to connections of the session only, each once.        *)
(***************************************************************************)
EXTENDS StreamRelay, FiniteSetTheorems, SequenceTheorems, TLAPS

(* The first n chunks. *)
Chunks(n) == [i \in 1 .. n |-> i]

Opening(c) == thr[c] \in {"connect", "replay", "verdict"}

(* Exactly one thread is in the Group while busy is set, and none otherwise. *)
OneInGroup ==
  /\ \A c \in Conns : Opening(c) => busy
  /\ \A c, d \in Conns : Opening(c) /\ Opening(d) => c = d
  /\ busy => \E c \in Conns : Opening(c)

(* A connection is queued at the listener once, and has no thread yet. *)
AcceptedOnce ==
  /\ IsInjective(queue)
  /\ \A c \in ToSet(queue) : thr[c] = "none" /\ cli[c] # "none"
  /\ \A c \in Conns : thr[c] # "none" => cli[c] # "none"

(* What the agent keeps and what it has passed on. *)
Kept(c) ==
  /\ got[c] <= sent[c] /\ (c \in Probes => sent[c] = 0)
  /\ thr[c] \in {"none", "new"} => got[c] = 0 /\ pre[c] = <<>>
  /\ Opening(c) => pre[c] = Chunks(got[c])
  /\ thr[c] \in {"verdict", "pump"} => del[c] = Chunks(got[c])
  /\ c \in Probes => del[c] = <<>>
NothingLost == \A c \in Conns : Kept(c)

(* Where an upstream connection is in the device. *)
UpstreamPlace ==
  /\ \A c \in Conns : thr[c] \in {"none", "new", "connect"} => up[c] = "none"
  /\ IsInjective(backlog)
  /\ \A c \in ToSet(backlog) : up[c] = "queued"
  /\ cur # "none" => up[cur] = "accepted" /\ cur \notin ToSet(roles)
  /\ guest # "gone" => \A c \in ToSet(roles) : up[c] = "accepted"

(* How far the server is. *)
ServerPhase ==
  /\ guest = "down" => roles = <<>>
  /\ cur # "none" => guest = "listening"
  /\ guest \in {"down", "listening"} => Len(roles) < Len(Order)
  /\ guest = "meta" => Len(roles) = Len(Order)
  /\ ToSet(roles) \subseteq Channels /\ IsInjective(roles)
  /\ client = "streaming" => Len(roles) = Len(Order)

IInv ==
  /\ TypeOK /\ OneInGroup /\ AcceptedOnce /\ NothingLost /\ UpstreamPlace /\ ServerPhase

-----------------------------------------------------------------------------
(* The steps of a thread in the Group, by what they do. *)

(* One of the exits of stream_open_upstream that end the attempt. *)
Leave(c) == Opening(c) /\ GiveUp(c)

(* Back to the connect, with pre[] kept. *)
Retry(c) ==
  /\ thr[c] \in {"replay", "verdict"} /\ up[c] = "eof"
  /\ thr' = [thr EXCEPT ![c] = "connect"] /\ up' = [up EXCEPT ![c] = "none"]
  /\ UNCHANGED <<clientVars, queue, busy, late, got, pre, del, serverVars>>

(* Data of the desktop is kept and passed on. *)
Keep(c) ==
  /\ thr[c] = "verdict" /\ got[c] < sent[c] /\ Len(pre[c]) < PreCap
  /\ got' = [got EXCEPT ![c] = @ + 1]
  /\ pre' = [pre EXCEPT ![c] = Append(@, got'[c])]
  /\ del' = [del EXCEPT ![c] = Append(@, got'[c])]
  /\ UNCHANGED <<clientVars, queue, thr, busy, late, up, serverVars>>

GroupStep(c) ==
  \/ Acquire(c) \/ UpConnect(c) \/ Leave(c) \/ Replay(c) \/ Retry(c) \/ Keep(c) \/ Confirm(c)
  \/ PumpData(c) \/ PumpEnd(c)

(* Every step is one of these. *)
LEMMA StepKinds ==
  ASSUME [Next]_vars
  PROVE  \/ \E i \in 1 .. Len(Order) : Connect(i)
         \/ SendControl \/ MetaArrives \/ CloseSession
         \/ \E c \in Probes : Probe(c)
         \/ AgentAccept \/ TimeUp
         \/ \E c \in Conns : GroupStep(c) \/ AdbOpens(c)
         \/ ServerListens \/ ServerAccepts \/ ServerTakes \/ ServerRejects \/ ServerEnds
         \/ UNCHANGED vars
  <1>1. ASSUME NEW c \in Conns, ThreadStep(c) PROVE GroupStep(c)
    BY <1>1, Zenon
    DEF ThreadStep, GroupStep, UpConnectFails, ReplayFails, ClientData, ClientDataLost,
        ClientEof, UpEof, Leave, Retry, Keep, Opening
  <1>2. QED
    BY <1>1, Zenon DEF Next, ClientNext, AgentNext, ServerNext, Quiescent, GroupStep

(* The session's channels and the strangers are different connections. *)
LEMMA OrderFacts ==
  /\ Len(Order) \in Nat /\ Len(Order) > 0
  /\ \A i \in 1 .. Len(Order) : Order[i] \in Channels
  /\ Channels \subseteq Conns /\ Probes \subseteq Conns /\ "none" \notin Conns
  /\ \A c \in Probes : c \notin Channels
  <1>1. Order \in Seq({"video", "audio", "control"}) /\ Order # <<>>
    BY OrderAssumption
  <1>2. DOMAIN Order = 1 .. Len(Order) /\ Len(Order) \in Nat /\ Len(Order) > 0
    BY <1>1
  <1>3. Channels = {Order[i] : i \in 1 .. Len(Order)}
    BY <1>2 DEF Channels, ToSet
  <1>4. "none" \notin Channels
    BY <1>1, <1>3
  <1>5. QED
    BY <1>2, <1>3, <1>4, OrderAssumption DEF Conns

(* The next chunk is appended. *)
LEMMA ChunksGrow ==
  ASSUME NEW n \in Nat
  PROVE  Append(Chunks(n), n + 1) = Chunks(n + 1) /\ Len(Chunks(n)) = n
  BY DEF Chunks

(* Appending a new element. *)
LEMMA AppendFresh ==
  ASSUME NEW S, NEW s \in Seq(S), NEW e \in S
  PROVE  /\ ToSet(Append(s, e)) = ToSet(s) \cup {e}
         /\ Len(Append(s, e)) = Len(s) + 1
         /\ IsInjective(s) /\ e \notin ToSet(s) => IsInjective(Append(s, e))
  <1>1. Len(s) \in Nat /\ DOMAIN s = 1 .. Len(s) /\ Len(Append(s, e)) = Len(s) + 1
    OBVIOUS
  <1>2. DOMAIN Append(s, e) = 1 .. Len(s) + 1 /\ Append(s, e)[Len(s) + 1] = e
        /\ \A i \in 1 .. Len(s) : Append(s, e)[i] = s[i]
    BY <1>1
  <1>3. ToSet(Append(s, e)) = ToSet(s) \cup {e}
    BY <1>1, <1>2 DEF ToSet
  <1>4. ASSUME IsInjective(s), e \notin ToSet(s) PROVE IsInjective(Append(s, e))
    BY <1>1, <1>2, <1>4 DEF IsInjective, ToSet
  <1>5. QED
    BY <1>1, <1>3, <1>4

(* Removing the first element. *)
LEMMA TailOf ==
  ASSUME NEW S, NEW s \in Seq(S), s # <<>>
  PROVE  /\ Head(s) \in ToSet(s) /\ ToSet(Tail(s)) \subseteq ToSet(s)
         /\ IsInjective(s) => IsInjective(Tail(s)) /\ Head(s) \notin ToSet(Tail(s))
  <1>1. Len(s) \in Nat /\ Len(s) > 0 /\ DOMAIN s = 1 .. Len(s) /\ Head(s) = s[1]
    OBVIOUS
  <1>2. DOMAIN Tail(s) = 1 .. Len(s) - 1
        /\ \A i \in 1 .. Len(s) - 1 : Tail(s)[i] = s[i + 1] /\ i + 1 \in DOMAIN s
    BY <1>1
  <1>3. Head(s) \in ToSet(s) /\ ToSet(Tail(s)) \subseteq ToSet(s)
    BY <1>1, <1>2 DEF ToSet
  <1>4. ASSUME IsInjective(s) PROVE IsInjective(Tail(s))
    BY <1>1, <1>2, <1>4 DEF IsInjective
  <1>5. ASSUME IsInjective(s) PROVE Head(s) \notin ToSet(Tail(s))
    BY <1>1, <1>2, <1>5 DEF IsInjective, ToSet
  <1>6. QED
    BY <1>3, <1>4, <1>5

(* The empty sequence. *)
LEMMA NoneIn == ToSet(<<>>) = {} /\ IsInjective(<<>>)
  BY DEF ToSet, IsInjective

(* The elements of a sequence are of its set. *)
LEMMA InSet ==
  ASSUME NEW S, NEW s \in Seq(S)
  PROVE  ToSet(s) \subseteq S
  BY DEF ToSet

(* No chunks. *)
LEMMA NoChunks == Chunks(0) = <<>>
  BY DEF Chunks

-----------------------------------------------------------------------------
TypeFlags == busy \in BOOLEAN /\ late \in BOOLEAN
TypeStates ==
  /\ client \in {"connecting", "waitMeta", "streaming", "closed"}
  /\ guest \in {"down", "listening", "meta", "gone"}
  /\ cur \in Conns \cup {"none"}
  /\ cli \in [Conns -> {"none", "open", "closed"}]
  /\ thr \in [Conns -> {"none", "new", "connect", "replay", "verdict", "pump", "done"}]
  /\ up \in [Conns -> {"none", "pending", "queued", "accepted", "eof"}]
TypeLists == queue \in Seq(Conns) /\ backlog \in Seq(Conns) /\ roles \in Seq(Conns)
TypeData ==
  /\ sent \in [Conns -> 0 .. MaxSent] /\ got \in [Conns -> 0 .. MaxSent]
  /\ pre \in [Conns -> Seq(1 .. MaxSent)] /\ del \in [Conns -> Seq(1 .. MaxSent)]
TypeRoom == \A c \in Conns : Len(pre[c]) <= PreCap

(* The type invariant in parts, each with its own lemma. *)
LEMMA TypeParts == TypeOK <=> TypeFlags /\ TypeStates /\ TypeLists /\ TypeData /\ TypeRoom
  BY Zenon DEF TypeOK, TypeFlags, TypeStates, TypeLists, TypeData, TypeRoom

(* The initial states satisfy the inductive invariant. *)
LEMMA InitInv == Init => IInv
  <1> SUFFICES ASSUME Init PROVE IInv
    OBVIOUS
  <1>1. TypeOK
    <2>1. TypeFlags /\ TypeStates
      BY DEF Init, TypeFlags, TypeStates
    <2>2. TypeLists
      BY DEF Init, TypeLists
    <2>3. TypeData /\ TypeRoom
      BY BoundsAssumption DEF Init, TypeData, TypeRoom
    <2>4. QED
      BY <2>1, <2>2, <2>3, TypeParts
  <1>2. OneInGroup
    BY DEF Init, OneInGroup, Opening
  <1>3. AcceptedOnce
    BY DEF Init, AcceptedOnce, IsInjective, ToSet
  <1>4. NothingLost
    BY DEF Init, NothingLost, Kept, Opening
  <1>5. UpstreamPlace
    BY DEF Init, UpstreamPlace, IsInjective, ToSet
  <1>6. ServerPhase
    BY OrderFacts DEF Init, ServerPhase, IsInjective, ToSet
  <1>7. QED
    BY <1>1, <1>2, <1>3, <1>4, <1>5, <1>6 DEF IInv

(* Every step keeps the types of the flags. *)
LEMMA FlagsStep == IInv /\ [Next]_vars => TypeFlags'
  <1> SUFFICES ASSUME IInv, [Next]_vars PROVE TypeFlags'
    OBVIOUS
  <1> USE DEF clientVars, agentVars, serverVars, TypeFlags
  <1>t. TypeFlags
    BY TypeParts DEF IInv
  <1>1. CASE TimeUp
    BY <1>1, <1>t, Zenon DEF TimeUp
  <1>2. ASSUME NEW c \in Conns, Acquire(c) PROVE TypeFlags'
    BY <1>2, <1>t, Zenon DEF Acquire
  <1>3. ASSUME NEW c \in Conns, Leave(c) PROVE TypeFlags'
    BY <1>3, <1>t, Zenon DEF Leave, GiveUp
  <1>4. ASSUME NEW c \in Conns, Confirm(c) PROVE TypeFlags'
    BY <1>4, <1>t, Zenon DEF Confirm
  <1>5. CASE UNCHANGED <<busy, late>>
    BY <1>5, <1>t, Zenon
  <1>6. QED
    BY ONLY IInv, [Next]_vars, StepKinds, <1>1, <1>2, <1>3, <1>4, <1>5, Zenon
    DEF GroupStep, Connect, SendControl, MetaArrives, CloseSession, Probe, AgentAccept,
        UpConnect, Replay, Retry, Keep, PumpData, PumpEnd, AdbOpens, ServerListens,
        ServerAccepts, ServerTakes, ServerRejects, ServerEnds, vars, clientVars,
        agentVars, serverVars

(* Every step keeps the types of the connections' states. *)
LEMMA StatesStep == IInv /\ [Next]_vars => TypeStates'
  <1> SUFFICES ASSUME IInv, [Next]_vars PROVE TypeStates'
    OBVIOUS
  <1> USE DEF clientVars, agentVars, serverVars, TypeStates
  <1>t. TypeStates
    BY TypeParts DEF IInv
  <1>1. ASSUME NEW i \in 1 .. Len(Order), Connect(i) PROVE TypeStates'
    BY <1>1, <1>t, OrderFacts DEF Connect
  <1>2. CASE MetaArrives
    BY <1>2, <1>t, OrderFacts DEF MetaArrives
  <1>3. CASE CloseSession
    BY <1>3, <1>t, OrderFacts DEF CloseSession
  <1>4. ASSUME NEW c \in Probes, Probe(c) PROVE TypeStates'
    BY <1>4, <1>t, OrderFacts DEF Probe
  <1>5. CASE AgentAccept
    <2>1. Head(queue) \in Conns
      BY <1>5, TypeParts DEF IInv, TypeLists, AgentAccept
    <2>2. QED
      BY <1>5, <1>t, <2>1 DEF AgentAccept
  <1>6. ASSUME NEW c \in Conns, Acquire(c) PROVE TypeStates'
    BY <1>6, <1>t, OrderFacts DEF Acquire
  <1>7. ASSUME NEW c \in Conns, UpConnect(c) PROVE TypeStates'
    BY <1>7, <1>t, OrderFacts DEF UpConnect
  <1>8. ASSUME NEW c \in Conns, Leave(c) PROVE TypeStates'
    BY <1>8, <1>t, OrderFacts DEF Leave, GiveUp
  <1>9. ASSUME NEW c \in Conns, Replay(c) PROVE TypeStates'
    BY <1>9, <1>t, OrderFacts DEF Replay
  <1>10. ASSUME NEW c \in Conns, Retry(c) PROVE TypeStates'
    BY <1>10, <1>t, OrderFacts DEF Retry
  <1>11. ASSUME NEW c \in Conns, Confirm(c) PROVE TypeStates'
    BY <1>11, <1>t, OrderFacts DEF Confirm
  <1>12. ASSUME NEW c \in Conns, PumpEnd(c) PROVE TypeStates'
    BY <1>12, <1>t, OrderFacts DEF PumpEnd
  <1>13. ASSUME NEW c \in Conns, AdbOpens(c) PROVE TypeStates'
    BY <1>13, <1>t, OrderFacts DEF AdbOpens
  <1>14. CASE ServerListens
    BY <1>14, <1>t, OrderFacts DEF ServerListens
  <1>15. CASE ServerAccepts
    <2>1. Head(backlog) \in Conns
      BY <1>15, TypeParts DEF IInv, TypeLists, ServerAccepts
    <2>2. QED
      BY <1>15, <1>t, <2>1 DEF ServerAccepts
  <1>16. CASE ServerTakes
    BY <1>16, <1>t, OrderFacts DEF ServerTakes
  <1>17. CASE ServerRejects
    BY <1>17, <1>t, OrderFacts DEF ServerRejects
  <1>18. CASE ServerEnds
    BY <1>18, <1>t, OrderFacts DEF ServerEnds
  <1>19. CASE UNCHANGED <<client, guest, cur, cli, thr, up>>
    BY <1>19, <1>t
  <1>20. QED
    BY ONLY IInv, [Next]_vars, StepKinds, <1>1, <1>2, <1>3, <1>4, <1>5, <1>6, <1>7, <1>8,
       <1>9, <1>10, <1>11, <1>12, <1>13, <1>14, <1>15, <1>16, <1>17, <1>18, <1>19, Zenon
    DEF GroupStep, SendControl, TimeUp, Keep, PumpData, vars, clientVars, agentVars,
        serverVars

(* Every step keeps the types of the queues and roles. *)
LEMMA ListsStep == IInv /\ [Next]_vars => TypeLists'
  <1> SUFFICES ASSUME IInv, [Next]_vars PROVE TypeLists'
    OBVIOUS
  <1> USE DEF clientVars, agentVars, serverVars, TypeLists
  <1>t. TypeLists /\ TypeStates
    BY TypeParts DEF IInv
  <1>1. ASSUME NEW i \in 1 .. Len(Order), Connect(i) PROVE TypeLists'
    BY <1>1, <1>t, OrderFacts DEF Connect
  <1>2. ASSUME NEW c \in Probes, Probe(c) PROVE TypeLists'
    BY <1>2, <1>t, OrderFacts DEF Probe
  <1>3. CASE AgentAccept
    BY <1>3, <1>t, OrderFacts DEF AgentAccept
  <1>4. ASSUME NEW c \in Conns, AdbOpens(c) PROVE TypeLists'
    <2>1. Append(backlog, c) \in Seq(Conns)
      BY <1>4, <1>t
    <2>2. backlog' = backlog \/ backlog' = Append(backlog, c)
      BY <1>4, Zenon DEF AdbOpens
    <2>3. queue' = queue /\ roles' = roles
      BY <1>4 DEF AdbOpens
    <2>4. QED
      BY ONLY <2>1, <2>2, <2>3, <1>t DEF TypeLists
  <1>5. CASE ServerAccepts
    BY <1>5, <1>t, OrderFacts DEF ServerAccepts
  <1>6. CASE ServerTakes
    <2>1. cur \in Conns
      BY <1>6, <1>t DEF ServerTakes, TypeStates
    <2>2. QED
      BY <1>6, <1>t, <2>1 DEF ServerTakes
  <1>7. CASE ServerEnds
    BY <1>7, <1>t DEF ServerEnds
  <1>8. CASE UNCHANGED <<queue, backlog, roles>>
    BY <1>8, <1>t
  <1>9. QED
    BY ONLY IInv, [Next]_vars, StepKinds, <1>1, <1>2, <1>3, <1>4, <1>5, <1>6, <1>7, <1>8,
       Zenon
    DEF GroupStep, SendControl, MetaArrives, CloseSession, TimeUp, Acquire, UpConnect,
        Leave, Replay, Retry, Keep, Confirm, PumpData, PumpEnd, ServerListens,
        ServerRejects, GiveUp, vars, clientVars, agentVars, serverVars

(* Every step keeps the types of what is read, kept and passed on. *)
LEMMA DataStep == IInv /\ [Next]_vars => TypeData'
  <1> SUFFICES ASSUME IInv, [Next]_vars PROVE TypeData'
    OBVIOUS
  <1> USE DEF clientVars, agentVars, serverVars, TypeData
  <1>t. TypeData
    BY TypeParts DEF IInv
  <1>1. ASSUME NEW i \in 1 .. Len(Order), Connect(i) PROVE TypeData'
    BY <1>1, <1>t, OrderFacts, BoundsAssumption DEF Connect
  <1>2. CASE SendControl
    BY <1>2, <1>t, OrderFacts, BoundsAssumption DEF SendControl
  <1>3. ASSUME NEW c \in Conns, Leave(c) PROVE TypeData'
    BY <1>3, <1>t, OrderFacts, BoundsAssumption DEF Leave, GiveUp
  <1>4. ASSUME NEW c \in Conns, UpConnect(c) PROVE TypeData'
    BY <1>4, <1>t, OrderFacts, BoundsAssumption DEF UpConnect
  <1>5. ASSUME NEW c \in Conns, Replay(c) PROVE TypeData'
    BY <1>5, <1>t DEF Replay
  <1>6. ASSUME NEW c \in Conns, Keep(c) PROVE TypeData'
    <2>1. got[c] + 1 \in 1 .. MaxSent /\ got'[c] = got[c] + 1
      BY <1>6, <1>t, BoundsAssumption DEF Keep
    <2>2. Append(pre[c], got[c] + 1) \in Seq(1 .. MaxSent)
          /\ Append(del[c], got[c] + 1) \in Seq(1 .. MaxSent)
      BY <1>t, <2>1, <1>6
    <2>3. QED
      BY <1>6, <1>t, <2>1, <2>2 DEF Keep
  <1>7. ASSUME NEW c \in Conns, Confirm(c) PROVE TypeData'
    BY <1>7, <1>t, OrderFacts, BoundsAssumption DEF Confirm
  <1>8. ASSUME NEW c \in Conns, PumpData(c) PROVE TypeData'
    <2>1. got[c] + 1 \in 1 .. MaxSent /\ got'[c] = got[c] + 1
      BY <1>8, <1>t, BoundsAssumption DEF PumpData
    <2>2. Append(del[c], got[c] + 1) \in Seq(1 .. MaxSent)
      BY <1>t, <2>1, <1>8
    <2>3. QED
      BY <1>8, <1>t, <2>1, <2>2 DEF PumpData
  <1>9. CASE UNCHANGED <<sent, got, pre, del>>
    BY <1>9, <1>t
  <1>10. QED
    BY ONLY IInv, [Next]_vars, StepKinds, <1>1, <1>2, <1>3, <1>4, <1>5, <1>6, <1>7, <1>8,
       <1>9, Zenon
    DEF GroupStep, MetaArrives, CloseSession, Probe, AgentAccept, TimeUp, Acquire, Retry,
        PumpEnd, AdbOpens, ServerListens, ServerAccepts, ServerTakes, ServerRejects,
        ServerEnds, vars, clientVars, agentVars, serverVars

(* Every step keeps pre[] within its capacity. *)
LEMMA RoomStep == IInv /\ [Next]_vars => TypeRoom'
  <1> SUFFICES ASSUME IInv, [Next]_vars PROVE TypeRoom'
    OBVIOUS
  <1> USE DEF clientVars, agentVars, serverVars, TypeRoom
  <1>t. TypeRoom /\ TypeData /\ TypeStates
    BY TypeParts DEF IInv
  <1>1. ASSUME NEW c \in Conns, Leave(c) PROVE TypeRoom'
    <2> SUFFICES ASSUME NEW d \in Conns PROVE Len(pre'[d]) <= PreCap
      OBVIOUS
    <2>1. pre'[d] = IF d = c THEN <<>> ELSE pre[d]
      BY <1>1, <1>t DEF Leave, GiveUp, TypeData
    <2>2. CASE d = c
      BY <1>1, <1>t, <2>1, <2>2, BoundsAssumption DEF Leave, GiveUp, TypeData
    <2>3. QED
      BY <1>t, <2>1, <2>2
  <1>2. ASSUME NEW c \in Conns, Keep(c) PROVE TypeRoom'
    <2> SUFFICES ASSUME NEW d \in Conns PROVE Len(pre'[d]) <= PreCap
      OBVIOUS
    <2>1. pre'[d] = IF d = c THEN Append(pre[d], got'[d]) ELSE pre[d]
      BY <1>2, <1>t DEF Keep, TypeData
    <2>2. CASE d = c
      BY <1>2, <1>t, <2>1, <2>2, BoundsAssumption DEF Keep, TypeData
    <2>3. QED
      BY <1>t, <2>1, <2>2
  <1>3. ASSUME NEW c \in Conns, Confirm(c) PROVE TypeRoom'
    <2> SUFFICES ASSUME NEW d \in Conns PROVE Len(pre'[d]) <= PreCap
      OBVIOUS
    <2>1. pre'[d] = IF d = c THEN <<>> ELSE pre[d]
      BY <1>3, <1>t DEF Confirm, TypeData
    <2>2. CASE d = c
      BY <1>3, <1>t, <2>1, <2>2, BoundsAssumption DEF Confirm, TypeData
    <2>3. QED
      BY <1>t, <2>1, <2>2
  <1>4. CASE UNCHANGED <<pre>>
    BY <1>4, <1>t
  <1>5. QED
    BY ONLY IInv, [Next]_vars, StepKinds, <1>1, <1>2, <1>3, <1>4, Zenon
    DEF GroupStep, Connect, SendControl, MetaArrives, CloseSession, Probe, AgentAccept,
        TimeUp, Acquire, UpConnect, Replay, Retry, PumpData, PumpEnd, AdbOpens,
        ServerListens, ServerAccepts, ServerTakes, ServerRejects, ServerEnds, vars,
        clientVars, agentVars, serverVars

(* Every step preserves the type invariant. *)
LEMMA TypeStep == IInv /\ [Next]_vars => TypeOK'
  BY FlagsStep, StatesStep, ListsStep, DataStep, RoomStep, TypeParts, PTL

(* Every step keeps one thread in the Group while it is busy. *)
LEMMA OneInGroupStep == IInv /\ [Next]_vars => OneInGroup'
  <1> SUFFICES ASSUME IInv, [Next]_vars PROVE OneInGroup'
    OBVIOUS
  <1> USE DEF clientVars, agentVars, serverVars
  <1>t. OneInGroup /\ thr \in [Conns -> {"none", "new", "connect", "replay", "verdict", "pump", "done"}]
    BY TypeParts DEF IInv, TypeStates
  <1>1. CASE AgentAccept
    <2>1. Head(queue) \in Conns /\ thr[Head(queue)] = "none"
      <3>1. queue \in Seq(Conns) /\ queue # <<>>
        BY <1>1, TypeParts DEF IInv, TypeLists, AgentAccept
      <3>2. Head(queue) \in ToSet(queue) /\ ToSet(queue) \subseteq Conns
        BY <3>1, TailOf, InSet
      <3>3. QED
        BY <3>2 DEF IInv, AcceptedOnce
    <2>2. QED
      BY <1>1, <1>t, <2>1 DEF AgentAccept, OneInGroup, Opening
  <1>2. ASSUME NEW c \in Conns, Acquire(c) PROVE OneInGroup'
    BY <1>2, <1>t DEF Acquire, OneInGroup, Opening
  <1>3. ASSUME NEW c \in Conns, UpConnect(c) PROVE OneInGroup'
    BY <1>3, <1>t DEF UpConnect, OneInGroup, Opening
  <1>4. ASSUME NEW c \in Conns, Leave(c) PROVE OneInGroup'
    BY <1>4, <1>t DEF Leave, OneInGroup, Opening, GiveUp
  <1>5. ASSUME NEW c \in Conns, Replay(c) PROVE OneInGroup'
    BY <1>5, <1>t DEF Replay, OneInGroup, Opening
  <1>6. ASSUME NEW c \in Conns, Retry(c) PROVE OneInGroup'
    BY <1>6, <1>t DEF Retry, OneInGroup, Opening
  <1>7. ASSUME NEW c \in Conns, Confirm(c) PROVE OneInGroup'
    BY <1>7, <1>t DEF Confirm, OneInGroup, Opening
  <1>8. ASSUME NEW c \in Conns, PumpEnd(c) PROVE OneInGroup'
    BY <1>8, <1>t DEF PumpEnd, OneInGroup, Opening
  <1>9. CASE UNCHANGED <<thr, busy>>
    BY <1>9, <1>t DEF OneInGroup, Opening
  <1>10. QED
    BY ONLY IInv, [Next]_vars, StepKinds, <1>1, <1>2, <1>3, <1>4, <1>5, <1>6, <1>7, <1>8,
       <1>9, Zenon
    DEF GroupStep, Connect, SendControl, MetaArrives, CloseSession, Probe, TimeUp, Keep,
        PumpData, AdbOpens, ServerListens, ServerAccepts, ServerTakes, ServerRejects,
        ServerEnds, vars, clientVars, agentVars, serverVars

(* Every step keeps connections queued once. *)
LEMMA AcceptedStep == IInv /\ [Next]_vars => AcceptedOnce'
  <1> SUFFICES ASSUME IInv, [Next]_vars PROVE AcceptedOnce'
    OBVIOUS
  <1> USE DEF clientVars, agentVars, serverVars
  <1>t. AcceptedOnce /\ queue \in Seq(Conns) /\ ToSet(queue) \subseteq Conns
        /\ thr \in [Conns -> {"none", "new", "connect", "replay", "verdict", "pump", "done"}]
        /\ cli \in [Conns -> {"none", "open", "closed"}]
    BY TypeParts, InSet DEF IInv, TypeStates, TypeLists
  <1>1. ASSUME NEW i \in 1 .. Len(Order), Connect(i) PROVE AcceptedOnce'
    <2>1. Order[i] \in Conns
      BY OrderFacts, <1>1
    <2>2. Order[i] \notin ToSet(queue)
      BY <1>1, <1>t DEF AcceptedOnce, Connect
    <2>3. ToSet(Append(queue, Order[i])) = ToSet(queue) \cup {Order[i]}
          /\ IsInjective(Append(queue, Order[i]))
      BY <1>t, <2>1, <2>2, AppendFresh DEF AcceptedOnce
    <2>4. thr' = thr /\ thr[Order[i]] = "none" /\ queue' = Append(queue, Order[i])
          /\ cli' = [cli EXCEPT ![Order[i]] = "open"]
      BY <1>1, <1>t, <2>1 DEF Connect, AcceptedOnce
    <2>5. QED
      BY ONLY <1>t, <2>1, <2>3, <2>4 DEF AcceptedOnce
  <1>2. CASE CloseSession
    BY <1>2, <1>t DEF CloseSession, AcceptedOnce, Opening
  <1>3. ASSUME NEW c \in Probes, Probe(c) PROVE AcceptedOnce'
    <2>1. c \in Conns
      BY OrderFacts, <1>3
    <2>2. c \notin ToSet(queue)
      BY <1>3, <1>t DEF AcceptedOnce, Probe
    <2>3. ToSet(Append(queue, c)) = ToSet(queue) \cup {c}
          /\ IsInjective(Append(queue, c))
      BY <1>t, <2>1, <2>2, AppendFresh DEF AcceptedOnce
    <2>4. thr' = thr /\ thr[c] = "none" /\ queue' = Append(queue, c)
          /\ cli' = [cli EXCEPT ![c] = "closed"]
      BY <1>3, <1>t, <2>1 DEF Probe, AcceptedOnce
    <2>5. QED
      BY ONLY <1>t, <2>1, <2>3, <2>4 DEF AcceptedOnce
  <1>4. CASE AgentAccept
    <2> DEFINE h == Head(queue)
    <2>1. h \in ToSet(queue) /\ ToSet(Tail(queue)) \subseteq ToSet(queue)
          /\ IsInjective(Tail(queue)) /\ h \notin ToSet(Tail(queue))
      BY <1>t, <1>4, TailOf DEF AcceptedOnce, AgentAccept
    <2>2. queue' = Tail(queue)
          /\ \/ thr' = [thr EXCEPT ![h] = "new"] /\ cli' = cli
             \/ thr' = [thr EXCEPT ![h] = "done"] /\ cli' = [cli EXCEPT ![h] = "closed"]
      BY <1>4 DEF AgentAccept
    <2> HIDE DEF h
    <2>3. QED
      BY ONLY <1>t, <2>1, <2>2 DEF AcceptedOnce
  <1>5. ASSUME NEW c \in Conns, Acquire(c) PROVE AcceptedOnce'
    BY <1>5, <1>t DEF Acquire, AcceptedOnce, Opening
  <1>6. ASSUME NEW c \in Conns, UpConnect(c) PROVE AcceptedOnce'
    BY <1>6, <1>t DEF UpConnect, AcceptedOnce, Opening
  <1>7. ASSUME NEW c \in Conns, Leave(c) PROVE AcceptedOnce'
    BY <1>7, <1>t DEF Leave, AcceptedOnce, Opening, GiveUp
  <1>8. ASSUME NEW c \in Conns, Replay(c) PROVE AcceptedOnce'
    BY <1>8, <1>t DEF Replay, AcceptedOnce, Opening
  <1>9. ASSUME NEW c \in Conns, Retry(c) PROVE AcceptedOnce'
    BY <1>9, <1>t DEF Retry, AcceptedOnce, Opening
  <1>10. ASSUME NEW c \in Conns, Confirm(c) PROVE AcceptedOnce'
    BY <1>10, <1>t DEF Confirm, AcceptedOnce, Opening
  <1>11. ASSUME NEW c \in Conns, PumpEnd(c) PROVE AcceptedOnce'
    BY <1>11, <1>t DEF PumpEnd, AcceptedOnce, Opening
  <1>12. CASE UNCHANGED <<queue, thr, cli>>
    BY <1>12, <1>t DEF AcceptedOnce
  <1>13. QED
    BY ONLY IInv, [Next]_vars, StepKinds, <1>1, <1>2, <1>3, <1>4, <1>5, <1>6, <1>7, <1>8,
       <1>9, <1>10, <1>11, <1>12, Zenon
    DEF GroupStep, SendControl, MetaArrives, TimeUp, Keep, PumpData, AdbOpens,
        ServerListens, ServerAccepts, ServerTakes, ServerRejects, ServerEnds, vars,
        clientVars, agentVars, serverVars

(* Every step keeps what was read, in pre[] or passed on. *)
LEMMA KeptStep == IInv /\ [Next]_vars => NothingLost'
  <1> SUFFICES ASSUME IInv, [Next]_vars PROVE NothingLost'
    OBVIOUS
  <1> USE DEF clientVars, agentVars, serverVars
  <1>t. /\ thr \in [Conns -> {"none", "new", "connect", "replay", "verdict", "pump", "done"}]
        /\ sent \in [Conns -> Nat] /\ got \in [Conns -> Nat]
        /\ DOMAIN pre = Conns /\ DOMAIN del = Conns
    BY TypeParts, BoundsAssumption DEF IInv, TypeStates, TypeData
  <1>k. \A c \in Conns : Kept(c)
    BY DEF IInv, NothingLost
  <1>o. /\ \A i \in 1 .. Len(Order) : Order[i] \in Conns /\ Order[i] \notin Probes
        /\ "control" \in Channels => "control" \in Conns /\ "control" \notin Probes
    BY OrderFacts
  <1>1. ASSUME NEW i \in 1 .. Len(Order), Connect(i) PROVE NothingLost'
    <2> SUFFICES ASSUME NEW d \in Conns PROVE Kept(d)'
      BY DEF NothingLost
    <2>k. Kept(d) /\ Kept(Order[i])
      BY <1>k, <1>o, <1>1
    <2>1. thr[Order[i]] = "none"
      BY <1>1, <1>t, <1>o DEF Connect, IInv, AcceptedOnce
    <2>2. QED
      BY <1>1, <1>t, <1>o, <2>k, <2>1 DEF Connect, Kept, Opening
  <1>2. CASE SendControl
    <2> SUFFICES ASSUME NEW d \in Conns PROVE Kept(d)'
      BY DEF NothingLost
    <2>k. Kept(d)
      BY <1>k
    <2>1. QED
      BY <1>2, <1>t, <1>o, <2>k DEF SendControl, Kept, Opening
  <1>3. CASE AgentAccept
    <2> SUFFICES ASSUME NEW d \in Conns PROVE Kept(d)'
      BY DEF NothingLost
    <2>k. Kept(d)
      BY <1>k
    <2>1. thr'[d] = thr[d] \/ (thr[d] = "none" /\ thr'[d] \in {"new", "done"})
      <3>1. queue \in Seq(Conns) /\ queue # <<>>
        BY <1>3, TypeParts DEF IInv, TypeLists, AgentAccept
      <3>2. Head(queue) \in ToSet(queue) /\ ToSet(queue) \subseteq Conns
        BY <3>1, TailOf, InSet
      <3>3. thr[Head(queue)] = "none"
        BY <3>2 DEF IInv, AcceptedOnce
      <3>4. QED
        BY <1>3, <1>t, <3>3 DEF AgentAccept
    <2>2. sent' = sent /\ got' = got /\ pre' = pre /\ del' = del
      BY <1>3 DEF AgentAccept
    <2>3. QED
      BY <2>k, <2>1, <2>2 DEF Kept, Opening
  <1>4. ASSUME NEW c \in Conns, Acquire(c) PROVE NothingLost'
    <2> SUFFICES ASSUME NEW d \in Conns PROVE Kept(d)'
      BY DEF NothingLost
    <2>k. Kept(d)
      BY <1>k
    <2>1. QED
      BY <1>4, <1>t, <2>k, NoChunks DEF Acquire, Kept, Opening
  <1>5. ASSUME NEW c \in Conns, UpConnect(c) PROVE NothingLost'
    <2> SUFFICES ASSUME NEW d \in Conns PROVE Kept(d)'
      BY DEF NothingLost
    <2>k. Kept(d)
      BY <1>k
    <2>1. QED
      BY <1>5, <1>t, <1>o, <2>k DEF UpConnect, Kept, Opening
  <1>6. ASSUME NEW c \in Conns, Leave(c) PROVE NothingLost'
    <2> SUFFICES ASSUME NEW d \in Conns PROVE Kept(d)'
      BY DEF NothingLost
    <2>k. Kept(d)
      BY <1>k
    <2>1. QED
      BY <1>6, <1>t, <1>o, <2>k DEF Leave, GiveUp, Kept, Opening
  <1>7. ASSUME NEW c \in Conns, Replay(c) PROVE NothingLost'
    <2> SUFFICES ASSUME NEW d \in Conns PROVE Kept(d)'
      BY DEF NothingLost
    <2>k. Kept(d)
      BY <1>k
    <2>1. c \in Probes => pre[c] = <<>>
      <3>1. ASSUME c \in Probes PROVE got[c] = 0 /\ pre[c] = Chunks(got[c])
        BY <1>k, <1>t, <1>7, <3>1 DEF Kept, Replay, Opening
      <3>2. QED
        BY <3>1, NoChunks
    <2>2. QED
      BY <1>7, <1>t, <2>k, <2>1 DEF Replay, Kept, Opening
  <1>8. ASSUME NEW c \in Conns, Retry(c) PROVE NothingLost'
    <2> SUFFICES ASSUME NEW d \in Conns PROVE Kept(d)'
      BY DEF NothingLost
    <2>k. Kept(d)
      BY <1>k
    <2>1. QED
      BY <1>8, <1>t, <1>o, <2>k DEF Retry, Kept, Opening
  <1>9. ASSUME NEW c \in Conns, Keep(c) PROVE NothingLost'
    <2> SUFFICES ASSUME NEW d \in Conns PROVE Kept(d)'
      BY DEF NothingLost
    <2>k. Kept(d)
      BY <1>k
    <2>1. /\ thr' = thr /\ sent' = sent
          /\ \A b \in Conns : b # c => got'[b] = got[b] /\ pre'[b] = pre[b] /\ del'[b] = del[b]
          /\ got'[c] = got[c] + 1
          /\ pre'[c] = Append(pre[c], got[c] + 1) /\ del'[c] = Append(del[c], got[c] + 1)
      BY <1>9, <1>t DEF Keep
    <2>2. CASE d # c
      BY <2>1, <2>2, <2>k DEF Kept, Opening
    <2>3. CASE d = c
      <3>1. thr[c] = "verdict" /\ got[c] < sent[c] /\ c \notin Probes /\ got[c] + 1 <= sent[c]
        BY <1>9, <1>t, <1>k DEF Keep, Kept
      <3>2. pre[c] = Chunks(got[c]) /\ del[c] = Chunks(got[c])
        BY <1>k, <3>1 DEF Kept, Opening
      <3>3. Append(Chunks(got[c]), got[c] + 1) = Chunks(got[c] + 1)
        BY <1>t, ChunksGrow
      <3>4. pre'[c] = Chunks(got'[c]) /\ del'[c] = Chunks(got'[c])
        BY <2>1, <3>2, <3>3
      <3>5. QED
        BY ONLY <2>1, <2>3, <3>1, <3>4, c \in Conns DEF Kept, Opening
    <2>4. QED
      BY <2>2, <2>3
  <1>10. ASSUME NEW c \in Conns, Confirm(c) PROVE NothingLost'
    <2> SUFFICES ASSUME NEW d \in Conns PROVE Kept(d)'
      BY DEF NothingLost
    <2>k. Kept(d)
      BY <1>k
    <2>1. QED
      BY <1>10, <1>t, <1>o, <2>k DEF Confirm, Kept, Opening
  <1>11. ASSUME NEW c \in Conns, PumpData(c) PROVE NothingLost'
    <2> SUFFICES ASSUME NEW d \in Conns PROVE Kept(d)'
      BY DEF NothingLost
    <2>k. Kept(d)
      BY <1>k
    <2>1. /\ thr' = thr /\ sent' = sent /\ pre' = pre
          /\ \A b \in Conns : b # c => got'[b] = got[b] /\ del'[b] = del[b]
          /\ got'[c] = got[c] + 1 /\ del'[c] = Append(del[c], got[c] + 1)
      BY <1>11, <1>t DEF PumpData
    <2>2. CASE d # c
      BY <2>1, <2>2, <2>k DEF Kept, Opening
    <2>3. CASE d = c
      <3>1. thr[c] = "pump" /\ got[c] < sent[c] /\ c \notin Probes /\ got[c] + 1 <= sent[c]
        BY <1>11, <1>t, <1>k DEF PumpData, Kept
      <3>2. del[c] = Chunks(got[c])
        BY <1>k, <3>1 DEF Kept
      <3>3. Append(Chunks(got[c]), got[c] + 1) = Chunks(got[c] + 1)
        BY <1>t, ChunksGrow
      <3>4. del'[c] = Chunks(got'[c])
        BY <2>1, <3>2, <3>3
      <3>5. QED
        BY ONLY <2>1, <2>3, <3>1, <3>4, c \in Conns DEF Kept, Opening
    <2>4. QED
      BY <2>2, <2>3
  <1>12. ASSUME NEW c \in Conns, PumpEnd(c) PROVE NothingLost'
    <2> SUFFICES ASSUME NEW d \in Conns PROVE Kept(d)'
      BY DEF NothingLost
    <2>k. Kept(d)
      BY <1>k
    <2>1. QED
      BY <1>12, <1>t, <1>o, <2>k DEF PumpEnd, Kept, Opening
  <1>13. CASE UNCHANGED <<sent, got, thr, pre, del>>
    BY <1>13, <1>k DEF NothingLost, Kept, Opening
  <1>14. QED
    BY ONLY IInv, [Next]_vars, StepKinds, <1>1, <1>2, <1>3, <1>4, <1>5, <1>6, <1>7, <1>8,
       <1>9, <1>10, <1>11, <1>12, <1>13, Zenon
    DEF GroupStep, MetaArrives, CloseSession, Probe, TimeUp, AdbOpens, ServerListens,
        ServerAccepts, ServerTakes, ServerRejects, ServerEnds, vars, clientVars,
        agentVars, serverVars

(* Every step keeps upstream connections in their places. *)
LEMMA PlaceStep == IInv /\ [Next]_vars => UpstreamPlace'
  <1> SUFFICES ASSUME IInv, [Next]_vars PROVE UpstreamPlace'
    OBVIOUS
  <1> USE DEF clientVars, agentVars, serverVars
  <1>t. /\ thr \in [Conns -> {"none", "new", "connect", "replay", "verdict", "pump", "done"}]
        /\ up \in [Conns -> {"none", "pending", "queued", "accepted", "eof"}]
        /\ cur \in Conns \cup {"none"}
        /\ ToSet(backlog) \subseteq Conns /\ ToSet(roles) \subseteq Conns
    BY TypeParts, InSet DEF IInv, TypeStates, TypeLists
  <1>u. UpstreamPlace
    BY DEF IInv
  <1>1. CASE AgentAccept
    <2>1. Head(queue) \in Conns /\ thr[Head(queue)] = "none"
      <3>1. queue \in Seq(Conns) /\ queue # <<>>
        BY <1>1, TypeParts DEF IInv, TypeLists, AgentAccept
      <3>2. Head(queue) \in ToSet(queue) /\ ToSet(queue) \subseteq Conns
        BY <3>1, TailOf, InSet
      <3>3. QED
        BY <3>2 DEF IInv, AcceptedOnce
    <2>2. QED
      BY <1>1, <1>t, <1>u, <2>1 DEF AgentAccept, UpstreamPlace
  <1>2. ASSUME NEW c \in Conns, Acquire(c) PROVE UpstreamPlace'
    BY <1>2, <1>t, <1>u DEF Acquire, UpstreamPlace
  <1>3. ASSUME NEW c \in Conns, UpConnect(c) PROVE UpstreamPlace'
    BY <1>3, <1>t, <1>u DEF UpConnect, UpstreamPlace
  <1>4. ASSUME NEW c \in Conns, Leave(c) PROVE UpstreamPlace'
    BY <1>4, <1>t, <1>u DEF Leave, GiveUp, Opening, UpstreamPlace
  <1>5. ASSUME NEW c \in Conns, Replay(c) PROVE UpstreamPlace'
    BY <1>5, <1>t, <1>u DEF Replay, UpstreamPlace
  <1>6. ASSUME NEW c \in Conns, Retry(c) PROVE UpstreamPlace'
    BY <1>6, <1>t, <1>u DEF Retry, UpstreamPlace
  <1>7. ASSUME NEW c \in Conns, Confirm(c) PROVE UpstreamPlace'
    BY <1>7, <1>t, <1>u DEF Confirm, UpstreamPlace
  <1>8. ASSUME NEW c \in Conns, PumpEnd(c) PROVE UpstreamPlace'
    BY <1>8, <1>t, <1>u DEF PumpEnd, UpstreamPlace
  <1>9. ASSUME NEW c \in Conns, AdbOpens(c) PROVE UpstreamPlace'
    <2>1. up[c] = "pending" /\ thr' = thr /\ cur' = cur /\ roles' = roles /\ guest' = guest
      BY <1>9 DEF AdbOpens
    <2>2. CASE backlog' = backlog /\ up' = [up EXCEPT ![c] = "eof"]
      BY <1>9, <1>t, <1>u, <2>1, <2>2 DEF UpstreamPlace
    <2>3. CASE backlog' = Append(backlog, c) /\ up' = [up EXCEPT ![c] = "queued"]
      <3>1. c \notin ToSet(backlog)
        BY <1>u, <2>1 DEF UpstreamPlace
      <3>2. backlog \in Seq(Conns)
        BY TypeParts DEF IInv, TypeLists
      <3>3. ToSet(Append(backlog, c)) = ToSet(backlog) \cup {c}
            /\ IsInjective(Append(backlog, c))
        BY <1>9, <3>1, <3>2, <1>u, AppendFresh DEF UpstreamPlace
      <3>4. QED
        BY ONLY <1>9, <1>t, <1>u, <2>1, <2>3, <3>3 DEF UpstreamPlace
    <2>4. QED
      BY <1>9, <2>2, <2>3, Zenon DEF AdbOpens
  <1>10. CASE ServerListens
    BY <1>10, <1>t, <1>u DEF ServerListens, UpstreamPlace
  <1>11. CASE ServerAccepts
    <2> DEFINE h == Head(backlog)
    <2>1. backlog \in Seq(Conns) /\ backlog # <<>>
      BY <1>11, TypeParts DEF IInv, TypeLists, ServerAccepts
    <2>2. h \in ToSet(backlog) /\ ToSet(Tail(backlog)) \subseteq ToSet(backlog)
          /\ IsInjective(Tail(backlog)) /\ h \notin ToSet(Tail(backlog))
      BY <2>1, <1>u, TailOf DEF UpstreamPlace
    <2>3. backlog' = Tail(backlog) /\ up' = [up EXCEPT ![h] = "accepted"] /\ cur' = h
          /\ thr' = thr /\ roles' = roles /\ guest' = guest /\ guest # "gone"
      BY <1>11 DEF ServerAccepts
    <2> HIDE DEF h
    <2>4. QED
      BY ONLY <1>t, <1>u, <2>2, <2>3 DEF UpstreamPlace
  <1>12. CASE ServerTakes
    <2>1. cur \in Conns /\ roles \in Seq(Conns)
      BY <1>12, <1>t, TypeParts DEF ServerTakes, IInv, TypeLists
    <2>2. ToSet(Append(roles, cur)) = ToSet(roles) \cup {cur}
      BY <2>1, AppendFresh
    <2>3. roles' = Append(roles, cur) /\ cur' = "none" /\ up' = up /\ thr' = thr
          /\ backlog' = backlog /\ (guest' = guest \/ guest' = "meta") /\ cur # "none"
      BY <1>12, Zenon DEF ServerTakes
    <2>4. guest = "listening"
      BY <2>3 DEF IInv, ServerPhase
    <2>5. QED
      BY ONLY <1>t, <1>u, <2>1, <2>2, <2>3, <2>4 DEF UpstreamPlace
  <1>13. CASE ServerRejects
    BY <1>13, <1>t, <1>u DEF ServerRejects, UpstreamPlace
  <1>14. CASE ServerEnds
    BY <1>14, <1>t, <1>u, NoneIn DEF ServerEnds, UpstreamPlace
  <1>15. CASE UNCHANGED <<thr, up, backlog, cur, roles, guest>>
    BY <1>15, <1>u DEF UpstreamPlace
  <1>16. QED
    BY ONLY IInv, [Next]_vars, StepKinds, <1>1, <1>2, <1>3, <1>4, <1>5, <1>6, <1>7, <1>8,
       <1>9, <1>10, <1>11, <1>12, <1>13, <1>14, <1>15, Zenon
    DEF GroupStep, Connect, SendControl, MetaArrives, CloseSession, Probe, TimeUp, Keep,
        PumpData, vars, clientVars, agentVars, serverVars

(* Every step keeps the server's roles those of its phase. *)
LEMMA PhaseStep == IInv /\ [Next]_vars => ServerPhase'
  <1> SUFFICES ASSUME IInv, [Next]_vars PROVE ServerPhase'
    OBVIOUS
  <1> USE DEF clientVars, agentVars, serverVars
  <1>t. roles \in Seq(Conns) /\ Len(roles) \in Nat /\ Len(Order) \in Nat /\ Len(Order) > 0
        /\ guest \in {"down", "listening", "meta", "gone"}
    BY TypeParts, OrderFacts DEF IInv, TypeStates, TypeLists
  <1>p. ServerPhase
    BY DEF IInv
  <1>1. ASSUME NEW i \in 1 .. Len(Order), Connect(i) PROVE ServerPhase'
    BY <1>1, <1>t, <1>p DEF Connect, ServerPhase
  <1>2. CASE MetaArrives
    BY <1>2, <1>t, <1>p DEF MetaArrives, ServerPhase
  <1>3. CASE CloseSession
    BY <1>3, <1>t, <1>p DEF CloseSession, ServerPhase
  <1>4. CASE ServerListens
    BY <1>4, <1>t, <1>p DEF ServerListens, ServerPhase
  <1>5. CASE ServerAccepts
    BY <1>5, <1>t, <1>p DEF ServerAccepts, ServerPhase
  <1>6. CASE ServerTakes
    <2>1. cur \in Conns /\ cur # "none" /\ guest = "listening"
      BY <1>6, <1>p, TypeParts DEF ServerTakes, ServerPhase, IInv, TypeStates
    <2>2. cur \in Channels
      <3>1. del[cur] \in Seq(1 .. MaxSent) /\ del[cur] # <<>>
        <4>1. del[cur] \in Seq(1 .. MaxSent)
          BY <2>1, TypeParts DEF IInv, TypeData
        <4>2. Len(<<1>>) <= Len(del[cur])
          BY <1>6, Zenon DEF ServerTakes, HasToken, IsPrefix
        <4>3. QED
          BY <4>1, <4>2
      <3>2. cur \notin Probes
        BY <3>1, <2>1 DEF IInv, NothingLost, Kept
      <3>3. QED
        BY <2>1, <3>2 DEF Conns
    <2>3. cur \notin ToSet(roles)
      BY <2>1 DEF IInv, UpstreamPlace
    <2>4. ToSet(Append(roles, cur)) = ToSet(roles) \cup {cur}
          /\ Len(Append(roles, cur)) = Len(roles) + 1 /\ IsInjective(Append(roles, cur))
      BY <2>1, <2>3, <1>t, <1>p, AppendFresh DEF ServerPhase
    <2>5. roles' = Append(roles, cur) /\ cur' = "none" /\ client' = client
          /\ guest' = IF Len(roles) + 1 = Len(Order) THEN "meta" ELSE guest
      BY <1>6 DEF ServerTakes
    <2>6. Len(roles) < Len(Order) /\ Len(roles) \in Nat /\ Len(Order) \in Nat
          /\ client # "streaming"
      BY <2>1, <1>p, <1>t DEF ServerPhase
    <2>7. QED
      BY ONLY <1>p, <2>1, <2>2, <2>4, <2>5, <2>6 DEF ServerPhase
  <1>7. CASE ServerRejects
    BY <1>7, <1>t, <1>p DEF ServerRejects, ServerPhase
  <1>8. CASE ServerEnds
    BY <1>8, <1>t, <1>p DEF ServerEnds, ServerPhase
  <1>9. CASE UNCHANGED <<client, guest, cur, roles>>
    BY <1>9, <1>p DEF ServerPhase
  <1>10. QED
    BY ONLY IInv, [Next]_vars, StepKinds, <1>1, <1>2, <1>3, <1>4, <1>5, <1>6, <1>7, <1>8,
       <1>9, Zenon
    DEF GroupStep, SendControl, Probe, AgentAccept, TimeUp, Acquire, UpConnect, Leave,
        Replay, Retry, Keep, Confirm, PumpData, PumpEnd, AdbOpens, GiveUp, vars,
        clientVars, agentVars, serverVars

(* Every step preserves the inductive invariant. *)
LEMMA InvStep == IInv /\ [Next]_vars => IInv'
  BY TypeStep, OneInGroupStep, AcceptedStep, KeptStep, PlaceStep, PhaseStep, PTL DEF IInv

(* The inductive invariant holds in every reachable state. *)
LEMMA Invariance == Spec => []IInv
  BY InitInv, InvStep, PTL DEF Spec

-----------------------------------------------------------------------------
(* The Group of a port has one opener at a time, busy says whether there is one, *)
(* and pre[] stays within PRE_CAP: conn_thread frees the Group on every way out   *)
(* of stream_open_upstream, for any number of connections.                        *)
THEOREM OneAtATime == Spec => []GroupInv
  <1>1. ASSUME IInv PROVE GroupInv
    <2> DEFINE opening == {c \in Conns : thr[c] \in {"connect", "replay", "verdict"}}
    <2>t. TypeOK /\ OneInGroup
      BY <1>1 DEF IInv
    <2>1. CASE busy
      <3>1. PICK c \in Conns : Opening(c)
        BY <2>1, <2>t DEF OneInGroup
      <3>2. opening = {c}
        BY <3>1, <2>t DEF OneInGroup, Opening
      <3>3. Cardinality({c}) = 1
        BY FS_Singleton
      <3>4. QED
        BY <2>1, <2>t, <3>2, <3>3 DEF GroupInv, OneOpener
    <2>2. CASE ~busy
      <3>1. opening = {}
        BY <2>2, <2>t DEF OneInGroup, Opening
      <3>2. Cardinality({}) = 0
        BY FS_EmptySet
      <3>3. QED
        BY <2>2, <2>t, <3>1, <3>2 DEF GroupInv, OneOpener
    <2>3. QED
      BY <2>1, <2>2
  <1>2. QED
    BY <1>1, Invariance, PTL

(* Reconnecting loses and repeats nothing: whatever number of upstreams adb has   *)
(* closed early, the current one has received exactly the chunks read from the     *)
(* desktop, in order (stream_open_upstream's replay of pre[], then pump).          *)
THEOREM NothingIsLost == Spec => []ReplayIsFaithful
  <1>1. ASSUME IInv PROVE ReplayIsFaithful
    BY <1>1 DEF IInv, NothingLost, Kept, ReplayIsFaithful, Chunks
  <1>2. QED
    BY <1>1, Invariance, PTL

(* acceptAuthed gives a role to connections of the session only and to each at     *)
(* most once, and a desktop that has received device_meta has all its channels      *)
(* taken.                                                                          *)
THEOREM RolesAreOurs == Spec => []RolesAreTheSession
  <1>1. ASSUME IInv PROVE RolesAreTheSession
    BY <1>1 DEF IInv, ServerPhase, RolesAreTheSession
  <1>2. QED
    BY <1>1, Invariance, PTL
=============================================================================
