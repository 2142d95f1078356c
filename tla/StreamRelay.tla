----------------------------- MODULE StreamRelay -----------------------------
(***************************************************************************)
(* One stream port of rc-agent (frontends/agent/net.c) between a desktop    *)
(* that opens a direct-LAN session (deploy_tcp in core/src/server_deploy.c) *)
(* and the rc-server it has just started in the device                      *)
(* (DesktopConnection.openTcp).                                             *)
(*                                                                         *)
(* The desktop connects its channels one after the other to the same public *)
(* port and writes the session's token on each.  The agent accepts at once,  *)
(* gives every connection a thread, and the threads of the port (its Group)   *)
(* open their upstream one at a time: connect to the adb forward, replay      *)
(* what the desktop has already sent, and wait for a verdict, because adb      *)
(* accepts even when nobody listens in the device and only then closes.        *)
(* The server accepts connections in the order they reach it and takes the     *)
(* first with a valid token for video, the next for audio, then control; when  *)
(* all are there it sends device_meta on the video connection.                 *)
(***************************************************************************)
EXTENDS Naturals, Sequences, FiniteSets, SequencesExt

CONSTANTS
  Order,          \* the session's channels in the order they are connected
  Probes,         \* connections that are closed at once and carry no token
  MaxSent,        \* bound: chunks written on the control channel, token first
  PreCap,         \* PRE_CAP in chunks: what can be kept for a replay
  SlowAdb         \* may adb need longer than the 300 ms of silence?

Channels == ToSet(Order)
Conns == Channels \cup Probes

ASSUME OrderAssumption ==
  /\ Order \in Seq({"video", "audio", "control"}) /\ Order # <<>>
  /\ Order[1] = "video" /\ Cardinality(Channels) = Len(Order)
  /\ Probes \cap Channels = {} /\ "none" \notin Probes
ASSUME BoundsAssumption == MaxSent \in Nat \ {0} /\ PreCap \in Nat \ {0}
ASSUME SlowAdbAssumption == SlowAdb \in BOOLEAN

VARIABLES
  client,   \* the desktop: "connecting", "waitMeta", "streaming", "closed"
  cli,      \* the desktop's end of a connection: "none", "open", "closed"
  sent,     \* number of chunks the desktop has written; chunk 1 is the token
  queue,    \* the agent's listener: connections not yet accepted
  thr,      \* conn_thread: "none", "new" (at the Group), "connect", "replay",
            \*   "verdict", "pump", "done"
  busy,     \* group->busy
  late,     \* has the 10 s deadline of the thread inside the Group passed?
  got,      \* number of chunks read from the desktop
  pre,      \* pre[]: the chunks read from the desktop while opening, which
            \*   nobody reads afterwards
  up,       \* upstream: "none", "pending" in adb, "queued" in the device's
            \*   backlog, "accepted" by the server, "eof" closed by the far end
  del,      \* the chunks written to the current upstream
  guest,    \* the server: "down", "listening", "meta" (device_meta sent),
            \*   "gone" (it has ended)
  backlog,  \* the server socket's backlog
  cur,      \* the connection whose token acceptAuthed is reading, or "none"
  roles     \* the connections the server has taken, in the order of Order

vars == <<client, cli, sent, queue, thr, busy, late, got, pre, up, del,
          guest, backlog, cur, roles>>
clientVars == <<client, cli, sent>>
agentVars == <<queue, thr, busy, late, got, pre>>
serverVars == <<guest, backlog, cur, roles>>

TypeOK ==
  /\ client \in {"connecting", "waitMeta", "streaming", "closed"}
  /\ cli \in [Conns -> {"none", "open", "closed"}]
  /\ sent \in [Conns -> 0 .. MaxSent]
  /\ queue \in Seq(Conns)
  /\ thr \in [Conns -> {"none", "new", "connect", "replay", "verdict", "pump",
                      "done"}]
  /\ busy \in BOOLEAN
  /\ late \in BOOLEAN
  /\ got \in [Conns -> 0 .. MaxSent]
  /\ pre \in [Conns -> Seq(1 .. MaxSent)] /\ \A c \in Conns : Len(pre[c]) <= PreCap
  /\ up \in [Conns -> {"none", "pending", "queued", "accepted", "eof"}]
  /\ del \in [Conns -> Seq(1 .. MaxSent)]
  /\ guest \in {"down", "listening", "meta", "gone"}
  /\ backlog \in Seq(Conns)
  /\ cur \in Conns \cup {"none"}
  /\ roles \in Seq(Conns)

Init ==
  /\ client = "connecting"
  /\ cli = [c \in Conns |-> "none"] /\ sent = [c \in Conns |-> 0]
  /\ queue = <<>> /\ thr = [c \in Conns |-> "none"] /\ busy = FALSE
  /\ late = FALSE /\ got = [c \in Conns |-> 0]
  /\ pre = [c \in Conns |-> <<>>] /\ del = [c \in Conns |-> <<>>]
  /\ up = [c \in Conns |-> "none"]
  /\ guest = "down" /\ backlog = <<>> /\ cur = "none" /\ roles = <<>>

-----------------------------------------------------------------------------
(* The desktop.                                                              *)

(* connect_retry: connect to the agent and write the token, channel by channel. *)
Connect(i) ==
  /\ client = "connecting" /\ cli[Order[i]] = "none"
  /\ \A j \in 1 .. i - 1 : cli[Order[j]] # "none"
  /\ cli' = [cli EXCEPT ![Order[i]] = "open"]
  /\ sent' = [sent EXCEPT ![Order[i]] = 1]
  /\ queue' = Append(queue, Order[i])
  /\ client' = IF i = Len(Order) THEN "waitMeta" ELSE client
  /\ UNCHANGED <<thr, busy, late, got, pre, up, del, serverVars>>

(* The UI thread sends input as soon as control_fd is set (rc_control_send). *)
SendControl ==
  /\ client \in {"waitMeta", "streaming"} /\ "control" \in Channels
  /\ cli["control"] = "open" /\ sent["control"] < MaxSent
  /\ sent' = [sent EXCEPT !["control"] = @ + 1]
  /\ UNCHANGED <<client, cli, agentVars, up, del, serverVars>>

(* The server's device_meta reaches the desktop on its video connection. *)
MetaArrives ==
  /\ client = "waitMeta" /\ guest = "meta"
  /\ roles[1] = "video" /\ thr["video"] = "pump" /\ up["video"] = "accepted"
  /\ client' = "streaming"
  /\ UNCHANGED <<cli, sent, agentVars, up, del, serverVars>>

(* No device_meta in time, the connection closed, an abort, or the end of the *)
(* session: rc_server_teardown closes every connection.                       *)
CloseSession ==
  /\ client # "closed" /\ client' = "closed"
  /\ cli' = [c \in Conns |-> IF c \in Channels /\ cli[c] = "open" THEN "closed" ELSE cli[c]]
  /\ UNCHANGED <<sent, agentVars, up, del, serverVars>>

(* A stranger connects to the public port and closes again at once. *)
Probe(c) ==
  /\ cli[c] = "none" /\ cli' = [cli EXCEPT ![c] = "closed"]
  /\ queue' = Append(queue, c)
  /\ UNCHANGED <<client, sent, thr, busy, late, got, pre, up, del, serverVars>>

ClientNext ==
  \/ \E i \in 1 .. Len(Order) : Connect(i)
  \/ SendControl \/ MetaArrives \/ CloseSession
  \/ \E c \in Probes : Probe(c)

-----------------------------------------------------------------------------
(* rc-agent.                                                                 *)

(* The accept loop of main: one detached conn_thread per connection, or the    *)
(* connection closed when no thread can be created.                            *)
AgentAccept ==
  /\ queue # <<>>
  /\ queue' = Tail(queue)
  /\ \/ thr' = [thr EXCEPT ![Head(queue)] = "new"] /\ UNCHANGED cli
     \/ /\ thr' = [thr EXCEPT ![Head(queue)] = "done"]
        /\ cli' = [cli EXCEPT ![Head(queue)] = "closed"]
  /\ UNCHANGED <<client, sent, busy, late, got, pre, up, del, serverVars>>

(* Faulty variant of Acquire: a woken waiter does not look at busy again. *)
AcquireUnchecked(c) ==
  /\ thr[c] = "new"
  /\ busy' = TRUE /\ thr' = [thr EXCEPT ![c] = "connect"]
  /\ UNCHANGED <<clientVars, queue, late, got, pre, up, del, serverVars>>

(* The thread enters the Group: whichever waiter the mutex and the condition  *)
(* variable let through first, in no particular order.  Its 10 s begin.       *)
Acquire(c) ==
  /\ thr[c] = "new" /\ ~busy
  /\ busy' = TRUE /\ thr' = [thr EXCEPT ![c] = "connect"]
  /\ UNCHANGED <<clientVars, queue, late, got, pre, up, del, serverVars>>

(* The deadline of stream_open_upstream. *)
TimeUp ==
  /\ busy /\ ~late /\ late' = TRUE
  /\ UNCHANGED <<clientVars, queue, thr, busy, got, pre, up, del, serverVars>>

(* stream_open_upstream returns -1: the thread leaves the Group and closes    *)
(* both ends; the server sees the end of whatever was delivered.               *)
GiveUp(c) ==
  /\ thr' = [thr EXCEPT ![c] = "done"] /\ busy' = FALSE
  /\ cli' = [cli EXCEPT ![c] = "closed"] /\ late' = FALSE
  /\ pre' = [pre EXCEPT ![c] = <<>>]
  /\ UNCHANGED <<client, sent, queue, got, up, del, serverVars>>

(* tcp_connect_timeout reaches the adb forward. *)
UpConnect(c) ==
  /\ thr[c] = "connect"
  /\ thr' = [thr EXCEPT ![c] = "replay"]
  /\ up' = [up EXCEPT ![c] = "pending"] /\ del' = [del EXCEPT ![c] = <<>>]
  /\ UNCHANGED <<clientVars, queue, busy, late, got, pre, serverVars>>

(* No adb forward answers: another try 200 ms later, until the deadline. *)
UpConnectFails(c) == thr[c] = "connect" /\ late /\ GiveUp(c)

(* pre[] is written again to the new upstream. *)
Replay(c) ==
  /\ thr[c] = "replay"
  /\ thr' = [thr EXCEPT ![c] = "verdict"] /\ del' = [del EXCEPT ![c] = pre[c]]
  /\ UNCHANGED <<clientVars, queue, busy, late, got, pre, up, serverVars>>

(* That write fails on a reset connection: reconnect, without a look at the    *)
(* deadline.                                                                   *)
ReplayFails(c) ==
  /\ thr[c] = "replay" /\ pre[c] # <<>> /\ up[c] = "eof"
  /\ thr' = [thr EXCEPT ![c] = "connect"] /\ up' = [up EXCEPT ![c] = "none"]
  /\ UNCHANGED <<clientVars, queue, busy, late, got, pre, del, serverVars>>

(* Faulty variant of ClientData: only the first chunk is kept for the replay. *)
ClientDataForgets(c) ==
  /\ thr[c] = "verdict" /\ up[c] # "eof" /\ got[c] < sent[c]
  /\ got' = [got EXCEPT ![c] = @ + 1]
  /\ pre' = [pre EXCEPT ![c] = <<1>>]
  /\ del' = [del EXCEPT ![c] = Append(@, got'[c])]
  /\ UNCHANGED <<clientVars, queue, thr, busy, late, up, serverVars>>

(* While the verdict is out, the desktop's data is kept in pre[] and passed on; *)
(* the upstream is looked at first.                                             *)
ClientData(c) ==
  /\ thr[c] = "verdict" /\ up[c] # "eof" /\ got[c] < sent[c]
  /\ IF Len(pre[c]) < PreCap
       THEN /\ got' = [got EXCEPT ![c] = @ + 1]
            /\ pre' = [pre EXCEPT ![c] = Append(@, got'[c])]
            /\ del' = [del EXCEPT ![c] = Append(@, got'[c])]
            /\ UNCHANGED <<clientVars, queue, thr, busy, late, up, serverVars>>
       ELSE GiveUp(c)

(* The upstream is closed between the poll and the write of new data: this      *)
(* ends the attempt for good, unlike a close that poll reports.                 *)
ClientDataLost(c) ==
  /\ thr[c] = "verdict" /\ up[c] = "eof" /\ got[c] < sent[c]
  /\ GiveUp(c)

(* The desktop has closed its end, which the thread learns from its read or from *)
(* a failing write of the server's data: nobody is left to serve.                *)
ClientEof(c) ==
  /\ thr[c] = "verdict" /\ up[c] # "eof" /\ cli[c] = "closed"
  /\ got[c] = sent[c] \/ (guest = "meta" /\ roles[1] = c)
  /\ GiveUp(c)

(* The verdict is good, by 300 ms of silence or by data from the server: the   *)
(* thread leaves the Group and pumps.                                          *)
Confirm(c) ==
  /\ thr[c] = "verdict"
  /\ up[c] \in {"queued", "accepted"} \/ SlowAdb
  /\ thr' = [thr EXCEPT ![c] = "pump"] /\ busy' = FALSE
  /\ late' = FALSE /\ pre' = [pre EXCEPT ![c] = <<>>]
  /\ UNCHANGED <<clientVars, queue, got, up, del, serverVars>>

(* Faulty variant of UpEof: an early close is retried without a deadline. *)
UpEofForever(c) ==
  /\ thr[c] = "verdict" /\ up[c] = "eof"
  /\ thr' = [thr EXCEPT ![c] = "connect"] /\ up' = [up EXCEPT ![c] = "none"]
  /\ UNCHANGED <<clientVars, queue, busy, late, got, pre, del, serverVars>>

(* The upstream was closed early: retry with a replay, until the deadline. *)
UpEof(c) ==
  /\ thr[c] = "verdict" /\ up[c] = "eof"
  /\ IF late
       THEN GiveUp(c)
       ELSE /\ thr' = [thr EXCEPT ![c] = "connect"] /\ up' = [up EXCEPT ![c] = "none"]
            /\ UNCHANGED <<clientVars, queue, busy, late, got, pre, del, serverVars>>

(* pump, desktop to device. *)
PumpData(c) ==
  /\ thr[c] = "pump" /\ up[c] # "eof" /\ got[c] < sent[c]
  /\ got' = [got EXCEPT ![c] = @ + 1]
  /\ del' = [del EXCEPT ![c] = Append(@, got'[c])]
  /\ UNCHANGED <<clientVars, queue, thr, busy, late, pre, up, serverVars>>

(* pump ends as soon as one side has closed, data of the other that is still on   *)
(* its way or not; both ends are closed.                                         *)
PumpEnd(c) ==
  /\ thr[c] = "pump" /\ (up[c] = "eof" \/ cli[c] = "closed")
  /\ thr' = [thr EXCEPT ![c] = "done"] /\ cli' = [cli EXCEPT ![c] = "closed"]
  /\ UNCHANGED <<client, sent, queue, busy, late, got, pre, up, del, serverVars>>

ThreadStep(c) ==
  \/ UpConnect(c) \/ UpConnectFails(c) \/ Replay(c) \/ ReplayFails(c)
  \/ ClientData(c) \/ ClientDataLost(c) \/ ClientEof(c) \/ Confirm(c) \/ UpEof(c)
  \/ PumpData(c) \/ PumpEnd(c)

AgentNext ==
  \/ AgentAccept
  \/ TimeUp
  \/ \E c \in Conns : Acquire(c) \/ ThreadStep(c)

-----------------------------------------------------------------------------
(* adb and the device.                                                       *)

(* adb's connection inside the device: into the backlog, or refused. *)
AdbOpens(c) ==
  /\ up[c] = "pending"
  /\ IF guest \in {"down", "gone"}
       THEN up' = [up EXCEPT ![c] = "eof"] /\ UNCHANGED backlog
       ELSE up' = [up EXCEPT ![c] = "queued"] /\ backlog' = Append(backlog, c)
  /\ UNCHANGED <<clientVars, agentVars, del, guest, cur, roles>>

(* openTcp: the server socket is bound. *)
ServerListens ==
  /\ guest = "down" /\ guest' = "listening"
  /\ UNCHANGED <<clientVars, agentVars, up, del, backlog, cur, roles>>

(* acceptAuthed takes the next connection. *)
ServerAccepts ==
  /\ guest = "listening" /\ cur = "none" /\ backlog # <<>>
  /\ cur' = Head(backlog) /\ backlog' = Tail(backlog)
  /\ up' = [up EXCEPT ![Head(backlog)] = "accepted"]
  /\ UNCHANGED <<clientVars, agentVars, del, guest, roles>>

(* Faulty variant of HasToken: a connection without data passes. *)
HasTokenOrNothing(c) == del[c] = <<>> \/ IsPrefix(<<1>>, del[c])

(* The first chunk delivered on the connection is the session's token. *)
HasToken(c) == IsPrefix(<<1>>, del[c])

(* The token is there and right: the connection gets the next role, and with   *)
(* the last one Server.main sends device_meta on the first.                     *)
ServerTakes ==
  /\ cur # "none" /\ HasToken(cur)
  /\ roles' = Append(roles, cur) /\ cur' = "none"
  /\ guest' = IF Len(roles) + 1 = Len(Order) THEN "meta" ELSE guest
  /\ UNCHANGED <<clientVars, agentVars, up, del, backlog>>

(* A wrong token, the end of the connection, or 5 s of silence. *)
ServerRejects ==
  /\ cur # "none" /\ ~HasToken(cur)
  /\ up' = [up EXCEPT ![cur] = "eof"] /\ cur' = "none"
  /\ UNCHANGED <<clientVars, agentVars, del, guest, backlog, roles>>

(* The server ends: writing to the closed video socket fails and Server.main      *)
(* closes everything, or adb has ended it with the session (rc_server_teardown).  *)
ServerEnds ==
  /\ \/ guest = "meta" /\ (client = "closed" \/ thr[roles[1]] = "done")
     \/ guest = "listening" /\ client = "closed"
  /\ guest' = "gone" /\ backlog' = <<>> /\ cur' = "none"
  /\ up' = [c \in Conns |-> IF up[c] \in {"queued", "accepted"} THEN "eof" ELSE up[c]]
  /\ UNCHANGED <<clientVars, agentVars, del, roles>>

ServerNext ==
  \/ ServerListens \/ ServerAccepts \/ ServerTakes \/ ServerRejects \/ ServerEnds
  \/ \E c \in Conns : AdbOpens(c)

(* Every connection has ended and nothing is left to come. *)
Quiescent ==
  /\ client = "closed" /\ queue = <<>>
  /\ \A c \in Conns : thr[c] \in {"none", "done"}
  /\ UNCHANGED vars

Next == ClientNext \/ AgentNext \/ ServerNext \/ Quiescent

(* The accept loop and the agent's threads run, time passes and adb answers.  It *)
(* is enough that some thread runs: none has endless work.  A replay that is      *)
(* tried again and again is written in the end: it follows the connect at once,    *)
(* and adb closes only after a round trip to the device.  Without this the retry    *)
(* after a failed replay, which does not look at the deadline, could go on for      *)
(* ever.  Nothing is owed by the server or the desktop.                             *)
Fairness ==
  /\ WF_vars(AgentAccept) /\ WF_vars(TimeUp)
  /\ WF_vars(\E c \in Conns : Acquire(c)) /\ WF_vars(\E c \in Conns : ThreadStep(c))
  /\ SF_vars(\E c \in Conns : Replay(c)) /\ WF_vars(\E c \in Conns : AdbOpens(c))

Spec == Init /\ [][Next]_vars /\ Fairness

-----------------------------------------------------------------------------
(* The Group lets one connection of the port open its upstream at a time, and   *)
(* busy says whether one does: a thread that leaves stream_open_upstream by any  *)
(* of its exits frees it for the waiters (conn_thread).                          *)
OneOpener ==
  LET opening == {c \in Conns : thr[c] \in {"connect", "replay", "verdict"}} IN
  Cardinality(opening) = IF busy THEN 1 ELSE 0

(* The invariant of the Group and of what its opener keeps: pre[] never outgrows      *)
(* PRE_CAP, and there is one opener at a time.                                          *)
GroupInv == TypeOK /\ OneOpener

(* Reconnecting loses and repeats nothing: the upstream has received exactly    *)
(* what was read from the desktop, in order, however many attempts adb closed   *)
(* before (stream_open_upstream's replay of pre[], then pump).                  *)
ReplayIsFaithful ==
  \A c \in Conns :
    thr[c] \in {"verdict", "pump"} => del[c] = [i \in 1 .. got[c] |-> i]

(* acceptAuthed gives a role only to connections of the session, and to each at  *)
(* most once, in spite of strangers, reconnects and its own timeouts; and a        *)
(* desktop that has received device_meta is connected as a whole, with every one    *)
(* of its channels taken (openTcp, Server.main).                                    *)
RolesAreTheSession ==
  /\ ToSet(roles) \subseteq Channels /\ IsInjective(roles)
  /\ client = "streaming" => Len(roles) = Len(Order)

(* The channels are not crossed: what the server takes for audio and control is   *)
(* what the desktop connected as such.  agent.h gives this as the reason for the   *)
(* Group: "tuần tự hoá từng kết nối trong nhóm - server accept theo thứ tự          *)
(* video→audio→control, nếu để kết nối sau vào guest trước ... thì lệch kênh".      *)
StreamingInOrder == client = "streaming" => roles = Order

(* Every accepted connection is pumped or closed in the end, and then no opening    *)
(* is under way for ever after: nobody waits at the Group, or retries, without end    *)
(* ("tối đa 10s").  Each connection is opened once, so this is per connection.         *)
Served == <>[](\A c \in Conns : thr[c] \in {"none", "pump", "done"})

(* When the desktop has closed its session, no relay thread of it survives. *)
Drained ==
  client = "closed" ~> \A c \in Channels : thr[c] \in {"none", "done"}

(* Whatever waits in the relay comes to an end: a connection at the Group or in its    *)
(* retries, and a thread whose desktop is gone (conn_thread, stream_open_upstream,       *)
(* pump).                                                                                *)
RelayWaitsEnd == Served /\ Drained

=============================================================================
