---------------------------- MODULE ClientSession ----------------------------
(***************************************************************************)
(* One mirroring session of the desktop application: the life cycle of an  *)
(* rc_client (core/src/client.c, core/src/server_deploy.c) driven by a      *)
(* session window (frontends/gtk/session.c).  Four threads take part:       *)
(*                                                                         *)
(*   start  the thread that runs rc_client_start: deploys rc-server by adb, *)
(*          opens the channels (direct LAN, or adb tunnel, or the LAN        *)
(*          attempt followed by the fallback to the tunnel), reads           *)
(*          device_meta, builds the decoder and creates the next two;        *)
(*   net    net_thread_fn, reads and decodes the video;                     *)
(*   audio  audio_thread_fn, reads and plays the audio;                     *)
(*   ui     the UI thread: closes the window at any moment, which aborts,    *)
(*          joins, stops and frees everything.                              *)
(*                                                                         *)
(* What adb, the network and the device answer is nondeterministic.  A       *)
(* thread runs one step of its function at a time, a program counter says    *)
(* which.                                                                   *)
(***************************************************************************)
EXTENDS Naturals, FiniteSets

CONSTANTS
  Options,    \* the rc_config values a session may be created with
  MetaStalls  \* may the peer leave a device_meta half sent for ever?

(* An rc_config as far as the life cycle depends on it.  viaAgent stands for *)
(* tcp_device_port > 0, serial for a non-empty cfg.serial, addrOk for a      *)
(* tcp_addr that parse_addr accepts.                                        *)
AllOptions ==
  [transport : {"USB", "TCP"}, serial : BOOLEAN, viaAgent : BOOLEAN,
   addrOk : BOOLEAN, audio : BOOLEAN, control : BOOLEAN]

ASSUME OptionsAssumption == Options \subseteq AllOptions
ASSUME MetaStallsAssumption == MetaStalls \in BOOLEAN

VARIABLES
  opt,        \* the configuration given to rc_client_create
  transport,  \* cfg.transport, which the deployment may turn to "USB"
  fd,         \* the four descriptors: "none" (-1), "open", "shut" (shutdown)
  server,     \* server_pid's process: "none" (pid 0), "alive", "dead" (zombie)
  reverse,    \* is the adb reverse mapping installed on the device?
  deployed,   \* deploy_tcp's local: this attempt started the server itself
  decoder,    \* c->decoder: "none" or "alive"
  decoderDesc,   \* does decoder_desc hold a description?
  transportDesc, \* transport_desc: "none", "LAN" or "tunnel"
  player,     \* c->audio_player: "none" or "alive"
  running,    \* c->running
  abort,      \* c->abort_requested
  start, net, audio, ui,  \* program counters
  stops,      \* how many rc_client_stop calls have finished
  lost,       \* an open descriptor, a process or an object was overwritten
  rmFailed    \* an adb reverse --remove failed

vars == <<opt, transport, fd, server, reverse, deployed, decoder, decoderDesc,
          transportDesc, player, running, abort, start, net, audio, ui, stops,
          lost, rmFailed>>

resources == <<fd, server, reverse, decoder, decoderDesc, player, lost, rmFailed>>

Channels == {"video", "audio", "control"}
Fds == Channels \cup {"listen"}

TcpWaits == {"connVideo", "connAudio", "connControl", "tcpMeta"}
UsbWaits == {"accVideo", "accAudio", "accControl", "usbMeta"}
StartPCs ==
  TcpWaits \cup UsbWaits \cup
  {"enter", "parse", "probe", "tcpAdb", "tcpRun", "tcpDecide", "usbAdb",
   "usbListen", "usbReverse", "usbRun", "tcpMetaPart", "usbMetaPart",
   "validate", "decoder", "spawnNet", "spawnAudio", "fail", "ok", "err"}
StartReturned == {"ok", "err"}
NetPCs == {"none", "loop", "read", "feed", "exit", "done"}
AudioPCs == {"none", "meta", "loop", "read", "feed", "done"}
UiPCs == {"open", "joinStart", "stop", "joinNet", "joinAudio", "release", "freed"}

TypeOK ==
  /\ opt \in Options
  /\ transport \in {"USB", "TCP"}
  /\ fd \in [Fds -> {"none", "open", "shut"}]
  /\ server \in {"none", "alive", "dead"}
  /\ decoder \in {"none", "alive"}
  /\ player \in {"none", "alive"}
  /\ transportDesc \in {"none", "LAN", "tunnel"}
  /\ reverse \in BOOLEAN /\ deployed \in BOOLEAN /\ decoderDesc \in BOOLEAN
  /\ running \in BOOLEAN /\ abort \in BOOLEAN /\ lost \in BOOLEAN /\ rmFailed \in BOOLEAN
  /\ start \in StartPCs
  /\ net \in NetPCs
  /\ audio \in AudioPCs
  /\ ui \in UiPCs
  /\ stops \in 0 .. 2

-----------------------------------------------------------------------------
(* session_new: the client is created and the start thread launched.        *)
Init ==
  /\ opt \in Options
  /\ transport = opt.transport
  /\ fd = [f \in Fds |-> "none"]
  /\ server = "none" /\ decoder = "none" /\ player = "none"
  /\ transportDesc = "none"
  /\ reverse = FALSE /\ deployed = FALSE /\ decoderDesc = FALSE
  /\ running = FALSE /\ abort = FALSE
  /\ start = "enter" /\ net = "none" /\ audio = "none" /\ ui = "open"
  /\ stops = 0
  /\ lost = FALSE /\ rmFailed = FALSE

-----------------------------------------------------------------------------
(* Helpers shared by the threads.                                           *)

(* Store a new descriptor in the field f of the client. *)
SetFd(f) ==
  /\ fd' = [fd EXCEPT ![f] = "open"]
  /\ lost' = (lost \/ fd[f] # "none")

(* rc_adb_run_server: posix_spawn `adb shell app_process` and keep its pid. *)
Spawn ==
  /\ server' = "alive"
  /\ lost' = (lost \/ server # "none")

(* rc_server_teardown: close every descriptor, kill and reap the adb process, *)
(* and when the transport is USB remove the reverse mapping, best effort.     *)
Teardown ==
  /\ fd' = [f \in Fds |-> "none"]
  /\ server' = "none"
  /\ IF transport = "USB"
       THEN \/ reverse' = FALSE /\ UNCHANGED rmFailed
            \/ UNCHANGED reverse /\ rmFailed' = TRUE
       ELSE UNCHANGED <<reverse, rmFailed>>

(* wait_cancelled: abort is looked at first, only then is a dead adb process  *)
(* reaped (server_died).  A wait may also end without calling it.             *)
MaybeReaped == {server} \cup (IF ~abort /\ server = "dead" THEN {"none"} ELSE {})

(* The channels the configuration asks for. *)
Wanted ==
  {"video"} \cup (IF opt.audio THEN {"audio"} ELSE {})
            \cup (IF opt.control THEN {"control"} ELSE {})

(* Faulty variant of After: after audio the control channel is forgotten. *)
AfterSkippingControl(ch, pcAudio, pcControl, rest) ==
  IF ch = "video" /\ opt.audio THEN pcAudio
  ELSE IF ch = "video" /\ opt.control THEN pcControl
  ELSE rest

(* The channel opened after ch, or `rest` after the last: video, then audio  *)
(* and control as the configuration asks for them.                           *)
After(ch, pcAudio, pcControl, rest) ==
  IF ch = "video" /\ opt.audio THEN pcAudio
  ELSE IF ch # "control" /\ opt.control THEN pcControl
  ELSE rest

-----------------------------------------------------------------------------
(* The start thread: rc_client_start, rc_server_deploy.                      *)

Goto(from, to) == start = from /\ start' = to
unchangedThreads == <<net, audio, ui, stops, abort, running>>
unchangedDescs == <<transportDesc, decoder, decoderDesc, player>>

(* rc_client_start enters rc_server_deploy, which branches on the transport. *)
StartEnter ==
  /\ Goto("enter", IF transport = "TCP" THEN "parse" ELSE "usbAdb")
  /\ UNCHANGED <<opt, transport, deployed, transportDesc, resources, unchangedThreads>>

(* deploy_tcp, the head: parse_addr, then either deploy first (a serial is    *)
(* given) or connect to a server that already runs.  Without an agent the      *)
(* LAN port is probed.                                                         *)
TcpParse ==
  /\ Goto("parse", IF ~opt.addrOk THEN "fail"
                   ELSE IF ~opt.serial THEN "connVideo"
                   ELSE IF opt.viaAgent THEN "tcpAdb" ELSE "probe")
  /\ UNCHANGED <<opt, transport, deployed, transportDesc, resources, unchangedThreads>>

(* The probe of the LAN port: somebody answers before anything was deployed,  *)
(* so the port belongs to another service: the session turns to the tunnel.   *)
TcpProbe ==
  /\ \/ Goto("probe", "tcpAdb") /\ UNCHANGED transport
     \/ Goto("probe", "usbAdb") /\ transport' = "USB"
  /\ UNCHANGED <<opt, deployed, transportDesc, resources, unchangedThreads>>

(* ensure_adb_device and rc_adb_push; neither looks at abort_requested.       *)
AdbPrepare ==
  /\ \/ start = "tcpAdb" /\ start' \in {"tcpRun", "fail"}
     \/ start = "usbAdb" /\ start' \in {"usbListen", "fail"}
  /\ UNCHANGED <<opt, transport, deployed, transportDesc, resources, unchangedThreads>>

(* rc_adb_run_server in deploy_tcp, with the token and the device port.       *)
TcpRun ==
  /\ \/ Goto("tcpRun", "connVideo") /\ Spawn /\ deployed' = TRUE
     \/ Goto("tcpRun", "fail") /\ UNCHANGED <<server, lost, deployed>>
  /\ UNCHANGED <<opt, transport, fd, reverse, rmFailed, unchangedDescs, unchangedThreads>>

(* connect_retry succeeds for one channel: connected and, if the session has  *)
(* a token, the token written.                                                *)
Connected(from, ch) ==
  /\ Goto(from, After(ch, "connAudio", "connControl", "tcpMeta"))
  /\ SetFd(ch)
  /\ UNCHANGED <<opt, transport, server, reverse, rmFailed, deployed,
                 unchangedDescs, unchangedThreads>>

(* connect_retry gives up on a channel, or the device_meta of the LAN attempt *)
(* cannot be read: deadline, abort, dead server, or an error.                 *)
TcpGiveUp ==
  /\ start \in TcpWaits
  /\ start' = "tcpDecide"
  /\ server' \in MaybeReaped
  /\ UNCHANGED <<opt, transport, fd, reverse, rmFailed, lost, deployed,
                 unchangedDescs, unchangedThreads>>

(* Faulty variant of TcpDecide: the fallback does not tear the LAN attempt down. *)
TcpDecideNoTeardown ==
  /\ start = "tcpDecide"
  /\ IF deployed /\ ~abort
       THEN start' = "usbAdb" /\ transport' = "USB"
       ELSE start' = "fail" /\ UNCHANGED transport
  /\ UNCHANGED <<opt, fd, server, reverse, rmFailed, lost, deployed,
                 unchangedDescs, unchangedThreads>>

(* Faulty variant of TcpDecide: cfg.transport stays TCP after the fallback. *)
TcpDecideKeepsTransport ==
  /\ start = "tcpDecide"
  /\ IF deployed /\ ~abort
       THEN start' = "usbAdb" /\ Teardown
       ELSE start' = "fail" /\ UNCHANGED <<fd, server, reverse, rmFailed>>
  /\ UNCHANGED <<opt, transport, lost, deployed, unchangedDescs, unchangedThreads>>

(* The end of deploy_tcp when the LAN path is dead: a session that deployed   *)
(* the server itself and is not being aborted tears the attempt down (still   *)
(* as TCP) and starts over through the adb tunnel; any other fails.           *)
TcpDecide ==
  /\ start = "tcpDecide"
  /\ IF deployed /\ ~abort
       THEN /\ start' = "usbAdb"
            /\ Teardown
            /\ transport' = "USB"
       ELSE /\ start' = "fail"
            /\ UNCHANGED <<fd, server, reverse, rmFailed, transport>>
  /\ UNCHANGED <<opt, lost, deployed, unchangedDescs, unchangedThreads>>

(* deploy_usb: the loopback listener, the reverse mapping, the server.        *)
UsbListen ==
  /\ \/ Goto("usbListen", "usbReverse") /\ SetFd("listen")
     \/ Goto("usbListen", "fail") /\ UNCHANGED <<fd, lost>>
  /\ UNCHANGED <<opt, transport, server, reverse, rmFailed, deployed,
                 unchangedDescs, unchangedThreads>>

UsbReverse ==
  /\ \/ Goto("usbReverse", "usbRun") /\ reverse' = TRUE
     \/ Goto("usbReverse", "fail") /\ UNCHANGED reverse
  /\ UNCHANGED <<opt, transport, fd, server, rmFailed, lost, deployed,
                 unchangedDescs, unchangedThreads>>

UsbRun ==
  /\ \/ Goto("usbRun", "accVideo") /\ Spawn
     \/ Goto("usbRun", "fail") /\ UNCHANGED <<server, lost>>
  /\ UNCHANGED <<opt, transport, fd, reverse, rmFailed, deployed,
                 unchangedDescs, unchangedThreads>>

(* accept_timeout returns the connection of the next channel; after the last   *)
(* one the listener is closed.                                                *)
Accepted(from, ch) ==
  LET next == After(ch, "accAudio", "accControl", "usbMeta") IN
  /\ Goto(from, next)
  /\ fd' = [fd EXCEPT ![ch] = "open",
                      !["listen"] = IF next = "usbMeta" THEN "none" ELSE @]
  /\ lost' = (lost \/ fd[ch] # "none")
  /\ UNCHANGED <<opt, transport, server, reverse, rmFailed, deployed,
                 unchangedDescs, unchangedThreads>>

(* Faulty variant of UsbGiveUp: the waits have no deadline of their own. *)
UsbGiveUpOnlyCancelled ==
  /\ start \in UsbWaits
  /\ abort \/ server = "dead"
  /\ start' = "fail"
  /\ server' \in MaybeReaped
  /\ UNCHANGED <<opt, transport, fd, reverse, rmFailed, lost, deployed,
                 unchangedDescs, unchangedThreads>>

(* A wait of the tunnel ends without its connection or its device_meta.       *)
UsbGiveUp ==
  /\ start \in UsbWaits
  /\ start' = "fail"
  /\ server' \in MaybeReaped
  /\ UNCHANGED <<opt, transport, fd, reverse, rmFailed, lost, deployed,
                 unchangedDescs, unchangedThreads>>

(* read_meta_timeout, rc_demux_read_meta: the whole device_meta is there.     *)
MetaRead ==
  /\ \/ start \in {"tcpMeta", "tcpMetaPart"} /\ transportDesc' = "LAN"
     \/ start \in {"usbMeta", "usbMetaPart"} /\ transportDesc' = "tunnel"
  /\ start' = "validate"
  /\ UNCHANGED <<opt, transport, deployed, resources, unchangedThreads>>

(* poll reports the first bytes, but rc_net_read_full must wait for the rest:  *)
(* a read without a deadline, which abort_requested does not interrupt.        *)
MetaPart ==
  /\ \/ Goto("tcpMeta", "tcpMetaPart")
     \/ Goto("usbMeta", "usbMetaPart")
  /\ UNCHANGED <<opt, transport, deployed, transportDesc, resources, unchangedThreads>>

(* The peer closes in the middle of device_meta. *)
MetaBroken ==
  /\ \/ Goto("tcpMetaPart", "tcpDecide")
     \/ Goto("usbMetaPart", "fail")
  /\ UNCHANGED <<opt, transport, deployed, transportDesc, resources, unchangedThreads>>

(* Version and codec of device_meta are checked. *)
Validate ==
  /\ start = "validate" /\ start' \in {"decoder", "fail"}
  /\ UNCHANGED <<opt, transport, deployed, transportDesc, resources, unchangedThreads>>

CreateDecoder ==
  /\ \/ /\ Goto("decoder", "spawnNet")
        /\ decoder' = "alive" /\ decoderDesc' = TRUE
        /\ lost' = (lost \/ decoder # "none")
     \/ Goto("decoder", "fail") /\ UNCHANGED <<decoder, decoderDesc, lost>>
  /\ UNCHANGED <<opt, transport, fd, server, reverse, rmFailed, deployed,
                 transportDesc, player, unchangedThreads>>

(* running is raised and net_thread_fn created; when pthread_create fails the  *)
(* decoder is destroyed, decoder_desc keeps its value.                        *)
SpawnNet ==
  /\ \/ /\ Goto("spawnNet", "spawnAudio")
        /\ running' = TRUE /\ net' = "loop"
        /\ UNCHANGED decoder
     \/ /\ Goto("spawnNet", "fail")
        /\ running' = FALSE /\ decoder' = "none"
        /\ UNCHANGED net
  /\ UNCHANGED <<opt, transport, fd, server, reverse, rmFailed, lost, deployed,
                 decoderDesc, transportDesc, player, audio, ui, stops, abort>>

(* The audio thread is optional: it needs the channel, and may not be created. *)
SpawnAudio ==
  /\ Goto("spawnAudio", "ok")
  /\ IF opt.audio /\ fd["audio"] # "none"
       THEN audio' \in {"meta", "none"}
       ELSE UNCHANGED audio
  /\ UNCHANGED <<opt, transport, deployed, transportDesc, resources, net, ui,
                 stops, abort, running>>

(* Every error of rc_client_start ends in rc_server_teardown. *)
StartFail ==
  /\ Goto("fail", "err")
  /\ Teardown
  /\ UNCHANGED <<opt, transport, lost, deployed, unchangedDescs, unchangedThreads>>

StartNext ==
  \/ StartEnter \/ TcpParse \/ TcpProbe \/ AdbPrepare \/ TcpRun
  \/ Connected("connVideo", "video") \/ Connected("connAudio", "audio")
  \/ Connected("connControl", "control") \/ TcpGiveUp \/ TcpDecide
  \/ UsbListen \/ UsbReverse \/ UsbRun
  \/ Accepted("accVideo", "video") \/ Accepted("accAudio", "audio")
  \/ Accepted("accControl", "control") \/ UsbGiveUp
  \/ MetaRead \/ MetaPart \/ MetaBroken
  \/ Validate \/ CreateDecoder \/ SpawnNet \/ SpawnAudio \/ StartFail

(* The adb process ends by itself: the server crashed, the device was pulled.  *)
ServerDies ==
  /\ server = "alive" /\ server' = "dead"
  /\ UNCHANGED <<opt, transport, fd, reverse, rmFailed, lost, deployed, decoder,
                 decoderDesc, transportDesc, player, start, net, audio, ui,
                 stops, abort, running>>

-----------------------------------------------------------------------------
(* net_thread_fn.                                                            *)

netOnly == <<opt, transport, fd, server, reverse, rmFailed, lost, deployed,
             transportDesc, player, start, audio, ui, stops, abort>>

(* The loop condition. *)
NetLoop ==
  /\ net = "loop" /\ net' = IF running THEN "read" ELSE "exit"
  /\ UNCHANGED <<netOnly, running, decoder, decoderDesc>>

(* rc_demux_read_packet returns a packet: a CONFIG packet is only cached, any  *)
(* other goes to the decoder.                                                *)
NetPacket ==
  /\ net = "read" /\ fd["video"] = "open" /\ net' \in {"loop", "feed"}
  /\ UNCHANGED <<netOnly, running, decoder, decoderDesc>>

(* The peer closes the video socket, or a packet is malformed. *)
NetBroken ==
  /\ net = "read" /\ fd["video"] = "open" /\ net' = "exit"
  /\ UNCHANGED <<netOnly, running, decoder, decoderDesc>>

(* shutdown in rc_client_stop makes the blocked read return. *)
NetWoken ==
  /\ net = "read" /\ fd["video"] # "open" /\ net' = "exit"
  /\ UNCHANGED <<netOnly, running, decoder, decoderDesc>>

(* rc_decoder_feed: decoded, or failed; a failing hardware decoder is          *)
(* destroyed and replaced by a software one, and without that the loop ends.  *)
NetFeed ==
  /\ net = "feed"
  /\ \/ net' = "loop" /\ UNCHANGED <<decoder, decoderDesc>>
     \/ net' = "exit" /\ decoder' = "none" /\ decoderDesc' = FALSE
  /\ UNCHANGED <<netOnly, running>>

NetExit ==
  /\ net = "exit" /\ net' = "done" /\ running' = FALSE
  /\ UNCHANGED <<netOnly, decoder, decoderDesc>>

NetNext == NetLoop \/ NetPacket \/ NetBroken \/ NetWoken \/ NetFeed \/ NetExit

-----------------------------------------------------------------------------
(* audio_thread_fn.                                                          *)

audioOnly == <<opt, transport, fd, server, reverse, rmFailed, deployed, decoder,
               decoderDesc, transportDesc, start, net, ui, stops, abort, running>>

(* audio_meta is there; rc_audio_create may yield no player. *)
AudioMeta ==
  /\ audio = "meta" /\ fd["audio"] = "open" /\ audio' = "loop"
  /\ \/ player' = "alive" /\ lost' = (lost \/ player # "none")
     \/ UNCHANGED <<player, lost>>
  /\ UNCHANGED audioOnly

AudioLoop ==
  /\ audio = "loop" /\ audio' = IF running THEN "read" ELSE "done"
  /\ UNCHANGED <<audioOnly, player, lost>>

(* A packet is read; with a player it is decoded and written to the ring. *)
AudioPacket ==
  /\ audio = "read" /\ fd["audio"] = "open"
  /\ audio' = IF player = "alive" THEN "feed" ELSE "loop"
  /\ UNCHANGED <<audioOnly, player, lost>>

(* The peer closes the audio socket. *)
AudioBroken ==
  /\ audio \in {"meta", "read"} /\ fd["audio"] = "open" /\ audio' = "done"
  /\ UNCHANGED <<audioOnly, player, lost>>

AudioWoken ==
  /\ audio \in {"meta", "read"} /\ fd["audio"] # "open" /\ audio' = "done"
  /\ UNCHANGED <<audioOnly, player, lost>>

(* rc_audio_feed returns once the playback callback has made room. *)
AudioFeed ==
  /\ audio = "feed" /\ audio' = "loop"
  /\ UNCHANGED <<audioOnly, player, lost>>

AudioNext ==
  AudioMeta \/ AudioLoop \/ AudioPacket \/ AudioBroken \/ AudioWoken \/ AudioFeed

-----------------------------------------------------------------------------
(* The UI thread: session_teardown, rc_client_stop, rc_client_destroy.        *)

uiOnly == <<opt, transport, deployed, transportDesc, start>>

(* The window is closed: rc_client_abort. *)
CloseWindow ==
  /\ ui = "open" /\ ui' = "joinStart"
  /\ abort' = TRUE
  /\ UNCHANGED <<uiOnly, resources, net, audio, stops, running>>

(* g_thread_join(start_thread). *)
JoinStart ==
  /\ ui = "joinStart" /\ start \in StartReturned /\ ui' = "stop"
  /\ UNCHANGED <<uiOnly, resources, net, audio, stops, abort, running>>

(* Faulty variant of Stop: the blocked reads are not woken by shutdown. *)
StopWithoutShutdown ==
  /\ ui = "stop" /\ ui' = "joinNet"
  /\ abort' = TRUE /\ running' = FALSE
  /\ UNCHANGED <<uiOnly, resources, net, audio, stops>>

(* rc_client_stop, up to the joins: clear running, wake the blocked reads. *)
Stop ==
  /\ ui = "stop" /\ ui' = "joinNet"
  /\ abort' = TRUE /\ running' = FALSE
  /\ fd' = [f \in Fds |-> IF f \in Channels /\ fd[f] = "open" THEN "shut" ELSE fd[f]]
  /\ UNCHANGED <<uiOnly, server, reverse, decoder, decoderDesc, player, lost,
                 rmFailed, net, audio, stops>>

(* Faulty variant of JoinNet: stop goes on without the net thread's end. *)
JoinNetTooEarly ==
  /\ ui = "joinNet" /\ ui' = "joinAudio"
  /\ net' = IF net = "done" THEN "none" ELSE net
  /\ UNCHANGED <<uiOnly, resources, audio, stops, abort, running>>

JoinNet ==
  /\ ui = "joinNet" /\ net \in {"none", "done"} /\ ui' = "joinAudio"
  /\ net' = "none"
  /\ UNCHANGED <<uiOnly, resources, audio, stops, abort, running>>

JoinAudio ==
  /\ ui = "joinAudio" /\ audio \in {"none", "done"} /\ ui' = "release"
  /\ audio' = "none"
  /\ UNCHANGED <<uiOnly, resources, net, stops, abort, running>>

(* The rest of rc_client_stop.  session_teardown calls it, and rc_client_destroy *)
(* calls it again before it frees the client.                                   *)
Release ==
  /\ ui = "release"
  /\ stops' = stops + 1
  /\ ui' = IF stops = 0 THEN "stop" ELSE "freed"
  /\ decoder' = "none"
  /\ decoderDesc' = (decoderDesc /\ decoder = "none")
  /\ player' = "none"
  /\ Teardown
  /\ UNCHANGED <<uiOnly, lost, net, audio, abort, running>>

UiNext == CloseWindow \/ JoinStart \/ Stop \/ JoinNet \/ JoinAudio \/ Release

(* The window is gone and the client freed; the application lives on. *)
Freed == ui = "freed" /\ UNCHANGED vars

Next == StartNext \/ NetNext \/ AudioNext \/ UiNext \/ ServerDies \/ Freed

(* What the code's own threads must eventually do: every call to adb and every *)
(* sliced wait returns, a shut-down socket wakes its reader, the playback      *)
(* callback drains the ring, a join returns once its thread has ended.  No      *)
(* packet, connection or device_meta is ever owed by the peer, and the user     *)
(* need not close the window.  Unless MetaStalls, a device_meta whose first     *)
(* bytes have come is completed or its connection breaks.                       *)
StartProgress ==
  \/ StartEnter \/ TcpParse \/ TcpProbe \/ AdbPrepare \/ TcpRun \/ TcpGiveUp
  \/ TcpDecide \/ UsbListen \/ UsbReverse \/ UsbRun \/ UsbGiveUp
  \/ Validate \/ CreateDecoder \/ SpawnNet \/ SpawnAudio \/ StartFail

MetaEnds == start \in {"tcpMetaPart", "usbMetaPart"} /\ (MetaRead \/ MetaBroken)

Fairness ==
  /\ WF_vars(StartProgress)
  /\ WF_vars(NetLoop \/ NetWoken \/ NetFeed \/ NetExit)
  /\ WF_vars(AudioLoop \/ AudioWoken \/ AudioFeed)
  /\ WF_vars(JoinStart \/ Stop \/ JoinNet \/ JoinAudio \/ Release)
  /\ MetaStalls \/ WF_vars(MetaEnds)

Spec == Init /\ [][Next]_vars /\ Fairness

-----------------------------------------------------------------------------
(* Safety.                                                                   *)

(* Nothing the client owns is overwritten while it is live: the descriptors,   *)
(* server_pid, the decoder and the player are plain fields which the LAN       *)
(* attempt, its fallback to the tunnel and the two worker threads assign       *)
(* without looking at the old value (server_deploy.c, client.c).               *)
NoLeak == ~lost

(* The invariant of what a session holds: every resource in a known state, none lost,  *)
(* and rc_client_stop at most twice, by session_teardown and by rc_client_destroy.      *)
ResourceInv == TypeOK /\ NoLeak

(* A thread inside a read or a feed holds a live object: the video and audio    *)
(* sockets are never closed under rc_demux_read_packet, nor the decoder and the *)
(* player destroyed under rc_decoder_feed and rc_audio_feed, although             *)
(* rc_client_stop runs on another thread.                                        *)
WorkersHoldLiveObjects ==
  /\ net = "read" => fd["video"] # "none"
  /\ net = "feed" => decoder = "alive"
  /\ audio \in {"meta", "read"} => fd["audio"] # "none"
  /\ audio = "feed" => player = "alive"

(* When session_teardown has freed the client no thread still runs with it,     *)
(* and everything it acquired on any path through the deployment is released:    *)
(* descriptors, adb process, decoder, player, and the reverse mapping unless      *)
(* adb refused to remove it.                                                      *)
FreedIsClean ==
  ui = "freed" =>
    /\ start \in StartReturned /\ net = "none" /\ audio = "none"
    /\ \A f \in Fds : fd[f] = "none"
    /\ server = "none" /\ decoder = "none" /\ player = "none"
    /\ reverse => rmFailed

(* A failed rc_client_start leaves nothing behind even though nobody has called  *)
(* rc_client_stop yet, whichever step failed and however far the LAN attempt or   *)
(* the fallback had come.                                                        *)
FailedStartIsClean ==
  start = "err" =>
    /\ \A f \in Fds : fd[f] = "none"
    /\ server = "none" /\ decoder = "none" /\ player = "none"
    /\ ~running /\ net = "none" /\ audio = "none"
    /\ reverse => rmFailed

(* However a session ends, by a failed start or by the closing of its window at any *)
(* moment, it ends clean (rc_client_start, rc_server_teardown, rc_client_stop).      *)
EndsClean == FailedStartIsClean /\ FreedIsClean

(* A successful rc_client_start holds exactly the channels the configuration     *)
(* asks for, all of the path transport_desc names: after the fallback no          *)
(* descriptor of the LAN attempt is left.                                         *)
StartedIsComplete ==
  start = "ok" /\ ui \in {"open", "joinStart"} =>
    /\ fd = [f \in Fds |-> IF f \in Wanted THEN "open" ELSE "none"]
    /\ transportDesc = (IF transport = "TCP" THEN "LAN" ELSE "tunnel")
    /\ ~reverse \/ transport = "USB"

(* Liveness.  Closing the window always ends in a freed client, whatever the      *)
(* start thread, the workers and the peer are doing (rc_client_abort: "deploy/    *)
(* chờ kết nối thoát sớm").                                                        *)
CloseCompletes == ui = "joinStart" ~> ui = "freed"

(* rc_client_start returns on its own: every wait for the device has a deadline. *)
StartReturns == <>(start \in StartReturned)

=============================================================================
