# RigControlNative in TLA+

RigControlNative mirrors Android devices on a desktop and controls them from there. A desktop
process (C core with a GTK and a SwiftUI front end) starts `rc-server` on the device through adb,
receives video and audio from it and sends input to it, either over the LAN or through an adb
tunnel. `rc-agent`, a daemon on another machine, makes the devices that are plugged in there
reachable for desktops on the network.

This directory holds TLA+ models of these programs, the TLC configurations that check them, and
TLAPS proofs of what the checks show, for every value of the constants. `PROJECT.json` lists the
components, the runs, the mutants (a faulty variant for every property, which must violate it),
the source lines behind every definition, the findings, the hazards and the theorems.

To check a run: `tlc -config X.cfg M`; to check the proofs: `tlapm MProofs.tla`, where
`M` is the module they are about; those about `SessionTable` and `Chooser` are in `DesktopProofs`.

## The system

| Component | State it keeps | Operations | Talks to |
|---|---|---|---|
| core: client (`core/src/client.c`, `server_deploy.c`, `adb.c`, `net.c`) | transport, four descriptors, pid of the adb process, reverse mapping, decoder, player, `running`, `abort_requested`, two description pointers | create, start (deploy over LAN or adb, fallback), abort, stop, destroy; the net and the audio thread | adb (processes), rc-server (sockets), the front end (callbacks) |
| core: video (`client.c`, `demuxer.c`, `decoder.c`) | cached CONFIG, `need_cfg`, decoder with hardware context | read packet, merge CONFIG, feed, change to software | libavcodec; frame callback |
| core: audio (`audio.c`) | decoder, resampler, ring, sound device | create, feed, callback, destroy | miniaudio's thread |
| GTK: sessions (`session.c`) | list of sessions, LAN port or stream index of each, timers, start thread | open, close | core, registry of agents |
| GTK: rendering (`render.c`) | planes and size under a lock, `render_scheduled`, textures | frame callback, resize, render, free | net thread, main loop |
| GTK: input (`input.c`) | `keys_down`, `mouse_buttons` | every key, pointer, button-bar event | core's send functions |
| GTK: chooser and registry (`chooser.c`, `agent.c`) | table of agents' devices, hosts asked, rows and options of each window | scan by hand, probe by itself, list, open a session | rc-agent's discovery port, adb |
| rc-agent: slots (`discovery.c`, `adb.c`, `main.c`) | slots, listeners, forwards, `g_stop` | rescan, set-up of a slot, discovery answer, cleanup | adb, the accept loop |
| rc-agent: relay (`net.c`) | a thread for each connection, a Group for each stream port | open upstream with replay, pump | desktop, adb forward |
| rc-server: connection (`DesktopConnection`, `Server`) | server socket, streams | accept and authenticate, or connect | desktop, agent |
| rc-server: video (`ScreenEncoder`) | encoder, virtual display, sizes | configure, encode loop, rotation check | MediaCodec, socket |
| rc-server: audio (`AudioEncoder`) | recorder, encoder | prepare, stream, release | AudioRecord, MediaCodec, socket |
| rc-server: control (`ControlReceiver`, `DeviceController`) | what it has injected; rotation and power of the device | dispatch of nine messages | InputManager, the device |

What is hard here:

- **Threads over one object.** Start, net, audio and UI thread share an `rc_client` whose fields
  are plain; who may free what is decided by joins alone. The window may close at any moment of the
  deployment. Net and UI thread share the planes; audio thread and sound device share a ring without
  a lock.
- **Failure half way.** The deployment acquires up to four descriptors, a process, a mapping on the
  device, a decoder and two threads, and may fail or be aborted after each, and it may fall back from
  LAN to tunnel inside one call. The agent's slot set-up is a sequence of adb commands and binds.
- **An unreliable middle.** adb accepts connections on behalf of a server that is not there yet; the
  agent reconnects and replays. Channels are told apart by their order only.
- **Things that come back.** Devices are unplugged and plugged in between and during scans; ports and
  indexes of closed sessions are given out again; encoders are rebuilt on the same socket; keys are
  released under other modifiers than they were pressed with.
- **Answers in any order.** Scans and probes run in threads of their own and report to the UI thread
  when they end; applying a report lists the devices, which starts further probes.
- **Coordinates across three sizes.** A point of the widget becomes a point of the video shown, and
  that one a point of the display, while the display turns and the encoder follows.
- **Things that must end.** Closing a window, stopping the agent, a relay whose peer is gone.

The `hazards` of `PROJECT.json` place these at their lines.

## Modules

Each module's header says what its variables stand for. An action is one step of one thread between
two points where another thread can see or change something; it covers the whole of the code between
them. What adb, the network, the device, the user and external libraries do is nondeterministic.

| Module | Models | Extended by |
|---|---|---|
| `ClientSession` | the life of one session: start thread (LAN, fallback, tunnel), net, audio and UI thread, and every resource of the client | `MCClientSession`, `ClientSessionProofs` |
| `AgentSlots` | the agent's tables, the rescan thread, devices that come and go, stop and cleanup | `AgentSlotsProofs` |
| `StreamRelay` | one stream port of the agent between a desktop and a server: Group, reconnect, replay, verdict, pump, accept and token check | `MCStreamRelay`, `StreamRelayProofs` |
| `Geometry` | sizes and points as operators: the encoded size, the letterbox, widget to video, video to display | `VideoPipeline` |
| `VideoPipeline` | encoder with rotation, socket, net thread with the CONFIG cache, decoder and its fallback; the pointer's way back at every moment of it | `MCVideoPipeline`, `VideoPipelineProofs` |
| `NewestFrame` | abstract: what the hand-off of frames promises | instantiated by `FrameHandoff` |
| `FrameHandoff` | frame callback, main-loop sources, render and teardown of the GTK front end | `FrameHandoffProofs` |
| `AudioQueue` | abstract: what the ring of sound promises | instantiated by `AudioPath` |
| `AudioPath` | the server's audio thread, the socket, the client's audio thread, the ring, the sound device's callback, stop and destroy | `AudioPathProofs` |
| `Input` | GTK's key and pointer handlers, the control socket, the server's control thread and what the device takes to be pressed | `InputProofs` |
| `SessionTable` | the sessions of one application, their ports, and the servers on the devices | `MCSessionTable`, `Desktop` |
| `Chooser` | the chooser windows, the registry of agents' devices, scan and probe threads and their idle callbacks | `MCChooser`, `Desktop` |
| `Desktop` | one run of the application: `Chooser` and `SessionTable` composed, with the registry deciding the path of each session | `MCDesktop`, `DesktopProofs` |

`ClientSession` and `SessionTable` see `deploy_tcp` from two sides: the first follows one session
through all of its steps, the second keeps of each session only the phase and asks what several
sessions and their servers do to one another. `AudioPath` opens up the audio thread that is three
steps in `ClientSession`; `StreamRelay` opens up the LAN connection that is one step there. In
`SessionTable` a session connects its channels one by one to whatever server listens where its port
leads and sends its token on each (`Connect`); a server takes them one by one, compares the token and
accepts or closes (`acceptAuthed`); the session streams once `device_meta` has come (`ReadMeta`), or
takes the tunnel (`FallBack`). So channels of a session can reach servers of other sessions and devices.
`SessionTable` takes from the agent that public port `stream_base + k` leads to the owner's device
port `k`; that is `RoutesToOwner` of `AgentSlots`. `Chooser` says by which path a row opens (`Path`);
`SessionTable` by itself takes every path that a device may ever be given (`Paths`), in particular the
LAN path for a device behind an agent whose probe has not answered yet. `Desktop` puts the two together:
a click on a row (`OpenSession`) is `on_row_activated` and `session_new` in one callback, with the path
that the registry gives at that moment, and the application ends with its last window, of a chooser or
of a session (`CloseSession`, `CloseOther`). All other steps are those of one side, with the other side
unchanged. `Listings` of `Chooser` is what
`ListedSerials` of `AgentSlots` answers, as some subset of the host's devices.

### Refinements

`Desktop` implements `SessionTable`, with the variables of `SessionTable` as they are: what holds of
`SessionTable` holds of the application. This is proved (`DesktopImplementsTable`); no run checks it.

Two modules say what a component promises, without locks, offsets or main loop, and two others are
shown to implement them (`INSTANCE ... WITH`). The abstract specifications are about safety; that the
detailed ones implement them is a property of the runs and is proved. What the abstract modules promise
to happen in the end (`LastIsShown`, `Answered`) is read through the same mapping and is a property of
its own of the run (`LastFrameIsShown`; `CallbackReturns`, a part of `AudioWaitsEnd`), since it rests on
fairness.

- `AudioQueue`: a bounded queue of sample frames, out of which a device takes what it asks for and
  which answers with silence only when it is empty. `AudioPath` implements
  it (`ImplementsQueue`) with `queue` as the cells of the ring between the two offsets, `played` as the
  frames whose reading has been committed, `demand` as what the callback has still to fill. A frame
  therefore leaves the queue at `ma_pcm_rb_commit_read`, not at the copy before it, and enters it at
  `ma_pcm_rb_commit_write`: writing over a cell that is being copied would be a step that no queue has.
- `NewestFrame`: the window shows delivered pictures, whole, in their own shape, never an older one
  after a newer one. `FrameHandoff` implements it (`ImplementsNewestFrame`) with `shown` as the textures together with the size that `on_render` read
  for the letterbox.

### How the models abstract

- Time: a wait ends by its answer, its timeout, an abort or a death, whichever comes first, in any
  order. Deadlines that the code does not look at are modelled as not looked at.
- Data: a packet is its kind and the encoder it comes from; an audio frame is its number; a key is one
  of four classes by what Shift makes of it (letters, digits, Tab, keys that do not change); a pointer
  position is inside or outside the picture; a token is the session it belongs to.
- `ClientSession`: out of memory is a failure of the step in which it occurs. A descriptor is `none`,
  `open` or `shut`; its number is not kept.
- `AgentSlots`: the agent's port ranges do not overlap (`PortsAssumption`), which the defaults satisfy
  and the code does not check (`--adb-base` is free). An adb command that fails has had
  no effect, or has had all of it: `run_cmd` reports a failure as well for a child that was killed, by its
  timeout or by the terminal's Ctrl-C, which reaches the adb client too (`util.c:66` gives it no process
  group of its own), when adb's server had done the work. Such a forward is not entered in `g_fwds`
  (`adb.c:48`); `lost` keeps it until a later command enters it (`AdbForwardKilled`). `adb tcpip`, whose
  result is not looked at, costs the device its forwards or fails and leaves them. The rescan thread exists
  (the code goes on without it if it cannot be created). `g_fwds` has room for the forwards of all
  slots (`FwdsAssumption`; in the code 8 slots of 4 + 1 forwards and 128 places), without which a
  forward could be installed and not recorded.
- `StreamRelay`: the adb port's relay is the same `conn_thread` without a Group, one connect and the
  same pump, and is not modelled a second time. A stop of the agent ends the process, with all
  connections. adb closes a connection for which nothing listens on the device (`AdbOpens`), before or
  after the verdict. One that is in the server's backlog or accepted it resets only when the device's
  transport is lost; the server's shell and with it the session end then as well, which is left out.
- `Geometry`: the code computes points in floating point, the model in exact quotients; rounding by
  less than a pixel is left out. The six reads of `injectTouch` and the four writes of `configure` are
  interleaved in every way (`Interleavings`). Displays, widgets and encoded sizes are not empty
  (`SizesAssumption`, `ShapesAssumption`): MediaCodec refuses an empty size, and
  `render_widget_to_device` returns at one.
- `VideoPipeline`: the screen changes or rests (`fresh`): a new encoder yields its CONFIG and a key frame
  of what is there, and after that a frame only for a change, since `createFormat` does not ask for the
  last one to be repeated. An encoder and its virtual display keep the size they were built in (`built`),
  whatever `configure` reads later. Running out of memory while CONFIG is merged, a pixel format that no front end
  supports, and a `getDisplayInfo` that fails for ever are left out.
- `FrameHandoff`: the GL area is realised once; colours are left out.
- `Chooser`: an agent's answer is a refusal or a listing of some of the host's devices, each with its
  `stream_base`. `adb devices` gives the devices there are or, when adb cannot be run, none. A report
  that arrives for a closed window is applied to the registry and fills a list that nobody sees. The
  custom discovery port that a user may type is part of the host.
- `AudioPath`: decoder and resampler turn a packet into some number of frames (`Decoded`) or none.
  The ring is miniaudio's, with offsets and loop flags. `ma_device_stop` and `ma_device_uninit` wait
  for a callback that is under way.
- `Input`: a gesture that GTK cancels and a focus that the window loses are events that the handlers
  do not get (`unseen`). The device actions (rotate, screen, panels) pass through the channel; what
  they do to the device is left out.
- `SessionTable`: the server on the device ends some time after its session has closed the sockets and
  ended the local adb process; nothing in the desktop waits for it. Sessions with an address from the
  environment (one session, no chooser) and plain USB sessions take no port and are left out. A
  connection that its session has closed again while the server had not yet looked at it is gone with
  it: only the session's own server would accept it. The
  probe before a LAN deployment may answer either way: other programs may listen there, and a
  listener may be missed.
- `Desktop`: one agent, whose devices are `AgentDevs`, and devices that are on the network themselves;
  at the address of one of these no agent answers (`DesktopAssumption`). Sessions of wired devices take
  no port and are not in the table; their windows may keep the application running. Clicks stop at
  `MaxSessions`, the bound of the table.

## Runs

All passing runs check every state that their bounds allow, and deadlock unless the system may end
(`audio`, whose encoder may have put out its last packet; `sessions`, `chooser` and `desktop`,
where the application ends). There is one passing run for each module,
with its safety and its liveness properties. Where a run checks an `...Inv`, a `...Hold` or another
conjunction, its parts are named definitions of the module and say what they are about; `TypeOK` is
part of the first invariant of each run.

| Run | Module, cfg | Shows |
|---|---|---|
| `client` | `MCClientSession`, `ClientSession.cfg` | For 32 configurations and a window that may close at any step: nothing live is overwritten (`ResourceInv`), no thread runs without its objects (`WorkersHoldLiveObjects`), failed starts and freed clients hold nothing, started ones hold exactly what was asked for; closing ends, starting returns |
| `agent` | `AgentSlots`, `AgentSlots.cfg` | Three devices (one of them malformed) for two slots and five listeners, commands that fail or are killed, binds that fail: no shared slots, every route leads to the owner, what is listed is bound, a stop leaves no forward behind but those that adb refuses to remove or that a killed command installed (`CleanExit`), tables only grow; unplugged devices disappear, devices that come back appear again, a stop ends |
| `relay` | `MCStreamRelay`, `StreamRelay.cfg` | One opener at a time, replay exactly once and in order, strangers do not take a channel's place, who streams has the whole session; nobody waits at the Group for ever, no thread outlives its peers (`RelayWaitsEnd`) |
| `video` | `MCVideoPipeline`, `VideoPipeline.cfg` | A packet is decoded with its own encoder's parameter sets; an encoder is rebuilt for turns only, and never twice for one (`RebuiltForTurns`); a display at rest is shown, and a failing decoder recovers if the screen goes on changing (`PictureCatchesUp`). The pointer (`PointerInv`): once the server has noticed the last turn, every point of the widgets on the picture leads to a point of the display, also on a picture of the old orientation, and on a picture of the encoder in use to the very point that the virtual display's projection and the letterbox draw there. Before the turn is noticed a touch is scaled for the display as it was and may lie beside the one that is there; a touch that meets `configure()` half way may mix both sizes, and each of its coordinates is only known to be one that the old or the new display has. The encoded size meets the contract of its comment on real screens, and the letterbox shows all of the video as large as it fits (`PictureInv`) |
| `frame` | `FrameHandoff`, `FrameHandoff.cfg` | `FrameHandoff` implements `NewestFrame`; no lost wake-up, no use of freed planes; the last frame is shown in the end, in a window fitted to it |
| `audio` | `AudioPath`, `AudioPath.cfg` | `AudioPath` implements `AudioQueue`, and every callback returns; nothing unread is overwritten; no use after free; nothing left after a stop or a failure; while the sound device lives a stop ends and the server is drained, with or without a player |
| `input` | `Input`, `Input.cfg` | `keys_down` is what the device takes to be down, keys and touches come up, moves are touches, the control thread survives every message |
| `sessions` | `MCSessionTable`, `SessionTable.cfg` | A session that streams over the LAN has all of its channels accepted by its own server, although they may reach others' servers first (`OwnServerOnly`), live sessions have different ports, public ports lead home, the tunnel is taken only when all indexes are in use; also for a device that was opened before its agent was known |
| `chooser` | `MCChooser`, `Chooser.cfg` | A row labelled "(agent)" opens through the agent, and one of a registered device carries the label; scans and probes do not meet in one window or host, and no agent's answer touches another's entries (`ChooserInv`); scans give their entry back, and listing and probing do not go on for ever |
| `desktop` | `MCDesktop`, `Desktop.cfg` | Registry and sessions over a whole run (`DesktopInv`): after a session that was opened by the agent's word, no session of the device goes to a LAN port of the agent's machine; two live sessions of a device have the same port on it in one case only, an older one over LAN from before the agent's answer and a younger one through the agent. |

Runs that end in a violation show where a comment or a document says something else than the code
does; `findings` in `PROJECT.json` quotes each.

| Run | What happens |
|---|---|
| `client_stall` (`ClientStall.cfg`) | A peer that sends part of `device_meta` and falls silent holds the start thread, and the window that joins it, for ever |
| `relay_crossed` (`RelayCrossed.cfg`) | Two channels that wait at the Group may pass it in either order |

### Other divergences met while modelling

The models show these as well; no run is kept for them. Where a property would otherwise fail, its
statement leaves the case out (`KeysComeUp`, a part of `KeysHold`, speaks of letters and navigation keys) or the fairness
says so (`StreamRelay`).

- `core/src/audio.c:104`: "Trả về khi đã ghi hết hoặc device/ring lỗi"; when the sound device stops
  calling back (`DeviceDies`), `rb_write_blocking` finds the ring full, looks neither at the device nor
  at `running`, and does not return, nor does the `rc_client_stop` that joins its thread. `StopEnds`
  and `ServerIsDrained`, parts of `AudioWaitsEnd`, except this case.
- `frontends/gtk/chooser.c:423`: a second launch activates the running application, which builds a
  second chooser window; the widget pointers of `App` then lead to its options, and a row clicked in
  the first window is opened with what is ticked in the second ("Bỏ tick để chỉ xem", chooser.c:437).
  Once the second window is closed the pointers are stale. `OpenedAsShown` speaks of the window that
  was built last, and the second half of `LabelsMatch` of an application that was activated once.
- `frontends/gtk/session.c:14`: a device opened over LAN before its agent was known and through the
  agent afterwards may get the same port on the device twice, since `lan_port` and `stream_k` are
  separate pools; the second server meets the `BindException` that the comment means to avoid.
  `PortsDistinct` speaks of one pool, and `PortsMeetAfterLateProbe` of `Desktop` says that there is no
  other case.
- `core/src/client.c:291`: when the net thread cannot be created, the decoder goes and `decoder_desc`
  stays; `rc_internal.h:90` has it `NULL` then (`decoderDesc` in `ClientSession`).
- `frontends/agent/net.c:132`: a replay whose write fails is retried without a look at the ten
  seconds of net.c:110; it takes a reset before every write to exceed them.
- `frontends/agent/discovery.c:134`: `slot_setup_new` gives up when a forward or a bind fails and
  leaves `ready = 0`; a slot that is not ready is not refreshed when its device reappears (discovery.c:193)
  and is not set up again (discovery.c:227). A device that is unplugged during its set-up is never listed
  again, though "cắm thêm điện thoại lúc agent đang chạy vẫn dùng được ngay" (AGENT_PROTOCOL.md:41).
  `BackIsListed`, a part of `ListingFollowsDevices`, speaks of slots that are ready.
- `frontends/agent/discovery.c:193`: a device that leaves and returns between two scans keeps
  `present` and its forwards, which adb dropped, are not rebuilt (discovery.c:63).
- `frontends/agent/discovery.c:125`: a stream range of which no port could be bound is advertised
  (`AGENT_PROTOCOL.md:88`).
- `frontends/agent/adb.c:48`: a forward whose command is killed when adb has done its work (a timeout, or
  Ctrl-C in the terminal) is not recorded and stays behind at the exit, unless a later refresh of the slot
  enters it; `CleanExit` names the case (`lost`).
- `core/src/decoder.c:72`: after libavcodec gives the hardware format up inside a call, the
  description still names the GPU (`rc_client.h:166`; `desc` in `VideoPipeline`).
- `frontends/gtk/input.c:175`: Tab, Shift, release of Tab: the release has another key value and no
  up is sent (input.c:92).
- `frontends/gtk/session.c:24`: a new session gets the port of one just closed, whose server may
  still hold it, and falls back to the tunnel (session.c:15).

### Bounds

Bounds are constants (`Max...`, capacities) and appear in guards. They are chosen so that each
boundary is crossed: more devices than slots and fewer listeners than ports, and two changes of the
devices, so that one leaves and returns in any phase of a scan (`agent`); a replay
buffer smaller than what the desktop may send, and a connection that is not the session's (`relay`);
two turns of the display, so that the second meets the encoder in every phase of the first, and a
rotation check every second buffer, a display of 20 by 44 limited to 36, so that the encoded size is
both reduced and rounded, a wide and a tall widget with all of their points, and five real screens
with the limits of the chooser (`video`); four frames of two sizes, so that a frame arrives in
each phase of the previous one's rendering and a size changes and changes back (`frame`); a ring of
three frames with packets of two and four, so that one packet is longer than the ring and writes and
reads wrap at different places, several times (`audio`); three sessions for two indexes, so that the
indexes run out, and one is used again while an older session keeps the other, with two channels, which
may reach two servers (`sessions`); one
window, two hosts and three devices, so that a scan and two probes run at once, two of them for one
agent (`chooser`; a second window multiplies the states beyond TLC's reach); a device of an agent with two
sessions of one channel and two indexes, so that both pools are used at once (`desktop`; a device
that is on the network itself, which the theorems include, is beyond TLC's reach there); a key of
each class that the properties speak of and a text over the limit (`input`). `client` has no bound:
its state space is finite.

### Fairness

- `ClientSession`, `AudioPath`: every thread that can go on does; adb commands return, also those that
  the code gives no deadline (`adb push`, `adb reverse`); nobody has to
  close the window, and no data is owed, except that without `MetaStalls` a `device_meta` whose first
  bytes have come is completed or its connection breaks. `ClientSession` takes the feeding of the
  player as a step that ends, which `StopEnds` shows as long as the sound device calls back. The
  callback is fair because a started device runs on a clock of its own.
- `StreamRelay`: some thread of the agent that can run does, adb answers, time passes. A replay that is
  tried again and again is written in the end (strong fairness), since it follows the connect at once
  while adb closes only after a round trip to the device. Nothing is owed by server or desktop.
- `AgentSlots`: the rescan thread runs, and `adb devices` works again in the end; devices need not
  change.
- `VideoPipeline`: both loops run; a new encoder yields its CONFIG and a first key frame. A still screen
  owes nothing after that; if it changes again and again, a key frame is among what the encoder yields,
  which its format asks for (`I_FRAME_INTERVAL_S`): strong fairness, since other output may come in
  between. `PictureRecovers` therefore speaks of a screen that goes on changing; on one that rests a
  decoder that has lost its references stays without a picture.
- `FrameHandoff`: the main loop runs its sources. The two idle sources have strong fairness: renders
  that GTK asks for itself have a higher priority but are paced by the frame clock.
- `Chooser`: scan and probe threads end, since every wait in them has a timeout, and the main loop
  serves their idle callbacks, for which the `adb devices` that `list_adb_devices` runs on the UI thread
  without a timeout has to return. Nothing is assumed of the user, of what adb lists or of an agent.
- `SessionTable`, `Desktop` and `Input` state no fairness and have safety properties only.

## Proofs

Eight modules of proofs state what the runs check as theorems about every value of the constants that
satisfies the named assumptions. Each has the same outline: an inductive invariant (`IInv`), a lemma that
the initial states satisfy it, lemmas that the steps of each part preserve it, and one theorem for each
property of the run, by `IInv` or by a step from it. What the invariant adds to the properties, and why:

`ClientSessionProofs`, for every set of configurations and with or without `MetaStalls`:
`NothingLeaks`, `WorkersAreSafe`, `EndingIsComplete`, `SuccessIsComplete`. To `TypeOK` and `NoLeak` the
invariant adds what each program counter of the start thread implies: `FdInv`, which descriptors are
open at which step; `ServerInv`, when a process and a mapping exist and for which transport;
`WorkerInv`, what net and audio thread have and who made it; `UiInv`, how far the start thread is when
the UI thread has joined it.

`AgentSlotsProofs`, for any number of devices, slots, listeners, forwards and addresses and any port
ranges that satisfy `PortsAssumption`: `SlotsAreNotShared`, `RoutingIsSound`, `ListingIsSound`,
`ExitIsClean` and the action property `GrowthIsMonotone`. The invariant is `TypeOK`,
`OneSlotPerSerial`, `SlotShape` (slots and the scan's position in them), `ForwardShape` (every forward
in adb's table is one that its slot asked for, to the port computed for it), `ListenerShape` (every
listener belongs to a slot and has one of its ports) and `BoundShape` (a ready slot has a bound adb
port). Routing follows from the last four with one fact of arithmetic: the ranges of two slots do not
meet (`PortsDistinct`). The step of each table is proved once, together with what it may change
(`SlotsKeep`, `ListenersKeep`, `ForwardsKeep`), and the shapes follow from that. `ExitIsClean` has a
second invariant on top, `ExitInv`: what `g_fwds` holds are forwards of slots, every forward in adb is
among them or among the `lost` ones until the cleanup, and the cleanup comes after the rescan thread.
Every step keeps the forwards, records one or loses one (`RecordStep`). That a command that succeeds is
always recorded is a count: slots have at most `MaxSlots * (StreamCount + 1)` forwards, and a pair that is
not in the table is one of those, so the table has room for it (`RoomToRecord`, `FwdsAssumption`).

`StreamRelayProofs`, for any order of channels, any strangers, any number of chunks and any capacity of
`pre[]`: `OneAtATime`, `NothingIsLost`, `RolesAreOurs`. The invariant says that a thread opens exactly
while the Group is busy (`OneInGroup`), that a connection is at one place only on its way through the
listener, its thread, the server's backlog and the roles (`AcceptedOnce`, `UpstreamPlace`,
`ServerPhase`), and that what was read is in `pre[]` as long as the connection may still be lost and in
the upstream after the replay (`NothingLost`).

`VideoPipelineProofs`, for any sizes of display, any limit and any number of turns:
`DecodedWithOwnConfig`, `EncodersArePaidFor` and the action property `PictureGoesForward` (the picture
never steps back to an earlier encoder, which no run checks: it follows from the order of the packets).
Packets in the socket come in the order of their encoders, each encoder's CONFIG before its frames, and
the cached CONFIG is that of the packet before the first one (`StreamOrder`, `CachedConfig`); packets of
one encoder have one size, that of `built` (`OneSize`); an encoder is rebuilt only after a turn
(`TurnsPay`). `PictureIsWhole` and `PointerIsTrue` are about the arithmetic of `Geometry`, for every
display, limit, widget and point rather than the few of the run: lemmas on division first (rounding down
to a multiple of 8, quotients of products), then that the encoded size is reduced in proportion, that the
letterbox fits and touches two borders, that the way from the widget to the display inverts the way of
the picture from the display to the widget (`DrawnAt`, `Shows`), and that a torn touch stays within the
longer sides in every interleaving of the six reads with the four writes.

`FrameHandoffProofs`, for any sizes and any number of frames: `NoWakeupLost`, `PlanesAreSafe`, and
`ShowsNewest`, the refinement of `NewestFrame`. The invariant ties `render_scheduled` to the number of
sources in the main loop (`FlagIsSource`) and gives the order of the teardown; the refinement needs
`UploadedIsNewest`: a frame that is not pending is the one in the textures.

`AudioPathProofs`, for any capacity of the ring, any sizes of packets and callbacks:
`RingLosesNothing`, `LifetimesAreKept`, and `RingIsQueue`, the refinement of `AudioQueue`. `RingState`
ties the two offsets with their loop flags to the number of frames written and read and says what each
cell between them holds; `WriterGrant` and `ReaderGrant` say that what a thread has acquired stays its
own although the other one moves its offset in the meantime; `PlayerState` says which parts of the
player exist at each step of its construction and destruction. In the refinement, a commit of a part of
the ring is an enqueue or dequeue of a run of numbers.

`InputProofs`, for any keys of each class, any buttons and texts and any room on the channel:
`ControlThreadSurvives`, `NoKeySticks`, `TouchIsWellFormed`. The properties speak of what the device
will have pressed once everything in the channel has arrived, by the greatest index of a message about
a key; the proofs replace this maximum by `Down`, which says the same with quantifiers, and show what
sending and receiving do to it.

`DesktopProofs` has the proofs of three modules.

- `SessionTable`, for any devices, any number of stream ports and any number of sessions:
  `PortsAreSound`, `StreamsFromOwnServer` and the action property `TunnelForWantOfPorts`. The invariant
  `IInv` adds that what `session_new` has stored hangs together (`AllCoherent`). `StreamsFromOwnServer`
  needs `Handshake`: an accepted connection is one to the session's own server (`OwnTaken`), a server's
  token is that of a session which has deployed it (`Deployed`), and a server that serves has accepted
  all channels of its session as long as that one keeps them (`ServesAll`). `TunnelForWantOfPorts`
  is a count: if all indexes are taken, then by that many different sessions of the device.
- `Chooser`, for any windows, hosts, devices and agents: `ChooserIsSound`. The run has one window; the
  theorem has any number of them, and says of which windows each part holds. The invariant `ChooserIInv` has one part for each table: rows (`LabelsKept`: a label says what the registry says,
  which only grows; `WindowsKept`: a closed window has no rows, and the option widgets belong to some
  window), probes and scans (`ProbesKept`, `ScansKept`: their host is marked, and what they report is
  its own and comes from an agent) and the registry (`RegistryKept`). What a listing does in the middle
  of a callback is said once, as a relation of the tables before and after it (`Lists`), from
  `populate_devices` (`Populates`); the four callbacks that list the devices share what follows from it
  (`ListingKeeps`).
- `Desktop`, from `DesktopAssumption`: `DesktopImplementsTable` and `RegistryAndTableAgree`. The
  refinement needs one fact of the chooser, that whoever is in the registry was reported by an agent of
  its own host (`RegistryKept`): so a device without an agent opens over LAN, and every other path is
  allowed (`PathAllowed`). `DesktopIInv` joins both invariants and adds that a session not opened over
  LAN is one of a registered device (`AgentSessionsKnown`), which stays true since the registry forgets
  nothing. Of two sessions with the same port the paths then differ (`PortsDistinct`), and the one
  through the agent cannot be the older.

What stays with TLC are the properties of liveness, since the prover has neither fairness nor `ENABLED`:
`CloseCompletes` and `StartReturns` of `ClientSession`; `ListingFollowsDevices` and `StopExits` of
`AgentSlots`; `RelayWaitsEnd` (`Served`, `Drained`) of `StreamRelay`; `PictureCatchesUp`
(`RestingDisplayIsShown`, `PictureRecovers`) of `VideoPipeline`; `LastFrameIsShown` of `FrameHandoff`;
`AudioWaitsEnd` (`CallbackReturns`, `StopEnds`, `ServerIsDrained`) of `AudioPath`; `BackgroundEnds` of
`Chooser`. Every safety property of the passing runs is a theorem.

## Not modelled

- The SwiftUI front end, which has the same structure over the same core with other threads (Swift
  tasks and a main actor).
- Colours, shaders, window titles, FPS and latency figures.
- The parsing of options, environment and discovery answers, the layout of messages, the search for
  adb along the path.
- `rc-agent`'s process runner beyond its outcomes, clocks and logging; reflection wrappers of the server; scripts.
- The number behind `control_fd` (`core/src/control_msg.c:7`): a send on the UI thread may meet the
  teardown of a LAN attempt on the start thread and write to a descriptor that was closed or opened
  again. The code has nothing against it and no document promises anything, so there is no property
  to state.
- Timing beyond order: how long closing a window takes while adb runs.

## Plan

The models cover the components above, and all safety properties that the runs check are proved. What
is left:

1. The agent's part of the path from a public port to a server could be composed with `SessionTable`,
   which takes it as given, as `Desktop` composes `SessionTable` with `Chooser`.
2. `Desktop` has one agent. With several, a stream index belongs to the agent of its device, and
   `Slot` and `PublicPort` would take the agent as well.
3. Facts that several proofs need in their own words (the least of a set of numbers, division with
   remainder) could be stated once.
