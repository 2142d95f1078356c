------------------------------ MODULE AudioPath ------------------------------
(***************************************************************************)
(* One session's sound, from the device's capture to the desktop's          *)
(* speaker.  Four threads take part:                                        *)
(*   - the server's audio thread (Server.runAudio, AudioEncoder): prepares  *)
(*     recorder and encoder, sends audio_meta, then captures, encodes and   *)
(*     writes packets to the audio socket;                                  *)
(*   - the client's audio thread (audio_thread_fn, audio.c): reads the meta,*)
(*     creates the player, decodes each packet and copies the samples into  *)
(*     a ring (ma_pcm_rb), waiting when it is full;                         *)
(*   - the sound device's thread, which calls audio_data_cb;                *)
(*   - the owner, who calls rc_client_stop.                                 *)
(* The ring is miniaudio's: two offsets, each with a loop flag; an acquire  *)
(* gives a contiguous part, the copy into or out of it and the commit of    *)
(* the offset are steps of their own.                                       *)
(* A sample frame is the number of its place in the decoded stream, so what *)
(* the speaker should hear is 1, 2, 3, ...                                  *)
(***************************************************************************)
EXTENDS Integers, Sequences, FiniteSets

CONSTANTS
  RingSize,      \* frames in the ring (rb_frames)
  Pulls,         \* numbers of frames that the device may ask for at once
  Decoded,       \* numbers of frames that a packet may decode to
  SocketSize,    \* packets that fit between the two ends of the socket
  MaxPackets     \* bound: packets that the encoder puts out in one behaviour

ASSUME AudioAssumptions ==
  /\ RingSize \in Nat \ {0} /\ SocketSize \in Nat \ {0} /\ MaxPackets \in Nat
  /\ Pulls \subseteq Nat \ {0} /\ Pulls # {}
  /\ Decoded \subseteq Nat /\ Decoded # {}

VARIABLES
  srv,       \* where the server's audio thread is
  capture,   \* what AudioEncoder holds: subset of {"recorder", "codec"}
  emitted,   \* packets the encoder has put out
  packet,    \* the packet that the server is writing, or the last one it wrote
  socket,    \* packets on their way, the audio_meta first
  sockOpen,  \* FALSE once rc_client_stop has shut the socket down
  aud,       \* where the client's audio thread is
  parts,     \* what of the rc_audio exists
  owned,     \* is the player stored in c->audio_player?
  pending,   \* decoded frames that rb_write_blocking has still to write
  ring,      \* the cells of the ring; 0: never written
  wr, rd,    \* write and read offset with their loop flags
  grantW,    \* frames acquired for writing
  written,   \* frames committed to the ring so far
  cb,        \* where the device's thread is
  want,      \* frames that the callback has still to fill
  grantR,    \* frames acquired for reading
  heard,     \* the frames given to the speaker, silence left out
  running, owner

vars == <<srv, capture, emitted, packet, socket, sockOpen, aud, parts, owned, pending,
          ring, wr, rd, grantW, written, cb, want, grantR, heard, running, owner>>
serverVars == <<srv, capture, emitted, packet>>
playerVars == <<parts, owned>>
writerVars == <<pending, wr, grantW, written>>
callbackVars == <<cb, want, rd, grantR, heard>>
ownerVars == <<running, owner>>

Packets == {"opus", "none", "config", "data", "bad"}
SrvPCs == {"prepare", "start", "meta", "loop", "write", "finally", "done"}
AudPCs == {"meta", "decoder", "ring", "device", "startDevice", "store", "fail",
           "loop", "read", "acquire", "copy", "commit", "done"}
OwnerPCs == {"open", "shut", "join", "stopDevice", "closeDevice", "freeRing", "free", "freed"}
PlayerParts == {"player", "decoder", "ring", "device", "started"}
Offsets == [off : 0 .. RingSize - 1, loop : BOOLEAN]

TypeOK ==
  /\ srv \in SrvPCs
  /\ capture \subseteq {"recorder", "codec"}
  /\ emitted \in 0 .. MaxPackets
  /\ packet \in Packets
  /\ socket \in Seq(Packets) /\ Len(socket) <= SocketSize
  /\ sockOpen \in BOOLEAN
  /\ aud \in AudPCs
  /\ parts \subseteq PlayerParts
  /\ owned \in BOOLEAN
  /\ pending \in Nat
  /\ ring \in [0 .. RingSize - 1 -> Nat]
  /\ wr \in Offsets /\ rd \in Offsets
  /\ grantW \in 0 .. RingSize /\ grantR \in 0 .. RingSize
  /\ written \in Nat
  /\ cb \in {"idle", "acquire", "copy", "commit", "dead"}
  /\ want \in Nat
  /\ heard \in Seq(Nat)
  /\ running \in BOOLEAN
  /\ owner \in OwnerPCs

(* rc_client_start has spawned the audio thread; the server has its sockets. *)
Init ==
  /\ srv = "prepare" /\ capture = {} /\ emitted = 0 /\ packet = "none"
  /\ socket = <<>> /\ sockOpen = TRUE
  /\ aud = "meta" /\ parts = {} /\ owned = FALSE /\ pending = 0
  /\ ring = [i \in 0 .. RingSize - 1 |-> 0]
  /\ wr = [off |-> 0, loop |-> FALSE] /\ rd = [off |-> 0, loop |-> FALSE]
  /\ grantW = 0 /\ written = 0
  /\ cb = "idle" /\ want = 0 /\ grantR = 0 /\ heard = <<>>
  /\ running = TRUE /\ owner = "open"

-----------------------------------------------------------------------------
(* The ring of miniaudio.                                                    *)

Smaller(a, b) == IF a < b THEN a ELSE b

(* ma_rb_acquire_write: up to the end of the buffer when both offsets are on  *)
(* the same loop, up to the read offset otherwise.                            *)
AcquireWrite(n) ==
  Smaller(n, IF wr.loop = rd.loop THEN RingSize - wr.off ELSE rd.off - wr.off)

(* ma_rb_acquire_read: up to the write offset on the same loop, up to the end *)
(* of the buffer otherwise.                                                   *)
AcquireRead(n) ==
  Smaller(n, IF rd.loop = wr.loop THEN wr.off - rd.off ELSE RingSize - rd.off)

(* ma_rb_commit_write and ma_rb_commit_read: move the offset, and at the end  *)
(* of the buffer go back to 0 and flip the loop flag.                         *)
Commit(p, n) ==
  IF p.off + n = RingSize THEN [off |-> 0, loop |-> ~p.loop]
                          ELSE [off |-> p.off + n, loop |-> p.loop]

-----------------------------------------------------------------------------
(* The server's audio thread.                                                *)

(* isAvailable and prepare: an Android that is too old, a recorder that does  *)
(* not initialise or an encoder that cannot be made all lead to NONE; prepare *)
(* has then released what it had.                                             *)
SrvPrepare ==
  /\ srv = "prepare"
  /\ \/ capture' = {"recorder", "codec"} /\ packet' = "opus"
     \/ capture' = {} /\ packet' = "none"
  /\ srv' = "meta"
  /\ UNCHANGED <<emitted, socket, sockOpen, aud, playerVars, writerVars, ring,
                 callbackVars, ownerVars>>

(* The server's write of a packet or of the meta: it waits for room.          *)
Put(next) ==
  /\ sockOpen /\ Len(socket) < SocketSize
  /\ socket' = Append(socket, packet)
  /\ srv' = next

(* sendAudioMeta, and then streamTo if the encoder is ready.                  *)
SrvMeta ==
  /\ srv = "meta"
  /\ Put(IF packet = "opus" THEN "start" ELSE "finally")
  /\ UNCHANGED <<capture, emitted, packet, sockOpen, aud, playerVars, writerVars, ring,
                 callbackVars, ownerVars>>

(* streamTo up to its loop: codec.start and startRecordingWithRetry, which    *)
(* throws after three attempts.                                               *)
SrvStart ==
  /\ srv = "start"
  /\ srv' \in {"loop", "finally"}
  /\ UNCHANGED <<capture, emitted, packet, socket, sockOpen, aud, playerVars, writerVars,
                 ring, callbackVars, ownerVars>>

(* One turn of the loop of streamTo that finds an output buffer: the encoder's *)
(* CONFIG first, then sound.  "bad" is a packet that the client cannot decode. *)
SrvEncode ==
  /\ srv = "loop" /\ emitted < MaxPackets
  /\ emitted' = emitted + 1
  /\ packet' \in IF emitted = 0 THEN {"config"} ELSE {"data", "bad"}
  /\ srv' = "write"
  /\ UNCHANGED <<capture, socket, sockOpen, aud, playerVars, writerVars, ring,
                 callbackVars, ownerVars>>

(* writePacket, and back to the loop.                                         *)
SrvWrite ==
  /\ srv = "write"
  /\ Put("loop")
  /\ UNCHANGED <<capture, emitted, packet, sockOpen, aud, playerVars, writerVars, ring,
                 callbackVars, ownerVars>>

(* Recorder or encoder throw inside the loop: the finally of streamTo         *)
(* releases both.                                                             *)
SrvThrow ==
  /\ srv = "loop"
  /\ srv' = "finally"
  /\ capture' = {}
  /\ UNCHANGED <<emitted, packet, socket, sockOpen, aud, playerVars, writerVars, ring,
                 callbackVars, ownerVars>>

(* A write to a socket that was shut or lost throws: out of sendAudioMeta, or *)
(* out of streamTo and through its finally.                                   *)
SrvWriteFails ==
  /\ srv \in {"meta", "write"} /\ ~sockOpen
  /\ srv' = "finally"
  /\ capture' = IF srv = "write" THEN {} ELSE capture
  /\ UNCHANGED <<emitted, packet, socket, sockOpen, aud, playerVars, writerVars, ring,
                 callbackVars, ownerVars>>

(* The finally of runAudio: release, which skips what is released already.    *)
(* The socket stays open.                                                     *)
SrvFinally ==
  /\ srv = "finally"
  /\ srv' = "done"
  /\ capture' = {}
  /\ UNCHANGED <<emitted, packet, socket, sockOpen, aud, playerVars, writerVars, ring,
                 callbackVars, ownerVars>>

-----------------------------------------------------------------------------
(* The client's audio thread.                                                *)

(* rc_demux_read_audio_meta, and rc_audio_create's look at the codec: without *)
(* sound there is no player and the thread goes on to drain the socket.       *)
AudMeta ==
  /\ aud = "meta" /\ socket # <<>>
  /\ socket' = Tail(socket)
  /\ IF Head(socket) = "opus" THEN aud' = "decoder" /\ parts' = {"player"}
                              ELSE aud' = "loop" /\ UNCHANGED parts
  /\ UNCHANGED <<serverVars, sockOpen, owned, writerVars, ring, callbackVars, ownerVars>>

(* One step of rc_audio_create: it makes a part of the player or fails.       *)
Build(from, part, to) ==
  /\ aud = from
  /\ \/ aud' = to /\ parts' = parts \cup {part}
     \/ aud' = "fail" /\ UNCHANGED parts
  /\ UNCHANGED <<serverVars, socket, sockOpen, owned, writerVars, ring, callbackVars,
                 ownerVars>>

AudCreate ==
  \/ Build("decoder", "decoder", "ring")
  \/ Build("ring", "ring", "device")
  \/ Build("device", "device", "startDevice")
  \/ Build("startDevice", "started", "store")

(* Faulty variant of AudFail: without a player the thread ends. *)
AudFailEnds ==
  /\ aud = "fail"
  /\ parts' = {}
  /\ aud' = "done"
  /\ UNCHANGED <<serverVars, socket, sockOpen, owned, writerVars, ring, callbackVars,
                 ownerVars>>

(* The fail label: rc_audio_destroy of what there is (the device has not been *)
(* started), then NULL.                                                       *)
AudFail ==
  /\ aud = "fail"
  /\ parts' = {}
  /\ aud' = "loop"
  /\ UNCHANGED <<serverVars, socket, sockOpen, owned, writerVars, ring, callbackVars,
                 ownerVars>>

(* c->audio_player = player; the device calls back already.                   *)
AudStore ==
  /\ aud = "store"
  /\ owned' = TRUE
  /\ aud' = "loop"
  /\ UNCHANGED <<serverVars, socket, sockOpen, parts, writerVars, ring, callbackVars,
                 ownerVars>>

(* The head of the packet loop.                                               *)
AudLoop ==
  /\ aud = "loop"
  /\ aud' = IF running THEN "read" ELSE "done"
  /\ UNCHANGED <<serverVars, socket, sockOpen, playerVars, writerVars, ring, callbackVars,
                 ownerVars>>

(* rc_demux_read_packet, and rc_audio_feed up to the write: CONFIG and what   *)
(* does not decode are dropped, and so is everything without a player.        *)
AudPacket ==
  /\ aud = "read" /\ socket # <<>>
  /\ socket' = Tail(socket)
  /\ pending' \in IF owned /\ Head(socket) = "data" THEN Decoded ELSE {0}
  /\ aud' = IF pending' > 0 THEN "acquire" ELSE "loop"
  /\ UNCHANGED <<serverVars, sockOpen, playerVars, wr, grantW, written, ring,
                 callbackVars, ownerVars>>

(* A read of a socket that was shut or closed fails, at once or after what    *)
(* had arrived.                                                               *)
AudEof ==
  /\ aud \in {"meta", "read"} /\ ~sockOpen
  /\ aud' = "done"
  /\ UNCHANGED <<serverVars, socket, sockOpen, playerVars, writerVars, ring, callbackVars,
                 ownerVars>>

(* Faulty variant of AudAcquire: the number of frames granted is ignored. *)
AudAcquireUnbounded ==
  /\ aud = "acquire"
  /\ grantW' = Smaller(pending, RingSize - wr.off)
  /\ aud' = "copy"
  /\ UNCHANGED <<serverVars, socket, sockOpen, playerVars, pending, wr, written, ring,
                 callbackVars, ownerVars>>

(* rb_write_blocking acquires room for what is left; as long as there is none *)
(* it sleeps and tries again.  It does not look at `running'.                 *)
AudAcquire ==
  /\ aud = "acquire"
  /\ AcquireWrite(pending) > 0
  /\ grantW' = AcquireWrite(pending)
  /\ aud' = "copy"
  /\ UNCHANGED <<serverVars, socket, sockOpen, playerVars, pending, wr, written, ring,
                 callbackVars, ownerVars>>

(* memcpy into the acquired part.                                             *)
AudCopy ==
  /\ aud = "copy"
  /\ ring' = [i \in DOMAIN ring |->
                IF i \in wr.off .. wr.off + grantW - 1 THEN written + 1 + i - wr.off
                                                       ELSE ring[i]]
  /\ aud' = "commit"
  /\ UNCHANGED <<serverVars, socket, sockOpen, playerVars, writerVars, callbackVars,
                 ownerVars>>

(* ma_pcm_rb_commit_write, and on to the rest of the buffer.                  *)
AudCommit ==
  /\ aud = "commit"
  /\ wr' = Commit(wr, grantW)
  /\ written' = written + grantW
  /\ pending' = pending - grantW
  /\ grantW' = 0
  /\ aud' = IF pending' > 0 THEN "acquire" ELSE "loop"
  /\ UNCHANGED <<serverVars, socket, sockOpen, playerVars, ring, callbackVars, ownerVars>>

-----------------------------------------------------------------------------
(* The sound device's thread: audio_data_cb.                                 *)

notCallback == <<serverVars, socket, sockOpen, aud, playerVars, writerVars, ring, ownerVars>>

(* The device asks for some frames; not once ma_device_stop has been entered, *)
(* which marks the device as stopping before it waits.                        *)
CbCall ==
  /\ cb = "idle" /\ "started" \in parts /\ owner # "stopDevice"
  /\ cb' = "acquire"
  /\ want' \in Pulls
  /\ UNCHANGED <<rd, grantR, heard, notCallback>>

CbAcquire ==
  /\ cb = "acquire"
  /\ AcquireRead(want) > 0
  /\ grantR' = AcquireRead(want)
  /\ cb' = "copy"
  /\ UNCHANGED <<want, rd, heard, notCallback>>

(* memcpy out of the acquired part.                                           *)
CbCopy ==
  /\ cb = "copy"
  /\ heard' = heard \o [i \in 1 .. grantR |-> ring[rd.off + i - 1]]
  /\ cb' = "commit"
  /\ UNCHANGED <<want, rd, grantR, notCallback>>

(* Faulty variant of CbCommit: one acquire per call. *)
CbCommitOnce ==
  /\ cb = "commit"
  /\ rd' = Commit(rd, grantR)
  /\ want' = want - grantR
  /\ grantR' = 0
  /\ cb' = "idle"
  /\ UNCHANGED <<heard, notCallback>>

(* ma_pcm_rb_commit_read, and on as long as the device wants more.            *)
CbCommit ==
  /\ cb = "commit"
  /\ rd' = Commit(rd, grantR)
  /\ want' = want - grantR
  /\ grantR' = 0
  /\ cb' = IF want' > 0 THEN "acquire" ELSE "idle"
  /\ UNCHANGED <<heard, notCallback>>

(* Nothing to read: the rest of the device's buffer is filled with silence.   *)
CbSilence ==
  /\ cb = "acquire"
  /\ AcquireRead(want) = 0
  /\ cb' = "idle"
  /\ UNCHANGED <<want, rd, grantR, heard, notCallback>>

(* The device fails and calls back no more (unplugged, sound server gone).    *)
DeviceDies ==
  /\ cb = "idle" /\ "started" \in parts
  /\ cb' = "dead"
  /\ UNCHANGED <<want, rd, grantR, heard, notCallback>>

-----------------------------------------------------------------------------
(* The owner: rc_client_stop and rc_audio_destroy; and what else ends a session. *)

notOwner == <<serverVars, socket, aud, writerVars, ring>>

OwnStop ==
  /\ owner = "open"
  /\ running' = FALSE
  /\ owner' = "shut"
  /\ UNCHANGED <<sockOpen, playerVars, callbackVars, notOwner>>

OwnShut ==
  /\ owner = "shut"
  /\ sockOpen' = FALSE
  /\ owner' = "join"
  /\ UNCHANGED <<running, playerVars, callbackVars, notOwner>>

(* pthread_join of the audio thread; then the player, if there is one.        *)
OwnJoin ==
  /\ owner = "join" /\ aud = "done"
  /\ owner' = IF owned THEN "stopDevice" ELSE "freed"
  /\ UNCHANGED <<sockOpen, running, playerVars, callbackVars, notOwner>>

(* Faulty variant of OwnStopDevice: the ring is freed before the device stops. *)
OwnStopDeviceLate ==
  /\ owner = "stopDevice"
  /\ parts' = parts \ {"ring"}
  /\ owner' = "closeDevice"
  /\ UNCHANGED <<sockOpen, running, owned, callbackVars, notOwner>>

(* ma_device_stop returns when no callback is under way.                      *)
OwnStopDevice ==
  /\ owner = "stopDevice" /\ cb \in {"idle", "dead"}
  /\ parts' = parts \ {"started"}
  /\ owner' = "closeDevice"
  /\ UNCHANGED <<sockOpen, running, owned, callbackVars, notOwner>>

(* ma_device_uninit waits for the device's thread, too.                       *)
OwnCloseDevice ==
  /\ owner = "closeDevice" /\ cb \in {"idle", "dead"}
  /\ parts' = parts \ {"device", "started"}
  /\ owner' = "freeRing"
  /\ UNCHANGED <<sockOpen, running, owned, callbackVars, notOwner>>

OwnFreeRing ==
  /\ owner = "freeRing"
  /\ parts' = parts \ {"ring"}
  /\ owner' = "free"
  /\ UNCHANGED <<sockOpen, running, owned, callbackVars, notOwner>>

(* swr, frame, packet, decoder and the player itself; c->audio_player = NULL. *)
OwnFree ==
  /\ owner = "free"
  /\ parts' = parts \ {"decoder", "player"}
  /\ owned' = FALSE
  /\ owner' = "freed"
  /\ UNCHANGED <<sockOpen, running, callbackVars, notOwner>>

(* The net thread ends and clears running; the sockets stay as they are.      *)
VideoEnds ==
  /\ running
  /\ running' = FALSE
  /\ UNCHANGED <<owner, sockOpen, playerVars, callbackVars, notOwner>>

(* The link breaks, or the server ends and closes its sockets.                *)
LinkDown ==
  /\ sockOpen
  /\ sockOpen' = FALSE
  /\ UNCHANGED <<ownerVars, playerVars, callbackVars, notOwner>>

-----------------------------------------------------------------------------
Server ==
  \/ SrvPrepare \/ SrvMeta \/ SrvStart \/ SrvEncode \/ SrvWrite \/ SrvThrow
  \/ SrvWriteFails \/ SrvFinally
AudioThread ==
  \/ AudMeta \/ AudCreate \/ AudFail \/ AudStore \/ AudLoop \/ AudPacket \/ AudEof
  \/ AudAcquire \/ AudCopy \/ AudCommit
Callback == CbCall \/ CbAcquire \/ CbCopy \/ CbCommit \/ CbSilence
OwnerGoesOn == OwnShut \/ OwnJoin \/ OwnStopDevice \/ OwnCloseDevice \/ OwnFreeRing \/ OwnFree

Next ==
  Server \/ AudioThread \/ Callback \/ DeviceDies \/ OwnStop \/ OwnerGoesOn \/ VideoEnds
  \/ LinkDown

(* Every thread that can go on does; nobody has to stop the session, the      *)
(* encoder need not find output, and the link need not break.                 *)
Fairness ==
  /\ WF_vars(SrvPrepare \/ SrvMeta \/ SrvStart \/ SrvWrite \/ SrvWriteFails \/ SrvFinally)
  /\ WF_vars(AudioThread)
  /\ WF_vars(Callback)
  /\ WF_vars(OwnerGoesOn)

Spec == Init /\ [][Next]_vars /\ Fairness

-----------------------------------------------------------------------------
(* Frames whose reading has been committed. *)
consumed == Len(heard) - (IF cb = "commit" THEN grantR ELSE 0)

(* What is in the ring and has not been read is never written over: frame k   *)
(* stays in its cell from commit_write to commit_read.                        *)
UnreadIsKept ==
  /\ written - consumed <= RingSize
  /\ \A k \in consumed + 1 .. written : ring[(k - 1) % RingSize] = k

(* The invariant of the ring: offsets within it, and nothing unread lost      *)
(* (rb_write_blocking, audio_data_cb, ma_rb).                                 *)
RingInv == TypeOK /\ UnreadIsKept

(* The frames between the two offsets, oldest first, as they are in the ring. *)
Unread ==
  LET n == IF rd.loop = wr.loop THEN wr.off - rd.off ELSE RingSize - rd.off + wr.off IN
  [i \in 1 .. n |-> ring[(rd.off + i - 1) % RingSize]]

Queue == INSTANCE AudioQueue WITH
  Capacity <- RingSize,
  Requests <- Pulls,
  queue <- Unread,
  produced <- written,
  played <- SubSeq(heard, 1, consumed),
  demand <- IF cb \in {"acquire", "copy", "commit"} THEN want ELSE 0

(* Ring, audio thread and callback together are a bounded queue (AudioQueue): the    *)
(* speaker gets the decoded frames in their order, each once and none left out,       *)
(* whatever the sizes of packets, ring and callbacks and wherever the ring wraps;      *)
(* a callback pads with silence only when everything written has been played           *)
(* (rb_write_blocking and audio_data_cb, running concurrently).                         *)
ImplementsQueue == Queue!Spec

(* Every callback of the sound device returns, with what it asked for or with silence. *)
CallbackReturns == Queue!Answered

(* Neither the callback nor the audio thread touches a ring or a player that  *)
(* rc_audio_destroy has freed, or that rc_audio_create has not made yet.      *)
UsersHavePlayer ==
  /\ cb \in {"acquire", "copy", "commit"} => {"player", "ring", "device"} \subseteq parts
  /\ aud \in {"acquire", "copy", "commit"} => {"player", "decoder", "ring"} \subseteq parts

(* After rc_client_stop nothing of a player is left, also when it was only    *)
(* made after the stop began, or only in part.                                *)
NoPlayerLeft == owner = "freed" => parts = {} /\ ~owned

(* When the server's audio thread is over, recorder and encoder are released, *)
(* whichever step failed (prepare, startRecording, the loop, a write).        *)
CaptureReleased == srv = "done" => capture = {}

(* Nothing is used outside its life and nothing outlives its owner, on either *)
(* end of the audio connection (rc_audio_create, rc_audio_destroy, runAudio). *)
LifetimesHold == UsersHavePlayer /\ NoPlayerLeft /\ CaptureReleased

(* rc_client_stop ends: the audio thread can be joined from wherever it is,   *)
(* unless the sound device has died under it.                                 *)
StopEnds == owner = "shut" ~> (owner = "freed" \/ cb = "dead")

(* As long as the session runs and the sound device does, the server's write  *)
(* of a packet comes through, also when the desktop could not open a sound    *)
(* device and only drains.                                                    *)
ServerIsDrained == srv = "write" ~> (srv # "write" \/ ~running \/ cb = "dead")

(* No thread of the audio path waits for ever: not the device's in its         *)
(* callback, not the one that stops the session, not the server's in its write *)
(* (audio_data_cb, rc_client_stop, audio_thread, AudioEncoder.streamTo).       *)
AudioWaitsEnd == CallbackReturns /\ StopEnds /\ ServerIsDrained
=============================================================================
