---------------------------- MODULE VideoPipeline ----------------------------
(***************************************************************************)
(* The video stream from the device's display to the frame callback: the      *)
(* encode loop of rc-server (ScreenEncoder.java), the packets on the video     *)
(* socket, and the desktop's net thread with its decoder (client.c, decoder.c,  *)
(* demuxer.c).                                                                *)
(*                                                                         *)
(* When the display turns, the server throws the encoder away and builds a new   *)
(* one on the same socket; each encoder instance has parameter sets (CONFIG) of  *)
(* its own, and a packet can only be decoded with those of its instance.  The     *)
(* desktop caches CONFIG, merges it into the next packet, and replaces a failing   *)
(* hardware decoder by a software one in the middle of the stream.                 *)
(***************************************************************************)
EXTENDS Integers, Sequences, Geometry

CONSTANTS
  Sizes,       \* display sizes <<width, height>>; turning the device changes between them
  MaxSize,     \* options.maxSize: the limit of the encoded picture's longer side
  Widgets,     \* sizes of the widget the picture is shown in
  Screens,     \* display sizes of real devices, for the contract of computeVideoSize
  Limits,      \* the limits the chooser offers (SIZE_VALUES), for the same
  CheckEvery,  \* encodeLoop looks at the rotation every so many buffers (30)
  WireCap,     \* packets the socket holds before a write blocks
  MaxTurns     \* bound: how often the display turns

(* A display, a widget that is shown and a picture that can be encoded are not empty: *)
(* MediaCodec refuses an empty size, and render_widget_to_device returns at one.        *)
Positive == (Nat \ {0}) \X (Nat \ {0})
ASSUME SizesAssumption ==
  /\ MaxSize \in Nat
  /\ \A s \in Sizes : {s, computeVideoSize(s, MaxSize)} \subseteq Positive
ASSUME ShapesAssumption == Widgets \cup Screens \subseteq Positive /\ Limits \subseteq Nat
ASSUME BoundsAssumption ==
  CheckEvery \in Nat \ {0} /\ WireCap \in Nat \ {0} /\ MaxTurns \in Nat

VARIABLES
  display,   \* the size of display 0
  turns,     \* how often it has changed
  fresh,     \* the screen has changed since the encoder's last frame
  enc,       \* streamTo: "create", "loop", "write", "configure", "ended"
  conf,      \* deviceWidth x deviceHeight: the size configure() has read
  built,     \* the same when the encoder and its virtual display were built
  gen,       \* the number of encoder instances so far
  phase,     \* what the encoder yields next: "config", "key", "any" frame
  since,     \* sinceCheck
  buf,       \* the packet in hand of the encode loop
  wire,      \* the video socket
  net,       \* net_thread_fn: "read", "feed", "exit"
  pkt,       \* the packet net_thread_fn has read
  cfg,       \* cfg_buf: the instance whose CONFIG is cached, 0 for none
  needCfg,   \* need_cfg
  dec,       \* the decoder: hw (hw_ctx), failed (hw_failed), params (the instance
             \*   whose parameter sets it has parsed), refs (can decode a delta)
  desc,      \* decoder_desc: "GPU", "CPU", "none"
  shown      \* the last frame given to the frame callback: its encoder and its size

encVars == <<enc, conf, built, gen, phase, since, buf>>
netVars == <<net, pkt, cfg, needCfg, dec, desc, shown>>
vars == <<display, turns, fresh, encVars, wire, netVars>>

(* encWidth x encHeight for a display size: what configure() computes. *)
VideoSize(s) == computeVideoSize(s, MaxSize)
VideoSizes == {VideoSize(s) : s \in Sizes}
NoSize == <<0, 0>>

Gens == 0 .. MaxTurns + 1
Packet == [kind : {"config", "key", "delta"}, gen : Gens, size : VideoSizes]
NoPacket == [kind |-> "none"]
Decoder == [hw : BOOLEAN, failed : BOOLEAN, params : Gens, refs : BOOLEAN]
NoDecoder == [hw |-> FALSE, failed |-> FALSE, params |-> 0, refs |-> FALSE]

TypeOK ==
  /\ display \in Sizes /\ conf \in Sizes /\ built \in Sizes /\ fresh \in BOOLEAN /\ turns \in 0 .. MaxTurns
  /\ enc \in {"create", "loop", "write", "configure", "ended"}
  /\ gen \in Gens /\ phase \in {"config", "key", "any"}
  /\ since \in 0 .. CheckEvery - 1
  /\ buf \in Packet \cup {NoPacket} /\ pkt \in Packet \cup {NoPacket}
  /\ wire \in Seq(Packet) /\ Len(wire) <= WireCap
  /\ net \in {"read", "feed", "exit"}
  /\ cfg \in Gens /\ needCfg \in BOOLEAN
  /\ dec \in Decoder
  /\ desc \in {"GPU", "CPU", "none"}
  /\ shown \in [gen : Gens, size : VideoSizes \cup {NoSize}]

(* rc_decoder_is_hw. *)
IsHw == dec.hw /\ ~dec.failed

(* The session has started: the constructor of ScreenEncoder has configured, and  *)
(* rc_client_start built a decoder, with a hardware backend if one can be opened.  *)
Init ==
  /\ display \in Sizes /\ turns = 0 /\ fresh = FALSE
  /\ enc = "create" /\ conf = display /\ built = display /\ gen = 0 /\ phase = "config" /\ since = 0
  /\ buf = NoPacket /\ wire = <<>>
  /\ net = "read" /\ pkt = NoPacket /\ cfg = 0 /\ needCfg = TRUE
  /\ \E hw \in BOOLEAN :
       /\ dec = [NoDecoder EXCEPT !.hw = hw]
       /\ desc = IF hw THEN "GPU" ELSE "CPU"
  /\ shown = [gen |-> 0, size |-> NoSize]

-----------------------------------------------------------------------------
(* The device.                                                               *)

(* The display turns, and what it shows is drawn anew. *)
Turn(s) ==
  /\ turns < MaxTurns /\ s # display
  /\ display' = s /\ turns' = turns + 1 /\ fresh' = TRUE
  /\ UNCHANGED <<encVars, wire, netVars>>

(* Something on the screen changes: the virtual display composes another frame. *)
ScreenChanges ==
  /\ ~fresh /\ fresh' = TRUE
  /\ UNCHANGED <<display, turns, encVars, wire, netVars>>

encOnly == <<display, turns, netVars>>

(* streamTo: encoder, input surface and virtual display are built and started, in the   *)
(* size configured now, which they keep.                                                *)
EncCreate ==
  /\ enc = "create"
  /\ enc' = "loop" /\ built' = conf /\ gen' = gen + 1 /\ phase' = "config" /\ since' = 0
  /\ fresh' = FALSE
  /\ UNCHANGED <<encOnly, conf, buf, wire>>

(* Any exception, or the end of the encoder's stream, ends streamTo. *)
EncEnds ==
  /\ enc \in {"create", "loop", "write", "configure"}
  /\ enc' = "ended"
  /\ UNCHANGED <<encOnly, fresh, conf, built, gen, phase, since, buf, wire>>

(* Faulty variant of RotationChanged: the size is only read at the start. *)
RotationNeverSeen == FALSE

(* Faulty variant of RotationChanged: the display is compared with the encoded size. *)
RotationSinceEncoded == display # VideoSize(conf)

RotationChanged == display # conf

(* dequeueOutputBuffer has nothing to offer: a cheap moment to look. *)
EncIdle ==
  /\ enc = "loop" /\ RotationChanged /\ enc' = "configure"
  /\ UNCHANGED <<encOnly, fresh, conf, built, gen, phase, since, buf, wire>>

(* The encoder yields its parameter sets, then a key frame of the screen as it is, then   *)
(* any frames, but none while the screen is still: createFormat does not ask for the last  *)
(* one to be repeated.                                                                     *)
Yields(kind) ==
  /\ kind = "config" <=> phase = "config"
  /\ phase = "key" => kind = "key"
  /\ phase = "any" => fresh

(* An output buffer: every CheckEvery-th one is dropped if the display has turned. *)
EncOutput(kind) ==
  /\ enc = "loop" /\ Yields(kind)
  /\ fresh' = (fresh /\ kind = "config")
  /\ since' = (since + 1) % CheckEvery
  /\ IF since' = 0 /\ RotationChanged
       THEN enc' = "configure" /\ UNCHANGED <<phase, buf>>
       ELSE /\ enc' = "write"
            /\ phase' = IF kind = "config" THEN "key" ELSE "any"
            /\ buf' = [kind |-> kind, gen |-> gen, size |-> VideoSize(built)]
  /\ UNCHANGED <<encOnly, conf, built, gen, wire>>

(* writePacket, which blocks while the socket is full. *)
EncWrite ==
  /\ enc = "write" /\ Len(wire) < WireCap
  /\ enc' = "loop" /\ wire' = Append(wire, buf) /\ buf' = NoPacket
  /\ UNCHANGED <<encOnly, fresh, conf, built, gen, phase, since>>

(* Faulty variant of EncConfigure: the running encoder is kept. *)
EncConfigureOnly ==
  /\ enc = "configure" /\ enc' = "loop" /\ conf' = display
  /\ UNCHANGED <<encOnly, fresh, built, gen, phase, since, buf, wire>>

(* The encoder and its display are gone; the new size is read. *)
EncConfigure ==
  /\ enc = "configure" /\ enc' = "create" /\ conf' = display
  /\ UNCHANGED <<encOnly, fresh, built, gen, phase, since, buf, wire>>

EncNext ==
  \/ EncCreate \/ EncEnds \/ EncIdle \/ EncWrite \/ EncConfigure
  \/ \E kind \in {"config", "key", "delta"} : EncOutput(kind)

-----------------------------------------------------------------------------
(* The desktop.                                                              *)

netOnly == <<display, turns, fresh, encVars>>

(* Faulty variant of NetRead: only the first CONFIG is merged. *)
NetReadFirstConfig ==
  /\ net = "read" /\ wire # <<>> /\ wire' = Tail(wire)
  /\ IF Head(wire).kind = "config"
       THEN cfg' = Head(wire).gen /\ needCfg' = (cfg = 0) /\ UNCHANGED <<net, pkt>>
       ELSE net' = "feed" /\ pkt' = Head(wire) /\ UNCHANGED <<cfg, needCfg>>
  /\ UNCHANGED <<netOnly, dec, desc, shown>>

(* rc_demux_read_packet: a CONFIG packet is cached, any other goes to the decoder. *)
NetRead ==
  /\ net = "read" /\ wire # <<>> /\ wire' = Tail(wire)
  /\ IF Head(wire).kind = "config"
       THEN cfg' = Head(wire).gen /\ needCfg' = TRUE /\ UNCHANGED <<net, pkt>>
       ELSE net' = "feed" /\ pkt' = Head(wire) /\ UNCHANGED <<cfg, needCfg>>
  /\ UNCHANGED <<netOnly, dec, desc, shown>>

(* The socket is closed, by the server's end or by rc_client_stop. *)
NetEnds ==
  /\ net = "read" /\ net' = "exit"
  /\ UNCHANGED <<netOnly, wire, pkt, cfg, needCfg, dec, desc, shown>>

(* The parameter sets the decoder has parsed once it is given the packet in hand. *)
Params == IF needCfg THEN cfg ELSE dec.params

(* Can the packet be decoded with the parameter sets p, with or without references? *)
Decodable(p, refs) == p = pkt.gen /\ (pkt.kind = "key" \/ refs)

Frame == [gen |-> pkt.gen, size |-> pkt.size]

(* New parameter sets make libavcodec ask for a pixel format (pick_hw_format): the  *)
(* hardware format may not be offered, and is then given up for good.               *)
Latched == {dec.failed} \cup (IF IsHw /\ Params # dec.params THEN {TRUE} ELSE {})

(* rc_decoder_feed returns RC_OK and, with a decodable packet, calls the frame       *)
(* callback; what misses its references may still come out damaged.                  *)
FeedOk ==
  /\ net = "feed" /\ net' = "read" /\ pkt' = NoPacket
  /\ needCfg' = FALSE
  /\ \E failed \in Latched :
       dec' = [dec EXCEPT !.failed = failed, !.params = Params,
                          !.refs = Decodable(Params, @)]
  /\ \/ shown' = Frame /\ Params = pkt.gen
     \/ ~Decodable(Params, dec.refs) /\ UNCHANGED shown
  /\ UNCHANGED <<netOnly, wire, cfg, desc>>

(* A software decoder, or a hardware one that has just given its format up, fails on    *)
(* what it cannot decode; the loop goes on.                                             *)
FeedFails ==
  /\ net = "feed" /\ ~Decodable(Params, dec.refs)
  /\ net' = "read" /\ pkt' = NoPacket /\ needCfg' = FALSE
  /\ \E failed \in Latched :
       /\ ~dec.hw \/ failed
       /\ dec' = [dec EXCEPT !.failed = failed, !.params = Params, !.refs = FALSE]
  /\ UNCHANGED <<netOnly, wire, cfg, desc, shown>>

(* A hardware decoder fails, on whatever packet: it is replaced by a software one,   *)
(* which is given the cached CONFIG with the packet, and shows it if it is a key      *)
(* frame; without a new decoder the thread ends.                                      *)
FallBack ==
  /\ net = "feed" /\ IsHw
  /\ pkt' = NoPacket /\ needCfg' = FALSE
  /\ \/ /\ net' = "read" /\ desc' = "CPU"
        /\ dec' = IF cfg = 0 THEN NoDecoder
                  ELSE [NoDecoder EXCEPT !.params = cfg,
                                         !.refs = cfg = pkt.gen /\ pkt.kind = "key"]
        /\ shown' = IF dec'.refs THEN Frame ELSE shown
     \/ net' = "exit" /\ desc' = "none" /\ dec' = NoDecoder /\ UNCHANGED shown
  /\ UNCHANGED <<netOnly, wire, cfg>>

NetNext == NetRead \/ NetEnds \/ FeedOk \/ FeedFails \/ FallBack

Done == enc = "ended" /\ net = "exit" /\ UNCHANGED vars

Next == (\E s \in Sizes : Turn(s)) \/ ScreenChanges \/ EncNext \/ NetNext \/ Done

(* Both loops run.  dequeueOutputBuffer comes back at least every 100 ms; a fresh       *)
(* encoder yields its CONFIG and a first frame (the virtual display is composed at once).  *)
(* After that it owes nothing for a still screen; if the screen changes again and again,    *)
(* a key frame is among what it yields (I_FRAME_INTERVAL_S).                                *)
Fairness ==
  /\ WF_vars(EncCreate \/ EncIdle \/ EncWrite \/ EncConfigure)
  /\ WF_vars(EncOutput("config")) /\ SF_vars(EncOutput("key"))
  /\ WF_vars(NetRead \/ FeedOk \/ FeedFails \/ FallBack)

Spec == Init /\ [][Next]_vars /\ Fairness

-----------------------------------------------------------------------------
(* A packet is only ever decoded with the parameter sets of the encoder that made    *)
(* it: through rotations, the merging of CONFIG into the next packet, and a change    *)
(* of decoder between CONFIG and packet (net_thread_fn, streamTo).                    *)
FedWithOwnConfig == net = "feed" => Params = pkt.gen

(* The picture shown of the encoder in use has the size by which the control receiver   *)
(* scales a point on it: configure() changes that size only between two encoders.         *)
ShownIsScaledFor ==
  shown.gen = gen /\ enc \in {"loop", "write"} => shown.size = VideoSize(conf)

(* The invariant of the packets between encoder and decoder (net_thread_fn).           *)
PacketInv == TypeOK /\ FedWithOwnConfig

(* A point of a display of size s. *)
OnDisplay(p, s) == \A i \in 1 .. 2 : Leq(Whole(0), p[i]) /\ Leq(p[i], Whole(s[i] - 1))

(* What the user points at is what is touched.  For every place of every widget on the    *)
(* picture shown, and a display whose last turn the server has noticed: the touch lies on   *)
(* the display, also when the picture is still of the other orientation; and if it is a      *)
(* picture of the encoder in use, the display's point that is touched is the one that is      *)
(* drawn under the pointer, through the projection of the virtual display and the letterbox.  *)
(* (Before the turn is noticed the touch is scaled for the display as it was, and may lie     *)
(* beside the one that is there.)                                                            *)
TouchesArePrecise ==
  shown.gen > 0 /\ conf = display =>
    \A w \in Widgets : \A p \in (0 .. w[1]) \X (0 .. w[2]) :
      LET v == render_widget_to_device(w, shown.size, p)
          t == injectTouch(v, conf, VideoSize(conf))
      IN  OnVideo(shown.size, v) =>
            /\ OnDisplay(t, display)
            /\ shown.gen = gen /\ enc \in {"loop", "write"} =>
                 Shows(w, shown.size, built, p, t)

(* A touch that is injected while configure() runs mixes old and new sizes: it may lie     *)
(* beside both displays.  All that holds of it is that each coordinate is one that the old   *)
(* or the new display has (shown for the far corner of the picture, the largest coordinates   *)
(* there are).                                                                              *)
TornTouchesAreBounded ==
  enc = "configure" /\ shown.gen > 0 =>
    \A n \in Interleavings :
      LET corner == <<Whole(shown.size[1]), Whole(shown.size[2])>>
          t == TornTouch(corner, n, conf, VideoSize(conf), display, VideoSize(display))
      IN  \A i \in 1 .. 2 :
            Leq(Whole(0), t[i]) /\ Leq(t[i], Whole(Max({conf[i], display[i]}) - 1))

(* The pointer's way from the widget to the display (render_widget_to_device,             *)
(* ControlReceiver.injectTouch, ScreenEncoder.configure).                                  *)
PointerInv == ShownIsScaledFor /\ TouchesArePrecise /\ TornTouchesAreBounded

(* computeVideoSize on real screens, with the limits a user can choose. *)
RealSizesAreReduced == SizeContract(Screens, Limits)

(* What is encoded is the display, reduced as asked, and all of it is drawn              *)
(* (computeVideoSize, on_render).                                                          *)
PictureInv ==
  /\ RealSizesAreReduced /\ SizeContract({conf}, {MaxSize})
  /\ shown.gen > 0 => \A w \in Widgets : LetterboxFits(w, shown.size)

(* An encoder is rebuilt, which costs the picture a new CONFIG and a key frame, only for a  *)
(* turn of the display, and never twice for the same one, whether it is noticed on a busy     *)
(* screen or on a still one, and also when the display turns on between rotationChanged and    *)
(* configure() or while the encoder is being built (streamTo, encodeLoop).                     *)
RebuiltForTurns == gen <= turns + 1

(* A display that has come to rest is shown in its size, unless the stream ends:       *)
(* the rotation is noticed on a busy screen and on a still one, even when it turns      *)
(* while the encoder is being rebuilt.                                                  *)
RestingDisplayIsShown ==
  \A s \in Sizes :
    <>[](display = s) => <>(enc = "ended" \/ net = "exit" \/ shown.size = VideoSize(s))

(* A decoder that lost its references recovers with a key frame (client.c: "hình         *)
(* phục hồi từ keyframe kế"), if the screen changes again and again: a still one yields    *)
(* no frame to recover with.                                                               *)
PictureRecovers ==
  []<>fresh => (~dec.refs ~> (dec.refs \/ enc = "ended" \/ net = "exit"))

(* The picture catches up in the end, with a display that has turned, and after a decoder   *)
(* that has failed when the screen goes on changing (encodeLoop, net_thread_fn).             *)
PictureCatchesUp == RestingDisplayIsShown /\ PictureRecovers

=============================================================================
