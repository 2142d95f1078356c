------------------------- MODULE VideoPipelineProofs -------------------------
(***************************************************************************)
(* Proofs about VideoPipeline, for every set of display sizes, every size     *)
(* limit and every number of turns: a packet is decoded only with the          *)
(* parameter sets of the encoder that made it, and the picture shown moves      *)
(* forward from encoder to encoder, in the size the pointer is scaled by. And   *)
(* about Geometry, for every screen, limit, widget and point: the picture is     *)
(* whole, and the pointer meets what is drawn under it.                          *)
(***************************************************************************)
EXTENDS VideoPipeline, TLAPS

(* Every encoder but the first was paid for by a turn of the display. *)
TurnsPay ==
  /\ gen <= turns + 1
  /\ enc \in {"create", "configure"} => gen <= turns
  /\ enc = "create" /\ display # conf => gen < turns
  /\ enc \in {"loop", "write"} /\ display # conf => gen <= turns

(* The encoder in use has yielded its parameter sets before anything else. *)
BufferInHand ==
  /\ enc \in {"loop", "write"} => gen >= 1 /\ built = conf
  /\ enc = "write" =>
       /\ buf \in Packet /\ buf.gen = gen /\ buf.size = VideoSize(built)
       /\ phase # "config"

(* The encoder of the last packet written, or of the cached CONFIG. *)
LastGen == IF wire = <<>> THEN cfg ELSE wire[Len(wire)].gen
(* Packets come in the order of their encoders, each after its CONFIG. *)
GenBefore(i) == IF i = 1 THEN cfg ELSE wire[i - 1].gen
StreamOrder ==
  /\ \A i \in DOMAIN wire :
       /\ GenBefore(i) <= wire[i].gen /\ wire[i].gen >= 1
       /\ wire[i].kind # "config" => wire[i].gen = GenBefore(i)
  /\ LastGen <= gen
  /\ enc = "loop" /\ phase # "config" => LastGen = gen
  /\ enc = "write" /\ buf.kind # "config" => LastGen = gen

(* The decoder has the cached CONFIG, or gets it with the next packet. *)
CachedConfig ==
  /\ net # "exit" /\ ~needCfg => dec.params = cfg
  /\ net = "feed" => pkt \in Packet /\ pkt.gen = cfg /\ cfg >= 1

(* One encoder, one size: of what is shown, in hand and on the way. *)
Pic(p) == [gen |-> p.gen, size |-> p.size]
Pictures ==
  {Pic(wire[i]) : i \in DOMAIN wire} \cup (IF net = "feed" THEN {Pic(pkt)} ELSE {})
    \cup (IF shown.gen = 0 THEN {} ELSE {Pic(shown)})
OneSize ==
  /\ \A p, q \in Pictures : p.gen = q.gen => p.size = q.size
  /\ \A p \in Pictures : p.gen \in Nat /\ p.gen <= gen /\ p.gen >= 1
  /\ enc \in {"loop", "write"} => \A p \in Pictures : p.gen = gen => p.size = VideoSize(conf)
  /\ shown.gen <= cfg

IInv == TypeOK /\ TurnsPay /\ BufferInHand /\ StreamOrder /\ CachedConfig /\ OneSize

-----------------------------------------------------------------------------
TypeEnc ==
  /\ display \in Sizes /\ conf \in Sizes /\ built \in Sizes
  /\ enc \in {"create", "loop", "write", "configure", "ended"}
  /\ phase \in {"config", "key", "any"}
TypeCounters == turns \in 0 .. MaxTurns /\ gen \in Gens /\ since \in 0 .. CheckEvery - 1
TypePackets ==
  /\ buf \in Packet \cup {NoPacket} /\ pkt \in Packet \cup {NoPacket}
  /\ wire \in Seq(Packet) /\ cfg \in Gens
  /\ shown \in [gen : Gens, size : VideoSizes \cup {NoSize}]
TypeNet ==
  /\ net \in {"read", "feed", "exit"} /\ desc \in {"GPU", "CPU", "none"}
TypeRoom == Len(wire) <= WireCap
TypeFresh == fresh \in BOOLEAN
TypeDec == needCfg \in BOOLEAN /\ dec \in Decoder

(* The type invariant in parts, each with its own lemma. *)
LEMMA TypeParts ==
  TypeOK <=> TypeEnc /\ TypeCounters /\ TypePackets /\ TypeNet /\ TypeRoom /\ TypeDec
             /\ TypeFresh
  BY Zenon
  DEF TypeOK, TypeEnc, TypeCounters, TypePackets, TypeNet, TypeRoom, TypeDec, TypeFresh

(* The fields of a packet. *)
LEMMA PacketFields ==
  ASSUME NEW p \in Packet
  PROVE  /\ p.gen \in Gens /\ p.size \in VideoSizes /\ p.kind \in {"config", "key", "delta"}
         /\ p # NoPacket
  BY DEF Packet, NoPacket

(* Encoders are numbered. *)
LEMMA GensAreNumbers == Gens \subseteq Nat /\ 0 \in Gens
  BY BoundsAssumption DEF Gens

(* Every step keeps the types of the encode loop. *)
LEMMA EncTypeStep == IInv /\ [Next]_vars => TypeEnc'
  <1> SUFFICES ASSUME IInv, [Next]_vars PROVE TypeEnc'
    OBVIOUS
  <1> USE DEF encVars, netVars, encOnly, netOnly
  <1>t. TypeEnc
    BY TypeParts DEF IInv
  <1>1. ASSUME NEW s \in Sizes, Turn(s) PROVE TypeEnc'
    BY <1>1, <1>t DEF Turn, TypeEnc
  <1>2. CASE EncCreate
    BY <1>2, <1>t DEF EncCreate, TypeEnc
  <1>3. CASE EncEnds
    BY <1>3, <1>t DEF EncEnds, TypeEnc
  <1>4. CASE EncIdle
    BY <1>4, <1>t DEF EncIdle, TypeEnc
  <1>5. CASE EncWrite
    BY <1>5, <1>t DEF EncWrite, TypeEnc
  <1>6. CASE EncConfigure
    BY <1>6, <1>t DEF EncConfigure, TypeEnc
  <1>7. ASSUME NEW kind \in {"config", "key", "delta"}, EncOutput(kind) PROVE TypeEnc'
    BY <1>7, <1>t DEF EncOutput, TypeEnc
  <1>8. CASE UNCHANGED <<display, conf, built, enc, phase>>
    BY <1>8, <1>t DEF TypeEnc
  <1>9. QED
    BY ONLY [Next]_vars, <1>1, <1>2, <1>3, <1>4, <1>5, <1>6, <1>7, <1>8, Zenon
    DEF Next, ScreenChanges, EncNext, NetNext, Done, NetRead, NetEnds, FeedOk, FeedFails, FallBack,
        vars, encVars, netVars, encOnly, netOnly

(* Every step keeps the counters within their bounds. *)
LEMMA CountersStep == IInv /\ [Next]_vars => TypeCounters'
  <1> SUFFICES ASSUME IInv, [Next]_vars PROVE TypeCounters'
    OBVIOUS
  <1> USE DEF encVars, netVars, encOnly, netOnly
  <1>t. TypeCounters
    BY TypeParts DEF IInv
  <1>1. ASSUME NEW s \in Sizes, Turn(s) PROVE TypeCounters'
    BY <1>1, <1>t, BoundsAssumption DEF Turn, TypeCounters, Gens
  <1>2. CASE EncCreate
    <2>1. gen + 1 <= turns + 1 /\ turns <= MaxTurns /\ gen \in Nat /\ turns \in Nat
      BY <1>2, <1>t, BoundsAssumption DEF IInv, TurnsPay, EncCreate, TypeCounters, Gens
    <2>2. QED
      BY <1>2, <1>t, <2>1, BoundsAssumption DEF EncCreate, TypeCounters, Gens
  <1>3. ASSUME NEW kind \in {"config", "key", "delta"}, EncOutput(kind) PROVE TypeCounters'
    <2>1. since + 1 \in Nat /\ CheckEvery \in Nat \ {0}
      BY <1>t, BoundsAssumption DEF TypeCounters
    <2>2. (since + 1) % CheckEvery \in 0 .. CheckEvery - 1
      BY ONLY <2>1
    <2>3. turns' = turns /\ gen' = gen /\ since' = (since + 1) % CheckEvery
      BY <1>3 DEF EncOutput
    <2>4. QED
      BY ONLY <1>t, <2>2, <2>3 DEF TypeCounters
  <1>4. CASE UNCHANGED <<turns, gen, since>>
    BY <1>4, <1>t, BoundsAssumption DEF TypeCounters, Gens
  <1>5. QED
    BY ONLY [Next]_vars, <1>1, <1>2, <1>3, <1>4, Zenon
    DEF Next, ScreenChanges, EncNext, NetNext, Done, EncEnds, EncIdle, EncWrite, EncConfigure, NetRead,
        NetEnds, FeedOk, FeedFails, FallBack, vars, encVars, netVars, encOnly, netOnly

(* Every step keeps packets packets. *)
LEMMA PacketsStep == IInv /\ [Next]_vars => TypePackets'
  <1> SUFFICES ASSUME IInv, [Next]_vars PROVE TypePackets'
    OBVIOUS
  <1> USE DEF encVars, netVars, encOnly, netOnly
  <1>t. TypePackets
    BY TypeParts DEF IInv
  <1>1. CASE EncWrite
    <2>1. buf \in Packet
      BY <1>1 DEF IInv, BufferInHand, EncWrite
    <2>2. Append(wire, buf) \in Seq(Packet)
      BY <1>t, <2>1 DEF TypePackets
    <2>3. QED
      BY <1>1, <1>t, <2>2 DEF EncWrite, TypePackets
  <1>2. ASSUME NEW kind \in {"config", "key", "delta"}, EncOutput(kind) PROVE TypePackets'
    <2>1. [kind |-> kind, gen |-> gen, size |-> VideoSize(built)] \in Packet
      BY <1>2, TypeParts DEF IInv, TypeEnc, TypeCounters, Packet, VideoSizes
    <2>2. buf' = buf \/ buf' = [kind |-> kind, gen |-> gen, size |-> VideoSize(built)]
      BY <1>2, Zenon DEF EncOutput
    <2>3. UNCHANGED <<pkt, wire, cfg, shown>>
      BY <1>2 DEF EncOutput
    <2>4. QED
      BY ONLY <1>t, <2>1, <2>2, <2>3 DEF TypePackets
  <1>3. CASE NetRead
    <2>1. Head(wire) \in Packet /\ Tail(wire) \in Seq(Packet)
      BY <1>3, <1>t DEF TypePackets, NetRead
    <2>2. Head(wire).gen \in Gens
      BY <2>1, PacketFields
    <2>3. (cfg' = cfg \/ cfg' = Head(wire).gen) /\ (pkt' = pkt \/ pkt' = Head(wire))
      BY <1>3, Zenon DEF NetRead
    <2>4. wire' = Tail(wire) /\ buf' = buf /\ shown' = shown
      BY <1>3 DEF NetRead
    <2>5. QED
      BY ONLY <1>t, <2>1, <2>2, <2>3, <2>4 DEF TypePackets
  <1>4. CASE FeedOk
    <2>1. Frame \in [gen : Gens, size : VideoSizes \cup {NoSize}]
      BY <1>4, PacketFields DEF IInv, CachedConfig, FeedOk, Frame
    <2>2. (shown' = shown \/ shown' = Frame) /\ pkt' = NoPacket /\ UNCHANGED <<buf, wire, cfg>>
      BY <1>4 DEF FeedOk
    <2>3. QED
      BY ONLY <1>t, <2>1, <2>2 DEF TypePackets
  <1>5. CASE FeedFails
    BY <1>5, <1>t DEF FeedFails, TypePackets
  <1>6. CASE FallBack
    <2>1. Frame \in [gen : Gens, size : VideoSizes \cup {NoSize}]
      BY <1>6, PacketFields DEF IInv, CachedConfig, FallBack, Frame
    <2>2. (shown' = shown \/ shown' = Frame) /\ pkt' = NoPacket /\ UNCHANGED <<buf, wire, cfg>>
      BY <1>6, Zenon DEF FallBack
    <2>3. QED
      BY ONLY <1>t, <2>1, <2>2 DEF TypePackets
  <1>7. CASE UNCHANGED <<buf, pkt, wire, cfg, shown>>
    BY <1>7, <1>t DEF TypePackets
  <1>8. QED
    BY ONLY [Next]_vars, <1>1, <1>2, <1>3, <1>4, <1>5, <1>6, <1>7, Zenon
    DEF Next, ScreenChanges, EncNext, NetNext, Done, Turn, EncCreate, EncEnds, EncIdle, EncConfigure,
        NetEnds, vars, encVars, netVars, encOnly, netOnly

(* Every step keeps the types of the net thread. *)
LEMMA NetTypeStep == IInv /\ [Next]_vars => TypeNet'
  <1> SUFFICES ASSUME IInv, [Next]_vars PROVE TypeNet'
    OBVIOUS
  <1> USE DEF encVars, netVars, encOnly, netOnly
  <1>t. TypeNet
    BY TypeParts DEF IInv
  <1>1. CASE NetRead
    BY <1>1, <1>t DEF NetRead, TypeNet
  <1>2. CASE NetEnds
    BY <1>2, <1>t DEF NetEnds, TypeNet
  <1>3. CASE FeedOk
    BY <1>3, <1>t DEF FeedOk, TypeNet
  <1>4. CASE FeedFails
    BY <1>4, <1>t DEF FeedFails, TypeNet
  <1>5. CASE FallBack
    BY <1>5, <1>t DEF FallBack, TypeNet
  <1>6. CASE UNCHANGED <<net, desc>>
    BY <1>6, <1>t DEF TypeNet
  <1>7. QED
    BY ONLY [Next]_vars, <1>1, <1>2, <1>3, <1>4, <1>5, <1>6, Zenon
    DEF Next, ScreenChanges, EncNext, NetNext, Done, Turn, EncCreate, EncEnds, EncIdle, EncWrite,
        EncConfigure, EncOutput, vars, encVars, netVars, encOnly, netOnly

(* Every step keeps the socket within its capacity. *)
LEMMA RoomStep == IInv /\ [Next]_vars => TypeRoom'
  <1> SUFFICES ASSUME IInv, [Next]_vars PROVE TypeRoom'
    OBVIOUS
  <1> USE DEF encVars, netVars, encOnly, netOnly
  <1>t. TypeRoom /\ wire \in Seq(Packet) /\ Len(wire) \in Nat
    BY TypeParts DEF IInv, TypePackets
  <1>1. CASE EncWrite
    <2>1. Len(Append(wire, buf)) = Len(wire) + 1
      BY <1>t
    <2>2. QED
      BY <1>1, <1>t, <2>1, BoundsAssumption DEF EncWrite, TypeRoom
  <1>2. CASE NetRead
    <2>1. Len(Tail(wire)) = Len(wire) - 1
      BY <1>2, <1>t DEF NetRead
    <2>2. QED
      BY <1>2, <1>t, <2>1, BoundsAssumption DEF NetRead, TypeRoom
  <1>3. CASE UNCHANGED <<wire>>
    BY <1>3, <1>t, BoundsAssumption DEF TypeRoom
  <1>4. QED
    BY ONLY [Next]_vars, <1>1, <1>2, <1>3, Zenon
    DEF Next, ScreenChanges, EncNext, NetNext, Done, Turn, EncCreate, EncEnds, EncIdle, EncConfigure,
        EncOutput, NetEnds, FeedOk, FeedFails, FallBack, vars, encVars, netVars, encOnly,
        netOnly

(* Every step keeps the type of the decoder. *)
LEMMA DecStep == IInv /\ [Next]_vars => TypeDec'
  <1> SUFFICES ASSUME IInv, [Next]_vars PROVE TypeDec'
    OBVIOUS
  <1> USE DEF encVars, netVars, encOnly, netOnly
  <1>t. TypeDec /\ cfg \in Gens
    BY TypeParts DEF IInv, TypePackets
  <1>1. CASE NetRead
    <2>1. needCfg' = TRUE \/ needCfg' = needCfg
      BY <1>1, Zenon DEF NetRead
    <2>2. dec' = dec
      BY <1>1 DEF NetRead
    <2>3. QED
      BY <1>t, <2>1, <2>2, Zenon DEF TypeDec
  <1>2. CASE FeedOk
    <2>0. needCfg' = FALSE
      BY <1>2 DEF FeedOk
    <2>1. PICK failed \in Latched :
            dec' = [dec EXCEPT !.failed = failed, !.params = Params,
                               !.refs = Decodable(Params, @)]
      BY <1>2 DEF FeedOk
    <2>2. failed \in BOOLEAN
      BY <2>1, <1>t DEF Latched, TypeDec, Decoder
    <2>3. Params \in Gens
      BY <1>t DEF Params, TypeDec, Decoder
    <2>4. Decodable(Params, dec.refs) \in BOOLEAN
      BY Zenon DEF Decodable
    <2>5. dec' \in Decoder
      BY <1>t, <2>1, <2>2, <2>3, <2>4 DEF TypeDec, Decoder
    <2>6. QED
      BY <2>0, <2>5 DEF TypeDec
  <1>3. CASE FeedFails
    <2>0. needCfg' = FALSE
      BY <1>3 DEF FeedFails
    <2>1. PICK failed \in Latched :
            dec' = [dec EXCEPT !.failed = failed, !.params = Params, !.refs = FALSE]
      BY <1>3 DEF FeedFails
    <2>2. failed \in BOOLEAN
      BY <2>1, <1>t DEF Latched, TypeDec, Decoder
    <2>3. Params \in Gens
      BY <1>t DEF Params, TypeDec, Decoder
    <2>4. dec' \in Decoder
      BY <1>t, <2>1, <2>2, <2>3 DEF TypeDec, Decoder
    <2>5. QED
      BY <2>0, <2>4 DEF TypeDec
  <1>4. CASE FallBack
    <2>0. needCfg' = FALSE
      BY <1>4 DEF FallBack
    <2>1. (cfg = pkt.gen /\ pkt.kind = "key") \in BOOLEAN
      BY Zenon
    <2>2. NoDecoder \in Decoder
      BY GensAreNumbers DEF NoDecoder, Decoder
    <2>3. [NoDecoder EXCEPT !.params = cfg, !.refs = cfg = pkt.gen /\ pkt.kind = "key"]
            \in Decoder
      BY <1>t, <2>1, <2>2 DEF Decoder
    <2>4. dec' \in Decoder
      BY <1>4, <2>2, <2>3, Zenon DEF FallBack
    <2>5. QED
      BY <2>0, <2>4 DEF TypeDec
  <1>5. CASE UNCHANGED <<needCfg, dec>>
    BY <1>5, <1>t DEF TypeDec
  <1>6. QED
    BY ONLY [Next]_vars, <1>1, <1>2, <1>3, <1>4, <1>5, Zenon
    DEF Next, ScreenChanges, EncNext, NetNext, Done, Turn, EncCreate, EncEnds, EncIdle, EncWrite,
        EncConfigure, EncOutput, NetEnds, vars, encVars, netVars, encOnly, netOnly

(* A screen has changed or not. *)
LEMMA FreshStep == IInv /\ [Next]_vars => TypeFresh'
  <1> SUFFICES ASSUME IInv, [Next]_vars PROVE TypeFresh'
    OBVIOUS
  <1>t. TypeFresh
    BY TypeParts DEF IInv
  <1>1. ASSUME NEW kind \in {"config", "key", "delta"}, EncOutput(kind) PROVE TypeFresh'
    BY <1>1, Zenon DEF EncOutput, TypeFresh
  <1>2. CASE fresh' \in {fresh, TRUE, FALSE}
    BY <1>2, <1>t, Zenon DEF TypeFresh
  <1>3. QED
    BY ONLY [Next]_vars, <1>1, <1>2, Zenon
    DEF Next, ScreenChanges, EncNext, NetNext, Done, Turn, EncCreate, EncEnds, EncIdle, EncWrite,
        EncConfigure, NetRead, NetEnds, FeedOk, FeedFails, FallBack, vars, encVars, netVars,
        encOnly, netOnly

(* Every step preserves the type invariant. *)
LEMMA TypeStep == IInv /\ [Next]_vars => TypeOK'
  BY EncTypeStep, CountersStep, PacketsStep, NetTypeStep, RoomStep, DecStep, FreshStep,
     TypeParts, PTL

(* Every encoder but the first is paid for by a turn. *)
LEMMA TurnsStep == IInv /\ [Next]_vars => TurnsPay'
  <1> SUFFICES ASSUME IInv, [Next]_vars PROVE TurnsPay'
    OBVIOUS
  <1> USE DEF encVars, netVars, encOnly, netOnly
  <1>t. TurnsPay /\ gen \in Nat /\ turns \in Nat
    <2>1. TurnsPay /\ turns \in 0 .. MaxTurns /\ gen \in Gens
      BY TypeParts, Zenon DEF IInv, TypeCounters
    <2>2. QED
      BY <2>1, GensAreNumbers, BoundsAssumption
  <1>1. ASSUME NEW s \in Sizes, Turn(s) PROVE TurnsPay'
    BY <1>1, <1>t DEF Turn, TurnsPay
  <1>2. CASE EncCreate
    BY <1>2, <1>t DEF EncCreate, TurnsPay
  <1>3. CASE EncEnds
    BY <1>3, <1>t DEF EncEnds, TurnsPay
  <1>4. CASE EncIdle
    BY <1>4, <1>t DEF EncIdle, TurnsPay, RotationChanged
  <1>5. CASE EncWrite
    BY <1>5, <1>t DEF EncWrite, TurnsPay
  <1>6. CASE EncConfigure
    BY <1>6, <1>t DEF EncConfigure, TurnsPay
  <1>7. ASSUME NEW kind \in {"config", "key", "delta"}, EncOutput(kind) PROVE TurnsPay'
    <2>1. UNCHANGED <<display, turns, gen, conf>> /\ enc = "loop"
          /\ (enc' = "write" \/ (enc' = "configure" /\ display # conf))
      BY <1>7, Zenon DEF EncOutput, RotationChanged
    <2>2. QED
      BY <1>t, <2>1 DEF TurnsPay
  <1>8. CASE UNCHANGED <<display, turns, gen, conf, enc>>
    BY <1>8, <1>t DEF TurnsPay
  <1>9. QED
    BY ONLY [Next]_vars, <1>1, <1>2, <1>3, <1>4, <1>5, <1>6, <1>7, <1>8, Zenon
    DEF Next, ScreenChanges, EncNext, NetNext, Done, NetRead, NetEnds, FeedOk, FeedFails, FallBack,
        vars, encVars, netVars, encOnly, netOnly

(* Every step keeps the encoder's packet that of the encoder in use. *)
LEMMA BufferStep == IInv /\ [Next]_vars => BufferInHand'
  <1> SUFFICES ASSUME IInv, [Next]_vars PROVE BufferInHand'
    OBVIOUS
  <1> USE DEF encVars, netVars, encOnly, netOnly
  <1>t. BufferInHand /\ gen \in Nat
    BY TypeParts, GensAreNumbers DEF IInv, TypeCounters
  <1>1. CASE EncCreate
    BY <1>1, <1>t DEF EncCreate, BufferInHand
  <1>2. CASE EncEnds
    BY <1>2, <1>t DEF EncEnds, BufferInHand
  <1>3. CASE EncIdle
    BY <1>3, <1>t DEF EncIdle, BufferInHand
  <1>4. CASE EncWrite
    BY <1>4, <1>t DEF EncWrite, BufferInHand
  <1>5. CASE EncConfigure
    BY <1>5, <1>t DEF EncConfigure, BufferInHand
  <1>6. ASSUME NEW kind \in {"config", "key", "delta"}, EncOutput(kind) PROVE BufferInHand'
    <2>1. [kind |-> kind, gen |-> gen, size |-> VideoSize(built)] \in Packet
      BY <1>6, TypeParts DEF IInv, TypeEnc, TypeCounters, Packet, VideoSizes
    <2>2. gen >= 1 /\ built = conf /\ UNCHANGED <<gen, conf, built>>
      BY <1>6, <1>t DEF EncOutput, BufferInHand
    <2>3. \/ enc' = "configure"
          \/ /\ enc' = "write" /\ phase' \in {"key", "any"}
             /\ buf' = [kind |-> kind, gen |-> gen, size |-> VideoSize(built)]
      BY <1>6 DEF EncOutput
    <2>4. VideoSize(built)' = VideoSize(built)
      BY <2>2, Zenon DEF VideoSize
    <2>5. QED
      BY ONLY <2>1, <2>2, <2>3, <2>4 DEF BufferInHand
  <1>7. CASE UNCHANGED <<gen, conf, built, enc, buf, phase>>
    BY <1>7, <1>t DEF BufferInHand
  <1>8. QED
    BY ONLY [Next]_vars, <1>1, <1>2, <1>3, <1>4, <1>5, <1>6, <1>7, Zenon
    DEF Next, ScreenChanges, EncNext, NetNext, Done, Turn, NetRead, NetEnds, FeedOk, FeedFails,
        FallBack, vars, encVars, netVars, encOnly, netOnly

(* Every step keeps the cached CONFIG that of the packet in hand. *)
LEMMA ConfigStep == IInv /\ [Next]_vars => CachedConfig'
  <1> SUFFICES ASSUME IInv, [Next]_vars PROVE CachedConfig'
    OBVIOUS
  <1> USE DEF encVars, netVars, encOnly, netOnly
  <1>t. CachedConfig /\ needCfg \in BOOLEAN /\ dec \in Decoder
    BY TypeParts DEF IInv, TypeDec
  <1>1. CASE NetRead
    <2>1. wire \in Seq(Packet) /\ wire # <<>> /\ Head(wire) \in Packet /\ Head(wire) = wire[1]
          /\ 1 \in DOMAIN wire
      BY <1>1, TypeParts DEF IInv, TypePackets, NetRead
    <2>2. Head(wire).kind # "config" => Head(wire).gen = cfg /\ cfg >= 1
      BY <2>1 DEF IInv, StreamOrder, GenBefore
    <2>3. CASE Head(wire).kind = "config"
      <3>1. needCfg' = TRUE /\ net' = "read"
        BY <1>1, <2>3 DEF NetRead
      <3>2. QED
        BY <3>1 DEF CachedConfig
    <2>4. CASE Head(wire).kind # "config"
      <3>1. net' = "feed" /\ pkt' = Head(wire) /\ needCfg' = needCfg /\ cfg' = cfg
            /\ dec' = dec /\ net = "read"
        BY <1>1, <2>4 DEF NetRead
      <3>2. QED
        BY ONLY <3>1, <2>1, <2>2, <2>4, <1>t DEF CachedConfig
    <2>5. QED
      BY <2>3, <2>4
  <1>2. CASE NetEnds
    BY <1>2, <1>t DEF NetEnds, CachedConfig
  <1>3. CASE FeedOk
    <2>1. PICK failed \in Latched :
            dec' = [dec EXCEPT !.failed = failed, !.params = Params,
                               !.refs = Decodable(Params, @)]
      BY <1>3 DEF FeedOk
    <2>2. dec'.params = Params
      BY ONLY <2>1, <1>t DEF Decoder
    <2>3. net = "feed" /\ net' = "read" /\ cfg' = cfg
      BY <1>3 DEF FeedOk
    <2>4. Params = cfg
      BY <1>t, <2>3 DEF Params, CachedConfig
    <2>5. QED
      BY ONLY <2>2, <2>3, <2>4 DEF CachedConfig
  <1>4. CASE FeedFails
    <2>1. PICK failed \in Latched :
            dec' = [dec EXCEPT !.failed = failed, !.params = Params, !.refs = FALSE]
      BY <1>4 DEF FeedFails
    <2>2. dec'.params = Params
      BY ONLY <2>1, <1>t DEF Decoder
    <2>3. net = "feed" /\ net' = "read" /\ cfg' = cfg
      BY <1>4 DEF FeedFails
    <2>4. Params = cfg
      BY <1>t, <2>3 DEF Params, CachedConfig
    <2>5. QED
      BY ONLY <2>2, <2>3, <2>4 DEF CachedConfig
  <1>5. CASE FallBack
    <2>1. CASE net' = "exit"
      BY <2>1 DEF CachedConfig
    <2>2. CASE net' = "read"
      <3>1. dec' = IF cfg = 0 THEN NoDecoder
                   ELSE [NoDecoder EXCEPT !.params = cfg,
                                          !.refs = cfg = pkt.gen /\ pkt.kind = "key"]
        BY <1>5, <2>2 DEF FallBack
      <3>2. cfg = 0 => dec' = NoDecoder
        BY <3>1, Zenon
      <3>3. dec'.params = cfg
        <4>1. CASE cfg = 0
          BY ONLY <3>2, <4>1 DEF NoDecoder
        <4>2. CASE cfg # 0
          <5>1. dec' = [NoDecoder EXCEPT !.params = cfg,
                                         !.refs = cfg = pkt.gen /\ pkt.kind = "key"]
            BY <3>1, <4>2, Zenon
          <5>2. QED
            BY ONLY <5>1 DEF NoDecoder
        <4>3. QED
          BY <4>1, <4>2
      <3>4. cfg' = cfg
        BY <1>5 DEF FallBack
      <3>5. QED
        BY ONLY <2>2, <3>3, <3>4 DEF CachedConfig
    <2>3. QED
      BY <1>5, <2>1, <2>2 DEF FallBack
  <1>6. CASE UNCHANGED <<net, needCfg, dec, cfg, pkt>>
    BY <1>6, <1>t DEF CachedConfig
  <1>7. QED
    BY ONLY [Next]_vars, <1>1, <1>2, <1>3, <1>4, <1>5, <1>6, Zenon
    DEF Next, ScreenChanges, EncNext, NetNext, Done, Turn, EncCreate, EncEnds, EncIdle, EncWrite,
        EncConfigure, EncOutput, vars, encVars, netVars, encOnly, netOnly

(* Every step keeps the packets in the order of their encoders. *)
LEMMA OrderStep == IInv /\ [Next]_vars => StreamOrder'
  <1> SUFFICES ASSUME IInv, [Next]_vars PROVE StreamOrder'
    OBVIOUS
  <1> USE DEF encVars, netVars, encOnly, netOnly
  <1>t. /\ wire \in Seq(Packet) /\ Len(wire) \in Nat /\ gen \in Nat /\ cfg \in Nat
        /\ \A i \in DOMAIN wire : wire[i] \in Packet /\ wire[i].gen \in Nat
    <2>1. wire \in Seq(Packet) /\ gen \in Gens /\ cfg \in Gens
      BY TypeParts DEF IInv, TypeCounters, TypePackets
    <2>2. Len(wire) \in Nat /\ \A i \in DOMAIN wire : wire[i] \in Packet
      BY <2>1
    <2>3. \A i \in DOMAIN wire : wire[i].gen \in Gens
      BY <2>2, PacketFields
    <2>4. QED
      BY <2>1, <2>2, <2>3, GensAreNumbers
  <1>n. Len(wire) \in Nat
    BY <1>t
  <1>s. StreamOrder
    BY DEF IInv
  <1>1. CASE EncCreate
    <2>1. UNCHANGED <<wire, cfg>> /\ gen' = gen + 1 /\ enc' = "loop" /\ phase' = "config"
      BY <1>1 DEF EncCreate
    <2>2. LastGen \in Nat
      BY <1>t DEF LastGen
    <2>3. LastGen' = LastGen /\ \A i \in DOMAIN wire : GenBefore(i)' = GenBefore(i)
      BY <2>1 DEF LastGen, GenBefore
    <2>4. QED
      BY ONLY <1>t, <1>s, <2>1, <2>2, <2>3 DEF StreamOrder
  <1>2. CASE EncEnds
    BY <1>2, <1>t, <1>s DEF EncEnds, StreamOrder, LastGen, GenBefore
  <1>3. CASE EncIdle
    BY <1>3, <1>t, <1>s DEF EncIdle, StreamOrder, LastGen, GenBefore
  <1>4. CASE EncWrite
    <2>1. buf \in Packet /\ buf.gen = gen /\ gen >= 1
      BY <1>4 DEF IInv, BufferInHand, EncWrite
    <2>2. wire' = Append(wire, buf) /\ UNCHANGED <<gen, cfg, phase>> /\ enc = "write" /\ enc' = "loop"
      BY <1>4 DEF EncWrite
    <2>3. /\ DOMAIN wire = 1 .. Len(wire) /\ DOMAIN wire' = 1 .. Len(wire) + 1
          /\ Len(wire') = Len(wire) + 1 /\ wire'[Len(wire) + 1] = buf /\ wire' # <<>>
          /\ \A i \in 1 .. Len(wire) : wire'[i] = wire[i]
      BY <1>t, <2>1, <2>2
    <2>4. LastGen' = gen
      BY <2>1, <2>2, <2>3 DEF LastGen
    <2>5. \A i \in 1 .. Len(wire) : GenBefore(i)' = GenBefore(i)
      BY <1>t, <2>2, <2>3 DEF GenBefore
    <2>6. \A i \in Nat : i = Len(wire) + 1 => GenBefore(i)' = LastGen
      <3>1. CASE wire = <<>>
        <4>1. Len(wire) = 0
          BY <3>1
        <4>2. QED
          BY <3>1, <4>1, <2>2 DEF GenBefore, LastGen
      <3>2. CASE wire # <<>>
        <4>1. Len(wire) \in 1 .. Len(wire)
          BY <3>2, <1>t
        <4>2. wire'[Len(wire)] = wire[Len(wire)]
          BY <4>1, <2>3
        <4>3. ASSUME NEW i \in Nat, i = Len(wire) + 1 PROVE i # 1 /\ i - 1 = Len(wire)
          BY ONLY <4>1, <4>3, <1>n
        <4>4. QED
          BY <3>2, <4>2, <4>3 DEF GenBefore, LastGen
      <3>3. QED
        BY <3>1, <3>2
    <2>7. LastGen <= gen /\ (buf.kind # "config" => LastGen = gen)
      BY <1>s, <2>2 DEF StreamOrder
    <2>8. ASSUME NEW i \in DOMAIN wire'
          PROVE  /\ GenBefore(i)' <= wire'[i].gen /\ wire'[i].gen >= 1
                 /\ wire'[i].kind # "config" => wire'[i].gen = GenBefore(i)'
      <3>1. CASE i = Len(wire) + 1
        <4>1. i \in Nat /\ GenBefore(i)' = LastGen
          BY <3>1, <1>n, <2>6
        <4>2. QED
          BY ONLY <3>1, <4>1, <2>1, <2>3, <2>7
      <3>2. CASE i \in 1 .. Len(wire)
        BY ONLY <3>2, <2>3, <2>5, <1>s DEF StreamOrder
      <3>3. QED
        BY <3>1, <3>2, <2>3, <2>8, <1>t
    <2>9. gen \in Nat
      BY <1>t
    <2>10. QED
      BY ONLY <2>2, <2>4, <2>8, <2>9 DEF StreamOrder
  <1>5. CASE EncConfigure
    BY <1>5, <1>t, <1>s DEF EncConfigure, StreamOrder, LastGen, GenBefore
  <1>6. ASSUME NEW kind \in {"config", "key", "delta"}, EncOutput(kind) PROVE StreamOrder'
    <2>1. UNCHANGED <<wire, cfg, gen>> /\ enc = "loop" /\ Yields(kind)
          /\ \/ enc' = "configure"
             \/ enc' = "write" /\ buf'.kind = kind
      BY <1>6 DEF EncOutput
    <2>2. LastGen' = LastGen /\ \A i \in DOMAIN wire : GenBefore(i)' = GenBefore(i)
      BY <2>1 DEF LastGen, GenBefore
    <2>3. kind # "config" => phase # "config"
      BY <2>1 DEF Yields
    <2>4. QED
      BY ONLY <1>s, <2>1, <2>2, <2>3 DEF StreamOrder
  <1>7. CASE NetRead
    <2>1. wire # <<>> /\ wire' = Tail(wire) /\ UNCHANGED <<gen, enc, phase, buf>>
          /\ Head(wire) = wire[1] /\ Len(wire) >= 1
      BY <1>7, <1>t DEF NetRead
    <2>2. /\ DOMAIN wire = 1 .. Len(wire) /\ Len(wire') = Len(wire) - 1
          /\ DOMAIN wire' = 1 .. Len(wire) - 1
          /\ \A i \in 1 .. Len(wire) - 1 : wire'[i] = wire[i + 1]
      BY <1>t, <2>1
    <2>3. cfg' = wire[1].gen
      <3>1. CASE Head(wire).kind = "config"
        BY <1>7, <2>1, <3>1 DEF NetRead
      <3>2. CASE Head(wire).kind # "config"
        <4>1. cfg' = cfg
          BY <1>7, <3>2 DEF NetRead
        <4>2. wire[1].gen = cfg
          BY <1>t, <1>s, <2>1, <2>2, <3>2 DEF StreamOrder, GenBefore
        <4>3. QED
          BY <4>1, <4>2
      <3>3. QED
        BY <3>1, <3>2
    <2>4. \A i \in 1 .. Len(wire) - 1 : GenBefore(i)' = GenBefore(i + 1)
      <3>1. ASSUME NEW i \in 1 .. Len(wire) - 1 PROVE GenBefore(i)' = GenBefore(i + 1)
        <4>1. GenBefore(i + 1) = wire[i].gen
          BY <1>t, <3>1 DEF GenBefore
        <4>2. CASE i = 1
          BY <4>1, <4>2, <2>3 DEF GenBefore
        <4>3. CASE i # 1
          <5>1. i - 1 \in 1 .. Len(wire) - 1 /\ (i - 1) + 1 = i
            BY <1>t, <3>1, <4>3
          <5>2. wire'[i - 1] = wire[i]
            BY <5>1, <2>2
          <5>3. QED
            BY <4>1, <4>3, <5>2 DEF GenBefore
        <4>4. QED
          BY <4>2, <4>3
      <3>2. QED
        BY <3>1
    <2>5. LastGen' = LastGen
      <3>1. CASE Len(wire) = 1
        <4>1. wire' = <<>>
          BY <3>1, <2>1, <1>t
        <4>2. QED
          BY <4>1, <2>3, <3>1, <2>1 DEF LastGen
      <3>2. CASE Len(wire) # 1
        <4>1. Len(wire) - 1 \in 1 .. Len(wire) - 1 /\ (Len(wire) - 1) + 1 = Len(wire)
          <5>1. Len(wire) >= 1
            BY <2>1
          <5>2. QED
            BY ONLY <1>n, <5>1, <3>2
        <4>2. wire'[Len(wire')] = wire[Len(wire)]
          BY ONLY <4>1, <2>2
        <4>a. wire' # <<>>
          BY ONLY <4>1, <2>2
        <4>3. QED
          BY <4>2, <4>a, <2>1 DEF LastGen
      <3>3. QED
        BY <3>1, <3>2
    <2>6. ASSUME NEW i \in DOMAIN wire'
          PROVE  /\ GenBefore(i)' <= wire'[i].gen /\ wire'[i].gen >= 1
                 /\ wire'[i].kind # "config" => wire'[i].gen = GenBefore(i)'
      <3>1. i \in 1 .. Len(wire) - 1 /\ i + 1 \in DOMAIN wire
        BY <2>2, <2>6, <1>t
      <3>2. wire'[i] = wire[i + 1] /\ GenBefore(i)' = GenBefore(i + 1)
        BY <3>1, <2>2, <2>4
      <3>3. QED
        BY ONLY <3>1, <3>2, <1>s DEF StreamOrder
    <2>7. QED
      BY ONLY <2>1, <2>5, <2>6, <1>s DEF StreamOrder
  <1>8. CASE UNCHANGED <<wire, cfg, gen, enc, phase, buf>>
    BY <1>8, <1>t, <1>s DEF StreamOrder, LastGen, GenBefore
  <1>9. QED
    BY ONLY [Next]_vars, <1>1, <1>2, <1>3, <1>4, <1>5, <1>6, <1>7, <1>8, Zenon
    DEF Next, ScreenChanges, EncNext, NetNext, Done, Turn, NetEnds, FeedOk, FeedFails, FallBack, vars,
        encVars, netVars, encOnly, netOnly

(* The initial states satisfy the inductive invariant. *)
LEMMA InitInv == Init => IInv
  <1> SUFFICES ASSUME Init PROVE IInv
    OBVIOUS
  <1>1. TypeOK
    <2>1. TypeEnc /\ TypeNet /\ TypeFresh
      BY DEF Init, TypeEnc, TypeNet, TypeFresh
    <2>2. TypeCounters
      BY BoundsAssumption DEF Init, TypeCounters, Gens
    <2>3. TypePackets
      BY GensAreNumbers DEF Init, TypePackets
    <2>4. TypeRoom
      BY BoundsAssumption DEF Init, TypeRoom
    <2>5. TypeDec
      BY GensAreNumbers DEF Init, TypeDec, Decoder, NoDecoder
    <2>6. QED
      BY <2>1, <2>2, <2>3, <2>4, <2>5, TypeParts
  <1>2. TurnsPay
    BY DEF Init, TurnsPay
  <1>3. BufferInHand
    BY DEF Init, BufferInHand
  <1>4. StreamOrder
    BY DEF Init, StreamOrder, LastGen
  <1>5. CachedConfig
    BY DEF Init, CachedConfig
  <1>6. OneSize
    <2>1. Pictures = {}
      BY DEF Init, Pictures
    <2>2. QED
      BY <2>1 DEF Init, OneSize
  <1>7. QED
    BY <1>1, <1>2, <1>3, <1>4, <1>5, <1>6 DEF IInv

(* A feed shows nothing but the packet in hand. *)
LEMMA FeedKeepsSizes ==
  ASSUME OneSize, CachedConfig, net = "feed", net' = "read", wire' = wire, shown' = shown \/ shown' = Frame,
         UNCHANGED <<gen, conf, enc, cfg>>
  PROVE  OneSize'
  <1>1. Pic(pkt) \in Pictures /\ Frame = Pic(pkt) /\ Pic(Frame) = Frame /\ Frame.gen = pkt.gen
    BY DEF Pictures, Frame, Pic
  <1>2. {Pic(wire[i]) : i \in DOMAIN wire} \subseteq Pictures
    BY DEF Pictures
  <1>3. ASSUME shown.gen # 0 PROVE Pic(shown) \in Pictures
    BY <1>3 DEF Pictures
  <1>4. Pictures' \subseteq Pictures
    <2>1. Pictures' = {Pic(wire[i]) : i \in DOMAIN wire}
                        \cup (IF shown'.gen = 0 THEN {} ELSE {Pic(shown')})
      BY DEF Pictures, Pic
    <2>2. CASE shown' = shown
      BY <1>2, <1>3, <2>1, <2>2
    <2>3. CASE shown' = Frame
      BY <1>1, <1>2, <2>1, <2>3
    <2>4. QED
      BY <2>2, <2>3
  <1>5. shown'.gen <= cfg
    BY <1>1 DEF OneSize, CachedConfig
  <1>6. enc \in {"loop", "write"} => VideoSize(conf)' = VideoSize(conf)
    BY DEF VideoSize
  <1>7. QED
    BY ONLY <1>4, <1>5, <1>6, OneSize, UNCHANGED <<gen, conf, enc, cfg>> DEF OneSize

(* Every step keeps one size to an encoder. *)
LEMMA SizeStep == IInv /\ [Next]_vars => OneSize'
  <1> SUFFICES ASSUME IInv, [Next]_vars PROVE OneSize'
    OBVIOUS
  <1> USE DEF encVars, netVars, encOnly, netOnly
  <1>t. /\ wire \in Seq(Packet) /\ gen \in Nat /\ cfg \in Nat /\ shown.gen \in Nat
        /\ \A i \in DOMAIN wire : wire[i].gen \in Nat
    <2>1. wire \in Seq(Packet) /\ gen \in Gens /\ cfg \in Gens
      BY TypeParts DEF IInv, TypeCounters, TypePackets
    <2>2. \A i \in DOMAIN wire : wire[i] \in Packet
      BY <2>1
    <2>3. \A i \in DOMAIN wire : wire[i].gen \in Gens
      BY <2>2, PacketFields
    <2>4. shown.gen \in Gens
      BY TypeParts DEF IInv, TypePackets
    <2>5. QED
      BY <2>1, <2>3, <2>4, GensAreNumbers
  <1>s. OneSize
    BY DEF IInv
  <1>v. CachedConfig
    BY DEF IInv
  <1>1. CASE EncCreate
    <2>1. UNCHANGED <<wire, net, pkt, shown, cfg>> /\ gen' = gen + 1
      BY <1>1 DEF EncCreate
    <2>2. Pictures' = Pictures
      BY <2>1 DEF Pictures, Pic
    <2>3. QED
      BY ONLY <1>s, <2>1, <2>2, <1>t DEF OneSize
  <1>2. CASE EncEnds
    <2>1. UNCHANGED <<wire, net, pkt, shown, cfg, gen>>
          /\ (enc' \in {"loop", "write"} => enc \in {"loop", "write"} /\ conf' = conf)
      BY <1>2 DEF EncEnds
    <2>2. Pictures' = Pictures
      BY <2>1 DEF Pictures, Pic
    <2>3. enc' \in {"loop", "write"} => VideoSize(conf)' = VideoSize(conf)
      BY <2>1 DEF VideoSize
    <2>4. QED
      BY ONLY <1>s, <2>1, <2>2, <2>3 DEF OneSize
  <1>3. CASE EncIdle
    <2>1. UNCHANGED <<wire, net, pkt, shown, cfg, gen>>
          /\ (enc' \in {"loop", "write"} => enc \in {"loop", "write"} /\ conf' = conf)
      BY <1>3 DEF EncIdle
    <2>2. Pictures' = Pictures
      BY <2>1 DEF Pictures, Pic
    <2>3. enc' \in {"loop", "write"} => VideoSize(conf)' = VideoSize(conf)
      BY <2>1 DEF VideoSize
    <2>4. QED
      BY ONLY <1>s, <2>1, <2>2, <2>3 DEF OneSize
  <1>4. CASE EncWrite
    <2>1. buf \in Packet /\ buf.gen = gen /\ gen >= 1 /\ buf.size = VideoSize(conf)
      BY <1>4 DEF IInv, BufferInHand, EncWrite
    <2>2. wire' = Append(wire, buf) /\ UNCHANGED <<gen, cfg, net, pkt, shown, conf>>
          /\ enc = "write" /\ enc' = "loop"
      BY <1>4 DEF EncWrite
    <2>3. \A i \in DOMAIN wire' : wire'[i] = buf \/ (i \in DOMAIN wire /\ wire'[i] = wire[i])
      BY <2>1, <2>2, <1>t
    <2>4. Pictures' \subseteq Pictures \cup {Pic(buf)}
      BY <2>2, <2>3 DEF Pictures, Pic
    <2>5. Pic(buf).gen = gen /\ Pic(buf).size = VideoSize(conf)
      BY <2>1 DEF Pic
    <2>6. VideoSize(conf)' = VideoSize(conf)
      BY <2>2 DEF VideoSize
    <2>7. gen' = gen /\ shown' = shown /\ cfg' = cfg /\ gen \in Nat
      BY <2>2, <1>t
    <2>8. QED
      BY ONLY <1>s, <2>1, <2>2, <2>4, <2>5, <2>6, <2>7 DEF OneSize
  <1>5. CASE EncConfigure
    <2>1. UNCHANGED <<wire, net, pkt, shown, cfg, gen>>
          /\ (enc' \in {"loop", "write"} => enc \in {"loop", "write"} /\ conf' = conf)
      BY <1>5 DEF EncConfigure
    <2>2. Pictures' = Pictures
      BY <2>1 DEF Pictures, Pic
    <2>3. enc' \in {"loop", "write"} => VideoSize(conf)' = VideoSize(conf)
      BY <2>1 DEF VideoSize
    <2>4. QED
      BY ONLY <1>s, <2>1, <2>2, <2>3 DEF OneSize
  <1>6. ASSUME NEW kind \in {"config", "key", "delta"}, EncOutput(kind) PROVE OneSize'
    <2>1. UNCHANGED <<wire, net, pkt, shown, cfg, gen>>
          /\ (enc' \in {"loop", "write"} => enc \in {"loop", "write"} /\ conf' = conf)
      BY <1>6 DEF EncOutput
    <2>2. Pictures' = Pictures
      BY <2>1 DEF Pictures, Pic
    <2>3. enc' \in {"loop", "write"} => VideoSize(conf)' = VideoSize(conf)
      BY <2>1 DEF VideoSize
    <2>4. QED
      BY ONLY <1>s, <2>1, <2>2, <2>3 DEF OneSize
  <1>7. CASE NetRead
    <2>1. wire # <<>> /\ wire' = Tail(wire) /\ UNCHANGED <<gen, enc, conf, shown>>
          /\ Head(wire) = wire[1] /\ 1 \in DOMAIN wire /\ net = "read"
      BY <1>7, <1>t DEF NetRead
    <2>2. \A i \in DOMAIN wire' : i + 1 \in DOMAIN wire /\ wire'[i] = wire[i + 1]
      BY <2>1, <1>t
    <2>3. net' = "feed" => pkt' = wire[1]
      BY <1>7, <2>1 DEF NetRead
    <2>4. Pictures' \subseteq Pictures
      <3>1. \A i \in DOMAIN wire' : Pic(wire'[i]) \in {Pic(wire[j]) : j \in DOMAIN wire}
        BY <2>2
      <3>2. net' = "feed" => Pic(pkt') \in {Pic(wire[j]) : j \in DOMAIN wire}
        BY <2>1, <2>3
      <3>3. shown' = shown
        BY <2>1
      <3>4. Pictures' = {Pic(wire'[i]) : i \in DOMAIN wire'}
              \cup (IF net' = "feed" THEN {Pic(pkt')} ELSE {})
              \cup (IF shown'.gen = 0 THEN {} ELSE {Pic(shown')})
        BY Zenon DEF Pictures, Pic
      <3>5. QED
        BY ONLY <3>1, <3>2, <3>3, <3>4 DEF Pictures
    <2>5. cfg <= wire[1].gen
      BY <2>1, <1>t DEF IInv, StreamOrder, GenBefore
    <2>6. cfg' = cfg \/ cfg' = wire[1].gen
      BY <1>7, <2>1 DEF NetRead
    <2>7. shown'.gen <= cfg'
      <3>1. shown.gen \in Nat /\ cfg \in Nat /\ wire[1].gen \in Nat
        BY <1>t, <2>1
      <3>2. QED
        BY ONLY <3>1, <2>1, <2>5, <2>6, <1>s DEF OneSize
    <2>8. enc' = enc /\ gen' = gen /\ VideoSize(conf)' = VideoSize(conf)
      BY <2>1 DEF VideoSize
    <2>9. QED
      BY ONLY <1>s, <2>4, <2>7, <2>8 DEF OneSize
  <1>8. CASE NetEnds
    <2>1. UNCHANGED <<gen, conf, enc, cfg, wire, shown>> /\ net' = "exit"
      BY <1>8 DEF NetEnds
    <2>2. Pictures' \subseteq Pictures
      BY <2>1 DEF Pictures, Pic
    <2>3. VideoSize(conf)' = VideoSize(conf)
      BY <2>1 DEF VideoSize
    <2>4. QED
      BY ONLY <2>1, <2>2, <2>3, <1>s DEF OneSize
  <1>9. CASE FeedOk
    <2>1. net = "feed" /\ net' = "read" /\ wire' = wire /\ (shown' = shown \/ shown' = Frame)
          /\ UNCHANGED <<gen, conf, enc, cfg>>
      BY <1>9 DEF FeedOk
    <2>2. QED
      BY <1>t, <1>s, <1>v, <2>1, FeedKeepsSizes
  <1>10. CASE FeedFails
    <2>1. net = "feed" /\ net' = "read" /\ wire' = wire /\ (shown' = shown \/ shown' = Frame)
          /\ UNCHANGED <<gen, conf, enc, cfg>>
      BY <1>10 DEF FeedFails
    <2>2. QED
      BY <1>t, <1>s, <1>v, <2>1, FeedKeepsSizes
  <1>11. CASE FallBack
    <2>1. CASE net' = "read"
      <3>1. net = "feed" /\ wire' = wire /\ (shown' = shown \/ shown' = Frame)
            /\ UNCHANGED <<gen, conf, enc, cfg>>
        BY <1>11, Zenon DEF FallBack
      <3>2. QED
        BY <1>t, <1>s, <1>v, <2>1, <3>1, FeedKeepsSizes
    <2>2. CASE net' = "exit"
      <3>1. UNCHANGED <<gen, conf, enc, cfg, wire, shown>>
        BY <1>11, <2>2 DEF FallBack
      <3>2. Pictures' \subseteq Pictures
        BY <2>2, <3>1 DEF Pictures, Pic
      <3>3. VideoSize(conf)' = VideoSize(conf)
        BY <3>1 DEF VideoSize
      <3>4. QED
        BY ONLY <3>1, <3>2, <3>3, <1>s DEF OneSize
    <2>3. QED
      BY <1>11, <2>1, <2>2 DEF FallBack
  <1>12. CASE UNCHANGED <<wire, net, pkt, shown, gen, enc, conf, cfg>>
    <2>1. Pictures' = Pictures
      BY <1>12 DEF Pictures, Pic
    <2>2. VideoSize(conf)' = VideoSize(conf)
      BY <1>12 DEF VideoSize
    <2>3. QED
      BY ONLY <1>12, <2>1, <2>2, <1>s DEF OneSize
  <1>13. QED
    BY ONLY [Next]_vars, <1>1, <1>2, <1>3, <1>4, <1>5, <1>6, <1>7, <1>8, <1>9, <1>10,
       <1>11, <1>12, Zenon
    DEF Next, ScreenChanges, EncNext, NetNext, Done, Turn, vars, encVars, netVars, encOnly, netOnly

(* Every step preserves the inductive invariant. *)
LEMMA InvStep == IInv /\ [Next]_vars => IInv'
  BY TypeStep, TurnsStep, BufferStep, OrderStep, ConfigStep, SizeStep, PTL DEF IInv

(* The inductive invariant holds in every reachable state. *)
LEMMA Invariance == Spec => []IInv
  BY InitInv, InvStep, PTL DEF Spec

-----------------------------------------------------------------------------
(* A packet is decoded only with the parameter sets of the encoder that made it, through   *)
(* any number of rotations and a change of decoder at any packet (net_thread_fn, streamTo).  *)
THEOREM DecodedWithOwnConfig == Spec => []PacketInv
  <1>1. ASSUME IInv PROVE PacketInv
    <2>1. TypeOK /\ CachedConfig
      BY <1>1 DEF IInv
    <2>2. FedWithOwnConfig
      BY <2>1 DEF CachedConfig, FedWithOwnConfig, Params
    <2>3. QED
      BY <2>1, <2>2 DEF PacketInv
  <1>2. QED
    BY <1>1, Invariance, PTL

(* What is shown of the encoder in use has the size by which ControlReceiver scales a       *)
(* point on it, for whatever computeVideoSize makes of the display (ScreenEncoder.configure). *)
THEOREM ShownInSizeOfScale == Spec => []ShownIsScaledFor
  <1>1. ASSUME IInv PROVE ShownIsScaledFor
    <2> SUFFICES ASSUME shown.gen = gen, enc \in {"loop", "write"}
                 PROVE  shown.size = VideoSize(conf)
      BY DEF ShownIsScaledFor
    <2>1. gen >= 1 /\ OneSize
      BY <1>1 DEF IInv, BufferInHand
    <2>2. Pic(shown) \in Pictures
      BY <2>1 DEF Pictures
    <2>3. Pic(shown).gen = gen => Pic(shown).size = VideoSize(conf)
      BY <2>1, <2>2 DEF OneSize
    <2>4. QED
      BY <2>3 DEF Pic
  <1>2. QED
    BY <1>1, Invariance, PTL

(* Only a packet that is being fed changes the picture. *)
LEMMA ShownChanges == [Next]_vars => shown' = shown \/ (net = "feed" /\ shown' = Frame)
  <1>1. FallBack => net = "feed" /\ (shown' = shown \/ shown' = Frame)
    BY Zenon DEF FallBack
  <1>2. QED
    BY <1>1
    DEF Next, ScreenChanges, EncNext, NetNext, Done, Turn, EncCreate, EncEnds, EncIdle, EncWrite, EncConfigure,
        EncOutput, NetRead, NetEnds, FeedOk, FeedFails, vars, netVars, encVars, encOnly,
        netOnly

(* The picture shown never goes back to an encoder that is gone, and changes its size only  *)
(* with a new one: a front end that reads the size of each frame is never shown one            *)
(* orientation in the other's shape (PROTOCOL.md 3.1).                                         *)
PictureMovesForward ==
  [][ /\ shown'.gen >= shown.gen
      /\ shown'.size # shown.size => shown'.gen > shown.gen ]_vars

(* The picture moves forward for any number of turns and encoders (net_thread_fn's loop). *)
THEOREM PictureGoesForward == Spec => PictureMovesForward
  <1>1. ASSUME IInv, [Next]_vars
        PROVE  [ /\ shown'.gen >= shown.gen
                 /\ shown'.size # shown.size => shown'.gen > shown.gen ]_vars
    <2>1. shown' = shown \/ (net = "feed" /\ shown' = Frame)
      BY <1>1, ShownChanges
    <2>2. CASE shown' = shown
      <3>1. shown.gen \in Nat
        BY <1>1, TypeParts, GensAreNumbers DEF IInv, TypePackets
      <3>2. QED
        BY <2>2, <3>1
    <2>3. CASE net = "feed" /\ shown' = Frame
      <3>1. OneSize /\ pkt.gen = cfg /\ cfg >= 1
        BY <1>1, <2>3 DEF IInv, CachedConfig
      <3>2. cfg \in Nat /\ shown.gen \in Nat
        BY <1>1, TypeParts, GensAreNumbers DEF IInv, TypePackets
      <3>3. shown.gen <= cfg
        BY <3>1 DEF OneSize
      <3>4. shown'.gen = cfg /\ shown'.size = pkt.size
        BY <2>3, <3>1 DEF Frame
      <3>5. ASSUME shown.gen = cfg PROVE shown.size = pkt.size
        <4>1. shown.gen # 0
          BY <3>1, <3>2, <3>5
        <4>2. Pic(shown) \in Pictures /\ Pic(pkt) \in Pictures
          BY <2>3, <4>1 DEF Pictures
        <4>3. Pic(shown).gen = Pic(pkt).gen => Pic(shown).size = Pic(pkt).size
          BY <3>1, <4>2 DEF OneSize
        <4>4. QED
          BY <3>1, <3>5, <4>3 DEF Pic
      <3>6. QED
        BY ONLY <3>2, <3>3, <3>4, <3>5
    <2>4. QED
      BY <2>1, <2>2, <2>3
  <1>2. QED
    BY <1>1, Invariance, PTL DEF Spec, PictureMovesForward

(* An encoder is rebuilt only for a turn of the display, and never twice for the same one      *)
(* (rotationChanged, streamTo, configure).                                                    *)
THEOREM EncodersArePaidFor == Spec => []RebuiltForTurns
  <1>1. IInv => RebuiltForTurns
    BY DEF IInv, TurnsPay, RebuiltForTurns
  <1>2. QED
    BY <1>1, Invariance, PTL

-----------------------------------------------------------------------------
(* Sizes and points.  The rest is arithmetic: what holds of every size and every point.   *)

(* The sides of a size. *)
LEMMA PositivePair ==
  ASSUME NEW s \in Positive
  PROVE  /\ s[1] \in Nat /\ s[1] >= 1 /\ s[2] \in Nat /\ s[2] >= 1
         /\ \A i \in 1 .. 2 : s[i] \in Nat /\ s[i] >= 1
  BY DEF Positive

(* The larger of two sides. *)
LEMMA MaxOfTwo ==
  ASSUME NEW a \in Nat, NEW b \in Nat
  PROVE  Max({a, b}) = (IF a >= b THEN a ELSE b)
  BY DEF Max

(* The smaller of two sides. *)
LEMMA MinOfTwo ==
  ASSUME NEW a \in Nat, NEW b \in Nat
  PROVE  Min({a, b}) = (IF a >= b THEN b ELSE a)
  BY DEF Min

(* Rounding down to a multiple of 8 (n & ~7). *)
LEMMA RoundedDown ==
  ASSUME NEW n \in Nat
  PROVE  /\ Down8(n) \in Nat /\ Down8(n) % 8 = 0
         /\ Down8(n) <= n /\ n < Down8(n) + 8
  BY DEF Down8

(* What the quotient of an integer division is. *)
LEMMA Divided ==
  ASSUME NEW n \in Nat, NEW d \in Nat, d >= 1
  PROVE  /\ n \div d \in Nat
         /\ (n \div d) * d <= n /\ n < (n \div d) * d + d
  OBVIOUS

(* Products keep an order. *)
LEMMA Products ==
  ASSUME NEW a \in Int, NEW b \in Int, NEW c \in Nat
  PROVE  a <= b => a * c <= b * c
  OBVIOUS

(* One side of the encoded picture: a number that is at most 7 less than a quotient of     *)
(* which a product is known lies within 8 of the exact proportion.                          *)
LEMMA SideContract ==
  ASSUME NEW major \in Nat, major >= 1, NEW exact \in Nat, NEW q \in Nat,
         q * major <= exact, exact < q * major + major
  PROVE  /\ Down8(q) % 8 = 0
         /\ Down8(q) * major <= exact
         /\ Down8(q) * major > exact - 8 * major
  <1>1. PICK e \in Nat : e = Down8(q) /\ e % 8 = 0 /\ e <= q /\ q <= e + 7
    BY RoundedDown
  <1>2. e * major <= q * major
    BY <1>1, Products
  <1>3. q * major <= (e + 7) * major
    BY <1>1, Products
  <1>4. (e + 7) * major = e * major + 7 * major
    OBVIOUS
  <1>5. e * major \in Int /\ q * major \in Int /\ 7 * major \in Int /\ 8 * major = 7 * major + major
    OBVIOUS
  <1>6. e * major <= exact /\ e * major > exact - 8 * major
    BY <1>2, <1>3, <1>4, <1>5
  <1>7. QED
    BY <1>1, <1>6

(* computeVideoSize keeps its contract for every display and every limit. *)
LEMMA SizesAreReduced ==
  ASSUME NEW s \in Positive, NEW m \in Nat
  PROVE  SizeContract({s}, {m})
  <1> DEFINE a == s[1]
             b == s[2]
             major == Max({a, b})
             minor == Min({a, b})
             scaled == (minor * m) \div major
             longest == IF m > 0 THEN Min({m, major}) ELSE major
             lim == IF m > 0 /\ major > m
                      THEN IF a > b THEN <<m, scaled>> ELSE <<scaled, m>>
                      ELSE s
             e == <<Down8(lim[1]), Down8(lim[2])>>
             Good(i) == /\ e[i] % 8 = 0
                        /\ e[i] * major <= s[i] * longest
                        /\ e[i] * major > (s[i] * longest) - 8 * major
  <1>1. a \in Nat /\ a >= 1 /\ b \in Nat /\ b >= 1
    BY PositivePair
  <1>2. /\ major = (IF a >= b THEN a ELSE b) /\ minor = (IF a >= b THEN b ELSE a)
        /\ major \in Nat /\ major >= 1 /\ minor \in Nat
    BY ONLY <1>1, MaxOfTwo, MinOfTwo
  <1>3. longest = (IF m > 0 /\ major > m THEN m ELSE major) /\ longest \in Nat
    BY ONLY <1>2, MinOfTwo, m \in Nat
  <1>4. /\ scaled \in Nat /\ scaled * major <= minor * m
        /\ minor * m < scaled * major + major /\ minor * m \in Nat
    BY ONLY <1>2, Divided, m \in Nat
  <1>5. \A x, y \in Nat : x * y \in Nat /\ x * y = y * x
    OBVIOUS
  <1>6. SUFFICES Good(1) /\ Good(2)
    <2>1. computeVideoSize(s, m) = e
      BY DEF computeVideoSize
    <2>2. \A i \in 1 .. 2 : i = 1 \/ i = 2
      OBVIOUS
    <2> HIDE DEF e, major, longest
    <2>3. QED
      BY <2>1, <2>2, <1>6 DEF SizeContract, major, longest
  <1> HIDE DEF a, b, major, minor, scaled, longest
  <1>7. CASE m > 0 /\ major > m
    <2>1. longest = m
      BY <1>3, <1>7
    <2>2. /\ Down8(scaled) % 8 = 0
          /\ Down8(scaled) * major <= minor * longest
          /\ Down8(scaled) * major > (minor * longest) - 8 * major
      BY ONLY <1>2, <1>4, <2>1, SideContract
    <2>3. /\ Down8(m) % 8 = 0
          /\ Down8(m) * major <= major * longest
          /\ Down8(m) * major > (major * longest) - 8 * major
      <3>1. m * major = major * m /\ major * m \in Nat /\ major * m < m * major + major
        BY ONLY <1>2, <1>5, m \in Nat
      <3>2. m * major <= major * m
        BY ONLY <3>1
      <3>3. QED
        BY ONLY <1>2, <2>1, <3>1, <3>2, SideContract, m \in Nat
    <2>4. CASE a > b
      <3>1. s[1] = major /\ s[2] = minor /\ e[1] = Down8(m) /\ e[2] = Down8(scaled)
        BY <1>1, <1>2, <1>7, <2>4 DEF a, b
      <3> HIDE DEF e
      <3>2. QED
        BY <2>2, <2>3, <3>1
    <2>5. CASE ~(a > b)
      <3>1. s[1] = minor /\ s[2] = major /\ e[1] = Down8(scaled) /\ e[2] = Down8(m)
        BY <1>1, <1>2, <1>7, <2>5 DEF a, b
      <3> HIDE DEF e
      <3>2. QED
        BY <2>2, <2>3, <3>1
    <2>6. QED
      BY <2>4, <2>5
  <1>8. CASE ~(m > 0 /\ major > m)
    <2>1. longest = major
      BY <1>3, <1>8
    <2>2. \A q \in Nat : /\ Down8(q) % 8 = 0
                        /\ Down8(q) * major <= q * longest
                        /\ Down8(q) * major > (q * longest) - 8 * major
      <3> SUFFICES ASSUME NEW q \in Nat
                   PROVE  /\ Down8(q) % 8 = 0
                          /\ Down8(q) * major <= q * major
                          /\ Down8(q) * major > (q * major) - 8 * major
        BY <2>1
      <3>1. q * major \in Nat
        BY <1>2, <1>5
      <3>2. q * major <= q * major /\ q * major < q * major + major
        BY ONLY <1>2, <3>1
      <3>3. QED
        BY ONLY <1>2, <3>1, <3>2, SideContract, q \in Nat
    <2>3. e[1] = Down8(s[1]) /\ e[2] = Down8(s[2]) /\ s[1] \in Nat /\ s[2] \in Nat
      BY <1>1, <1>8 DEF a, b
    <2> HIDE DEF e
    <2>4. QED
      BY <2>2, <2>3
  <1>9. QED
    BY <1>7, <1>8

(* The letterbox fits every widget and every picture. *)
LEMMA LetterboxAlwaysFits ==
  ASSUME NEW w \in Positive, NEW v \in Positive
  PROVE  LetterboxFits(w, v)
  <1>1. /\ w[1] \in Nat /\ w[2] \in Nat /\ v[1] \in Nat /\ v[2] \in Nat
    BY PositivePair
  <1>2. PICK w1 \in Nat, w2 \in Nat, v1 \in Nat, v2 \in Nat :
          w[1] = w1 /\ w[2] = w2 /\ v[1] = v1 /\ v[2] = v2
    BY <1>1
  <1>3. \A x, y \in Nat : x * y \in Nat /\ x * y = y * x
    OBVIOUS
  <1>4. CASE w1 * v2 > v1 * w2
    <2>1. Scale(w, v) = Quotient(v2, w2)
      BY <1>2, <1>4 DEF Scale
    <2>2. Scale(w, v).n = v2 /\ Scale(w, v).d = w2
      BY <2>1 DEF Quotient
    <2>3. v1 * w2 <= w1 * v2 /\ v2 * w2 <= w2 * v2 /\ v2 * w2 = w2 * v2
      BY ONLY <1>3, <1>4, w1 \in Nat, w2 \in Nat, v1 \in Nat, v2 \in Nat
    <2>4. QED
      BY <1>2, <2>2, <2>3 DEF LetterboxFits
  <1>5. CASE ~(w1 * v2 > v1 * w2)
    <2>1. Scale(w, v) = Quotient(v1, w1)
      BY <1>2, <1>5 DEF Scale
    <2>2. Scale(w, v).n = v1 /\ Scale(w, v).d = w1
      BY <2>1 DEF Quotient
    <2>3. v2 * w1 <= w2 * v1 /\ v1 * w1 <= w1 * v1 /\ v1 * w1 = w1 * v1
      BY ONLY <1>3, <1>5, w1 \in Nat, w2 \in Nat, v1 \in Nat, v2 \in Nat
    <2>4. QED
      BY <1>2, <2>2, <2>3 DEF LetterboxFits
  <1>6. QED
    BY <1>4, <1>5

(* What is shown came from a packet, and has a size. *)
ShownHasSize == shown.gen > 0 => shown.size \in VideoSizes

(* Every step keeps the size of what is shown. *)
LEMMA ShownStep == IInv /\ ShownHasSize /\ [Next]_vars => ShownHasSize'
  <1> SUFFICES ASSUME IInv, ShownHasSize, [Next]_vars PROVE ShownHasSize'
    OBVIOUS
  <1>1. shown' = shown \/ (net = "feed" /\ shown' = Frame)
    BY ShownChanges
  <1>2. CASE shown' = shown
    BY <1>2 DEF ShownHasSize
  <1>3. CASE net = "feed" /\ shown' = Frame
    <2>1. pkt \in Packet
      BY <1>3 DEF IInv, CachedConfig
    <2>2. pkt.size \in VideoSizes
      BY <2>1, PacketFields
    <2>3. shown'.size = pkt.size
      BY <1>3 DEF Frame
    <2>4. QED
      BY <2>2, <2>3 DEF ShownHasSize, VideoSizes, VideoSize
  <1>4. QED
    BY <1>1, <1>2, <1>3

(* What is shown has a size in every reachable state. *)
LEMMA ShownInvariance == Spec => [](IInv /\ ShownHasSize)
  <1>1. Init => ShownHasSize
    BY DEF Init, ShownHasSize
  <1>2. QED
    BY <1>1, ShownStep, Invariance, PTL DEF Spec

(* The sizes of the state are not empty. *)
LEMMA StateSizes ==
  ASSUME IInv, ShownHasSize
  PROVE  /\ conf \in Positive /\ display \in Positive
         /\ VideoSize(conf) \in Positive /\ VideoSize(display) \in Positive
         /\ shown.gen > 0 => shown.size \in Positive
  <1>1. conf \in Sizes /\ display \in Sizes
    BY DEF IInv, TypeOK
  <1>2. \A s \in Sizes : s \in Positive /\ VideoSize(s) \in Positive
    BY SizesAssumption DEF VideoSize
  <1>3. QED
    BY <1>1, <1>2 DEF ShownHasSize, VideoSizes

(* What is encoded is the display, reduced as asked, and all of it is drawn, for every      *)
(* display, limit and widget (computeVideoSize, on_render).                                  *)
THEOREM PictureIsWhole == Spec => []PictureInv
  <1>1. RealSizesAreReduced
    BY SizesAreReduced, ShapesAssumption DEF RealSizesAreReduced, SizeContract
  <1>2. ASSUME IInv, ShownHasSize PROVE PictureInv
    <2>1. SizeContract({conf}, {MaxSize})
      BY <1>2, StateSizes, SizesAreReduced, SizesAssumption
    <2>2. shown.gen > 0 => \A w \in Widgets : LetterboxFits(w, shown.size)
      BY <1>2, StateSizes, LetterboxAlwaysFits, ShapesAssumption
    <2>3. QED
      BY <1>1, <2>1, <2>2 DEF PictureInv
  <1>3. QED
    BY <1>2, ShownInvariance, PTL
-----------------------------------------------------------------------------
(* A coordinate: an exact quotient with a positive denominator. *)
Coordinate == [n : Int, d : Nat \ {0}]

(* Quotients are coordinates. *)
LEMMA Quotients ==
  ASSUME NEW n \in Int, NEW d \in Nat, d >= 1
  PROVE  /\ Quotient(n, d) \in Coordinate /\ Quotient(n, d).n = n /\ Quotient(n, d).d = d
         /\ Whole(n) \in Coordinate /\ Whole(n).n = n /\ Whole(n).d = 1
  BY DEF Quotient, Whole, Coordinate

(* The fields of a coordinate. *)
LEMMA Fields ==
  ASSUME NEW x \in Coordinate
  PROVE  x.n \in Int /\ x.d \in Nat /\ x.d >= 1
  BY DEF Coordinate

(* Comparing with a whole number. *)
LEMMA WholeOrder ==
  ASSUME NEW x \in Coordinate, NEW m \in Int
  PROVE  /\ Leq(x, Whole(m)) <=> x.n <= m * x.d
         /\ Leq(Whole(m), x) <=> m * x.d <= x.n
         /\ Same(Whole(m), x) <=> m * x.d = x.n
         /\ Same(x, x)
  <1>1. x.n \in Int /\ x.d \in Nat /\ Whole(m).n = m /\ Whole(m).d = 1
    BY Fields, Quotients
  <1>2. x.n * 1 = x.n
    BY <1>1
  <1>3. QED
    BY <1>1, <1>2 DEF Leq, Same

(* The scaled coordinate before it is bounded. *)
LEMMA ScaledCoordinate ==
  ASSUME NEW x \in Coordinate, NEW device \in Nat, NEW video \in Nat, video >= 1
  PROVE  /\ Quotient(x.n * device, x.d * video) \in Coordinate
         /\ Quotient(x.n * device, x.d * video).n = x.n * device
         /\ Quotient(x.n * device, x.d * video).d = x.d * video
  <1>1. PICK n \in Int, d \in Nat : n = x.n /\ d = x.d /\ d >= 1
    BY Fields
  <1>2. n * device \in Int /\ d * video \in Nat /\ d * video >= 1
    BY ONLY <1>1, device \in Nat, video \in Nat, video >= 1, n \in Int, d \in Nat
  <1>3. QED
    BY <1>1, <1>2, Quotients

(* What scale gives is a coordinate from 0 to the bound, whatever sizes it mixed. *)
LEMMA ScaleIsBounded ==
  ASSUME NEW x \in Coordinate, NEW device \in Nat, NEW video \in Nat, video >= 1,
         NEW bound \in Nat, bound >= 1, NEW side \in Nat, bound <= side
  PROVE  /\ Leq(Whole(0), scale(x, device, video, bound))
         /\ Leq(scale(x, device, video, bound), Whole(side - 1))
  <1> DEFINE u == Quotient(x.n * device, x.d * video)
             t == scale(x, device, video, bound)
  <1>1. u \in Coordinate
    BY ScaledCoordinate
  <1>2. t = IF Leq(u, Whole(0)) THEN Whole(0)
            ELSE IF Leq(u, Whole(bound - 1)) THEN u ELSE Whole(bound - 1)
    BY DEF scale
  <1> HIDE DEF u, t
  <1>3. \A m \in 0 .. side - 1 : Leq(Whole(0), Whole(m)) /\ Leq(Whole(m), Whole(side - 1))
    <2> SUFFICES ASSUME NEW m \in 0 .. side - 1
                 PROVE  Leq(Whole(0), Whole(m)) /\ Leq(Whole(m), Whole(side - 1))
      OBVIOUS
    <2>1. m \in Int /\ 0 \in Int /\ side - 1 \in Int /\ 0 <= m /\ m <= side - 1
      OBVIOUS
    <2>2. /\ Whole(m).n = m /\ Whole(m).d = 1 /\ Whole(0).n = 0 /\ Whole(0).d = 1
          /\ Whole(side - 1).n = side - 1 /\ Whole(side - 1).d = 1
      BY DEF Whole, Quotient
    <2>3. QED
      BY <2>1, <2>2 DEF Leq
  <1>4. 0 \in 0 .. side - 1 /\ bound - 1 \in 0 .. side - 1
    OBVIOUS
  <1>5. CASE t = Whole(0) \/ t = Whole(bound - 1)
    BY <1>3, <1>4, <1>5 DEF t
  <1>6. CASE t = u /\ ~Leq(u, Whole(0)) /\ Leq(u, Whole(bound - 1))
    <2>1. PICK n \in Int, d \in Nat : n = u.n /\ d = u.d
      BY <1>1, Fields
    <2>2. ~(n <= 0 * d) /\ n <= (bound - 1) * d
      <3>1. bound - 1 \in Int /\ 0 \in Int
        OBVIOUS
      <3>2. QED
        BY <1>1, <1>6, <2>1, <3>1, WholeOrder
    <2>3. (bound - 1) * d <= (side - 1) * d
      BY Products
    <2>4. 0 * d <= n /\ n <= (side - 1) * d
      <3>1. 0 * d \in Int /\ (bound - 1) * d \in Int /\ (side - 1) * d \in Int
        OBVIOUS
      <3>2. QED
        BY ONLY <2>2, <2>3, <3>1, n \in Int
    <2>5. Leq(Whole(0), u) /\ Leq(u, Whole(side - 1))
      <3>1. side - 1 \in Int /\ 0 \in Int
        OBVIOUS
      <3>2. QED
        BY <1>1, <2>1, <2>4, <3>1, WholeOrder
    <2>6. QED
      BY <1>6, <2>5 DEF t
  <1>7. QED
    BY <1>2, <1>5, <1>6

(* With sizes that belong together, scale is exact up to the last pixel. *)
LEMMA ScaleIsExact ==
  ASSUME NEW x \in Coordinate, Leq(Whole(0), x),
         NEW device \in Nat, device >= 1, NEW video \in Nat, video >= 1
  PROVE  LET u == Quotient(x.n * device, x.d * video)
             t == scale(x, device, video, device)
         IN  \/ t = u
             \/ t = Whole(0) /\ Same(t, u)
             \/ t = Whole(device - 1) /\ ~Leq(u, t)
  <1> DEFINE u == Quotient(x.n * device, x.d * video)
             last == Whole(device - 1)
             t == scale(x, device, video, device)
  <1>1. u \in Coordinate /\ u.n = x.n * device /\ u.d = x.d * video
    BY ScaledCoordinate
  <1>2. t = IF Leq(u, Whole(0)) THEN Whole(0) ELSE IF Leq(u, last) THEN u ELSE last
    BY DEF scale
  <1>3. PICK n \in Int, d \in Nat : n = x.n /\ d = x.d /\ d >= 1
    BY Fields
  <1>4. n >= 0
    <2>1. 0 * d <= n
      BY <1>3, WholeOrder
    <2>2. QED
      BY <2>1
  <1> HIDE DEF u, last, t
  <1>5. CASE Leq(u, Whole(0))
    <2>1. n * device <= 0 * u.d /\ u.d \in Nat
      BY <1>1, <1>3, <1>5, WholeOrder, Fields
    <2>2. n * device = 0
      <3>1. n * device >= 0
        BY <1>4
      <3>2. n * device <= 0
        BY <2>1
      <3>3. QED
        BY <3>1, <3>2
    <2>3. Same(Whole(0), u)
      <3>1. 0 * u.d = u.n
        BY <1>1, <1>3, <2>1, <2>2
      <3>2. QED
        BY <1>1, <3>1, WholeOrder
    <2>4. QED
      BY <1>2, <1>5, <2>3 DEF u, last, t
  <1>6. CASE ~Leq(u, Whole(0))
    BY <1>2, <1>6 DEF u, last, t
  <1>7. QED
    BY <1>5, <1>6

(* A place of the widget has coordinates on the picture. *)
LEMMA PointerCoordinates ==
  ASSUME NEW w \in Positive, NEW video \in Positive, NEW p \in (0 .. w[1]) \X (0 .. w[2]),
         NEW i \in 1 .. 2
  PROVE  render_widget_to_device(w, video, p)[i] \in Coordinate
  <1> DEFINE q == Scale(w, video)
  <1>1. /\ w[1] \in Nat /\ w[1] >= 1 /\ w[2] \in Nat /\ w[2] >= 1 /\ w[i] \in Nat
        /\ video[1] \in Nat /\ video[2] \in Nat /\ video[i] \in Nat /\ p[i] \in Int
    <2>1. p[1] \in Int /\ p[2] \in Int
      BY PositivePair
    <2>2. i = 1 \/ i = 2
      OBVIOUS
    <2>3. QED
      BY <2>1, <2>2, PositivePair
  <1>2. q.n \in Int /\ q.d \in Nat /\ q.d >= 1
    BY <1>1 DEF Scale, Quotient
  <1>3. render_widget_to_device(w, video, p)[i]
          = Quotient(video[i] * q.d + (2 * p[i] - w[i]) * q.n, 2 * q.d)
    BY DEF render_widget_to_device
  <1> HIDE DEF q
  <1>4. video[i] * q.d + (2 * p[i] - w[i]) * q.n \in Int /\ 2 * q.d \in Nat /\ 2 * q.d >= 1
    BY <1>1, <1>2
  <1>5. QED
    BY <1>3, <1>4, Quotients

(* The two ways between a side of the display and a side of the widget, as an identity   *)
(* between numbers: W, V and S are the sides of widget, picture and display, P the place in  *)
(* the widget, and tn / td a coordinate of the display.                                       *)
LEMMA WaysAgree ==
  ASSUME NEW W \in Int, NEW V \in Int, NEW S \in Int, NEW P \in Int,
         NEW kn \in Int, NEW kd \in Int, NEW tn \in Int, NEW td \in Int
  PROVE  P * (2 * kn * (td * S)) - ((W * kn - V * kd) * (td * S) + 2 * (tn * (V * kd)))
           = td * ((V * kd + (2 * P - W) * kn) * S) - tn * ((2 * kd) * V)
  <1> DEFINE a == V * kd
             b == W * kn
             c == P * kn
             e == td * S
             f == tn * a
  <1>1. a \in Int /\ b \in Int /\ c \in Int /\ e \in Int
    OBVIOUS
  <1>2. f \in Int
    BY <1>1
  <1>3. P * (2 * kn * e) = 2 * (c * e)
    OBVIOUS
  <1>4. (2 * P - W) * kn = 2 * c - b
    OBVIOUS
  <1>5. td * ((a + (2 * c - b)) * S) = (a + (2 * c - b)) * e
    OBVIOUS
  <1>6. tn * ((2 * kd) * V) = 2 * f
    OBVIOUS
  <1>7. (b - a) * e = b * e - a * e /\ (a + (2 * c - b)) * e = a * e + 2 * (c * e) - b * e
    OBVIOUS
  <1>8. a * e \in Int /\ b * e \in Int /\ c * e \in Int
    BY <1>1
  <1> HIDE DEF a, b, c, e, f
  <1>9. P * (2 * kn * e) - ((b - a) * e + 2 * f)
          = td * ((a + (2 * P - W) * kn) * S) - tn * ((2 * kd) * V)
    BY <1>2, <1>3, <1>4, <1>5, <1>6, <1>7, <1>8
  <1>10. QED
    BY <1>9 DEF a, b, c, e, f

(* A coordinate of the display is drawn before, at or behind a place of the widget just as   *)
(* it is less than, equal to or more than what that place is scaled to.                       *)
LEMMA DrawnInOrder ==
  ASSUME NEW w \in Positive, NEW video \in Positive, NEW s \in Positive,
         NEW p \in (0 .. w[1]) \X (0 .. w[2]), NEW i \in 1 .. 2, NEW t \in Coordinate
  PROVE  LET v == render_widget_to_device(w, video, p)[i]
             u == Quotient(v.n * s[i], v.d * video[i])
             at == DrawnAt(w, video, s, t, i)
         IN  /\ Leq(at, Whole(p[i])) <=> Leq(t, u)
             /\ Leq(Whole(p[i]), at) <=> Leq(u, t)
             /\ Same(at, Whole(p[i])) <=> Same(t, u)
  <1> DEFINE q == Scale(w, video)
             v == render_widget_to_device(w, video, p)[i]
             u == Quotient(v.n * s[i], v.d * video[i])
             at == DrawnAt(w, video, s, t, i)
  <1>1. /\ w[1] \in Nat /\ w[2] \in Nat /\ w[i] \in Int
        /\ video[1] \in Nat /\ video[2] \in Nat /\ video[i] \in Int
        /\ s[i] \in Int /\ p[i] \in Int
    <2>1. p[1] \in Int /\ p[2] \in Int
      BY PositivePair
    <2>2. i = 1 \/ i = 2
      OBVIOUS
    <2>3. QED
      BY <2>1, <2>2, PositivePair
  <1>2. q.n \in Int /\ q.d \in Int
    BY <1>1 DEF Scale, Quotient
  <1>3. /\ v.n = video[i] * q.d + (2 * p[i] - w[i]) * q.n /\ v.d = 2 * q.d
        /\ u.n = v.n * s[i] /\ u.d = v.d * video[i]
        /\ at.n = (w[i] * q.n - video[i] * q.d) * (t.d * s[i]) + 2 * (t.n * (video[i] * q.d))
        /\ at.d = 2 * q.n * (t.d * s[i])
        /\ Whole(p[i]).n = p[i] /\ Whole(p[i]).d = 1
    BY DEF render_widget_to_device, Quotient, DrawnAt, Whole
  <1>4. t.n \in Int /\ t.d \in Int
    BY Fields
  <1> HIDE DEF q, v, u, at
  <1>5. PICK W \in Int, V \in Int, S \in Int, P \in Int, kn \in Int, kd \in Int, tn \in Int,
             td \in Int :
          /\ W = w[i] /\ V = video[i] /\ S = s[i] /\ P = p[i] /\ kn = q.n /\ kd = q.d
          /\ tn = t.n /\ td = t.d
    BY <1>1, <1>2, <1>4
  <1>6. P * at.d - at.n = td * u.n - tn * u.d
    <2>1. P * (2 * kn * (td * S)) - ((W * kn - V * kd) * (td * S) + 2 * (tn * (V * kd)))
            = td * ((V * kd + (2 * P - W) * kn) * S) - tn * ((2 * kd) * V)
      BY WaysAgree
    <2>2. /\ at.n = (W * kn - V * kd) * (td * S) + 2 * (tn * (V * kd))
          /\ at.d = 2 * kn * (td * S)
          /\ u.n = (V * kd + (2 * P - W) * kn) * S /\ u.d = (2 * kd) * V
      BY ONLY <1>3, <1>5
    <2>3. QED
      BY ONLY <2>1, <2>2, Zenon
  <1>7. at.n \in Int /\ at.d \in Int /\ u.n \in Int /\ u.d \in Int
    <2>1. \A x, y \in Int : x * y \in Int /\ x - y \in Int /\ x + y \in Int
      OBVIOUS
    <2>2. v.n \in Int /\ v.d \in Int
      BY <1>3, <1>5, <2>1
    <2>3. u.n \in Int /\ u.d \in Int
      BY <1>3, <1>5, <2>1, <2>2
    <2>4. td * S \in Int /\ V * kd \in Int /\ W * kn \in Int /\ tn * (V * kd) \in Int
      BY <2>1
    <2>5. (W * kn - V * kd) * (td * S) \in Int /\ 2 * (tn * (V * kd)) \in Int
          /\ 2 * kn * (td * S) \in Int
      BY <2>1, <2>4
    <2>6. QED
      BY <1>3, <1>5, <2>1, <2>3, <2>5
  <1>8. P * at.d \in Int /\ td * u.n \in Int /\ tn * u.d \in Int /\ at.n * 1 = at.n
        /\ u.n * td = td * u.n
    BY <1>7
  <1>9. /\ at.n * 1 <= P * at.d <=> tn * u.d <= u.n * td
        /\ P * at.d <= at.n * 1 <=> u.n * td <= tn * u.d
        /\ at.n * 1 = P * at.d <=> tn * u.d = u.n * td
    BY <1>6, <1>7, <1>8
  <1>10. QED
    BY <1>3, <1>5, <1>9 DEF Leq, Same, v, u, at

(* A point that is scaled exactly is drawn where it came from; the last pixel is drawn up to  *)
(* the border of the picture.                                                                 *)
LEMMA ScaledIsShown ==
  ASSUME NEW w \in Positive, NEW video \in Positive, NEW s \in Positive,
         NEW p \in (0 .. w[1]) \X (0 .. w[2]),
         OnVideo(video, render_widget_to_device(w, video, p))
  PROVE  Shows(w, video, s, p, injectTouch(render_widget_to_device(w, video, p), s, video))
  <1> SUFFICES ASSUME NEW i \in 1 .. 2
               PROVE  LET t == injectTouch(render_widget_to_device(w, video, p), s, video)
                      IN  \/ Same(DrawnAt(w, video, s, t[i], i), Whole(p[i]))
                          \/ /\ t[i] = Whole(s[i] - 1)
                             /\ Leq(DrawnAt(w, video, s, t[i], i), Whole(p[i]))
                             /\ Leq(Whole(p[i]), DrawnAt(w, video, s, Whole(s[i]), i))
    BY DEF Shows
  <1> DEFINE v == render_widget_to_device(w, video, p)[i]
             u == Quotient(v.n * s[i], v.d * video[i])
             t == scale(v, s[i], video[i], s[i])
  <1>1. v \in Coordinate
    BY PointerCoordinates
  <1>2. s[i] \in Nat /\ s[i] >= 1 /\ video[i] \in Nat /\ video[i] >= 1
    BY PositivePair
  <1>3. Leq(Whole(0), v) /\ Leq(v, Whole(video[i]))
    BY DEF OnVideo
  <1>4. injectTouch(render_widget_to_device(w, video, p), s, video)[i] = t
    BY DEF injectTouch
  <1>5. \A c \in Coordinate :
          /\ Leq(DrawnAt(w, video, s, c, i), Whole(p[i])) <=> Leq(c, u)
          /\ Leq(Whole(p[i]), DrawnAt(w, video, s, c, i)) <=> Leq(u, c)
          /\ Same(DrawnAt(w, video, s, c, i), Whole(p[i])) <=> Same(c, u)
    BY DrawnInOrder
  <1> HIDE DEF v
  <1>6. u \in Coordinate /\ u.n = v.n * s[i] /\ u.d = v.d * video[i]
    BY <1>1, <1>2, ScaledCoordinate
  <1>7. \A m \in Int : Whole(m) \in Coordinate
    BY DEF Whole, Quotient, Coordinate
  <1>8. t = u \/ (t = Whole(0) /\ Same(t, u)) \/ (t = Whole(s[i] - 1) /\ ~Leq(u, t))
    BY <1>1, <1>2, <1>3, ScaleIsExact
  <1>9. Same(u, u)
    BY <1>6, <1>7, WholeOrder
  <1>10. Leq(u, Whole(s[i]))
    <2>1. PICK n \in Int, d \in Nat, S \in Nat, V \in Nat :
            n = v.n /\ d = v.d /\ S = s[i] /\ V = video[i]
      BY <1>1, <1>2, Fields
    <2>2. V \in Int /\ n <= V * d
      BY <1>1, <1>3, <2>1, WholeOrder
    <2>3. n * S <= (V * d) * S
      <3>1. V * d \in Int
        OBVIOUS
      <3>2. QED
        BY <2>2, <3>1, Products
    <2>4. (V * d) * S = S * (d * V)
      OBVIOUS
    <2>5. S \in Int /\ u.n <= S * u.d
      BY <1>6, <2>1, <2>3, <2>4
    <2>6. QED
      BY <1>6, <2>1, <2>5, WholeOrder
  <1>11. ASSUME NEW m \in Int, ~Leq(u, Whole(m)) PROVE Leq(Whole(m), u)
    <2>1. PICK n \in Int, d \in Nat : n = u.n /\ d = u.d
      BY <1>6, Fields
    <2>2. m * d \in Int /\ ~(n <= m * d)
      BY <1>6, <1>11, <2>1, WholeOrder
    <2>3. m * u.d <= u.n
      BY <2>1, <2>2
    <2>4. QED
      BY <1>6, <2>3, WholeOrder
  <1> HIDE DEF u, t
  <1>12. CASE t = u \/ (t = Whole(0) /\ Same(t, u))
    <2>1. t \in Coordinate /\ Same(t, u)
      BY <1>6, <1>7, <1>9, <1>12
    <2>2. QED
      BY <1>4, <1>5, <2>1
  <1>13. CASE t = Whole(s[i] - 1) /\ ~Leq(u, t)
    <2>1. s[i] - 1 \in Int /\ s[i] \in Int
      BY <1>2
    <2>2. t \in Coordinate /\ Leq(t, u) /\ Whole(s[i]) \in Coordinate
      BY <1>7, <1>11, <1>13, <2>1
    <2>3. QED
      BY <1>4, <1>5, <1>10, <1>13, <2>2
  <1>14. QED
    BY <1>8, <1>12, <1>13

(* Every touch on the picture of a display that has come to rest is precise. *)
LEMMA TouchIsPrecise == IInv /\ ShownHasSize /\ ShownIsScaledFor => TouchesArePrecise
  <1> SUFFICES ASSUME IInv, ShownHasSize, ShownIsScaledFor, shown.gen > 0, conf = display,
                      NEW w \in Widgets, NEW p \in (0 .. w[1]) \X (0 .. w[2]),
                      OnVideo(shown.size, render_widget_to_device(w, shown.size, p))
               PROVE  LET v == render_widget_to_device(w, shown.size, p)
                          t == injectTouch(v, conf, VideoSize(conf))
                      IN  /\ OnDisplay(t, display)
                          /\ shown.gen = gen /\ enc \in {"loop", "write"} =>
                               Shows(w, shown.size, built, p, t)
    BY DEF TouchesArePrecise
  <1> DEFINE v == render_widget_to_device(w, shown.size, p)
             video == VideoSize(conf)
             t == injectTouch(v, conf, video)
  <1>1. w \in Positive /\ conf \in Positive /\ video \in Positive /\ shown.size \in Positive
    BY StateSizes, ShapesAssumption
  <1>2. ASSUME NEW i \in 1 .. 2
        PROVE  Leq(Whole(0), t[i]) /\ Leq(t[i], Whole(conf[i] - 1))
    <2>1. v[i] \in Coordinate
      BY <1>1, PointerCoordinates
    <2>2. conf[i] \in Nat /\ conf[i] >= 1 /\ video[i] \in Nat /\ video[i] >= 1
      <3> HIDE DEF video
      <3>1. QED
        BY <1>1, PositivePair
    <2>3. t[i] = scale(v[i], conf[i], video[i], conf[i])
      BY DEF injectTouch
    <2> HIDE DEF v, video, t
    <2>4. conf[i] <= conf[i]
      BY <2>2
    <2>5. QED
      BY <2>1, <2>2, <2>3, <2>4, ScaleIsBounded
  <1>3. ASSUME shown.gen = gen, enc \in {"loop", "write"}
        PROVE  Shows(w, shown.size, built, p, t)
    <2>1. built = conf /\ shown.size = video
      BY <1>3 DEF IInv, BufferInHand, ShownIsScaledFor
    <2>2. Shows(w, shown.size, conf, p, injectTouch(v, conf, shown.size))
      BY <1>1, ScaledIsShown
    <2>3. QED
      BY <2>1, <2>2
  <1>4. QED
    BY <1>2, <1>3 DEF OnDisplay

(* A touch that meets a change of the sizes has coordinates of the old or the new display. *)
LEMMA TornTouchIsBounded == IInv /\ ShownHasSize => TornTouchesAreBounded
  <1> SUFFICES ASSUME IInv, ShownHasSize, shown.gen > 0, NEW n \in Interleavings
               PROVE  LET corner == <<Whole(shown.size[1]), Whole(shown.size[2])>>
                          t == TornTouch(corner, n, conf, VideoSize(conf),
                                         display, VideoSize(display))
                      IN  \A i \in 1 .. 2 :
                            /\ Leq(Whole(0), t[i])
                            /\ Leq(t[i], Whole(Max({conf[i], display[i]}) - 1))
    BY DEF TornTouchesAreBounded
  <1> DEFINE corner == <<Whole(shown.size[1]), Whole(shown.size[2])>>
             a == VideoSize(conf)
             b == VideoSize(display)
             t == TornTouch(corner, n, conf, a, display, b)
  <1>1. /\ conf \in Positive /\ display \in Positive /\ a \in Positive /\ b \in Positive
        /\ shown.size \in Positive
    BY StateSizes
  <1> HIDE DEF a, b
  <1>2. ASSUME NEW i \in 1 .. 2, NEW r, NEW q, NEW z, NEW m1, NEW m2, NEW m3
        PROVE  LET c == scale(Whole(shown.size[i]), Sees(r, m1, conf[i], display[i]),
                              Sees(q, m2, a[i], b[i]), Sees(z, m3, conf[i], display[i]))
               IN  Leq(Whole(0), c) /\ Leq(c, Whole(Max({conf[i], display[i]}) - 1))
    <2> DEFINE device == Sees(r, m1, conf[i], display[i])
               video == Sees(q, m2, a[i], b[i])
               bound == Sees(z, m3, conf[i], display[i])
               side == Max({conf[i], display[i]})
    <2>1. /\ conf[i] \in Nat /\ conf[i] >= 1 /\ display[i] \in Nat /\ display[i] >= 1
          /\ a[i] \in Nat /\ a[i] >= 1 /\ b[i] \in Nat /\ b[i] >= 1 /\ shown.size[i] \in Nat
      BY <1>1, PositivePair
    <2>2. side = (IF conf[i] >= display[i] THEN conf[i] ELSE display[i])
      BY <2>1, MaxOfTwo
    <2>3. /\ device \in {conf[i], display[i]} /\ bound \in {conf[i], display[i]}
          /\ video \in {a[i], b[i]}
      BY DEF Sees
    <2> HIDE DEF device, video, bound, side
    <2>4. /\ device \in Nat /\ video \in Nat /\ video >= 1 /\ bound \in Nat /\ bound >= 1
          /\ side \in Nat /\ bound <= side
      BY <2>1, <2>2, <2>3
    <2>5. Whole(shown.size[i]) \in Coordinate
      BY <2>1 DEF Whole, Quotient, Coordinate
    <2>6. QED
      BY <2>4, <2>5, ScaleIsBounded DEF device, video, bound, side
  <1>3. /\ t[1] = scale(Whole(shown.size[1]), Sees(n[1], 1, conf[1], display[1]),
                        Sees(n[2], 3, a[1], b[1]), Sees(n[3], 1, conf[1], display[1]))
        /\ t[2] = scale(Whole(shown.size[2]), Sees(n[4], 2, conf[2], display[2]),
                        Sees(n[5], 4, a[2], b[2]), Sees(n[6], 2, conf[2], display[2]))
    BY DEF TornTouch
  <1> HIDE DEF t
  <1>4. /\ Leq(Whole(0), t[1]) /\ Leq(t[1], Whole(Max({conf[1], display[1]}) - 1))
        /\ Leq(Whole(0), t[2]) /\ Leq(t[2], Whole(Max({conf[2], display[2]}) - 1))
    <2>1. 1 \in 1 .. 2 /\ 2 \in 1 .. 2
      OBVIOUS
    <2>2. PICK c : c = scale(Whole(shown.size[1]), Sees(n[1], 1, conf[1], display[1]),
                             Sees(n[2], 3, a[1], b[1]), Sees(n[3], 1, conf[1], display[1]))
      OBVIOUS
    <2>3. Leq(Whole(0), c) /\ Leq(c, Whole(Max({conf[1], display[1]}) - 1))
      BY ONLY <1>2, <2>1, <2>2, Zenon
    <2>4. PICK e : e = scale(Whole(shown.size[2]), Sees(n[4], 2, conf[2], display[2]),
                             Sees(n[5], 4, a[2], b[2]), Sees(n[6], 2, conf[2], display[2]))
      OBVIOUS
    <2>5. Leq(Whole(0), e) /\ Leq(e, Whole(Max({conf[2], display[2]}) - 1))
      BY ONLY <1>2, <2>1, <2>4, Zenon
    <2>6. QED
      BY ONLY <1>3, <2>2, <2>3, <2>4, <2>5, Zenon
  <1>5. \A i \in 1 .. 2 : i = 1 \/ i = 2
    OBVIOUS
  <1>6. QED
    BY <1>4, <1>5 DEF t, a, b

(* What the user points at is what is touched, for every widget, display and limit: once   *)
(* the last turn has been noticed, a touch lies on the display, and one on a picture of the     *)
(* encoder in use meets the point that is drawn there; a touch that meets configure() has         *)
(* coordinates of the old or the new display (render_widget_to_device,                             *)
(* ControlReceiver.injectTouch, createVirtualDisplay).                                             *)
THEOREM PointerIsTrue == Spec => []PointerInv
  <1>1. IInv /\ ShownHasSize /\ ShownIsScaledFor => TouchesArePrecise /\ TornTouchesAreBounded
    BY TouchIsPrecise, TornTouchIsBounded
  <1>2. QED
    BY <1>1, ShownInSizeOfScale, ShownInvariance, PTL DEF PointerInv

=============================================================================
