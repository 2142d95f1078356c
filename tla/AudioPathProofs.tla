--------------------------- MODULE AudioPathProofs ---------------------------
(***************************************************************************)
(* Proofs about AudioPath, for every size of the ring, of packets, of the     *)
(* device's requests and of the socket: the ring loses nothing, its users      *)
(* have it as long as they use it, and ring, audio thread and callback          *)
(* together implement AudioQueue.                                               *)
(***************************************************************************)
EXTENDS AudioPath, SequenceTheorems, TLAPS

USE AudioAssumptions

(* Frames between the two offsets. *)
held == IF rd.loop = wr.loop THEN wr.off - rd.off ELSE RingSize - rd.off + wr.off

(* The cell that is i places after offset o, i at most the size of the ring. *)
Cell(o, i) == IF o + i < RingSize THEN o + i ELSE o + i - RingSize

(* Where the writer is on the same loop as the reader it is ahead of it, otherwise behind. *)
OffsetsOrdered == IF rd.loop = wr.loop THEN rd.off <= wr.off ELSE wr.off <= rd.off

(* The offsets, the counters and the cells tell the same story. *)
RingState ==
  /\ OffsetsOrdered
  /\ written = consumed + held
  /\ consumed \in Nat
  /\ rd.off = consumed % RingSize
  /\ \A i \in 0 .. held - 1 : ring[Cell(rd.off, i)] = consumed + 1 + i

(* What rb_write_blocking has acquired is free, and stays so while it copies. *)
WriterGrant ==
  /\ aud \in {"acquire", "copy", "commit"} => pending > 0
  /\ aud \in {"copy", "commit"} =>
       /\ grantW > 0 /\ grantW <= pending
       /\ grantW <= IF wr.loop = rd.loop THEN RingSize - wr.off ELSE rd.off - wr.off
  /\ aud = "commit" => \A i \in 0 .. grantW - 1 : ring[wr.off + i] = written + 1 + i

(* What audio_data_cb has acquired is filled, and stays so while it copies. *)
ReaderGrant ==
  /\ cb \in {"acquire", "copy", "commit"} => want > 0
  /\ cb \in {"copy", "commit"} =>
       /\ grantR > 0 /\ grantR <= want
       /\ grantR <= IF rd.loop = wr.loop THEN wr.off - rd.off ELSE RingSize - rd.off

(* The speaker has heard 1, 2, 3, ... *)
HeardInOrder == \A k \in 1 .. Len(heard) : heard[k] = k

(* The parts of the player that there are at each step of rc_audio_create and of  *)
(* rc_audio_destroy.                                                               *)
Built ==
  CASE aud = "meta" -> {}
    [] aud = "decoder" -> {"player"}
    [] aud = "ring" -> {"player", "decoder"}
    [] aud = "device" -> {"player", "decoder", "ring"}
    [] aud = "startDevice" -> {"player", "decoder", "ring", "device"}
    [] aud = "store" -> PlayerParts
    [] aud = "fail" -> parts \ {"started"}
    [] OTHER -> IF owned THEN PlayerParts ELSE {}

Left ==
  CASE owner = "stopDevice" -> PlayerParts
    [] owner = "closeDevice" -> {"player", "decoder", "ring", "device"}
    [] owner = "freeRing" -> {"player", "decoder", "ring"}
    [] owner = "free" -> {"player", "decoder"}
    [] owner = "freed" -> {}

Working == {"open", "shut", "join"}

PlayerState ==
  /\ aud \in {"meta", "decoder", "ring", "device", "startDevice", "store", "fail"} => ~owned
  /\ aud \in {"acquire", "copy", "commit"} => owned
  /\ owner \in Working => parts = Built
  /\ owner \notin Working => aud = "done" /\ parts = Left /\ owned = (owner # "freed")
  /\ cb \in {"acquire", "copy", "commit"} => "started" \in parts

IInv ==
  /\ TypeOK /\ RingState /\ WriterGrant /\ ReaderGrant /\ HeardInOrder
  /\ PlayerState /\ CaptureReleased

-----------------------------------------------------------------------------
(* Facts about the operators of the ring. *)

(* Division with remainder, and that the remainder is the only one. *)
LEMMA Remainder ==
  ASSUME NEW R \in Nat \ {0}, NEW a \in Nat
  PROVE  a = (a \div R) * R + (a % R) /\ a \div R \in Nat /\ a % R \in 0 .. R - 1
  OBVIOUS

(* A remainder is found by any quotient that leaves it. *)
LEMMA RemainderUnique ==
  ASSUME NEW R \in Nat \ {0}, NEW a \in Int, NEW q \in Int, NEW r \in 0 .. R - 1,
         a = q * R + r
  PROVE  a % R = r
  OBVIOUS

(* Going on by at most one turn of the ring needs no division. *)
LEMMA RemainderStep ==
  ASSUME NEW R \in Nat \ {0}, NEW a \in Nat, NEW n \in Nat, (a % R) + n < 2 * R
  PROVE  (a + n) % R = IF (a % R) + n < R THEN (a % R) + n ELSE (a % R) + n - R
  <1> DEFINE q == a \div R
             r == a % R
  <1>1. a = q * R + r /\ q \in Nat /\ r \in 0 .. R - 1
    BY Remainder
  <1> HIDE DEF q, r
  <1>2. CASE r + n < R
    <2>1. r + n \in 0 .. R - 1 /\ a + n \in Int /\ q \in Int
      BY <1>1, <1>2
    <2>2. a + n = q * R + (r + n)
      BY <1>1
    <2>3. (a + n) % R = r + n
      BY ONLY <2>1, <2>2, RemainderUnique, R \in Nat \ {0}
    <2>4. QED
      BY <1>2, <2>3 DEF r
  <1>3. CASE r + n >= R
    <2>1. r + n - R \in 0 .. R - 1 /\ a + n \in Int /\ q + 1 \in Int
      BY <1>1, <1>3 DEF r
    <2>2. (q + 1) * R = q * R + R
      BY <1>1
    <2>3. a + n = (q + 1) * R + (r + n - R)
      BY <1>1, <2>2
    <2>4. (a + n) % R = r + n - R
      BY ONLY <2>1, <2>3, RemainderUnique, R \in Nat \ {0}
    <2>5. QED
      BY <1>1, <1>3, <2>4 DEF r
  <1>4. QED
    BY <1>1, <1>2, <1>3

(* The remainder of what is at most one turn of the ring too large. *)
LEMMA SmallRemainder ==
  ASSUME NEW R \in Nat \ {0}, NEW a \in 0 .. 2 * R - 1
  PROVE  a % R = IF a < R THEN a ELSE a - R
  <1>1. 0 % R = 0
    BY RemainderUnique, 0 = 0 * R + 0
  <1>2. (0 + a) % R = IF (0 % R) + a < R THEN (0 % R) + a ELSE (0 % R) + a - R
    <2>1. 0 \in Nat /\ a \in Nat /\ (0 % R) + a < 2 * R
      BY <1>1
    <2>2. QED
      BY ONLY <2>1, RemainderStep, R \in Nat \ {0}
  <1>3. QED
    BY <1>1, <1>2

(* ma_rb_commit_read and ma_rb_commit_write move an offset within the ring, and flip the *)
(* loop flag exactly at its end.                                                         *)
LEMMA CommitMoves ==
  ASSUME NEW p \in Offsets, NEW q \in Offsets, NEW n \in Nat, p.off + n <= RingSize
  PROVE  /\ Commit(p, n) \in Offsets
         /\ p.off + n = RingSize =>
              Commit(p, n).off = 0 /\ (Commit(p, n).loop = q.loop <=> p.loop # q.loop)
         /\ p.off + n < RingSize =>
              Commit(p, n).off = p.off + n /\ (Commit(p, n).loop = q.loop <=> p.loop = q.loop)
  <1>1. p.off \in 0 .. RingSize - 1 /\ p.loop \in BOOLEAN /\ q.loop \in BOOLEAN
    BY DEF Offsets
  <1>2. CASE p.off + n = RingSize
    <2>1. Commit(p, n) = [off |-> 0, loop |-> ~p.loop]
      BY <1>2 DEF Commit
    <2>2. 0 \in 0 .. RingSize - 1
      OBVIOUS
    <2>3. Commit(p, n) \in Offsets
      BY <1>1, <2>1, <2>2 DEF Offsets
    <2>4. Commit(p, n).off = 0 /\ Commit(p, n).loop = ~p.loop
      BY <1>1, <2>1
    <2>5. Commit(p, n).loop = q.loop <=> p.loop # q.loop
      BY <1>1, <2>4, Zenon
    <2>6. QED
      BY <1>2, <2>3, <2>4, <2>5
  <1>3. CASE p.off + n < RingSize
    <2>1. Commit(p, n) = [off |-> p.off + n, loop |-> p.loop]
      BY <1>1, <1>3 DEF Commit
    <2>2. p.off + n \in 0 .. RingSize - 1
      BY <1>1, <1>3
    <2>3. QED
      BY <1>1, <1>3, <2>1, <2>2 DEF Offsets
  <1>4. QED
    BY <1>1, <1>2, <1>3

-----------------------------------------------------------------------------
(* The control part: types, and which parts of the player there are. *)

(* The type invariant by the threads that change its parts. *)
TypeServer ==
  srv \in SrvPCs /\ capture \subseteq {"recorder", "codec"} /\ emitted \in 0 .. MaxPackets
  /\ packet \in Packets
TypeSocket ==
  socket \in Seq(Packets) /\ Len(socket) <= SocketSize /\ sockOpen \in BOOLEAN
TypePlayer == aud \in AudPCs /\ parts \subseteq PlayerParts /\ owned \in BOOLEAN
TypeWriter ==
  pending \in Nat /\ wr \in Offsets /\ grantW \in 0 .. RingSize /\ written \in Nat
  /\ ring \in [0 .. RingSize - 1 -> Nat]
TypeReader ==
  /\ cb \in {"idle", "acquire", "copy", "commit", "dead"}
  /\ want \in Nat /\ rd \in Offsets /\ grantR \in 0 .. RingSize /\ heard \in Seq(Nat)
TypeOwner == running \in BOOLEAN /\ owner \in OwnerPCs

(* The type invariant in parts, each with its own lemma. *)
LEMMA TypeParts ==
  TypeOK <=> /\ TypeServer /\ TypeSocket /\ TypePlayer /\ TypeWriter /\ TypeReader
             /\ TypeOwner
  BY Zenon DEF TypeOK, TypeServer, TypeSocket, TypePlayer, TypeWriter, TypeReader, TypeOwner

(* The initial states satisfy the inductive invariant. *)
LEMMA InitInv == Init => IInv
  <1> SUFFICES ASSUME Init PROVE IInv
    OBVIOUS
  <1>1. TypeOK
    <2>1. ring \in [0 .. RingSize - 1 -> Nat] /\ 0 \in 0 .. RingSize /\ 0 \in 0 .. MaxPackets
          /\ 0 \in Nat /\ 0 \in 0 .. RingSize - 1
      BY DEF Init
    <2>2. wr \in Offsets /\ rd \in Offsets
      BY <2>1 DEF Init, Offsets
    <2>3. Len(socket) <= SocketSize /\ socket \in Seq(Packets) /\ heard \in Seq(Nat)
      BY DEF Init
    <2>4. QED
      BY <2>1, <2>2, <2>3, Zenon
      DEF Init, TypeOK, SrvPCs, AudPCs, OwnerPCs, PlayerParts, Packets
  <1>2. Len(heard) = 0 /\ consumed = 0 /\ held = 0
    BY DEF Init, consumed, held
  <1>3. 0 % RingSize = 0
    BY SmallRemainder
  <1>4. RingState
    BY <1>2, <1>3 DEF Init, RingState, OffsetsOrdered
  <1>5. WriterGrant /\ ReaderGrant /\ HeardInOrder
    BY <1>2 DEF Init, WriterGrant, ReaderGrant, HeardInOrder
  <1>6. PlayerState /\ CaptureReleased
    BY DEF Init, PlayerState, CaptureReleased, Built, Working
  <1>7. QED
    BY <1>1, <1>4, <1>5, <1>6 DEF IInv

(* Which threads change what. *)
LEMMA WhoChanges ==
  ASSUME [Next]_vars
  PROVE  /\ Server \/ UNCHANGED serverVars
         /\ SrvMeta \/ SrvWrite \/ AudMeta \/ AudPacket \/ UNCHANGED socket
         /\ OwnShut \/ LinkDown \/ UNCHANGED sockOpen
         /\ AudioThread \/ UNCHANGED <<aud, writerVars, ring>>
         /\ AudioThread \/ OwnerGoesOn \/ UNCHANGED playerVars
         /\ Callback \/ DeviceDies \/ UNCHANGED callbackVars
         /\ OwnStop \/ OwnerGoesOn \/ VideoEnds \/ UNCHANGED ownerVars
  <1> USE DEF serverVars, playerVars, writerVars, callbackVars, ownerVars, notCallback, notOwner
  <1>1. CASE Server
    BY <1>1, Zenon DEF Server, SrvPrepare, SrvMeta, SrvStart, SrvEncode, SrvWrite, SrvThrow,
                SrvWriteFails, SrvFinally
  <1>2. CASE AudioThread
    BY <1>2, Zenon DEF AudioThread, AudMeta, AudCreate, Build, AudFail, AudStore, AudLoop,
                AudPacket, AudEof, AudAcquire, AudCopy, AudCommit
  <1>3. CASE Callback \/ DeviceDies
    BY <1>3, Zenon DEF Callback, CbCall, CbAcquire, CbCopy, CbCommit, CbSilence, DeviceDies
  <1>4. CASE OwnStop \/ OwnerGoesOn \/ VideoEnds \/ LinkDown
    BY <1>4, Zenon DEF OwnStop, OwnerGoesOn, OwnShut, OwnJoin, OwnStopDevice, OwnCloseDevice,
                OwnFreeRing, OwnFree, VideoEnds, LinkDown
  <1>5. CASE UNCHANGED vars
    BY <1>5, Zenon DEF vars
  <1>6. QED
    BY <1>1, <1>2, <1>3, <1>4, <1>5 DEF Next

(* Every step preserves the type invariant. *)
LEMMA TypeStep == IInv /\ [Next]_vars => TypeOK'
  <1> SUFFICES ASSUME IInv, [Next]_vars PROVE TypeOK'
    OBVIOUS
  <1> USE DEF serverVars, playerVars, writerVars, callbackVars, ownerVars, notCallback, notOwner
  <1>t. TypeServer /\ TypeSocket /\ TypePlayer /\ TypeWriter /\ TypeReader /\ TypeOwner
    BY TypeParts DEF IInv
  <1>1. TypeServer'
    <2>1. CASE Server
      <3>1. CASE SrvEncode
        BY <1>t, <3>1 DEF TypeServer, SrvPCs, Packets, SrvEncode
      <3>2. CASE SrvPrepare
        BY <1>t, <3>2 DEF TypeServer, SrvPCs, Packets, SrvPrepare
      <3>3. CASE SrvMeta \/ SrvStart \/ SrvWrite \/ SrvThrow \/ SrvWriteFails \/ SrvFinally
        BY <1>t, <3>3, Zenon
        DEF TypeServer, SrvPCs, SrvMeta, SrvStart, SrvWrite, SrvThrow, SrvWriteFails,
            SrvFinally, Put
      <3>4. QED
        BY <2>1, <3>1, <3>2, <3>3 DEF Server
    <2>2. CASE UNCHANGED serverVars
      BY <1>t, <2>2 DEF TypeServer
    <2>3. QED
      BY <2>1, <2>2, WhoChanges
  <1>2. TypeSocket'
    <2>1. sockOpen' \in BOOLEAN
      BY <1>t, WhoChanges, Zenon DEF TypeSocket, OwnShut, LinkDown
    <2>2. CASE SrvMeta \/ SrvWrite
      BY <1>t, <2>1, <2>2 DEF TypeSocket, TypeServer, SrvMeta, SrvWrite, Put
    <2>3. CASE AudMeta \/ AudPacket
      <3>1. socket' = Tail(socket) /\ socket # <<>>
        BY <2>3 DEF AudMeta, AudPacket
      <3>2. QED
        BY <1>t, <2>1, <3>1 DEF TypeSocket
    <2>4. CASE UNCHANGED socket
      BY <1>t, <2>1, <2>4 DEF TypeSocket
    <2>5. QED
      BY <2>2, <2>3, <2>4, WhoChanges
  <1>3. TypePlayer'
    <2>1. CASE AudioThread
      BY <1>t, <2>1, Zenon
      DEF TypePlayer, AudPCs, PlayerParts, AudioThread, AudMeta, AudCreate, Build, AudFail,
          AudStore, AudLoop, AudPacket, AudEof, AudAcquire, AudCopy, AudCommit
    <2>2. CASE OwnerGoesOn
      BY <1>t, <2>2, Zenon
      DEF TypePlayer, OwnerGoesOn, OwnShut, OwnJoin, OwnStopDevice, OwnCloseDevice,
          OwnFreeRing, OwnFree
    <2>3. CASE UNCHANGED <<aud, playerVars>>
      BY <1>t, <2>3 DEF TypePlayer
    <2>4. QED
      BY <2>1, <2>2, <2>3, WhoChanges
  <1>4. TypeWriter'
    <2>1. CASE AudPacket
      BY <1>t, <2>1 DEF TypeWriter, AudPacket
    <2>2. CASE AudAcquire
      <3>1. AcquireWrite(pending) \in 0 .. RingSize
        BY <1>t, <2>2 DEF TypeWriter, TypeReader, AudAcquire, AcquireWrite, Smaller, Offsets
      <3>2. QED
        BY <1>t, <2>2, <3>1 DEF TypeWriter, AudAcquire
    <2>3. CASE AudCopy
      <3>1. ring' \in [0 .. RingSize - 1 -> Nat]
        BY <1>t, <2>3 DEF TypeWriter, AudCopy, Offsets
      <3>2. QED
        BY <1>t, <2>3, <3>1 DEF TypeWriter, AudCopy
    <2>4. CASE AudCommit
      <3>1. grantW <= pending /\ wr.off + grantW <= RingSize
        BY <1>t, <2>4 DEF TypeWriter, TypeReader, AudCommit, IInv, WriterGrant, Offsets
      <3>2. wr' \in Offsets
        BY <1>t, <2>4, <3>1, CommitMoves DEF TypeWriter, AudCommit
      <3>3. QED
        BY <1>t, <2>4, <3>1, <3>2 DEF TypeWriter, AudCommit
    <2>5. CASE UNCHANGED <<writerVars, ring>>
      BY <1>t, <2>5 DEF TypeWriter
    <2>6. QED
      BY <2>1, <2>2, <2>3, <2>4, <2>5, WhoChanges
      DEF AudioThread, AudMeta, AudCreate, Build, AudFail, AudStore, AudLoop, AudEof
  <1>5. TypeReader'
    <2>1. CASE CbCall \/ CbSilence \/ DeviceDies
      BY <1>t, <2>1 DEF TypeReader, CbCall, CbSilence, DeviceDies
    <2>2. CASE CbAcquire
      <3>1. AcquireRead(want) \in 0 .. RingSize
        BY <1>t, <2>2
        DEF TypeWriter, TypeReader, CbAcquire, AcquireRead, Smaller, Offsets, IInv, RingState,
            OffsetsOrdered
      <3>2. QED
        BY <1>t, <2>2, <3>1 DEF TypeReader, CbAcquire
    <2>3. CASE CbCopy
      <3>1. rd.off + grantR <= RingSize
        BY <1>t, <2>3
        DEF TypeWriter, TypeReader, CbCopy, IInv, ReaderGrant, RingState, OffsetsOrdered, Offsets
      <3>2. \A i \in 1 .. grantR : ring[rd.off + i - 1] \in Nat
        BY <1>t, <3>1 DEF TypeWriter, TypeReader, Offsets
      <3>3. [i \in 1 .. grantR |-> ring[rd.off + i - 1]] \in Seq(Nat)
        BY <1>t, <3>2 DEF TypeReader
      <3>4. heard' \in Seq(Nat)
        BY <1>t, <2>3, <3>3 DEF TypeReader, CbCopy
      <3>5. QED
        BY <1>t, <2>3, <3>4 DEF TypeReader, CbCopy
    <2>4. CASE CbCommit
      <3>1. grantR <= want /\ rd.off + grantR <= RingSize
        BY <1>t, <2>4
        DEF TypeWriter, TypeReader, CbCommit, IInv, ReaderGrant, RingState, OffsetsOrdered, Offsets
      <3>2. rd' \in Offsets
        BY <1>t, <2>4, <3>1, CommitMoves DEF TypeReader, CbCommit
      <3>3. QED
        BY <1>t, <2>4, <3>1, <3>2 DEF TypeReader, CbCommit
    <2>5. CASE UNCHANGED callbackVars
      BY <1>t, <2>5 DEF TypeReader
    <2>6. QED
      BY <2>1, <2>2, <2>3, <2>4, <2>5, WhoChanges DEF Callback
  <1>6. TypeOwner'
    BY <1>t, WhoChanges, Zenon
    DEF TypeOwner, OwnerPCs, OwnStop, OwnerGoesOn, OwnShut, OwnJoin, OwnStopDevice,
        OwnCloseDevice, OwnFreeRing, OwnFree, VideoEnds
  <1>7. QED
    BY <1>1, <1>2, <1>3, <1>4, <1>5, <1>6, TypeParts, PTL

(* Every step keeps the parts of the player those of the step its maker or owner is at. *)
LEMMA PlayerStep == IInv /\ [Next]_vars => PlayerState' /\ CaptureReleased'
  <1> SUFFICES ASSUME IInv, [Next]_vars PROVE PlayerState' /\ CaptureReleased'
    OBVIOUS
  <1> USE DEF serverVars, playerVars, writerVars, callbackVars, ownerVars, notCallback, notOwner
  <1>t. TypeServer /\ TypePlayer /\ TypeReader /\ TypeOwner
    BY TypeParts DEF IInv
  <1>1. CaptureReleased'
    BY WhoChanges
    DEF IInv, CaptureReleased, Server, SrvPrepare, SrvMeta, SrvStart, SrvEncode, SrvWrite,
        SrvThrow, SrvWriteFails, SrvFinally, Put
  <1>2. PlayerState'
    <2> USE <1>t DEF IInv, PlayerState, Built, Left, Working, TypePlayer, TypeReader, TypeOwner,
                     AudPCs, OwnerPCs, PlayerParts
    <2>1. CASE UNCHANGED <<aud, owned, parts, cb, owner>>
      BY <2>1
    <2>2. CASE AudMeta
      BY <2>2 DEF AudMeta
    <2>3. CASE Build("decoder", "decoder", "ring")
      BY <2>3 DEF Build
    <2>4. CASE Build("ring", "ring", "device")
      BY <2>4 DEF Build
    <2>5. CASE Build("device", "device", "startDevice")
      BY <2>5 DEF Build
    <2>6. CASE Build("startDevice", "started", "store")
      BY <2>6 DEF Build
    <2>7. CASE AudFail
      BY <2>7 DEF AudFail
    <2>8. CASE AudStore
      BY <2>8 DEF AudStore
    <2>9. CASE AudLoop \/ AudEof
      BY <2>9 DEF AudLoop, AudEof
    <2>10. CASE AudPacket
      BY <2>10 DEF AudPacket
    <2>11. CASE AudAcquire \/ AudCopy \/ AudCommit
      BY <2>11 DEF AudAcquire, AudCopy, AudCommit
    <2>12. CASE CbCall \/ CbAcquire \/ CbCopy \/ CbCommit \/ CbSilence \/ DeviceDies
      BY <2>12 DEF CbCall, CbAcquire, CbCopy, CbCommit, CbSilence, DeviceDies
    <2>13. CASE OwnStop \/ OwnShut
      BY <2>13 DEF OwnStop, OwnShut
    <2>14. CASE OwnJoin
      BY <2>14 DEF OwnJoin
    <2>15. CASE OwnStopDevice
      BY <2>15 DEF OwnStopDevice
    <2>16. CASE OwnCloseDevice
      BY <2>16 DEF OwnCloseDevice
    <2>17. CASE OwnFreeRing
      BY <2>17 DEF OwnFreeRing
    <2>18. CASE OwnFree
      BY <2>18 DEF OwnFree
    <2>19. QED
      BY ONLY [Next]_vars, <2>1, <2>2, <2>3, <2>4, <2>5, <2>6, <2>7, <2>8, <2>9, <2>10, <2>11, <2>12,
         <2>13, <2>14, <2>15, <2>16, <2>17, <2>18
      DEF Next, Server, SrvPrepare, SrvMeta, SrvStart, SrvEncode, SrvWrite, SrvThrow,
          SrvWriteFails, SrvFinally, AudioThread, AudCreate, Callback, OwnerGoesOn, VideoEnds,
          LinkDown, vars, serverVars, playerVars, writerVars, callbackVars, ownerVars, notOwner
  <1>3. QED
    BY <1>1, <1>2

-----------------------------------------------------------------------------
(* The ring part: what each step of the writer and of the reader does to it. *)

RingPart == RingState /\ WriterGrant /\ ReaderGrant /\ HeardInOrder

(* The numbers that the arguments below are about. *)
Numbers ==
  /\ wr.off \in 0 .. RingSize - 1 /\ rd.off \in 0 .. RingSize - 1
  /\ pending \in Nat /\ want \in Nat /\ written \in Nat
  /\ grantW \in 0 .. RingSize /\ grantR \in 0 .. RingSize
  /\ consumed \in Nat /\ held \in 0 .. RingSize /\ written = consumed + held

(* The numbers of the ring are within their ranges. *)
LEMMA RingNumbers ==
  ASSUME IInv
  PROVE  /\ Numbers
         /\ wr \in Offsets /\ rd \in Offsets
         /\ ring \in [0 .. RingSize - 1 -> Nat] /\ heard \in Seq(Nat)
  <1>1. /\ wr \in Offsets /\ rd \in Offsets
        /\ pending \in Nat /\ want \in Nat /\ written \in Nat
        /\ grantW \in 0 .. RingSize /\ grantR \in 0 .. RingSize
        /\ heard \in Seq(Nat) /\ ring \in [0 .. RingSize - 1 -> Nat]
    BY DEF IInv, TypeOK
  <1>2. wr.off \in 0 .. RingSize - 1 /\ rd.off \in 0 .. RingSize - 1
    BY <1>1 DEF Offsets
  <1>4. consumed \in Nat /\ written = consumed + held
    BY DEF IInv, RingState
  <1>5. held \in 0 .. RingSize
    BY <1>2 DEF IInv, RingState, OffsetsOrdered, held
  <1>6. QED
    BY <1>1, <1>2, <1>4, <1>5 DEF Numbers

(* A step that leaves the ring alone and enters no copy. *)
LEMMA RingQuiet ==
  ASSUME IInv, UNCHANGED <<ring, wr, rd, written, heard, grantW, grantR>>,
         \/ aud' = aud /\ pending' = pending
         \/ aud' \notin {"copy", "commit"} /\ (aud' = "acquire" => pending' > 0),
         \/ cb' = cb /\ want' = want
         \/ cb' \notin {"copy", "commit"} /\ cb # "commit" /\ (cb' = "acquire" => want' > 0)
  PROVE  RingPart'
  <1>1. UNCHANGED consumed
    BY DEF consumed
  <1>2. UNCHANGED held
    BY DEF held
  <1>3. RingState'
    BY <1>1, <1>2 DEF IInv, RingState, OffsetsOrdered, Cell
  <1>4. WriterGrant'
    BY DEF IInv, WriterGrant
  <1>5. ReaderGrant'
    BY DEF IInv, ReaderGrant
  <1>6. HeardInOrder'
    BY DEF IInv, HeardInOrder
  <1>7. QED
    BY <1>3, <1>4, <1>5, <1>6 DEF RingPart

(* rb_write_blocking acquires cells that are free. *)
LEMMA AudAcquireRing == ASSUME IInv, AudAcquire PROVE RingPart'
  <1> USE DEF AudAcquire, serverVars, playerVars, callbackVars, ownerVars
  <1>n. Numbers /\ wr \in Offsets /\ rd \in Offsets
    BY RingNumbers
  <1>r. ring \in [0 .. RingSize - 1 -> Nat]
    BY RingNumbers
  <1>1. UNCHANGED <<consumed, held>>
    BY DEF consumed, held
  <1>2. RingState'
    BY <1>1 DEF IInv, RingState, OffsetsOrdered, Cell
  <1>3. WriterGrant'
    <2>1. grantW' \in Nat /\ grantW' > 0 /\ grantW' <= pending
          /\ grantW' <= IF wr.loop = rd.loop THEN RingSize - wr.off ELSE rd.off - wr.off
      BY <1>n DEF Numbers, AcquireWrite, Smaller
    <2>2. QED
      BY <2>1, <1>n DEF Numbers, WriterGrant
  <1>4. ReaderGrant' /\ HeardInOrder'
    BY DEF IInv, ReaderGrant, HeardInOrder
  <1>5. QED
    BY <1>2, <1>3, <1>4 DEF RingPart

(* memcpy writes free cells only. *)
LEMMA AudCopyRing == ASSUME IInv, AudCopy PROVE RingPart'
  <1> USE DEF AudCopy, serverVars, playerVars, writerVars, callbackVars, ownerVars
  <1>n. Numbers /\ wr \in Offsets /\ rd \in Offsets
    BY RingNumbers
  <1>r. ring \in [0 .. RingSize - 1 -> Nat]
    BY RingNumbers
  <1>1. UNCHANGED <<consumed, held>>
    BY DEF consumed, held
  <1>g. /\ grantW > 0 /\ grantW <= pending
        /\ grantW <= IF wr.loop = rd.loop THEN RingSize - wr.off ELSE rd.off - wr.off
    BY DEF IInv, WriterGrant
  <1>2. ASSUME NEW i \in 0 .. held - 1
        PROVE  ring'[Cell(rd.off, i)] = consumed + 1 + i
    <2>1. Cell(rd.off, i) \in 0 .. RingSize - 1
      BY <1>2, <1>n DEF Numbers, Cell
    <2>2. Cell(rd.off, i) \notin wr.off .. wr.off + grantW - 1
      <3>1. OffsetsOrdered
        BY DEF IInv, RingState
      <3>2. CASE wr.loop = rd.loop
        BY <1>2, <1>g, <1>n, <3>1, <3>2 DEF Numbers, Cell, held, OffsetsOrdered
      <3>3. CASE wr.loop # rd.loop
        BY <1>2, <1>g, <1>n, <3>1, <3>3 DEF Numbers, Cell, held, OffsetsOrdered
      <3>4. QED
        BY <3>2, <3>3
    <2>3. ring'[Cell(rd.off, i)] = ring[Cell(rd.off, i)]
      BY <2>1, <2>2, <1>n, <1>r DEF Numbers
    <2>4. QED
      BY <1>2, <2>3 DEF IInv, RingState
  <1>3. RingState'
    BY <1>1, <1>2 DEF IInv, RingState, OffsetsOrdered, Cell
  <1>4. ASSUME NEW i \in 0 .. grantW - 1
        PROVE  ring'[wr.off + i] = written + 1 + i
    <2>1. wr.off + grantW <= RingSize
      BY <1>g, <1>n DEF Numbers
    <2>2. wr.off + i \in 0 .. RingSize - 1 /\ wr.off + i \in wr.off .. wr.off + grantW - 1
      BY <1>4, <2>1, <1>n DEF Numbers
    <2>3. ring'[wr.off + i] = written + 1 + (wr.off + i) - wr.off
      BY <2>2, <1>r
    <2>4. QED
      BY <1>4, <2>3, <1>n DEF Numbers
  <1>5. WriterGrant'
    BY <1>g, <1>4 DEF IInv, WriterGrant
  <1>6. ReaderGrant' /\ HeardInOrder'
    BY DEF IInv, ReaderGrant, HeardInOrder
  <1>7. QED
    BY <1>3, <1>5, <1>6 DEF RingPart

(* commit_write appends what was copied to what is held, and takes nothing from the reader. *)
LEMMA AudCommitOffsets ==
  ASSUME IInv, AudCommit
  PROVE  /\ held' = held + grantW /\ OffsetsOrdered'
         /\ Cell(rd.off, held) = wr.off /\ wr.off + grantW <= RingSize
         /\ \A n \in Nat :
              n <= (IF rd.loop = wr.loop THEN wr.off - rd.off ELSE RingSize - rd.off) =>
              n <= (IF rd.loop = wr'.loop THEN wr'.off - rd.off ELSE RingSize - rd.off)
  <1>n. Numbers /\ wr \in Offsets /\ rd \in Offsets
    BY RingNumbers
  <1>g. grantW <= IF wr.loop = rd.loop THEN RingSize - wr.off ELSE rd.off - wr.off
    BY DEF AudCommit, IInv, WriterGrant
  <1>o. OffsetsOrdered
    BY DEF IInv, RingState
  <1>c. wr.off + grantW <= RingSize /\ grantW \in Nat /\ grantW > 0
    <2>1. grantW > 0
      BY DEF AudCommit, IInv, WriterGrant
    <2>2. QED
      BY <1>g, <1>n, <2>1 DEF Numbers
  <1>1. /\ wr.off + grantW = RingSize => wr'.off = 0 /\ (wr'.loop = rd.loop <=> wr.loop # rd.loop)
        /\ wr.off + grantW < RingSize =>
             wr'.off = wr.off + grantW /\ (wr'.loop = rd.loop <=> wr.loop = rd.loop)
    BY <1>c, <1>n, CommitMoves DEF AudCommit
  <1>p. rd' = rd
    BY DEF AudCommit, callbackVars
  <1>2. CASE wr.loop = rd.loop
    BY <1>1, <1>2, <1>g, <1>c, <1>n, <1>o, <1>p DEF Numbers, held, OffsetsOrdered, Cell
  <1>3. CASE wr.loop # rd.loop
    BY <1>1, <1>3, <1>g, <1>c, <1>n, <1>o, <1>p DEF Numbers, held, OffsetsOrdered, Cell
  <1>4. QED
    BY <1>2, <1>3

(* A commit of the writer hands over frames that are in their cells. *)
LEMMA AudCommitRing == ASSUME IInv, AudCommit PROVE RingPart'
  <1> USE DEF AudCommit, serverVars, playerVars, callbackVars, ownerVars
  <1>n. Numbers
    BY RingNumbers
  <1>g. /\ grantW > 0 /\ grantW <= pending
        /\ \A i \in 0 .. grantW - 1 : ring[wr.off + i] = written + 1 + i
    BY DEF IInv, WriterGrant
  <1>1. UNCHANGED consumed
    BY DEF consumed
  <1>2. ASSUME NEW i \in 0 .. held' - 1
        PROVE  ring[Cell(rd.off, i)] = consumed + 1 + i
    <2>1. held' = held + grantW /\ Cell(rd.off, held) = wr.off /\ wr.off + grantW <= RingSize
      BY AudCommitOffsets
    <2>2. CASE i < held
      BY <1>2, <1>n, <2>2 DEF Numbers, IInv, RingState
    <2>3. CASE i >= held
      <3>1. i - held \in 0 .. grantW - 1 /\ held + 1 + (i - held) = 1 + i
        BY ONLY <1>2, <1>n, <2>1, <2>3 DEF Numbers
      <3>2. Cell(rd.off, i) = wr.off + (i - held)
        BY ONLY AudioAssumptions, <1>2, <1>n, <2>1, <2>3, <3>1 DEF Numbers, Cell
      <3>3. ring[Cell(rd.off, i)] = written + 1 + (i - held)
        BY <1>g, <3>1, <3>2
      <3>4. QED
        BY ONLY <1>n, <3>1, <3>3, <1>2, <2>1 DEF Numbers
    <2>4. QED
      BY ONLY <1>2, <2>1, <2>2, <2>3, <1>n DEF Numbers
  <1>3. RingState'
    <2>1. OffsetsOrdered' /\ held' = held + grantW
      BY AudCommitOffsets
    <2>2. written' = consumed' + held'
      BY <1>1, <1>n, <2>1 DEF Numbers
    <2>3. consumed' \in Nat /\ rd'.off = consumed' % RingSize
      BY <1>1 DEF IInv, RingState
    <2>4. \A i \in 0 .. held' - 1 : ring'[Cell(rd'.off, i)] = consumed' + 1 + i
      BY <1>1, <1>2 DEF Cell
    <2>5. QED
      BY <2>1, <2>2, <2>3, <2>4 DEF RingState, Cell
  <1>4. WriterGrant'
    BY <1>g, <1>n DEF Numbers, WriterGrant
  <1>5. ReaderGrant'
    BY <1>n, AudCommitOffsets DEF Numbers, IInv, ReaderGrant
  <1>6. HeardInOrder'
    BY DEF IInv, HeardInOrder
  <1>7. QED
    BY <1>3, <1>4, <1>5, <1>6 DEF RingPart

(* audio_data_cb acquires cells that are filled. *)
LEMMA CbAcquireRing == ASSUME IInv, CbAcquire PROVE RingPart'
  <1> USE DEF CbAcquire, notCallback, serverVars, playerVars, writerVars, ownerVars
  <1>n. Numbers
    BY RingNumbers
  <1>1. UNCHANGED <<consumed, held>>
    BY DEF consumed, held
  <1>2. RingState'
    BY <1>1 DEF IInv, RingState, OffsetsOrdered, Cell
  <1>3. ReaderGrant'
    <2>1. grantR' \in Nat /\ grantR' > 0 /\ grantR' <= want
          /\ grantR' <= IF rd.loop = wr.loop THEN wr.off - rd.off ELSE RingSize - rd.off
      BY <1>n DEF Numbers, AcquireRead, Smaller
    <2>2. QED
      BY <2>1, <1>n DEF Numbers, ReaderGrant
  <1>4. WriterGrant' /\ HeardInOrder'
    BY DEF IInv, WriterGrant, HeardInOrder
  <1>5. QED
    BY <1>2, <1>3, <1>4 DEF RingPart

(* What the callback has acquired is held, in cells that lie side by side. *)
LEMMA GrantIsHeld ==
  ASSUME IInv, cb \in {"copy", "commit"}
  PROVE  /\ grantR \in Nat /\ grantR > 0 /\ grantR <= want
         /\ rd.off + grantR <= RingSize /\ grantR <= held
         /\ \A i \in 1 .. grantR : ring[rd.off + i - 1] = consumed + i
  <1>n. Numbers
    BY RingNumbers
  <1>1. /\ grantR > 0 /\ grantR <= want
        /\ grantR <= IF rd.loop = wr.loop THEN wr.off - rd.off ELSE RingSize - rd.off
    BY DEF IInv, ReaderGrant
  <1>2. OffsetsOrdered
    BY DEF IInv, RingState
  <1>3. rd.off + grantR <= RingSize /\ grantR <= held
    BY <1>n, <1>1, <1>2 DEF Numbers, OffsetsOrdered, held
  <1>4. ASSUME NEW i \in 1 .. grantR PROVE ring[rd.off + i - 1] = consumed + i
    <2>1. i - 1 \in 0 .. held - 1 /\ Cell(rd.off, i - 1) = rd.off + i - 1
          /\ consumed + 1 + (i - 1) = consumed + i
      BY <1>n, <1>3, <1>4 DEF Numbers, Cell
    <2>2. ring[Cell(rd.off, i - 1)] = consumed + 1 + (i - 1)
      BY <2>1 DEF IInv, RingState
    <2>3. QED
      BY <2>1, <2>2
  <1>5. QED
    BY <1>n, <1>1, <1>3, <1>4 DEF Numbers

(* memcpy out of the ring gives the speaker the next frames. *)
LEMMA CbCopyRing == ASSUME IInv, CbCopy PROVE RingPart' /\ consumed' = consumed
  <1> USE DEF CbCopy, notCallback, serverVars, playerVars, writerVars, ownerVars
  <1>n. Numbers
    BY RingNumbers
  <1>h. heard \in Seq(Nat)
    BY RingNumbers
  <1>g. /\ grantR \in Nat
        /\ \A i \in 1 .. grantR : ring[rd.off + i - 1] = consumed + i
    BY GrantIsHeld
  <1> DEFINE new == [i \in 1 .. grantR |-> ring[rd.off + i - 1]]
  <1>1. new \in Seq(Nat) /\ Len(new) = grantR /\ \A i \in 1 .. grantR : new[i] = consumed + i
    BY <1>n, <1>g DEF Numbers
  <1>2. heard' = heard \o new
    OBVIOUS
  <1> HIDE DEF new
  <1>3. /\ Len(heard') = Len(heard) + grantR
        /\ \A k \in 1 .. Len(heard) + grantR :
             heard'[k] = IF k <= Len(heard) THEN heard[k] ELSE new[k - Len(heard)]
    BY <1>1, <1>2, <1>h, ConcatProperties
  <1>l. Len(heard) \in Nat
    BY <1>h
  <1>4. consumed = Len(heard) /\ consumed' = consumed /\ held' = held
    BY <1>3, <1>h, <1>g DEF consumed, held
  <1>5. RingState'
    BY <1>4 DEF IInv, RingState, OffsetsOrdered, Cell
  <1>6. HeardInOrder'
    <2> SUFFICES ASSUME NEW k \in 1 .. Len(heard') PROVE heard'[k] = k
      BY DEF HeardInOrder
    <2>1. CASE k <= Len(heard)
      BY <1>3, <1>h, <2>1 DEF IInv, HeardInOrder
    <2>2. CASE k > Len(heard)
      <3>1. k \in 1 .. Len(heard) + grantR /\ k - Len(heard) \in 1 .. grantR
            /\ Len(heard) + (k - Len(heard)) = k /\ ~(k <= Len(heard))
        BY ONLY <1>3, <1>l, <1>g, <2>2, k \in 1 .. Len(heard')
      <3>2. heard'[k] = consumed + (k - Len(heard))
        BY ONLY <1>1, <1>3, <3>1
      <3>3. QED
        BY ONLY <1>4, <3>1, <3>2
    <2>3. QED
      BY ONLY <2>1, <2>2, <1>l, <1>3, <1>g, k \in 1 .. Len(heard')
  <1>7. WriterGrant' /\ ReaderGrant'
    BY DEF IInv, WriterGrant, ReaderGrant
  <1>8. QED
    BY <1>4, <1>5, <1>6, <1>7 DEF RingPart

(* commit_read drops what was copied from what is held, and takes nothing from the writer. *)
LEMMA CbCommitOffsets ==
  ASSUME IInv, CbCommit
  PROVE  /\ held' = held - grantR /\ OffsetsOrdered'
         /\ \A i \in 0 .. held' - 1 : Cell(rd'.off, i) = Cell(rd.off, i + grantR)
         /\ \A n \in Nat :
              n <= (IF wr.loop = rd.loop THEN RingSize - wr.off ELSE rd.off - wr.off) =>
              n <= (IF wr.loop = rd'.loop THEN RingSize - wr.off ELSE rd'.off - wr.off)
  <1>n. Numbers /\ wr \in Offsets /\ rd \in Offsets
    BY RingNumbers
  <1>g. grantR <= IF rd.loop = wr.loop THEN wr.off - rd.off ELSE RingSize - rd.off
    BY DEF CbCommit, IInv, ReaderGrant
  <1>o. OffsetsOrdered
    BY DEF IInv, RingState
  <1>c. rd.off + grantR <= RingSize /\ grantR \in Nat /\ grantR > 0 /\ grantR <= held
    BY GrantIsHeld DEF CbCommit
  <1>1. /\ rd.off + grantR = RingSize => rd'.off = 0 /\ (rd'.loop = wr.loop <=> rd.loop # wr.loop)
        /\ rd.off + grantR < RingSize =>
             rd'.off = rd.off + grantR /\ (rd'.loop = wr.loop <=> rd.loop = wr.loop)
    BY <1>c, <1>n, CommitMoves DEF CbCommit
  <1>p. wr' = wr
    BY DEF CbCommit, notCallback, writerVars
  <1>2. CASE wr.loop = rd.loop
    BY <1>1, <1>2, <1>g, <1>c, <1>n, <1>o, <1>p DEF Numbers, held, OffsetsOrdered, Cell
  <1>3. CASE wr.loop # rd.loop
    BY <1>1, <1>3, <1>g, <1>c, <1>n, <1>o, <1>p DEF Numbers, held, OffsetsOrdered, Cell
  <1>4. QED
    BY <1>2, <1>3

(* A commit of the reader gives back the cells it has read. *)
LEMMA CbCommitRing == ASSUME IInv, CbCommit PROVE RingPart'
  <1> USE DEF CbCommit, notCallback, serverVars, playerVars, writerVars, ownerVars
  <1>n. Numbers /\ wr \in Offsets /\ rd \in Offsets
    BY RingNumbers
  <1>h. heard \in Seq(Nat)
    BY RingNumbers
  <1>c. rd.off + grantR <= RingSize /\ grantR \in Nat /\ grantR > 0 /\ grantR <= held
        /\ grantR <= want
    BY GrantIsHeld
  <1>1. consumed' = consumed + grantR
    BY <1>h, <1>c DEF consumed
  <1>2. rd'.off = consumed' % RingSize
    <2>1. rd.off = consumed % RingSize
      BY DEF IInv, RingState
    <2>2. (consumed % RingSize) + grantR < 2 * RingSize
      BY <1>n, <1>c, <2>1 DEF Numbers
    <2>3. (consumed + grantR) % RingSize = IF rd.off + grantR < RingSize
                                             THEN rd.off + grantR ELSE rd.off + grantR - RingSize
      <3>1. consumed \in Nat /\ RingSize \in Nat \ {0}
        BY <1>n DEF Numbers
      <3>2. (consumed + grantR) % RingSize
              = IF (consumed % RingSize) + grantR < RingSize
                  THEN (consumed % RingSize) + grantR
                  ELSE (consumed % RingSize) + grantR - RingSize
        BY ONLY <3>1, <1>c, <2>2, RemainderStep
      <3>3. QED
        BY ONLY <3>2, <2>1
    <2>4. rd'.off = IF rd.off + grantR < RingSize
                      THEN rd.off + grantR ELSE rd.off + grantR - RingSize
      <3>1. /\ rd.off + grantR = RingSize => rd'.off = 0
            /\ rd.off + grantR < RingSize => rd'.off = rd.off + grantR
        BY <1>c, <1>n, CommitMoves
      <3>2. QED
        BY ONLY <3>1, <1>c, <1>n, AudioAssumptions DEF Numbers
    <2>5. QED
      BY <1>1, <2>3, <2>4
  <1>3. ASSUME NEW i \in 0 .. held' - 1
        PROVE  ring[Cell(rd'.off, i)] = consumed' + 1 + i
    <2>1. held' = held - grantR /\ Cell(rd'.off, i) = Cell(rd.off, i + grantR)
      BY <1>3, CbCommitOffsets
    <2>2. i + grantR \in 0 .. held - 1 /\ consumed + 1 + (i + grantR) = consumed + grantR + 1 + i
      BY ONLY <1>3, <2>1, <1>n, <1>c DEF Numbers
    <2>3. ring[Cell(rd.off, i + grantR)] = consumed + 1 + (i + grantR)
      BY <2>2 DEF IInv, RingState
    <2>4. QED
      BY <1>1, <2>1, <2>2, <2>3
  <1>4. RingState'
    <2>1. OffsetsOrdered' /\ held' = held - grantR
      BY CbCommitOffsets
    <2>2. written' = consumed' + held' /\ consumed' \in Nat
      BY <1>1, <1>n, <1>c, <2>1 DEF Numbers
    <2>3. \A i \in 0 .. held' - 1 : ring'[Cell(rd'.off, i)] = consumed' + 1 + i
      BY <1>3
    <2>4. QED
      BY <1>2, <2>1, <2>2, <2>3 DEF RingState, Cell
  <1>5. WriterGrant'
    BY <1>n, CbCommitOffsets DEF Numbers, IInv, WriterGrant
  <1>6. ReaderGrant'
    BY <1>n, <1>c DEF Numbers, ReaderGrant
  <1>7. HeardInOrder'
    BY DEF IInv, HeardInOrder
  <1>8. QED
    BY <1>4, <1>5, <1>6, <1>7 DEF RingPart

(* Every step keeps the story of the ring. *)
LEMMA RingStep == IInv /\ [Next]_vars => RingPart'
  <1> SUFFICES ASSUME IInv, [Next]_vars PROVE RingPart'
    OBVIOUS
  <1> USE DEF serverVars, playerVars, writerVars, callbackVars, ownerVars, notCallback, notOwner
  <1>1. CASE Server \/ OwnStop \/ OwnerGoesOn \/ VideoEnds \/ LinkDown \/ UNCHANGED vars
    <2>1. UNCHANGED <<ring, wr, rd, written, heard, grantW, grantR, aud, pending, cb, want>>
      BY <1>1, Zenon
      DEF Server, SrvPrepare, SrvMeta, SrvStart, SrvEncode, SrvWrite, SrvThrow, SrvWriteFails,
          SrvFinally, OwnStop, OwnerGoesOn, OwnShut, OwnJoin, OwnStopDevice, OwnCloseDevice,
          OwnFreeRing, OwnFree, VideoEnds, LinkDown, vars
    <2>2. QED
      BY <2>1, RingQuiet
  <1>2. CASE AudMeta \/ AudCreate \/ AudFail \/ AudStore \/ AudLoop \/ AudPacket \/ AudEof
    <2>1. /\ UNCHANGED <<ring, wr, rd, written, heard, grantW, grantR, cb, want>>
          /\ aud' \notin {"copy", "commit"} /\ (aud' = "acquire" => pending' > 0)
      BY <1>2, Zenon
      DEF AudMeta, AudCreate, Build, AudFail, AudStore, AudLoop, AudPacket, AudEof
    <2>2. QED
      BY <2>1, RingQuiet
  <1>3. CASE CbCall \/ CbSilence \/ DeviceDies
    <2>1. /\ UNCHANGED <<ring, wr, rd, written, heard, grantW, grantR, aud, pending>>
          /\ cb' \notin {"copy", "commit"} /\ cb # "commit" /\ (cb' = "acquire" => want' > 0)
      <3>1. \A n \in Pulls : n > 0
        OBVIOUS
      <3>2. QED
        BY <1>3, <3>1, Zenon DEF CbCall, CbSilence, DeviceDies
    <2>2. QED
      BY <2>1, RingQuiet
  <1>4. QED
    BY <1>1, <1>2, <1>3, AudAcquireRing, AudCopyRing, AudCommitRing, CbAcquireRing, CbCopyRing,
       CbCommitRing
    DEF Next, AudioThread, Callback

(* The inductive invariant holds in every reachable state. *)
LEMMA Invariance == Spec => []IInv
  <1>1. IInv /\ [Next]_vars => IInv'
    BY TypeStep, PlayerStep, RingStep DEF IInv, RingPart
  <1>2. QED
    BY <1>1, InitInv, PTL DEF Spec

-----------------------------------------------------------------------------
(* Whatever the sizes of ring, packets and requests, what is written to the ring and     *)
(* not yet read is in its cell: rb_write_blocking and audio_data_cb do not disturb each   *)
(* other.                                                                                 *)
THEOREM RingLosesNothing == Spec => []RingInv
  <1>1. IInv => RingInv
    <2> SUFFICES ASSUME IInv PROVE RingInv
      OBVIOUS
    <2>n. Numbers
      BY RingNumbers
    <2>1. ASSUME NEW k \in consumed + 1 .. written
          PROVE  ring[(k - 1) % RingSize] = k
      <3> DEFINE i == k - 1 - consumed
      <3>1. i \in 0 .. held - 1 /\ i \in Nat /\ consumed + i = k - 1 /\ consumed + 1 + i = k
        BY <2>1, <2>n DEF Numbers
      <3>2. rd.off = consumed % RingSize /\ ring[Cell(rd.off, i)] = consumed + 1 + i
        BY <3>1 DEF IInv, RingState
      <3> HIDE DEF i
      <3>3. consumed \in Nat /\ RingSize \in Nat \ {0} /\ (consumed % RingSize) + i < 2 * RingSize
        BY <2>n, <3>1, <3>2 DEF Numbers
      <3>4. (consumed + i) % RingSize = IF (consumed % RingSize) + i < RingSize
                                          THEN (consumed % RingSize) + i
                                          ELSE (consumed % RingSize) + i - RingSize
        BY ONLY <3>1, <3>3, RemainderStep
      <3>5. (k - 1) % RingSize = Cell(rd.off, i)
        BY ONLY <3>1, <3>2, <3>4 DEF Cell
      <3>6. QED
        BY ONLY <3>1, <3>2, <3>5
    <2>2. written - consumed <= RingSize
      BY <2>n DEF Numbers
    <2>3. QED
      BY <2>1, <2>2 DEF RingInv, UnreadIsKept, IInv
  <1>2. QED
    BY <1>1, Invariance, PTL

(* Neither the callback nor the audio thread uses a ring or a player outside its life,    *)
(* and nothing is left of the player after rc_client_stop nor of recorder and encoder      *)
(* after runAudio.                                                                        *)
THEOREM LifetimesAreKept == Spec => []LifetimesHold
  <1>1. IInv => LifetimesHold
    <2> SUFFICES ASSUME IInv PROVE LifetimesHold
      OBVIOUS
    <2>1. TypePlayer /\ TypeReader /\ TypeOwner
      BY TypeParts DEF IInv
    <2>2. UsersHavePlayer
      BY <2>1 DEF IInv, PlayerState, Built, Left, Working, TypePlayer, TypeReader, TypeOwner,
                  AudPCs, OwnerPCs, PlayerParts, UsersHavePlayer
    <2>3. NoPlayerLeft
      BY <2>1 DEF IInv, PlayerState, Left, Working, TypeOwner, OwnerPCs, NoPlayerLeft
    <2>4. QED
      BY <2>2, <2>3 DEF LifetimesHold, IInv
  <1>2. QED
    BY <1>1, Invariance, PTL

-----------------------------------------------------------------------------
(* The refinement.  Queue and played frames are runs of consecutive numbers, so the steps *)
(* of AudioQueue come down to facts about runs.                                            *)

Run(a, n) == [i \in 1 .. n |-> a + i]

(* A run of consecutive numbers is a sequence. *)
LEMMA RunIsSeq ==
  ASSUME NEW a \in Nat, NEW n \in Nat
  PROVE  /\ Run(a, n) \in Seq(Nat) /\ Len(Run(a, n)) = n
         /\ \A i \in 1 .. n : Run(a, n)[i] = a + i
  BY DEF Run

(* A sequence of consecutive numbers is a run. *)
LEMMA RunEqual ==
  ASSUME NEW a \in Nat, NEW n \in Nat, NEW s \in Seq(Nat), Len(s) = n,
         \A i \in 1 .. n : s[i] = a + i
  PROVE  s = Run(a, n)
  <1>1. Run(a, n) \in Seq(Nat) /\ Len(Run(a, n)) = n /\ \A i \in 1 .. n : Run(a, n)[i] = a + i
    BY RunIsSeq
  <1>2. \A i \in 1 .. Len(s) : s[i] = Run(a, n)[i]
    BY <1>1
  <1>3. QED
    BY ONLY <1>1, <1>2, SeqEqual, s \in Seq(Nat), Len(s) = n

(* A run goes on where another ends. *)
LEMMA RunConcat ==
  ASSUME NEW a \in Nat, NEW n \in Nat, NEW m \in Nat
  PROVE  Run(a, n) \o Run(a + n, m) = Run(a, n + m)
  <1> DEFINE s == Run(a, n) \o Run(a + n, m)
  <1>0. a + n \in Nat /\ n + m \in Nat
    OBVIOUS
  <1>1. /\ Run(a, n) \in Seq(Nat) /\ Len(Run(a, n)) = n
        /\ Run(a + n, m) \in Seq(Nat) /\ Len(Run(a + n, m)) = m
        /\ \A i \in 1 .. n : Run(a, n)[i] = a + i
        /\ \A i \in 1 .. m : Run(a + n, m)[i] = a + n + i
    BY ONLY <1>0, RunIsSeq, a \in Nat, n \in Nat, m \in Nat
  <1>2. /\ s \in Seq(Nat) /\ Len(s) = n + m
        /\ \A i \in 1 .. n + m : s[i] = IF i <= n THEN Run(a, n)[i] ELSE Run(a + n, m)[i - n]
    <2> DEFINE r == Run(a, n)
               t == Run(a + n, m)
    <2>1. r \in Seq(Nat) /\ t \in Seq(Nat) /\ Len(r) = n /\ Len(t) = m
      BY <1>1
    <2> HIDE DEF r, t
    <2>2. /\ r \o t \in Seq(Nat) /\ Len(r \o t) = Len(r) + Len(t)
          /\ \A i \in 1 .. Len(r) + Len(t) :
               (r \o t)[i] = IF i <= Len(r) THEN r[i] ELSE t[i - Len(r)]
      BY ONLY <2>1, ConcatProperties
    <2>3. QED
      BY <2>1, <2>2 DEF r, t
  <1> HIDE DEF s
  <1>3. ASSUME NEW i \in 1 .. n + m PROVE s[i] = a + i
    <2>1. CASE i <= n
      BY <1>1, <1>2, <1>3, <2>1
    <2>2. CASE i > n
      <3>1. i - n \in 1 .. m /\ a + n + (i - n) = a + i /\ ~(i <= n)
        BY <1>3, <2>2
      <3>2. QED
        BY <1>1, <1>2, <1>3, <3>1
    <2>3. QED
      BY <1>3, <2>1, <2>2
  <1>4. s = Run(a, n + m)
    BY <1>0, <1>2, <1>3, RunEqual
  <1>5. QED
    BY <1>4 DEF s

(* Both parts of a run that is cut are runs. *)
LEMMA RunSubSeq ==
  ASSUME NEW a \in Nat, NEW n \in Nat, NEW m \in 0 .. n
  PROVE  /\ SubSeq(Run(a, n), 1, m) = Run(a, m)
         /\ SubSeq(Run(a, n), m + 1, n) = Run(a + m, n - m)
  <1>0. m \in Nat /\ n - m \in Nat /\ a + m \in Nat
    OBVIOUS
  <1>1. \A i \in 1 .. n : Run(a, n)[i] = a + i /\ a + i \in Nat
    BY RunIsSeq
  <1>2. SubSeq(Run(a, n), 1, m) = Run(a, m)
    <2> DEFINE s == SubSeq(Run(a, n), 1, m)
    <2>1. s \in Seq(Nat) /\ Len(s) = m /\ \A i \in 1 .. m : s[i] = Run(a, n)[i]
      <3>1. /\ s \in Seq(Nat) /\ Len(s) = IF 1 <= m THEN m - 1 + 1 ELSE 0
            /\ \A i \in 1 .. m - 1 + 1 : s[i] = Run(a, n)[1 + i - 1]
        BY <1>0, <1>1, SubSeqProperties
      <3> HIDE DEF s
      <3>2. QED
        BY <1>0, <3>1
    <2> HIDE DEF s
    <2>2. \A i \in 1 .. m : s[i] = a + i
      BY <1>0, <1>1, <2>1
    <2>3. s = Run(a, m)
      BY <1>0, <2>1, <2>2, RunEqual
    <2>4. QED
      BY <2>3 DEF s
  <1>3. SubSeq(Run(a, n), m + 1, n) = Run(a + m, n - m)
    <2> DEFINE s == SubSeq(Run(a, n), m + 1, n)
    <2>1. /\ s \in Seq(Nat) /\ Len(s) = n - m
          /\ \A i \in 1 .. n - m : s[i] = Run(a, n)[m + i]
      <3>1. /\ s \in Seq(Nat) /\ Len(s) = IF m + 1 <= n THEN n - (m + 1) + 1 ELSE 0
            /\ \A i \in 1 .. n - (m + 1) + 1 : s[i] = Run(a, n)[m + 1 + i - 1]
        BY <1>0, <1>1, SubSeqProperties
      <3> HIDE DEF s
      <3>2. QED
        BY <1>0, <3>1
    <2> HIDE DEF s
    <2>2. \A i \in 1 .. n - m : s[i] = a + m + i
      BY <1>0, <1>1, <2>1
    <2>3. s = Run(a + m, n - m)
      BY <1>0, <2>1, <2>2, RunEqual
    <2>4. QED
      BY <2>3 DEF s
  <1>4. QED
    BY <1>2, <1>3

(* What the queue holds and what has been played, as runs. *)
Runs == Unread = Run(consumed, held) /\ SubSeq(heard, 1, consumed) = Run(0, consumed)

(* What is in the ring, and what has been heard, are runs. *)
LEMMA RunsHold == IInv => Runs
  <1> SUFFICES ASSUME IInv PROVE Runs
    OBVIOUS
  <1>n. Numbers
    BY RingNumbers
  <1>1. Unread = Run(consumed, held)
    <2>1. ASSUME NEW i \in 1 .. held
          PROVE  ring[(rd.off + i - 1) % RingSize] = consumed + i
      <3>1. /\ rd.off + i - 1 \in 0 .. 2 * RingSize - 1 /\ RingSize \in Nat \ {0}
            /\ i - 1 \in 0 .. held - 1 /\ rd.off + (i - 1) = rd.off + i - 1
            /\ consumed + 1 + (i - 1) = consumed + i
        BY <1>n, <2>1 DEF Numbers
      <3>2. (rd.off + i - 1) % RingSize = IF rd.off + i - 1 < RingSize
                                            THEN rd.off + i - 1 ELSE rd.off + i - 1 - RingSize
        <4>1. \A a \in 0 .. 2 * RingSize - 1 : a % RingSize = IF a < RingSize THEN a ELSE a - RingSize
          BY SmallRemainder
        <4>2. rd.off \in Int /\ i \in Int
          BY <1>n, <2>1 DEF Numbers
        <4>3. QED
          BY ONLY <3>1, <4>1, <4>2
      <3>3. (rd.off + i - 1) % RingSize = Cell(rd.off, i - 1)
        BY ONLY <3>1, <3>2 DEF Cell
      <3>4. ring[Cell(rd.off, i - 1)] = consumed + 1 + (i - 1)
        BY <3>1 DEF IInv, RingState
      <3>5. QED
        BY ONLY <3>1, <3>3, <3>4
    <2>2. Unread = [i \in 1 .. held |-> ring[(rd.off + i - 1) % RingSize]]
      BY DEF Unread, held
    <2>3. QED
      BY <2>1, <2>2 DEF Run
  <1>2. SubSeq(heard, 1, consumed) = Run(0, consumed)
    <2>h. heard \in Seq(Nat)
      BY RingNumbers
    <2>1. consumed <= Len(heard)
      BY <1>n, <2>h DEF consumed, Numbers
    <2>2. SubSeq(heard, 1, consumed) = Run(0, consumed)
      <3> DEFINE s == SubSeq(heard, 1, consumed)
      <3>1. \A i \in 1 .. consumed : heard[i] = 0 + i /\ heard[i] \in Nat
        BY <1>n, <2>h, <2>1 DEF IInv, HeardInOrder, Numbers
      <3>2. consumed \in Nat /\ 0 \in Nat
        BY <1>n DEF Numbers
      <3>3. s \in Seq(Nat) /\ Len(s) = consumed /\ \A i \in 1 .. consumed : s[i] = heard[i]
        <4>1. /\ s \in Seq(Nat) /\ Len(s) = IF 1 <= consumed THEN consumed - 1 + 1 ELSE 0
              /\ \A i \in 1 .. consumed - 1 + 1 : s[i] = heard[1 + i - 1]
          BY ONLY <3>1, <3>2, SubSeqProperties
        <4> HIDE DEF s
        <4>2. QED
          BY ONLY <3>2, <4>1
      <3> HIDE DEF s
      <3>4. \A i \in 1 .. consumed : s[i] = 0 + i
        BY ONLY <3>1, <3>3
      <3>5. s = Run(0, consumed)
        BY ONLY <3>2, <3>3, <3>4, RunEqual
      <3>6. QED
        BY <3>5 DEF s
    <2>3. QED
      BY <2>2
  <1>3. QED
    BY <1>1, <1>2 DEF Runs

asked == IF cb \in {"acquire", "copy", "commit"} THEN want ELSE 0

(* Initial states are initial states of the queue. *)
LEMMA InitMaps == Init => Queue!Init
  <1> SUFFICES ASSUME Init PROVE Queue!Init
    OBVIOUS
  <1>1. Unread = <<>> /\ SubSeq(heard, 1, consumed) = <<>>
    <2>1. Len(heard) = 0 /\ consumed = 0 /\ held = 0
      BY DEF Init, consumed, held
    <2>2. Runs
      BY InitInv, RunsHold
    <2>3. Run(0, 0) = <<>>
      BY DEF Run
    <2>4. QED
      BY <2>1, <2>2, <2>3 DEF Runs
  <1>2. QED
    BY <1>1 DEF Init, Queue!Init

(* commit_write is the producer's step. *)
LEMMA AudCommitMaps ==
  ASSUME IInv, Runs, Numbers', Runs', AudCommit
  PROVE  \E n \in 1 .. RingSize : Queue!Produce(n)
  <1>n. Numbers
    BY RingNumbers
  <1>1. held' = held + grantW
    BY AudCommitOffsets
  <1>2. consumed' = consumed /\ written' = written + grantW /\ heard' = heard /\ asked' = asked
        /\ grantW > 0
    BY DEF AudCommit, consumed, asked, callbackVars, IInv, WriterGrant
  <1>3. Unread' = Unread \o Run(written, grantW)
    <2>1. consumed \in Nat /\ held \in Nat /\ grantW \in Nat /\ written = consumed + held
      BY <1>n DEF Numbers
    <2>2. Run(consumed, held) \o Run(consumed + held, grantW) = Run(consumed, held + grantW)
      BY ONLY <2>1, RunConcat
    <2>3. QED
      BY <1>1, <1>2, <2>1, <2>2 DEF Runs
  <1>4. Len(Unread) = held
    BY <1>n, RunIsSeq DEF Runs, Numbers
  <1>5. grantW \in 1 .. RingSize /\ grantW + Len(Unread) <= RingSize
    <2>1. held + grantW \in 0 .. RingSize
      BY <1>1 DEF Numbers
    <2>2. QED
      BY <1>2, <1>4, <1>n, <2>1 DEF Numbers
  <1>6. Queue!Produce(grantW)
    BY <1>2, <1>3, <1>5 DEF Queue!Produce, Run, asked
  <1>7. QED
    BY <1>5, <1>6

(* commit_read is the step that plays. *)
LEMMA CbCommitMaps ==
  ASSUME IInv, Runs, Runs', CbCommit
  PROVE  \E n \in 1 .. RingSize : Queue!Play(n)
  <1>n. Numbers
    BY RingNumbers
  <1>c. grantR \in Nat /\ grantR > 0 /\ grantR <= want /\ grantR <= held
    BY GrantIsHeld DEF CbCommit
  <1>h. heard \in Seq(Nat)
    BY RingNumbers
  <1>1. held' = held - grantR
    BY CbCommitOffsets
  <1>2. consumed' = consumed + grantR
    BY <1>h, <1>c DEF consumed, CbCommit
  <1>t. consumed \in Nat /\ held \in Nat /\ grantR \in 0 .. held /\ 0 \in Nat
        /\ 0 + consumed = consumed
    BY <1>n, <1>c DEF Numbers
  <1>3. SubSeq(Unread, 1, grantR) = Run(consumed, grantR)
        /\ SubSeq(Unread, grantR + 1, held) = Run(consumed + grantR, held - grantR)
    <2>1. SubSeq(Run(consumed, held), 1, grantR) = Run(consumed, grantR)
          /\ SubSeq(Run(consumed, held), grantR + 1, held) = Run(consumed + grantR, held - grantR)
      BY ONLY <1>t, RunSubSeq
    <2>2. QED
      BY <2>1 DEF Runs
  <1>4. Len(Unread) = held
    BY <1>t, RunIsSeq DEF Runs
  <1>5. Unread' = SubSeq(Unread, grantR + 1, Len(Unread))
    BY <1>1, <1>2, <1>3, <1>4 DEF Runs
  <1>6. SubSeq(heard, 1, consumed)' = SubSeq(heard, 1, consumed) \o SubSeq(Unread, 1, grantR)
    <2>1. Run(0, consumed) \o Run(0 + consumed, grantR) = Run(0, consumed + grantR)
      BY ONLY <1>t, <1>c, RunConcat
    <2>2. QED
      BY <1>2, <1>3, <1>t, <2>1 DEF Runs
  <1>7. asked = want /\ asked' = want - grantR
    <2>1. want - grantR \in Nat
      BY <1>n, <1>c DEF Numbers
    <2>2. QED
      BY <2>1 DEF CbCommit, asked
  <1>8. written' = written
    BY DEF CbCommit, notCallback, writerVars
  <1>9. Queue!Play(grantR)
    BY <1>4, <1>5, <1>6, <1>7, <1>8, <1>c DEF Queue!Play, asked
  <1>10. QED
    BY <1>9, <1>c, <1>n DEF Numbers

(* A callback finds nothing only when everything written has been played. *)
LEMMA CbSilenceMaps ==
  ASSUME IInv, Runs, Runs', CbSilence
  PROVE  Queue!Silence
  <1>n. Numbers
    BY RingNumbers
  <1>1. want > 0 /\ asked = want /\ asked' = 0
    BY DEF CbSilence, IInv, ReaderGrant, asked
  <1>2. held = 0
    <2>1. AcquireRead(want) = 0
      BY DEF CbSilence
    <2>2. OffsetsOrdered
      BY DEF IInv, RingState
    <2>3. QED
      BY <1>n, <1>1, <2>1, <2>2 DEF Numbers, AcquireRead, Smaller, held, OffsetsOrdered
  <1>3. UNCHANGED <<consumed, held, written>>
    BY DEF CbSilence, consumed, held, notCallback, writerVars
  <1>4. Unread = <<>> /\ UNCHANGED <<Unread, SubSeq(heard, 1, consumed)>>
    <2>1. Run(consumed, 0) = <<>>
      BY DEF Run
    <2>2. QED
      BY <1>2, <1>3, <2>1 DEF Runs
  <1>5. QED
    BY <1>1, <1>3, <1>4 DEF Queue!Silence, asked

(* Every step is a step of the queue or leaves it unchanged. *)
LEMMA NextMaps == IInv /\ IInv' /\ [Next]_vars => [Queue!Next]_(Queue!vars)
  <1> SUFFICES ASSUME IInv, IInv', [Next]_vars PROVE [Queue!Next]_(Queue!vars)
    OBVIOUS
  <1> USE DEF serverVars, playerVars, writerVars, callbackVars, ownerVars, notCallback, notOwner
  <1>r. Runs /\ Runs'
    BY RunsHold, PTL
  <1>m. Numbers'
    BY RingNumbers, PTL
  <1>q. ASSUME UNCHANGED <<consumed, held, written, asked>> PROVE UNCHANGED Queue!vars
    BY <1>q, <1>r DEF Runs, Queue!vars, asked
  <1>1. CASE Server \/ OwnStop \/ OwnerGoesOn \/ VideoEnds \/ LinkDown \/ UNCHANGED vars
    <2>1. UNCHANGED <<wr, rd, written, heard, grantR, cb, want>>
      BY <1>1, Zenon
      DEF Server, SrvPrepare, SrvMeta, SrvStart, SrvEncode, SrvWrite, SrvThrow, SrvWriteFails,
          SrvFinally, OwnStop, OwnerGoesOn, OwnShut, OwnJoin, OwnStopDevice, OwnCloseDevice,
          OwnFreeRing, OwnFree, VideoEnds, LinkDown, vars
    <2>2. QED
      BY <1>q, <2>1 DEF consumed, held, asked
  <1>2. CASE \/ AudMeta \/ AudCreate \/ AudFail \/ AudStore \/ AudLoop \/ AudPacket \/ AudEof
             \/ AudAcquire \/ AudCopy
    <2>1. UNCHANGED <<wr, rd, written, heard, grantR, cb, want>>
      BY <1>2, Zenon
      DEF AudMeta, AudCreate, Build, AudFail, AudStore, AudLoop, AudPacket, AudEof, AudAcquire,
          AudCopy
    <2>2. QED
      BY <1>q, <2>1 DEF consumed, held, asked
  <1>3. CASE AudCommit
    BY <1>3, <1>r, <1>m, AudCommitMaps DEF Queue!Next
  <1>4. CASE CbCall
    <2>1. UNCHANGED <<consumed, held, written>> /\ asked = 0 /\ asked' = want' /\ want' \in Pulls
      BY <1>4 DEF CbCall, consumed, held, asked
    <2>2. UNCHANGED <<Unread, SubSeq(heard, 1, consumed)>>
      BY <1>r, <2>1 DEF Runs
    <2>3. Queue!Ask(want')
      BY <2>1, <2>2 DEF Queue!Ask, asked
    <2>4. QED
      BY <2>1, <2>3 DEF Queue!Next
  <1>5. CASE CbAcquire \/ DeviceDies
    <2>1. UNCHANGED <<consumed, held, written, asked>>
      BY <1>5 DEF CbAcquire, DeviceDies, consumed, held, asked
    <2>2. QED
      BY <1>q, <2>1
  <1>6. CASE CbCopy
    <2>1. UNCHANGED <<written, held, asked>>
      BY <1>6 DEF CbCopy, held, asked
    <2>2. consumed' = consumed
      BY <1>6, CbCopyRing
    <2>3. QED
      BY <1>q, <2>1, <2>2
  <1>7. CASE CbCommit
    BY <1>7, <1>r, CbCommitMaps DEF Queue!Next
  <1>8. CASE CbSilence
    BY <1>8, <1>r, CbSilenceMaps DEF Queue!Next
  <1>9. QED
    BY <1>1, <1>2, <1>3, <1>4, <1>5, <1>6, <1>7, <1>8 DEF Next, AudioThread, Callback

(* For every size of ring, packets and requests, every step of the audio thread and of     *)
(* the callback is a step of the bounded queue or invisible to it: frames are played in      *)
(* order, each once and none left out, and silence only when nothing is left.                *)
THEOREM RingIsQueue == Spec => ImplementsQueue
  BY InitMaps, NextMaps, Invariance, PTL DEF Spec, ImplementsQueue, Queue!Spec
=============================================================================
