------------------------- MODULE ClientSessionProofs -------------------------
(***************************************************************************)
(* The safety invariants of ClientSession hold for every set of             *)
(* configurations, by an inductive invariant that says which resources each  *)
(* point of rc_client_start, rc_client_stop and the workers may rely on.      *)
(***************************************************************************)
EXTENDS ClientSession, TLAPS

(* The points of rc_client_start before anything was acquired, before the     *)
(* server was started, and after device_meta was read.                        *)
BeforeRun == {"enter", "parse", "probe", "tcpAdb", "tcpRun", "usbAdb", "usbListen",
              "usbReverse", "usbRun"}
TcpPCs == TcpWaits \cup {"parse", "probe", "tcpAdb", "tcpRun", "tcpDecide", "tcpMetaPart"}
UsbPCs == UsbWaits \cup {"usbAdb", "usbListen", "usbReverse", "usbRun", "usbMetaPart"}
LatePCs == {"validate", "decoder", "spawnNet", "spawnAudio", "ok"}

(* The descriptors that are open when the start thread is at pc. *)
OpenAt(pc) ==
  IF pc \in {"usbReverse", "usbRun", "accVideo"} THEN {"listen"}
  ELSE IF pc = "connAudio" THEN {"video"}
  ELSE IF pc = "accAudio" THEN {"video", "listen"}
  ELSE IF pc = "connControl" THEN Wanted \ {"control"}
  ELSE IF pc = "accControl" THEN (Wanted \ {"control"}) \cup {"listen"}
  ELSE IF pc \in {"tcpMeta", "tcpMetaPart", "usbMeta", "usbMetaPart", "validate",
                  "decoder", "spawnNet", "spawnAudio"} THEN Wanted
  ELSE {}

(* Descriptors: exactly those of the current path while the deployment runs, the  *)
(* wanted channels afterwards, first open, then shut down, then closed.            *)
FdInv ==
  /\ start \in {"connAudio", "accAudio"} => opt.audio
  /\ start \in {"connControl", "accControl"} => opt.control
  /\ start \notin {"tcpDecide", "fail", "ok"} =>
       fd = [f \in Fds |-> IF f \in OpenAt(start) THEN "open" ELSE "none"]
  /\ start = "ok" =>
       fd = [f \in Fds |->
               IF f \in Wanted /\ stops = 0
                 THEN IF ui \in {"open", "joinStart", "stop"} THEN "open" ELSE "shut"
                 ELSE "none"]

(* The adb process and the reverse mapping belong to the attempt in progress. *)
ServerInv ==
  /\ start \in BeforeRun \cup {"err"} => server = "none"
  /\ start \in TcpPCs => transport = "TCP"
  /\ start \in UsbPCs => transport = "USB"
  /\ start \in LatePCs => transportDesc = (IF transport = "TCP" THEN "LAN" ELSE "tunnel")
  /\ reverse => transport = "USB" /\ start \notin BeforeRun \ {"usbRun"}
  /\ reverse /\ (start = "err" \/ stops # 0) => rmFailed
  /\ stops # 0 => server = "none"

(* The decoder, the player and the threads that use them. *)
WorkerInv ==
  /\ start \notin {"spawnAudio", "ok"} => net = "none" /\ ~running
  /\ start # "ok" => audio = "none" /\ player = "none"
  /\ start \notin {"spawnNet", "spawnAudio", "ok"} => decoder = "none"
  /\ start = "spawnNet" => decoder = "alive"
  /\ net \in {"loop", "read", "feed"} => decoder = "alive"
  /\ audio # "none" => opt.audio
  /\ audio = "meta" => player = "none"
  /\ audio = "feed" => player = "alive"

(* The order of session_teardown. *)
UiInv ==
  /\ ui \notin {"open", "joinStart"} => start \in StartReturned
  /\ ui \in {"open", "joinStart"} => stops = 0
  /\ stops <= (IF ui = "freed" THEN 2 ELSE 1)
  /\ ui = "freed" => stops = 2
  /\ ui \in {"joinAudio", "release"} \/ stops # 0 => net = "none"
  /\ ui = "release" \/ stops # 0 => audio = "none"
  /\ stops # 0 => decoder = "none" /\ player = "none"

IInv == TypeOK /\ NoLeak /\ FdInv /\ ServerInv /\ WorkerInv /\ UiInv

(* IInv implies each of the safety invariants. *)
LEMMA InvImplies ==
  IInv => /\ TypeOK /\ NoLeak /\ WorkersHoldLiveObjects /\ FreedIsClean
          /\ FailedStartIsClean /\ StartedIsComplete
<1> SUFFICES ASSUME IInv
             PROVE  /\ WorkersHoldLiveObjects /\ FreedIsClean
                    /\ FailedStartIsClean /\ StartedIsComplete
  BY DEF IInv
<1> USE DEF IInv, TypeOK, Fds, Channels, Wanted, StartReturned, StartPCs, UiPCs,
            NetPCs, AudioPCs, TcpWaits, UsbWaits, BeforeRun, TcpPCs, UsbPCs, LatePCs
<1>1. WorkersHoldLiveObjects
  BY DEF WorkersHoldLiveObjects, FdInv, WorkerInv, UiInv, OpenAt
<1>2. FreedIsClean
  BY DEF FreedIsClean, FdInv, ServerInv, WorkerInv, UiInv, OpenAt
<1>3. FailedStartIsClean
  BY DEF FailedStartIsClean, FdInv, ServerInv, WorkerInv, UiInv, OpenAt
<1>4. StartedIsComplete
  BY DEF StartedIsComplete, FdInv, ServerInv, WorkerInv, UiInv, OpenAt
<1> QED BY <1>1, <1>2, <1>3, <1>4

(* The two halves of TypeOK: the Boolean variables and the others. *)
Flags ==
  /\ reverse \in BOOLEAN /\ deployed \in BOOLEAN /\ decoderDesc \in BOOLEAN
  /\ running \in BOOLEAN /\ abort \in BOOLEAN /\ lost \in BOOLEAN /\ rmFailed \in BOOLEAN

Shapes ==
  /\ opt \in Options /\ transport \in {"USB", "TCP"}
  /\ fd \in [Fds -> {"none", "open", "shut"}]
  /\ server \in {"none", "alive", "dead"}
  /\ decoder \in {"none", "alive"} /\ player \in {"none", "alive"}
  /\ transportDesc \in {"none", "LAN", "tunnel"}
  /\ start \in StartPCs /\ net \in NetPCs /\ audio \in AudioPCs /\ ui \in UiPCs
  /\ stops \in 0 .. 2

(* Init establishes the invariant. *)
LEMMA InitIInv == Init => IInv
<1> SUFFICES ASSUME Init PROVE IInv
  OBVIOUS
<1>1. opt.transport \in {"USB", "TCP"}
  BY OptionsAssumption DEF Init, AllOptions
<1>2. Flags /\ Shapes
  <2>1. Flags
    BY Zenon DEF Init, Flags
  <2>2. Shapes
    BY <1>1 DEF Init, Shapes, StartPCs, UiPCs, NetPCs, AudioPCs, Fds, TcpWaits, UsbWaits
  <2> QED
    BY <2>1, <2>2
<1>3. FdInv
  BY DEF Init, FdInv, OpenAt
<1>4. ServerInv /\ WorkerInv
  BY DEF Init, ServerInv, WorkerInv, TcpPCs, UsbPCs, LatePCs, TcpWaits, UsbWaits
<1>5. UiInv /\ NoLeak
  BY DEF Init, UiInv, NoLeak
<1> QED
  BY <1>2, <1>3, <1>4, <1>5 DEF IInv, TypeOK, Flags, Shapes

(* Every step keeps the types; only the count of stops needs more than TypeOK. *)
LEMMA TypeStep == TypeOK /\ UiInv /\ [Next]_vars => TypeOK'
<1> SUFFICES ASSUME TypeOK, UiInv, [Next]_vars PROVE TypeOK'
  OBVIOUS
<1> USE DEF TypeOK
<1>1. CASE StartEnter
  BY <1>1 DEF StartEnter, resources, unchangedThreads, Goto, StartPCs, TcpWaits,
     UsbWaits
<1>2. CASE TcpParse
  BY <1>2 DEF TcpParse, resources, unchangedThreads, Goto, StartPCs, TcpWaits, UsbWaits
<1>3. CASE TcpProbe
  BY <1>3 DEF TcpProbe, resources, unchangedThreads, Goto, StartPCs, TcpWaits, UsbWaits
<1>4. CASE AdbPrepare
  BY <1>4 DEF AdbPrepare, resources, unchangedThreads, StartPCs, TcpWaits, UsbWaits
<1>5. CASE TcpRun
  <2>1. Flags'
    BY <1>5, Zenon DEF Flags, TcpRun, Spawn, unchangedDescs, unchangedThreads, Goto
  <2>2. Shapes'
    BY <1>5 DEF Shapes, TcpRun, Spawn, unchangedDescs, unchangedThreads, Goto, StartPCs,
       TcpWaits, UsbWaits
  <2> QED
    BY <2>1, <2>2, Zenon DEF Flags, Shapes
<1>6. CASE Connected("connVideo", "video")
  BY <1>6 DEF Connected, After, SetFd, unchangedDescs, unchangedThreads, Goto, StartPCs,
     TcpWaits, UsbWaits, Fds, Channels
<1>7. CASE Connected("connAudio", "audio")
  BY <1>7 DEF Connected, After, SetFd, unchangedDescs, unchangedThreads, Goto, StartPCs,
     TcpWaits, UsbWaits, Fds, Channels
<1>8. CASE Connected("connControl", "control")
  BY <1>8 DEF Connected, After, SetFd, unchangedDescs, unchangedThreads, Goto, StartPCs,
     TcpWaits, UsbWaits, Fds, Channels
<1>9. CASE TcpGiveUp
  BY <1>9 DEF TcpGiveUp, MaybeReaped, unchangedDescs, unchangedThreads, StartPCs,
     TcpWaits, UsbWaits
<1>10. CASE TcpDecide
  <2>1. Flags'
    BY <1>10, Zenon DEF Flags, TcpDecide, Teardown, unchangedDescs, unchangedThreads
  <2>2. Shapes'
    BY <1>10 DEF Shapes, TcpDecide, Teardown, unchangedDescs, unchangedThreads,
       StartPCs, TcpWaits, UsbWaits, Fds
  <2> QED
    BY <2>1, <2>2, Zenon DEF Flags, Shapes
<1>11. CASE UsbListen
  <2>1. Flags'
    BY <1>11, Zenon DEF Flags, UsbListen, SetFd, unchangedDescs, unchangedThreads, Goto
  <2>2. Shapes'
    BY <1>11 DEF Shapes, UsbListen, SetFd, unchangedDescs, unchangedThreads, Goto,
       StartPCs, TcpWaits, UsbWaits, Fds
  <2> QED
    BY <2>1, <2>2, Zenon DEF Flags, Shapes
<1>12. CASE UsbReverse
  <2>1. Flags'
    BY <1>12, Zenon DEF Flags, UsbReverse, unchangedDescs, unchangedThreads, Goto
  <2>2. Shapes'
    BY <1>12 DEF Shapes, UsbReverse, unchangedDescs, unchangedThreads, Goto, StartPCs,
       TcpWaits, UsbWaits
  <2> QED
    BY <2>1, <2>2, Zenon DEF Flags, Shapes
<1>13. CASE UsbRun
  <2>1. Flags'
    BY <1>13, Zenon DEF Flags, UsbRun, Spawn, unchangedDescs, unchangedThreads, Goto
  <2>2. Shapes'
    BY <1>13 DEF Shapes, UsbRun, Spawn, unchangedDescs, unchangedThreads, Goto,
       StartPCs, TcpWaits, UsbWaits
  <2> QED
    BY <2>1, <2>2, Zenon DEF Flags, Shapes
<1>14. CASE Accepted("accVideo", "video")
  BY <1>14 DEF Accepted, After, unchangedDescs, unchangedThreads, Goto, StartPCs,
     TcpWaits, UsbWaits, Fds, Channels
<1>15. CASE Accepted("accAudio", "audio")
  BY <1>15 DEF Accepted, After, unchangedDescs, unchangedThreads, Goto, StartPCs,
     TcpWaits, UsbWaits, Fds, Channels
<1>16. CASE Accepted("accControl", "control")
  BY <1>16 DEF Accepted, After, unchangedDescs, unchangedThreads, Goto, StartPCs,
     TcpWaits, UsbWaits, Fds, Channels
<1>17. CASE UsbGiveUp
  BY <1>17 DEF UsbGiveUp, MaybeReaped, unchangedDescs, unchangedThreads, StartPCs,
     TcpWaits, UsbWaits
<1>18. CASE MetaRead
  BY <1>18 DEF MetaRead, resources, unchangedThreads, StartPCs, TcpWaits, UsbWaits
<1>19. CASE MetaPart
  BY <1>19 DEF MetaPart, resources, unchangedThreads, Goto, StartPCs, TcpWaits, UsbWaits
<1>20. CASE MetaBroken
  BY <1>20 DEF MetaBroken, resources, unchangedThreads, Goto, StartPCs, TcpWaits,
     UsbWaits
<1>21. CASE Validate
  BY <1>21 DEF Validate, resources, unchangedThreads, StartPCs, TcpWaits, UsbWaits
<1>22. CASE CreateDecoder
  <2>1. Flags'
    BY <1>22, Zenon DEF Flags, CreateDecoder, unchangedThreads, Goto
  <2>2. Shapes'
    BY <1>22 DEF Shapes, CreateDecoder, unchangedThreads, Goto, StartPCs, TcpWaits,
       UsbWaits
  <2> QED
    BY <2>1, <2>2, Zenon DEF Flags, Shapes
<1>23. CASE SpawnNet
  <2>1. Flags'
    BY <1>23, Zenon DEF Flags, SpawnNet, Goto
  <2>2. Shapes'
    BY <1>23 DEF Shapes, SpawnNet, Goto, StartPCs, TcpWaits, UsbWaits, NetPCs
  <2> QED
    BY <2>1, <2>2, Zenon DEF Flags, Shapes
<1>24. CASE SpawnAudio
  BY <1>24 DEF SpawnAudio, resources, Goto, StartPCs, TcpWaits, UsbWaits, AudioPCs
<1>25. CASE StartFail
  <2>1. Flags'
    BY <1>25, Zenon DEF Flags, StartFail, Teardown, unchangedDescs, unchangedThreads,
       Goto
  <2>2. Shapes'
    BY <1>25 DEF Shapes, StartFail, Teardown, unchangedDescs, unchangedThreads, Goto,
       StartPCs, TcpWaits, UsbWaits, Fds
  <2> QED
    BY <2>1, <2>2, Zenon DEF Flags, Shapes
<1>26. CASE NetLoop
  BY <1>26 DEF NetLoop, netOnly, NetPCs
<1>27. CASE NetPacket
  BY <1>27 DEF NetPacket, netOnly, NetPCs
<1>28. CASE NetBroken
  BY <1>28 DEF NetBroken, netOnly, NetPCs
<1>29. CASE NetWoken
  BY <1>29 DEF NetWoken, netOnly, NetPCs
<1>30. CASE NetFeed
  <2>1. Flags'
    BY <1>30, Zenon DEF Flags, NetFeed, netOnly
  <2>2. Shapes'
    BY <1>30 DEF Shapes, NetFeed, netOnly, NetPCs
  <2> QED
    BY <2>1, <2>2, Zenon DEF Flags, Shapes
<1>31. CASE NetExit
  <2>1. Flags'
    BY <1>31, Zenon DEF Flags, NetExit, netOnly
  <2>2. Shapes'
    BY <1>31 DEF Shapes, NetExit, netOnly, NetPCs
  <2> QED
    BY <2>1, <2>2, Zenon DEF Flags, Shapes
<1>32. CASE AudioMeta
  <2>1. Flags'
    BY <1>32, Zenon DEF Flags, AudioMeta, audioOnly
  <2>2. Shapes'
    BY <1>32 DEF Shapes, AudioMeta, audioOnly, AudioPCs
  <2> QED
    BY <2>1, <2>2, Zenon DEF Flags, Shapes
<1>33. CASE AudioLoop
  BY <1>33 DEF AudioLoop, audioOnly, AudioPCs
<1>34. CASE AudioPacket
  BY <1>34 DEF AudioPacket, audioOnly, AudioPCs
<1>35. CASE AudioBroken
  BY <1>35 DEF AudioBroken, audioOnly, AudioPCs
<1>36. CASE AudioWoken
  BY <1>36 DEF AudioWoken, audioOnly, AudioPCs
<1>37. CASE AudioFeed
  BY <1>37 DEF AudioFeed, audioOnly, AudioPCs
<1>38. CASE CloseWindow
  BY <1>38 DEF CloseWindow, uiOnly, resources, UiPCs
<1>39. CASE JoinStart
  BY <1>39 DEF JoinStart, uiOnly, resources, UiPCs
<1>40. CASE Stop
  <2>1. Flags'
    BY <1>40, Zenon DEF Flags, Stop, uiOnly
  <2>2. Shapes'
    BY <1>40 DEF Shapes, Stop, uiOnly, UiPCs, Fds, Channels
  <2> QED
    BY <2>1, <2>2, Zenon DEF Flags, Shapes
<1>41. CASE JoinNet
  BY <1>41 DEF JoinNet, uiOnly, resources, UiPCs, NetPCs
<1>42. CASE JoinAudio
  BY <1>42 DEF JoinAudio, uiOnly, resources, UiPCs, AudioPCs
<1>43. CASE Release
  <2>1. Flags'
    BY <1>43, Zenon DEF Flags, Release, uiOnly, Teardown
  <2>2. Shapes'
    BY <1>43 DEF Shapes, Release, uiOnly, Teardown, UiPCs, Fds, UiInv
  <2> QED
    BY <2>1, <2>2, Zenon DEF Flags, Shapes
<1>44. CASE ServerDies
  BY <1>44 DEF ServerDies
<1>45. CASE Freed \/ UNCHANGED vars
  BY <1>45 DEF Freed, vars
<1> QED
  BY <1>1, <1>2, <1>3, <1>4, <1>5, <1>6, <1>7, <1>8, <1>9, <1>10, <1>11, <1>12, <1>13,
     <1>14, <1>15, <1>16, <1>17, <1>18, <1>19, <1>20, <1>21, <1>22, <1>23, <1>24, <1>25,
     <1>26, <1>27, <1>28, <1>29, <1>30, <1>31, <1>32, <1>33, <1>34, <1>35, <1>36, <1>37,
     <1>38, <1>39, <1>40, <1>41, <1>42, <1>43, <1>44, <1>45 DEF Next, StartNext,
     NetNext, AudioNext, UiNext

(* The start thread: one case per step of rc_client_start and the deployment. *)
LEMMA StartStep == IInv /\ StartNext => (NoLeak /\ FdInv /\ ServerInv /\ WorkerInv /\ UiInv)'
<1> SUFFICES ASSUME IInv, StartNext
             PROVE  (NoLeak /\ FdInv /\ ServerInv /\ WorkerInv /\ UiInv)'
  OBVIOUS
<1> USE DEF IInv, TypeOK, Fds, Channels, Wanted, StartReturned, StartPCs, UiPCs, NetPCs, AudioPCs,
            TcpWaits, UsbWaits, BeforeRun, TcpPCs, UsbPCs, LatePCs
<1>1. CASE StartEnter
  BY <1>1 DEF NoLeak, FdInv, ServerInv, WorkerInv, UiInv, OpenAt, StartEnter, resources,
     unchangedThreads, Goto
<1>2. CASE TcpParse
  BY <1>2 DEF NoLeak, FdInv, ServerInv, WorkerInv, UiInv, OpenAt, TcpParse, resources,
     unchangedThreads, Goto
<1>3. CASE TcpProbe
  BY <1>3 DEF NoLeak, FdInv, ServerInv, WorkerInv, UiInv, OpenAt, TcpProbe, resources,
     unchangedThreads, Goto
<1>4. CASE AdbPrepare
  BY <1>4 DEF NoLeak, FdInv, ServerInv, WorkerInv, UiInv, OpenAt, AdbPrepare, resources,
     unchangedThreads
<1>5. CASE TcpRun
  <2>1. NoLeak'
    BY <1>5 DEF TcpRun, Spawn, unchangedDescs, unchangedThreads, Goto, NoLeak, FdInv,
       OpenAt, ServerInv, WorkerInv
  <2>2. FdInv'
    BY <1>5 DEF TcpRun, Spawn, unchangedDescs, unchangedThreads, Goto, FdInv, OpenAt,
       UiInv
  <2>3. ServerInv'
    BY <1>5 DEF TcpRun, Spawn, unchangedDescs, unchangedThreads, Goto, ServerInv, UiInv
  <2>4. WorkerInv'
    BY <1>5 DEF TcpRun, Spawn, unchangedDescs, unchangedThreads, Goto, WorkerInv, UiInv
  <2>5. UiInv'
    BY <1>5 DEF TcpRun, Spawn, unchangedDescs, unchangedThreads, Goto, UiInv, WorkerInv
  <2> QED
    BY <2>1, <2>2, <2>3, <2>4, <2>5
<1>6. CASE Connected("connVideo", "video")
  <2>1. NoLeak'
    BY <1>6 DEF Connected, After, SetFd, unchangedDescs, unchangedThreads, Goto, NoLeak,
       FdInv, OpenAt, ServerInv, WorkerInv
  <2>2. FdInv'
    BY <1>6 DEF Connected, After, SetFd, unchangedDescs, unchangedThreads, Goto, FdInv,
       OpenAt, UiInv
  <2>3. ServerInv'
    BY <1>6 DEF Connected, After, SetFd, unchangedDescs, unchangedThreads, Goto,
       ServerInv, UiInv
  <2>4. WorkerInv'
    BY <1>6 DEF Connected, After, SetFd, unchangedDescs, unchangedThreads, Goto,
       WorkerInv, UiInv
  <2>5. UiInv'
    BY <1>6 DEF Connected, After, SetFd, unchangedDescs, unchangedThreads, Goto, UiInv,
       WorkerInv
  <2> QED
    BY <2>1, <2>2, <2>3, <2>4, <2>5
<1>7. CASE Connected("connAudio", "audio")
  <2>1. NoLeak'
    BY <1>7 DEF Connected, After, SetFd, unchangedDescs, unchangedThreads, Goto, NoLeak,
       FdInv, OpenAt, ServerInv, WorkerInv
  <2>2. FdInv'
    BY <1>7 DEF Connected, After, SetFd, unchangedDescs, unchangedThreads, Goto, FdInv,
       OpenAt, UiInv
  <2>3. ServerInv'
    BY <1>7 DEF Connected, After, SetFd, unchangedDescs, unchangedThreads, Goto,
       ServerInv, UiInv
  <2>4. WorkerInv'
    BY <1>7 DEF Connected, After, SetFd, unchangedDescs, unchangedThreads, Goto,
       WorkerInv, UiInv
  <2>5. UiInv'
    BY <1>7 DEF Connected, After, SetFd, unchangedDescs, unchangedThreads, Goto, UiInv,
       WorkerInv
  <2> QED
    BY <2>1, <2>2, <2>3, <2>4, <2>5
<1>8. CASE Connected("connControl", "control")
  <2>1. NoLeak'
    BY <1>8 DEF Connected, After, SetFd, unchangedDescs, unchangedThreads, Goto, NoLeak,
       FdInv, OpenAt, ServerInv, WorkerInv
  <2>2. FdInv'
    <3>1. opt.control /\ opt' = opt /\ start' = "tcpMeta"
      BY <1>8 DEF Connected, After, SetFd, unchangedDescs, unchangedThreads, Goto, FdInv
    <3>2. "control" \in Wanted /\ Wanted' = Wanted
      BY <3>1
    <3>3. fd = [f \in Fds |-> IF f \in OpenAt(start) THEN "open" ELSE "none"]
      BY <1>8 DEF Connected, After, SetFd, unchangedDescs, unchangedThreads, Goto, FdInv
    <3>4. OpenAt(start) = Wanted \ {"control"}
      BY <1>8 DEF Connected, After, SetFd, unchangedDescs, unchangedThreads, Goto, OpenAt
    <3>5. fd' = [f \in Fds |-> IF f \in Wanted THEN "open" ELSE "none"]
      BY <1>8, <3>2, <3>3, <3>4 DEF Connected, After, SetFd, unchangedDescs, unchangedThreads, Goto
    <3> QED
      BY <3>1, <3>2, <3>5 DEF FdInv, OpenAt
  <2>3. ServerInv'
    BY <1>8 DEF Connected, After, SetFd, unchangedDescs, unchangedThreads, Goto,
       ServerInv, UiInv
  <2>4. WorkerInv'
    BY <1>8 DEF Connected, After, SetFd, unchangedDescs, unchangedThreads, Goto,
       WorkerInv, UiInv
  <2>5. UiInv'
    BY <1>8 DEF Connected, After, SetFd, unchangedDescs, unchangedThreads, Goto, UiInv,
       WorkerInv
  <2> QED
    BY <2>1, <2>2, <2>3, <2>4, <2>5
<1>9. CASE TcpGiveUp
  BY <1>9 DEF NoLeak, FdInv, ServerInv, WorkerInv, UiInv, OpenAt, TcpGiveUp,
     MaybeReaped, unchangedDescs, unchangedThreads
<1>10. CASE TcpDecide
  <2>1. NoLeak'
    BY <1>10 DEF TcpDecide, Teardown, unchangedDescs, unchangedThreads, NoLeak, FdInv,
       OpenAt, ServerInv, WorkerInv
  <2>2. FdInv'
    BY <1>10 DEF TcpDecide, Teardown, unchangedDescs, unchangedThreads, FdInv, OpenAt,
       UiInv
  <2>3. ServerInv'
    BY <1>10 DEF TcpDecide, Teardown, unchangedDescs, unchangedThreads, ServerInv, UiInv
  <2>4. WorkerInv'
    BY <1>10 DEF TcpDecide, Teardown, unchangedDescs, unchangedThreads, WorkerInv, UiInv
  <2>5. UiInv'
    BY <1>10 DEF TcpDecide, Teardown, unchangedDescs, unchangedThreads, UiInv, WorkerInv
  <2> QED
    BY <2>1, <2>2, <2>3, <2>4, <2>5
<1>11. CASE UsbListen
  BY <1>11 DEF NoLeak, FdInv, ServerInv, WorkerInv, UiInv, OpenAt, UsbListen, SetFd,
     unchangedDescs, unchangedThreads, Goto
<1>12. CASE UsbReverse
  BY <1>12 DEF NoLeak, FdInv, ServerInv, WorkerInv, UiInv, OpenAt, UsbReverse,
     unchangedDescs, unchangedThreads, Goto
<1>13. CASE UsbRun
  BY <1>13 DEF NoLeak, FdInv, ServerInv, WorkerInv, UiInv, OpenAt, UsbRun, Spawn,
     unchangedDescs, unchangedThreads, Goto
<1>14. CASE Accepted("accVideo", "video")
  <2>1. NoLeak'
    BY <1>14 DEF Accepted, After, unchangedDescs, unchangedThreads, Goto, NoLeak, FdInv,
       OpenAt, ServerInv, WorkerInv
  <2>2. FdInv'
    BY <1>14 DEF Accepted, After, unchangedDescs, unchangedThreads, Goto, FdInv, OpenAt,
       UiInv
  <2>3. ServerInv'
    BY <1>14 DEF Accepted, After, unchangedDescs, unchangedThreads, Goto, ServerInv,
       UiInv
  <2>4. WorkerInv'
    BY <1>14 DEF Accepted, After, unchangedDescs, unchangedThreads, Goto, WorkerInv,
       UiInv
  <2>5. UiInv'
    BY <1>14 DEF Accepted, After, unchangedDescs, unchangedThreads, Goto, UiInv,
       WorkerInv
  <2> QED
    BY <2>1, <2>2, <2>3, <2>4, <2>5
<1>15. CASE Accepted("accAudio", "audio")
  <2>1. NoLeak'
    BY <1>15 DEF Accepted, After, unchangedDescs, unchangedThreads, Goto, NoLeak, FdInv,
       OpenAt, ServerInv, WorkerInv
  <2>2. FdInv'
    BY <1>15 DEF Accepted, After, unchangedDescs, unchangedThreads, Goto, FdInv, OpenAt,
       UiInv
  <2>3. ServerInv'
    BY <1>15 DEF Accepted, After, unchangedDescs, unchangedThreads, Goto, ServerInv,
       UiInv
  <2>4. WorkerInv'
    BY <1>15 DEF Accepted, After, unchangedDescs, unchangedThreads, Goto, WorkerInv,
       UiInv
  <2>5. UiInv'
    BY <1>15 DEF Accepted, After, unchangedDescs, unchangedThreads, Goto, UiInv,
       WorkerInv
  <2> QED
    BY <2>1, <2>2, <2>3, <2>4, <2>5
<1>16. CASE Accepted("accControl", "control")
  <2>1. NoLeak'
    BY <1>16 DEF Accepted, After, unchangedDescs, unchangedThreads, Goto, NoLeak, FdInv,
       OpenAt, ServerInv, WorkerInv
  <2>2. FdInv'
    <3>1. opt.control /\ opt' = opt /\ start' = "usbMeta"
      BY <1>16 DEF Accepted, After, unchangedDescs, unchangedThreads, Goto, FdInv
    <3>2. "control" \in Wanted /\ Wanted' = Wanted
      BY <3>1
    <3>3. fd = [f \in Fds |-> IF f \in OpenAt(start) THEN "open" ELSE "none"]
      BY <1>16 DEF Accepted, After, unchangedDescs, unchangedThreads, Goto, FdInv
    <3>4. OpenAt(start) = (Wanted \ {"control"}) \cup {"listen"}
      BY <1>16 DEF Accepted, After, unchangedDescs, unchangedThreads, Goto, OpenAt
    <3>5. fd' = [f \in Fds |-> IF f \in Wanted THEN "open" ELSE "none"]
      BY <1>16, <3>2, <3>3, <3>4 DEF Accepted, After, unchangedDescs, unchangedThreads, Goto
    <3> QED
      BY <3>1, <3>2, <3>5 DEF FdInv, OpenAt
  <2>3. ServerInv'
    BY <1>16 DEF Accepted, After, unchangedDescs, unchangedThreads, Goto, ServerInv,
       UiInv
  <2>4. WorkerInv'
    BY <1>16 DEF Accepted, After, unchangedDescs, unchangedThreads, Goto, WorkerInv,
       UiInv
  <2>5. UiInv'
    BY <1>16 DEF Accepted, After, unchangedDescs, unchangedThreads, Goto, UiInv,
       WorkerInv
  <2> QED
    BY <2>1, <2>2, <2>3, <2>4, <2>5
<1>17. CASE UsbGiveUp
  BY <1>17 DEF NoLeak, FdInv, ServerInv, WorkerInv, UiInv, OpenAt, UsbGiveUp,
     MaybeReaped, unchangedDescs, unchangedThreads
<1>18. CASE MetaRead
  BY <1>18 DEF NoLeak, FdInv, ServerInv, WorkerInv, UiInv, OpenAt, MetaRead, resources,
     unchangedThreads
<1>19. CASE MetaPart
  BY <1>19 DEF NoLeak, FdInv, ServerInv, WorkerInv, UiInv, OpenAt, MetaPart, resources,
     unchangedThreads, Goto
<1>20. CASE MetaBroken
  BY <1>20 DEF NoLeak, FdInv, ServerInv, WorkerInv, UiInv, OpenAt, MetaBroken,
     resources, unchangedThreads, Goto
<1>21. CASE Validate
  BY <1>21 DEF NoLeak, FdInv, ServerInv, WorkerInv, UiInv, OpenAt, Validate, resources,
     unchangedThreads
<1>22. CASE CreateDecoder
  <2>1. NoLeak'
    BY <1>22 DEF CreateDecoder, unchangedThreads, Goto, NoLeak, FdInv, OpenAt,
       ServerInv, WorkerInv
  <2>2. FdInv'
    BY <1>22 DEF CreateDecoder, unchangedThreads, Goto, FdInv, OpenAt, UiInv
  <2>3. ServerInv'
    BY <1>22 DEF CreateDecoder, unchangedThreads, Goto, ServerInv, UiInv
  <2>4. WorkerInv'
    BY <1>22 DEF CreateDecoder, unchangedThreads, Goto, WorkerInv, UiInv
  <2>5. UiInv'
    BY <1>22 DEF CreateDecoder, unchangedThreads, Goto, UiInv, WorkerInv
  <2> QED
    BY <2>1, <2>2, <2>3, <2>4, <2>5
<1>23. CASE SpawnNet
  <2>1. NoLeak'
    BY <1>23 DEF SpawnNet, Goto, NoLeak, FdInv, OpenAt, ServerInv, WorkerInv
  <2>2. FdInv'
    BY <1>23 DEF SpawnNet, Goto, FdInv, OpenAt, UiInv
  <2>3. ServerInv'
    BY <1>23 DEF SpawnNet, Goto, ServerInv, UiInv
  <2>4. WorkerInv'
    BY <1>23 DEF SpawnNet, Goto, WorkerInv, UiInv
  <2>5. UiInv'
    BY <1>23 DEF SpawnNet, Goto, UiInv, WorkerInv
  <2> QED
    BY <2>1, <2>2, <2>3, <2>4, <2>5
<1>24. CASE SpawnAudio
  BY <1>24 DEF NoLeak, FdInv, ServerInv, WorkerInv, UiInv, OpenAt, SpawnAudio,
     resources, Goto
<1>25. CASE StartFail
  <2>1. NoLeak'
    BY <1>25 DEF StartFail, Teardown, unchangedDescs, unchangedThreads, Goto, NoLeak,
       FdInv, OpenAt, ServerInv, WorkerInv
  <2>2. FdInv'
    BY <1>25 DEF StartFail, Teardown, unchangedDescs, unchangedThreads, Goto, FdInv,
       OpenAt, UiInv
  <2>3. ServerInv'
    BY <1>25 DEF StartFail, Teardown, unchangedDescs, unchangedThreads, Goto, ServerInv,
       UiInv
  <2>4. WorkerInv'
    BY <1>25 DEF StartFail, Teardown, unchangedDescs, unchangedThreads, Goto, WorkerInv,
       UiInv
  <2>5. UiInv'
    BY <1>25 DEF StartFail, Teardown, unchangedDescs, unchangedThreads, Goto, UiInv,
       WorkerInv
  <2> QED
    BY <2>1, <2>2, <2>3, <2>4, <2>5
<1> QED
  BY <1>1, <1>2, <1>3, <1>4, <1>5, <1>6, <1>7, <1>8, <1>9, <1>10, <1>11, <1>12, <1>13,
     <1>14, <1>15, <1>16, <1>17, <1>18, <1>19, <1>20, <1>21, <1>22, <1>23, <1>24, <1>25
     DEF StartNext

(* The video thread. *)
LEMMA NetStep == IInv /\ NetNext => (NoLeak /\ FdInv /\ ServerInv /\ WorkerInv /\ UiInv)'
<1> SUFFICES ASSUME IInv, NetNext
             PROVE  (NoLeak /\ FdInv /\ ServerInv /\ WorkerInv /\ UiInv)'
  OBVIOUS
<1> USE DEF IInv, TypeOK, Fds, Channels, Wanted, StartReturned, StartPCs, UiPCs, NetPCs, AudioPCs,
            TcpWaits, UsbWaits, BeforeRun, TcpPCs, UsbPCs, LatePCs
<1>1. CASE NetLoop
  BY <1>1 DEF NoLeak, FdInv, ServerInv, WorkerInv, UiInv, OpenAt, NetLoop, netOnly
<1>2. CASE NetPacket
  BY <1>2 DEF NoLeak, FdInv, ServerInv, WorkerInv, UiInv, OpenAt, NetPacket, netOnly
<1>3. CASE NetBroken
  BY <1>3 DEF NoLeak, FdInv, ServerInv, WorkerInv, UiInv, OpenAt, NetBroken, netOnly
<1>4. CASE NetWoken
  BY <1>4 DEF NoLeak, FdInv, ServerInv, WorkerInv, UiInv, OpenAt, NetWoken, netOnly
<1>5. CASE NetFeed
  <2>1. NoLeak'
    BY <1>5 DEF NetFeed, netOnly, NoLeak, FdInv, OpenAt, ServerInv, WorkerInv
  <2>2. FdInv'
    BY <1>5 DEF NetFeed, netOnly, FdInv, OpenAt, UiInv
  <2>3. ServerInv'
    BY <1>5 DEF NetFeed, netOnly, ServerInv, UiInv
  <2>4. WorkerInv'
    BY <1>5 DEF NetFeed, netOnly, WorkerInv, UiInv
  <2>5. UiInv'
    BY <1>5 DEF NetFeed, netOnly, UiInv, WorkerInv
  <2> QED
    BY <2>1, <2>2, <2>3, <2>4, <2>5
<1>6. CASE NetExit
  <2>1. NoLeak'
    BY <1>6 DEF NetExit, netOnly, NoLeak, FdInv, OpenAt, ServerInv, WorkerInv
  <2>2. FdInv'
    BY <1>6 DEF NetExit, netOnly, FdInv, OpenAt, UiInv
  <2>3. ServerInv'
    BY <1>6 DEF NetExit, netOnly, ServerInv, UiInv
  <2>4. WorkerInv'
    BY <1>6 DEF NetExit, netOnly, WorkerInv, UiInv
  <2>5. UiInv'
    BY <1>6 DEF NetExit, netOnly, UiInv, WorkerInv
  <2> QED
    BY <2>1, <2>2, <2>3, <2>4, <2>5
<1> QED
  BY <1>1, <1>2, <1>3, <1>4, <1>5, <1>6 DEF NetNext

(* The audio thread. *)
LEMMA AudioStep == IInv /\ AudioNext => (NoLeak /\ FdInv /\ ServerInv /\ WorkerInv /\ UiInv)'
<1> SUFFICES ASSUME IInv, AudioNext
             PROVE  (NoLeak /\ FdInv /\ ServerInv /\ WorkerInv /\ UiInv)'
  OBVIOUS
<1> USE DEF IInv, TypeOK, Fds, Channels, Wanted, StartReturned, StartPCs, UiPCs, NetPCs, AudioPCs,
            TcpWaits, UsbWaits, BeforeRun, TcpPCs, UsbPCs, LatePCs
<1>1. CASE AudioMeta
  BY <1>1 DEF NoLeak, FdInv, ServerInv, WorkerInv, UiInv, OpenAt, AudioMeta, audioOnly
<1>2. CASE AudioLoop
  BY <1>2 DEF NoLeak, FdInv, ServerInv, WorkerInv, UiInv, OpenAt, AudioLoop, audioOnly
<1>3. CASE AudioPacket
  BY <1>3 DEF NoLeak, FdInv, ServerInv, WorkerInv, UiInv, OpenAt, AudioPacket, audioOnly
<1>4. CASE AudioBroken
  BY <1>4 DEF NoLeak, FdInv, ServerInv, WorkerInv, UiInv, OpenAt, AudioBroken, audioOnly
<1>5. CASE AudioWoken
  BY <1>5 DEF NoLeak, FdInv, ServerInv, WorkerInv, UiInv, OpenAt, AudioWoken, audioOnly
<1>6. CASE AudioFeed
  BY <1>6 DEF NoLeak, FdInv, ServerInv, WorkerInv, UiInv, OpenAt, AudioFeed, audioOnly
<1> QED
  BY <1>1, <1>2, <1>3, <1>4, <1>5, <1>6 DEF AudioNext

(* The UI thread: session_teardown and rc_client_stop. *)
LEMMA UiStep == IInv /\ UiNext => (NoLeak /\ FdInv /\ ServerInv /\ WorkerInv /\ UiInv)'
<1> SUFFICES ASSUME IInv, UiNext
             PROVE  (NoLeak /\ FdInv /\ ServerInv /\ WorkerInv /\ UiInv)'
  OBVIOUS
<1> USE DEF IInv, TypeOK, Fds, Channels, Wanted, StartReturned, StartPCs, UiPCs, NetPCs, AudioPCs,
            TcpWaits, UsbWaits, BeforeRun, TcpPCs, UsbPCs, LatePCs
<1>1. CASE CloseWindow
  BY <1>1 DEF NoLeak, FdInv, ServerInv, WorkerInv, UiInv, OpenAt, CloseWindow, uiOnly,
     resources
<1>2. CASE JoinStart
  BY <1>2 DEF NoLeak, FdInv, ServerInv, WorkerInv, UiInv, OpenAt, JoinStart, uiOnly,
     resources
<1>3. CASE Stop
  <2>1. NoLeak'
    BY <1>3 DEF Stop, uiOnly, NoLeak, FdInv, OpenAt, ServerInv, WorkerInv
  <2>2. FdInv'
    BY <1>3 DEF Stop, uiOnly, FdInv, OpenAt, UiInv
  <2>3. ServerInv'
    BY <1>3 DEF Stop, uiOnly, ServerInv, UiInv
  <2>4. WorkerInv'
    BY <1>3 DEF Stop, uiOnly, WorkerInv, UiInv
  <2>5. UiInv'
    BY <1>3 DEF Stop, uiOnly, UiInv, WorkerInv
  <2> QED
    BY <2>1, <2>2, <2>3, <2>4, <2>5
<1>4. CASE JoinNet
  BY <1>4 DEF NoLeak, FdInv, ServerInv, WorkerInv, UiInv, OpenAt, JoinNet, uiOnly,
     resources
<1>5. CASE JoinAudio
  BY <1>5 DEF NoLeak, FdInv, ServerInv, WorkerInv, UiInv, OpenAt, JoinAudio, uiOnly,
     resources
<1>6. CASE Release
  <2>1. NoLeak'
    BY <1>6 DEF Release, uiOnly, Teardown, NoLeak, FdInv, OpenAt, ServerInv, WorkerInv
  <2>2. FdInv'
    BY <1>6 DEF Release, uiOnly, Teardown, FdInv, OpenAt, UiInv
  <2>3. ServerInv'
    BY <1>6 DEF Release, uiOnly, Teardown, ServerInv, UiInv
  <2>4. WorkerInv'
    BY <1>6 DEF Release, uiOnly, Teardown, WorkerInv, UiInv
  <2>5. UiInv'
    BY <1>6 DEF Release, uiOnly, Teardown, UiInv, WorkerInv
  <2> QED
    BY <2>1, <2>2, <2>3, <2>4, <2>5
<1> QED
  BY <1>1, <1>2, <1>3, <1>4, <1>5, <1>6 DEF UiNext

(* Every step preserves IInv. *)
LEMMA NextStep == IInv /\ [Next]_vars => IInv'
<1> SUFFICES ASSUME IInv, [Next]_vars PROVE IInv'
  OBVIOUS
<1>1. TypeOK'
  BY TypeStep DEF IInv
<1>2. (NoLeak /\ FdInv /\ ServerInv /\ WorkerInv /\ UiInv)'
  <2>1. CASE ServerDies
    BY <2>1 DEF ServerDies, IInv, TypeOK, NoLeak, FdInv, ServerInv, WorkerInv, UiInv,
       OpenAt, Wanted, BeforeRun
  <2>2. CASE Freed \/ UNCHANGED vars
    BY <2>2 DEF Freed, vars, IInv, NoLeak, FdInv, ServerInv, WorkerInv, UiInv, OpenAt,
       Wanted
  <2> QED
    BY <2>1, <2>2, StartStep, NetStep, AudioStep, UiStep DEF Next
<1> QED
  BY <1>1, <1>2 DEF IInv

(* For every set of configurations the state keeps its types, rc_client_stop is       *)
(* counted at most twice (session_teardown and rc_client_destroy), and no live           *)
(* descriptor, process, decoder or player is ever overwritten.                            *)
THEOREM NothingLeaks == Spec => []ResourceInv
<1>1. IInv => ResourceInv
  BY DEF IInv, ResourceInv
<1> QED
  BY <1>1, InitIInv, NextStep, PTL DEF Spec

(* The video and audio threads never read or feed through an object that another     *)
(* thread has closed or destroyed.                                                   *)
THEOREM WorkersAreSafe == Spec => []WorkersHoldLiveObjects
BY InvImplies, InitIInv, NextStep, PTL DEF Spec

(* A freed client has released everything it acquired, and so has, by itself, a       *)
(* failed rc_client_start.                                                            *)
THEOREM EndingIsComplete == Spec => []EndsClean
<1>1. IInv => EndsClean
  BY InvImplies DEF EndsClean
<1> QED
  BY <1>1, InitIInv, NextStep, PTL DEF Spec

(* A started session has exactly the channels of its configuration, all of the path   *)
(* its transport description names.                                                   *)
THEOREM SuccessIsComplete == Spec => []StartedIsComplete
BY InvImplies, InitIInv, NextStep, PTL DEF Spec

=============================================================================
