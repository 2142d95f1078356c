------------------------------ MODULE Desktop ------------------------------
(***************************************************************************)
(* One run of the GTK application: the chooser and its registry (Chooser)  *)
(* together with the sessions opened from it (SessionTable).  They meet on *)
(* the UI thread at two places.  on_row_activated decides by the registry, *)
(* as it is at that moment, how a device is reached, and calls session_new *)
(* with that; and g_application_run returns when the last window, of a     *)
(* chooser or of a session, is closed.  SessionTable by itself lets the    *)
(* path of each session be any that it may ever be; here it is the one     *)
(* that the registry gives.                                                *)
(*                                                                         *)
(* Sessions of wired devices take no port and are not in the table: a      *)
(* window of such a session may keep the application running.              *)
(***************************************************************************)
EXTENDS Chooser, SessionTable

(* The wireless serials are those of one agent's devices and of devices that are
   on the network themselves. *)
ASSUME DesktopAssumption ==
  /\ Wireless = Devs
  /\ \A d \in Range(AgentDevs) : HostOf[d] \in AgentHosts
  /\ \A d \in WifiDevs : HostOf[d] \notin AgentHosts

desktopVars == <<chooserVars, vars>>

(* A row is clicked: the path is chosen, and the session is opened with it, in one
   callback.  The table keeps the sessions of wireless devices, and would keep any other
   that takes a port. *)
OpenSession(w, s) ==
  /\ on_row_activated(w, s)
  /\ IF s \in Wireless \/ Path(s) # "tunnel" THEN session_new(s, Path(s)) ELSE UNCHANGED vars

(* on_session_destroy: the window of session i is closed, perhaps as the last one of
   the application. *)
CloseSession(i) ==
  /\ session_teardown(i)
  /\ \/ UNCHANGED chooserVars
     \/ LastSessionCloses /\ Live = {i}

(* A chooser window, or the window of a wired device's session, is closed.  The
   application does not end under a session. *)
CloseOther ==
  /\ LastSessionCloses \/ \E w \in Windows : CloseWindow(w)
  /\ running' \/ Live = {}
  /\ UNCHANGED vars

(* What the chooser does by itself. *)
ChooserStep ==
  /\ \/ \E w \in Windows :
          \/ on_activate(w) \/ on_refresh(w)
          \/ \E h \in Hosts : agent_scan_start(w, h)
          \/ ScanAsk(w) \/ ScanConnect(w) \/ agent_scan_done(w)
     \/ \E h \in Hosts : auto_probe_thread(h) \/ auto_probe_done(h)
     \/ \E s \in Serials : AdbChanges(s)
  /\ UNCHANGED vars

(* What start threads and servers do, whatever the chooser does. *)
SessionStep ==
  /\ \/ \E i \in DOMAIN sessions :
          Probe(i) \/ RunServer(i) \/ Connect(i) \/ ReadMeta(i) \/ FallBack(i)
     \/ \E s \in servers : Bind(s) \/ Exit(s) \/ \E i \in DOMAIN sessions : acceptAuthed(s, i)
  /\ UNCHANGED chooserVars

DesktopInit == ChooserInit /\ Init

DesktopNext ==
  \/ \E w \in Windows, s \in Serials : OpenSession(w, s)
  \/ \E i \in DOMAIN sessions : CloseSession(i)
  \/ CloseOther
  \/ ChooserStep
  \/ SessionStep

DesktopSpec == DesktopInit /\ [][DesktopNext]_desktopVars

-----------------------------------------------------------------------------
(* Once a session of a device was opened by what its agent said, no later session of
   it goes straight to a port of the agent's machine. *)
AgentStaysAgent ==
  \A i, j \in DOMAIN sessions :
    i < j /\ sessions[i].dev = sessions[j].dev /\ sessions[i].path # "lan"
      => sessions[j].path # "lan"

(* Two live sessions of a device have the same stream port on it in one case only:
   the older one was opened over LAN before the agent was known, and the younger one
   through the agent. *)
PortsMeetAfterLateProbe ==
  \A i, j \in Live :
    /\ i < j /\ sessions[i].dev = sessions[j].dev /\ UsesLan(i) /\ UsesLan(j)
    /\ DevicePort(i) = DevicePort(j)
    => sessions[i].path = "lan" /\ sessions[j].path = "agent"

(* What the registry says of a device and how its sessions were opened fit together
   over the whole run (on_row_activated, alloc_lan_port, alloc_stream_k). *)
DesktopInv == AgentStaysAgent /\ PortsMeetAfterLateProbe
=============================================================================
