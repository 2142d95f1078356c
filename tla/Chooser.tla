------------------------------ MODULE Chooser ------------------------------
(***************************************************************************)
(* The device chooser of the GTK front end (frontends/gtk/chooser.c), the  *)
(* client of rc-agent's discovery port (agent.c) and the part of App they  *)
(* share (rcgtk.h).                                                        *)
(*                                                                         *)
(* All state lives on the UI thread.  Two kinds of background threads      *)
(* report to it through idle callbacks: a scan the user asked for (one per *)
(* chooser window, its entry is insensitive meanwhile) and a probe started *)
(* by populate_devices for a wireless host nobody has asked yet.  Applying *)
(* a report fills the registry agent_devs and lists the devices again,     *)
(* which may start further probes.                                         *)
(***************************************************************************)
EXTENDS Integers, FiniteSets

CONSTANTS Windows,     \* chooser windows, one per activation of the application
          Hosts,       \* addresses a wireless serial may name
          Wireless,    \* serials "ip:port"
          Wired,       \* serials of USB devices and local emulators
          HostOf,      \* the address a wireless serial starts with
          AgentHosts,  \* the addresses where an rc-agent may answer
          Bases,       \* the stream_base values it may report: 0 = no stream relay
          NoWindow,    \* a NULL widget pointer
          NoSession,   \* no session opened yet
          Refused      \* agent_scan returned FALSE

ASSUME ChooserAssumption ==
    /\ HostOf \in [Wireless -> Hosts]
    /\ AgentHosts \subseteq Hosts
    /\ Bases \subseteq Nat
    /\ Wireless \cap Wired = {}
    /\ NoWindow \notin Windows

VARIABLES
    running,       \* g_application_run has not returned
    windows,       \* the open chooser windows
    unused,        \* windows no activation has created yet
    dd,            \* the window App's widget pointers (dd_size, cb_control, ...) point into
    busy,          \* per window: entry and scan button are insensitive
    rows,          \* per open window: serial -> whether its label says "(agent)"
    adb,           \* what `adb devices` reports in state "device"
    agent_devs,    \* the registry: serial -> stream_base (0: no stream relay)
    probed_hosts,  \* hosts asked for an agent, by hand or automatically
    probe,         \* per host: the automatic probe
    scan,          \* per window: the scan started from it
    opened         \* the last session_new: its stream path, the window its row was
                   \* clicked in and the window its settings were read from

chooserVars == <<running, windows, unused, dd, busy, rows, adb, agent_devs,
          probed_hosts, probe, scan, opened>>

Serials == Wireless \cup Wired

(* The functions from a part of D to R: what a hash table may hold. *)
Partial(D, R) == UNION {[P -> R] : P \in SUBSET D}

(* The table g once the entries of f have been put into it. *)
Entered(f, g) == [x \in DOMAIN f \cup DOMAIN g |-> IF x \in DOMAIN f THEN f[x] ELSE g[x]]

(* What an agent's answer holds once it is parsed: for some of its devices the
   stream_base. *)
Listings(h) == Partial({s \in Wireless : HostOf[s] = h}, Bases)

Nothing == [s \in {} |-> 0]
NoRows == [s \in {} |-> FALSE]

NoProbe == [st |-> "none", list |-> NoWindow, devs |-> Refused]
NoScan  == [st |-> "none", host |-> NoWindow, todo |-> Nothing, ok |-> Nothing]

(***************************************************************************)
(* agent_scan: connect (2 s), read to EOF (3 s), check banner and version, *)
(* parse the lines and drop malformed ones.  Any of the four checks may    *)
(* refuse; a host without an agent always does.                            *)
(***************************************************************************)
agent_scan(h) == {Refused} \cup (IF h \in AgentHosts THEN Listings(h) ELSE {})

(* list_adb_devices: what adb lists now, or nothing when adb cannot be run. *)
list_adb_devices == {adb, {}}

(* The wireless hosts of a listing that no scan and no probe has asked, for a
   device the registry does not know. *)
Unasked(devs, reg) ==
    {HostOf[s] : s \in (devs \cap Wireless) \ DOMAIN reg} \ probed_hosts

(* A variant of auto_probe_agents that does not consult the set of asked hosts. *)
auto_probe_agents_always(w, devs, reg, prb) ==
    /\ probed_hosts' = probed_hosts \cup Unasked(devs, reg)
    /\ probe' = [h \in Hosts |->
                   IF \E s \in (devs \cap Wireless) \ DOMAIN reg : HostOf[s] = h
                   THEN [st |-> "asking", list |-> w, devs |-> Refused]
                   ELSE prb[h]]

(* auto_probe_agents: marks each such host as asked and starts its thread. *)
auto_probe_agents(w, devs, reg, prb) ==
    /\ probed_hosts' = probed_hosts \cup Unasked(devs, reg)
    /\ probe' = [h \in Hosts |->
                   IF h \in Unasked(devs, reg)
                   THEN [st |-> "asking", list |-> w, devs |-> Refused]
                   ELSE prb[h]]

(* conn_label: does the label of the device's row end in "(agent)"? *)
conn_label(reg, s) == s \in DOMAIN reg

(* populate_devices with the registry reg and the probes prb as the caller left
   them: rebuilds the rows of window w, then probes the hosts of the listing.  The
   list of a closed window, kept alive by a thread's reference, is filled unseen. *)
populate_devices(w, reg, prb) ==
    \E devs \in list_adb_devices :
        /\ rows' = IF w \in windows \cup unused
                   THEN [rows EXCEPT ![w] = [s \in devs |-> conn_label(reg, s)]]
                   ELSE rows
        /\ auto_probe_agents(w, devs, reg, prb)

(***************************************************************************)
(* The user                                                                *)
(***************************************************************************)

(* on_activate, chooser_show: every activation of the application, the first
   and those a second launch forwards to the running one, builds a window; the
   App's pointers to the option widgets move to it. *)
on_activate(w) ==
    /\ running
    /\ w \in unused
    /\ windows' = windows \cup {w}
    /\ unused' = unused \ {w}
    /\ dd' = w
    /\ populate_devices(w, agent_devs, probe)
    /\ UNCHANGED <<running, busy, adb, agent_devs, scan, opened>>

on_refresh(w) ==
    /\ running
    /\ w \in windows
    /\ populate_devices(w, agent_devs, probe)
    /\ UNCHANGED <<running, windows, unused, dd, busy, adb, agent_devs,
                   scan, opened>>

(* read_settings: the window whose widgets it reads.  The pointers are tested for
   NULL only; those into a closed window point to freed memory. *)
read_settings == IF dd \in windows THEN dd ELSE NoWindow

(* The tcp_addr on_row_activated passes on: through the agent's stream range,
   straight to the device, or none (adb tunnel). *)
Path(s) ==
    IF s \in DOMAIN agent_devs
    THEN IF agent_devs[s] > 0 THEN "agent" ELSE "tunnel"
    ELSE IF s \in Wireless THEN "lan" ELSE "tunnel"

on_row_activated(w, s) ==
    /\ running
    /\ w \in windows
    /\ s \in DOMAIN rows[w]
    /\ opened' = [path |-> Path(s), at |-> w, from |-> read_settings]
    /\ UNCHANGED <<running, windows, unused, dd, busy, rows, adb,
                   agent_devs, probed_hosts, probe, scan>>

(* agent_scan_start, from the entry or its button. *)
agent_scan_start(w, h) ==
    /\ running
    /\ w \in windows
    /\ ~busy[w]
    /\ probed_hosts' = probed_hosts \cup {h}
    /\ busy' = [busy EXCEPT ![w] = TRUE]
    /\ scan' = [scan EXCEPT ![w] = [NoScan EXCEPT !.st = "asking", !.host = h]]
    /\ UNCHANGED <<running, windows, unused, dd, rows, adb, agent_devs,
                   probe, opened>>

(* A chooser window closes.  Scans and probes it started go on: they hold
   references to its widgets.  The main loop ends with the last window of the
   application, of a chooser or of a session. *)
CloseWindow(w) ==
    /\ w \in windows
    /\ windows' = windows \ {w}
    /\ rows' = [rows EXCEPT ![w] = NoRows]
    /\ running' \in BOOLEAN
    /\ windows' # {} => running'
    /\ running' => windows' # {} \/ opened # NoSession
    /\ UNCHANGED <<unused, dd, busy, adb, agent_devs, probed_hosts, probe, scan,
                   opened>>

(* The last session window closes after every chooser window. *)
LastSessionCloses ==
    /\ running
    /\ windows = {}
    /\ Windows # unused
    /\ running' = FALSE
    /\ UNCHANGED <<windows, unused, dd, busy, rows, adb, agent_devs,
                   probed_hosts, probe, scan, opened>>

(***************************************************************************)
(* Background threads                                                      *)
(***************************************************************************)

auto_probe_thread(h) ==
    /\ running
    /\ probe[h].st = "asking"
    /\ \E a \in agent_scan(h) :
         probe' = [probe EXCEPT ![h].st = "done", ![h].devs = a]
    /\ UNCHANGED <<running, windows, unused, dd, busy, rows, adb,
                   agent_devs, probed_hosts, scan, opened>>

(* agent_scan_thread up to the answer: a refusal, or an empty list, goes straight
   to the idle callback. *)
ScanAsk(w) ==
    /\ running
    /\ scan[w].st = "asking"
    /\ \E a \in agent_scan(scan[w].host) :
         scan' = [scan EXCEPT ![w].st = IF a \in {Refused, Nothing} THEN "done"
                                        ELSE "connecting",
                              ![w].todo = IF a = Refused THEN Nothing ELSE a]
    /\ UNCHANGED <<running, windows, unused, dd, busy, rows, adb,
                   agent_devs, probed_hosts, probe, opened>>

(* One turn of the thread's loop: `adb connect` and `get-state`, each killed at
   its timeout.  The device may be connected and still fail the second. *)
ScanConnect(w) ==
    /\ running
    /\ scan[w].st = "connecting"
    /\ \E s \in DOMAIN scan[w].todo, joined, verified \in BOOLEAN :
         LET left == [d \in DOMAIN scan[w].todo \ {s} |-> scan[w].todo[d]] IN
         /\ verified => joined
         /\ adb' = IF joined THEN adb \cup {s} ELSE adb
         /\ scan' = [scan EXCEPT
                       ![w].todo = left,
                       ![w].ok = IF verified THEN Entered([d \in {s} |-> scan[w].todo[d]], @) ELSE @,
                       ![w].st = IF left = Nothing THEN "done" ELSE "connecting"]
    /\ UNCHANGED <<running, windows, unused, dd, busy, rows, agent_devs,
                   probed_hosts, probe, opened>>

(***************************************************************************)
(* Idle callbacks, on the UI thread                                        *)
(***************************************************************************)

(* A variant of Registered that rebuilds the table from the report. *)
RegisteredAfresh(devs) == devs

(* What a report does to the registry: its devices are entered or replaced. *)
Registered(devs) == Entered(devs, agent_devs)

(* A variant of auto_probe_done that lists the devices before registering them. *)
auto_probe_done_lists_first(h) ==
    /\ running
    /\ probe[h].st = "done"
    /\ LET idle == [probe EXCEPT ![h] = NoProbe] IN
       \/ /\ probe[h].devs = Refused
          /\ probe' = idle
          /\ UNCHANGED <<rows, agent_devs, probed_hosts>>
       \/ /\ probe[h].devs # Refused
          /\ agent_devs' = Registered(probe[h].devs)
          /\ populate_devices(probe[h].list, agent_devs, idle)
    /\ UNCHANGED <<running, windows, unused, dd, busy, adb, scan, opened>>

auto_probe_done(h) ==
    /\ running
    /\ probe[h].st = "done"
    /\ LET idle == [probe EXCEPT ![h] = NoProbe] IN
       \/ /\ probe[h].devs = Refused
          /\ probe' = idle
          /\ UNCHANGED <<rows, agent_devs, probed_hosts>>
       \/ /\ probe[h].devs # Refused
          /\ agent_devs' = Registered(probe[h].devs)
          /\ populate_devices(probe[h].list, agent_devs', idle)
    /\ UNCHANGED <<running, windows, unused, dd, busy, adb, scan, opened>>

agent_scan_done(w) ==
    /\ running
    /\ scan[w].st = "done"
    /\ agent_devs' = Registered(scan[w].ok)
    /\ busy' = [busy EXCEPT ![w] = FALSE]
    /\ scan' = [scan EXCEPT ![w] = NoScan]
    /\ populate_devices(w, agent_devs', probe)
    /\ UNCHANGED <<running, windows, unused, dd, adb, opened>>

(* Devices come and go, and other programs run `adb connect`. *)
AdbChanges(s) ==
    /\ running
    /\ adb' = IF s \in adb THEN adb \ {s} ELSE adb \cup {s}
    /\ UNCHANGED <<running, windows, unused, dd, busy, rows, agent_devs,
                   probed_hosts, probe, scan, opened>>

ChooserInit ==
    /\ running = TRUE
    /\ windows = {}
    /\ unused = Windows
    /\ dd = NoWindow
    /\ busy = [w \in Windows |-> FALSE]
    /\ rows = [w \in Windows |-> NoRows]
    /\ adb \in SUBSET Serials
    /\ agent_devs = Nothing
    /\ probed_hosts = {}
    /\ probe = [h \in Hosts |-> NoProbe]
    /\ scan = [w \in Windows |-> NoScan]
    /\ opened = NoSession

ChooserNext ==
    \/ \E w \in Windows :
         \/ on_activate(w)
         \/ on_refresh(w)
         \/ CloseWindow(w)
         \/ \E s \in Serials : on_row_activated(w, s)
         \/ \E h \in Hosts : agent_scan_start(w, h)
         \/ ScanAsk(w)
         \/ ScanConnect(w)
         \/ agent_scan_done(w)
    \/ \E h \in Hosts : auto_probe_thread(h) \/ auto_probe_done(h)
    \/ LastSessionCloses
    \/ \E s \in Serials : AdbChanges(s)

(* Threads run and end (every wait in them has a timeout) and the main loop
   serves its idle callbacks: the `adb devices` that list_adb_devices runs on the UI
   thread, without a timeout, returns.  Nothing is assumed of the user, of what adb
   lists, or of the agents. *)
Fairness ==
    /\ \A h \in Hosts : WF_chooserVars(auto_probe_thread(h) \/ auto_probe_done(h))
    /\ \A w \in Windows : WF_chooserVars(ScanAsk(w) \/ ScanConnect(w) \/ agent_scan_done(w))

ChooserSpec == ChooserInit /\ [][ChooserNext]_chooserVars /\ Fairness

----------------------------------------------------------------------------

ChooserTypeOK ==
    /\ running \in BOOLEAN
    /\ windows \subseteq Windows
    /\ unused \subseteq Windows \ windows
    /\ dd \in Windows \cup {NoWindow}
    /\ busy \in [Windows -> BOOLEAN]
    /\ rows \in [Windows -> Partial(Serials, BOOLEAN)]
    /\ adb \subseteq Serials
    /\ agent_devs \in Partial(Wireless, Bases)
    /\ probed_hosts \subseteq Hosts
    /\ probe \in [Hosts -> [st : {"none", "asking", "done"},
                            list : Windows \cup {NoWindow},
                            devs : Partial(Wireless, Bases) \cup {Refused}]]
    /\ scan \in [Windows -> [st : {"none", "asking", "connecting", "done"},
                             host : Hosts \cup {NoWindow},
                             todo : Partial(Wireless, Bases),
                             ok : Partial(Wireless, Bases)]]
    /\ opened \in [path : {"agent", "lan", "tunnel"}, at : Windows,
                   from : Windows \cup {NoWindow}] \cup {NoSession}

(* The label "(agent)" is never wrong: a row that carries it opens through the
   agent, in every window and however old its listing is; and until the application
   is activated a second time every registered device shown carries it, because a
   report is registered before the devices are listed again. *)
LabelsMatch ==
    \A w \in Windows : \A s \in DOMAIN rows[w] :
        /\ rows[w][s] => Path(s) # "lan"
        /\ Windows \ unused = {w} /\ s \in DOMAIN agent_devs => rows[w][s]

(* A window's entry is insensitive exactly while its scan is under way, so two
   scans never share a window; a host with a probe under way, or with a
   registered device, is marked as asked, so no listing starts a second probe of
   it; a report holds devices of the host that was asked, and that host has an
   agent, so no agent can replace another agent's entry and no device that is on the
   network itself is taken for an agent's. *)
ReportsAreOwn ==
    /\ \A w \in Windows : busy[w] <=> scan[w].st # "none"
    /\ \A h \in Hosts : probe[h].st # "none" => h \in probed_hosts
    /\ \A s \in DOMAIN agent_devs : HostOf[s] \in probed_hosts \cap AgentHosts
    /\ \A w \in Windows : \A s \in DOMAIN scan[w].ok \cup DOMAIN scan[w].todo :
         HostOf[s] = scan[w].host
    /\ \A h \in Hosts : probe[h].devs # Refused =>
         \A s \in DOMAIN probe[h].devs : HostOf[s] = h

(* A session opened from the newest chooser window has the options shown in that
   window.  (One opened from an older window, after a second activation, has those of
   the newest, which may be closed by then.) *)
OpenedAsShown ==
    opened # NoSession /\ opened.at = dd => opened.from = opened.at

(* The chooser's lists, its registry and what it opens agree. *)
ChooserInv == ChooserTypeOK /\ LabelsMatch /\ ReportsAreOwn /\ OpenedAsShown

(* Background work ends.  Applying a report lists the devices, which may start
   more probes, whose reports list the devices again: the chain stops for every
   host, even for one that answers without naming the device that made it asked,
   and even if the user refreshes for ever.  And every scan gives its entry
   back. *)
BackgroundEnds ==
    /\ \A h \in Hosts : <>[](running => probe[h].st = "none")
    /\ \A w \in Windows : busy[w] ~> (~busy[w] \/ ~running)

============================================================================
