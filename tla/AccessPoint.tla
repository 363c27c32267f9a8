----------------------------- MODULE AccessPoint -----------------------------
(***************************************************************************)
(* The Wi-Fi access point (piauto/wifi.py): hostapd and dnsmasq are        *)
(* started in BT_PAIRING, under its 30 s limit, unless NetworkManager says *)
(* that the interface is connected; WIFI_WAIT looks for the phone in the   *)
(* output of dnsmasq, or else in the lease file of NetworkManager and the  *)
(* neighbour table; stop_ap ends the processes and releases the interface. *)
(***************************************************************************)
CONSTANT Standalone     \* the interface is wlan0 (else uap0, never a station)

ASSUME StandaloneAssumption == Standalone \in BOOLEAN

VARIABLES
  pc,          \* where the orchestrator is, and in start_ap where that is
  hostapd, dnsmasq,     \* the processes: "none", "up", "dead"
  hHandle, dHandle,     \* _hostapd_proc, _dnsmasq_proc is not None
  addr,        \* addresses of the interface: "foreign" (set by others), "ours", "none"
  nm,          \* NetworkManager's use of the interface: "off", "ap", "sta"
  nmManaged,   \* _nm_managed
  ack,         \* an unread line of dnsmasq's output tells of a lease
  leaseNew,    \* the lease file has been written since WIFI_WAIT started
  neigh,       \* an entry in the neighbour table of the interface: "none",
               \* "listed" (REACHABLE or STALE), "probing"
  joined       \* the phone is on the access point

procs  == <<hostapd, dnsmasq, hHandle, dHandle>>
client == <<ack, leaseNew, neigh, joined>>
vars   == <<pc, procs, addr, nm, nmManaged, client>>

NmStates == IF Standalone THEN {"off", "ap", "sta"} ELSE {"off", "ap"}

(* An access point a phone can join and get an address from.               *)
OwnAp == hostapd = "up" /\ dnsmasq = "up"
ApUp  == OwnAp \/ nm = "ap"

Init ==
  /\ pc = "idle"
  /\ hostapd = "none" /\ dnsmasq = "none" /\ hHandle = FALSE /\ dHandle = FALSE
  /\ nm \in NmStates /\ addr \in {"foreign", "none"} /\ nmManaged = FALSE
  /\ ack = FALSE /\ leaseNew = FALSE /\ neigh = "none" /\ joined = FALSE

-----------------------------------------------------------------------------
(* stop_ap: processes that run are terminated and awaited; the interface   *)
(* is flushed if there was one.  A phone on our own access point drops.    *)

OursRun == (hHandle /\ hostapd = "up") \/ (dHandle /\ dnsmasq = "up")

Ended(handle, process) == IF handle THEN "none" ELSE process

ClientDrops ==
  IF nm = "ap" THEN UNCHANGED client
               ELSE /\ neigh' = "none" /\ joined' = FALSE /\ ack' = FALSE
                    /\ UNCHANGED leaseNew

(* Slip: the addresses are flushed whether or not anything was running.    *)
StopApFlushAlways ==
  /\ hostapd' = Ended(hHandle, hostapd) /\ dnsmasq' = Ended(dHandle, dnsmasq)
  /\ hHandle' = FALSE /\ dHandle' = FALSE
  /\ addr' = "none"
  /\ ClientDrops

StopAp ==
  /\ hostapd' = Ended(hHandle, hostapd) /\ dnsmasq' = Ended(dHandle, dnsmasq)
  /\ hHandle' = FALSE /\ dHandle' = FALSE
  /\ addr' = IF OursRun THEN "none" ELSE addr
  /\ ClientDrops

(* The handler gives up or is over; the next one starts with stop_ap.      *)
Leave(next) == StopAp /\ pc' = next /\ UNCHANGED <<nm, nmManaged>>

-----------------------------------------------------------------------------
(* start_ap, an action from each await to the next.                        *)

PhoneFound ==
  /\ pc = "idle"
  /\ pc' = "check"
  /\ UNCHANGED <<procs, addr, nm, nmManaged, client>>

(* nmcli says "connected", of whatever kind the connection is; it may not  *)
(* be there or take more than 5 s.                                         *)
CheckNm ==
  /\ pc = "check"
  /\ \/ nm # "off" /\ pc' = "sending" /\ nmManaged' = TRUE
     \/ pc' = "configure" /\ UNCHANGED nmManaged
  /\ UNCHANGED <<procs, addr, nm, client>>

(* The interface gets our address in place of its own; one of the commands *)
(* may fail, and hostapd may not be installed.                             *)
SetupInterface ==
  /\ pc = "configure"
  /\ addr' \in {addr, "none", "ours"}
  /\ IF addr' = "ours" THEN pc' \in {"launch", "failed"} ELSE pc' = "failed"
  /\ UNCHANGED <<procs, nm, nmManaged, client>>

(* Slip: the handle is a local variable.                                   *)
LaunchHostapdLateHandle ==
  /\ pc = "launch"
  /\ hostapd' = "up" /\ pc' = "settle"
  /\ nm' = "off" /\ joined' = FALSE /\ neigh' = "none"
  /\ UNCHANGED <<dnsmasq, hHandle, dHandle, addr, nmManaged, ack, leaseNew>>

(* hostapd takes the interface from whoever had it.                        *)
LaunchHostapd ==
  /\ pc = "launch"
  /\ hostapd' = "up" /\ hHandle' = TRUE /\ pc' = "settle"
  /\ nm' = "off" /\ joined' = FALSE /\ neigh' = "none"
  /\ UNCHANGED <<dnsmasq, dHandle, addr, nmManaged, ack, leaseNew>>

(* After 0.5 s: hostapd may have exited already; dnsmasq is started with a *)
(* new pipe, and if it is not installed stop_ap is called.                 *)
LaunchDnsmasq ==
  /\ pc = "settle"
  /\ \/ /\ hostapd = "dead"
        /\ pc' = "failed" /\ hHandle' = FALSE /\ hostapd' = "none"
        /\ UNCHANGED <<dnsmasq, dHandle, ack>>
     \/ /\ hostapd = "up"
        /\ pc' = "sending" /\ dnsmasq' = "up" /\ dHandle' = TRUE /\ ack' = FALSE
        /\ UNCHANGED <<hostapd, hHandle>>
     \/ /\ hostapd = "up"
        /\ pc' = "undo" /\ hostapd' = "dead"
        /\ UNCHANGED <<dnsmasq, hHandle, dHandle, ack>>
  /\ UNCHANGED <<addr, nm, nmManaged, leaseNew, neigh, joined>>

(* stop_ap within start_ap: hostapd has been terminated and is awaited.    *)
Undo ==
  /\ pc = "undo"
  /\ hostapd' = "none" /\ hHandle' = FALSE /\ addr' = "none" /\ pc' = "failed"
  /\ UNCHANGED <<dnsmasq, dHandle, nm, nmManaged, client>>

(* start_ap returned False, or the 30 s limit of BT_PAIRING has cancelled  *)
(* it at an await, or a later step of the pairing failed.                  *)
PairingFails ==
  /\ pc \in {"check", "configure", "settle", "undo", "failed", "sending"}
  /\ Leave("idle")

-----------------------------------------------------------------------------
(* WIFI_WAIT.                                                              *)

(* The credentials have been sent; the present time of the lease file is   *)
(* what it is compared with.                                               *)
CredentialsSent ==
  /\ pc = "sending"
  /\ pc' = "wait" /\ leaseNew' = FALSE
  /\ UNCHANGED <<procs, addr, nm, nmManaged, ack, neigh, joined>>

(* Slip: the neighbour table is not looked at.                             *)
EvidenceLeaseOnly == IF nmManaged THEN leaseNew ELSE dHandle /\ ack

(* What wait_for_client takes for a phone that has joined.                 *)
Evidence == IF nmManaged THEN leaseNew \/ neigh = "listed" ELSE dHandle /\ ack

ClientJoined ==
  /\ pc = "wait" /\ Evidence
  /\ pc' = "session"
  /\ ack' = (nmManaged /\ ack)
  /\ UNCHANGED <<procs, addr, nm, nmManaged, leaseNew, neigh, joined>>

(* The 30 s are over, or there is no dnsmasq or its output has ended.      *)
NoClient ==
  /\ pc = "wait" /\ ~Evidence
  /\ Leave("idle")

(* The end of a session; the retries of ERROR_RECOVERY are within it.      *)
SessionEnds == pc = "session" /\ Leave("idle")

(* SHUTDOWN stops the access point as well: for the ignition, or for an    *)
(* exception that left start_ap or a later step of the pairing.            *)
Shutdown == pc \notin {"launch", "down"} /\ Leave("down")

-----------------------------------------------------------------------------
(* Processes, NetworkManager and the phone.                                *)

(* A process exits by itself; without hostapd the phone loses the network. *)
ProcessDies ==
  /\ \/ hostapd = "up" /\ hostapd' = "dead" /\ joined' = FALSE /\ UNCHANGED dnsmasq
     \/ dnsmasq = "up" /\ dnsmasq' = "dead" /\ UNCHANGED <<hostapd, joined>>
  /\ UNCHANGED <<pc, hHandle, dHandle, addr, nm, nmManaged, ack, leaseNew, neigh>>

(* NetworkManager connects the interface, or lets go of it; it is assumed  *)
(* to leave it alone while the program has started something on it.        *)
NmChanges ==
  /\ ~hHandle /\ ~dHandle /\ pc # "launch"
  /\ nm' \in NmStates \ {nm}
  /\ addr' = IF nm' = "off" THEN "none" ELSE "foreign"
  /\ joined' = FALSE /\ neigh' \in {"none", neigh}
  /\ UNCHANGED <<pc, procs, nmManaged, ack, leaseNew>>

(* The phone asks for an address, which dnsmasq logs: our dnsmasq in its   *)
(* output, that of NetworkManager in its file.                             *)
PhoneJoins ==
  /\ ApUp /\ ~joined
  /\ joined' = TRUE /\ neigh' = "listed"
  /\ IF OwnAp THEN ack' = TRUE /\ UNCHANGED leaseNew
              ELSE leaseNew' = TRUE /\ UNCHANGED ack
  /\ UNCHANGED <<pc, procs, addr, nm, nmManaged>>

(* Its entry stays in the table when it goes.                              *)
PhoneLeaves ==
  /\ joined
  /\ joined' = FALSE
  /\ UNCHANGED <<pc, procs, addr, nm, nmManaged, ack, leaseNew, neigh>>

(* An old entry is probed before it is used again, and is confirmed by the *)
(* answer or removed for want of one.  A station has neighbours as well.   *)
NeighbourChanges ==
  /\ \/ neigh = "listed" /\ neigh' = "probing"
     \/ neigh = "probing" /\ neigh' = IF joined THEN "listed" ELSE "none"
     \/ neigh = "none" /\ nm = "sta" /\ neigh' = "listed"
  /\ UNCHANGED <<pc, procs, addr, nm, nmManaged, ack, leaseNew, joined>>

StartAp == CheckNm \/ SetupInterface \/ LaunchHostapd \/ LaunchDnsmasq \/ Undo

Orchestrator ==
  \/ PhoneFound \/ StartAp \/ PairingFails \/ CredentialsSent
  \/ ClientJoined \/ NoClient \/ SessionEnds \/ Shutdown

Surroundings == ProcessDies \/ NmChanges \/ PhoneJoins \/ PhoneLeaves \/ NeighbourChanges

Next == Orchestrator \/ Surroundings

Spec == Init /\ [][Next]_vars

-----------------------------------------------------------------------------
(***************************************************************************)
(* Every variable has its type; a process that was started has its handle, *)
(* wherever start_ap is cancelled or fails, and one that is up our address.*)
(***************************************************************************)
TypeOK ==
  /\ pc \in {"idle", "check", "configure", "launch", "settle", "undo", "failed",
             "sending", "wait", "session", "down"}
  /\ hostapd \in {"none", "up", "dead"} /\ dnsmasq \in {"none", "up", "dead"}
  /\ addr \in {"foreign", "ours", "none"} /\ nm \in {"off", "ap", "sta"}
  /\ neigh \in {"none", "listed", "probing"}
  /\ hHandle \in BOOLEAN /\ dHandle \in BOOLEAN /\ nmManaged \in BOOLEAN
  /\ ack \in BOOLEAN /\ leaseNew \in BOOLEAN /\ joined \in BOOLEAN
  /\ hHandle <=> hostapd # "none"
  /\ dHandle <=> dnsmasq # "none"
  /\ OwnAp => addr = "ours" /\ nm = "off"

(***************************************************************************)
(* Nothing of ours transmits, or is forgotten, once the access point has   *)
(* been stopped: wherever start_ap failed or was cancelled, and whatever   *)
(* has died meanwhile, no process is left in IDLE and after SHUTDOWN.  An  *)
(* orphaned hostapd would keep the radio, and the next one would fail.     *)
(***************************************************************************)
IdleIsDark ==
  pc \in {"idle", "check", "configure", "launch", "failed", "down"} =>
    hostapd = "none" /\ dnsmasq = "none" /\ ~hHandle /\ ~dHandle

(***************************************************************************)
(* stop_ap takes no address from the interface that others have given it   *)
(* (wifi.py:417, "otherwise we'd wipe the user's existing WiFi             *)
(* connection"): only setup_interface replaces it, or NetworkManager.      *)
(***************************************************************************)
ForeignAddressKept ==
  [][addr = "foreign" /\ addr' # "foreign" => pc = "configure" \/ nm' # nm]_vars

(***************************************************************************)
(* A phone on the access point cannot be overlooked: it may join while the *)
(* credentials are still being exchanged, before anyone waits, and be told *)
(* by a program that reads the wrong dnsmasq's records, because            *)
(* _nm_managed is never reset; a trace of it that wait_for_client looks at *)
(* is there all the same, except while the kernel probes its entry.        *)
(***************************************************************************)
ClientEvident ==
  pc = "wait" /\ joined => Evidence \/ (nmManaged /\ neigh = "probing")
=============================================================================
