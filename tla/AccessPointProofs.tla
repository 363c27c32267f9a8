-------------------------- MODULE AccessPointProofs --------------------------
(***************************************************************************)
(* Proofs about AccessPoint.tla.  The processes follow the handles and the *)
(* handles follow the place in start_ap (Started), and a phone that joined *)
(* leaves its traces (Traced); ShapeInv is inductive.                      *)
(***************************************************************************)
EXTENDS AccessPoint, TLAPS

Dark == {"idle", "check", "configure", "launch", "failed", "down"}

(* The part of the type invariant that is only about types.                *)
Types ==
  /\ pc \in {"idle", "check", "configure", "launch", "settle", "undo", "failed",
             "sending", "wait", "session", "down"}
  /\ hostapd \in {"none", "up", "dead"} /\ dnsmasq \in {"none", "up", "dead"}
  /\ addr \in {"foreign", "ours", "none"} /\ nm \in {"off", "ap", "sta"}
  /\ neigh \in {"none", "listed", "probing"}
  /\ hHandle \in BOOLEAN /\ dHandle \in BOOLEAN /\ nmManaged \in BOOLEAN
  /\ ack \in BOOLEAN /\ leaseNew \in BOOLEAN /\ joined \in BOOLEAN

(* What has been started, by the place in start_ap.                        *)
Started ==
  /\ hHandle <=> hostapd # "none"
  /\ dHandle <=> dnsmasq # "none"
  /\ hHandle => addr = "ours" /\ nm = "off"
  /\ dHandle => hHandle
  /\ pc \in Dark => ~hHandle
  /\ pc \in {"settle", "undo"} => hHandle /\ ~dHandle
  /\ pc = "launch" => addr = "ours"

(* The traces of a phone, and who is asked for them.                       *)
Traced ==
  /\ joined => neigh # "none" /\ (dHandle \/ nm = "ap")
  /\ pc \in {"sending", "wait"} => nmManaged \/ dHandle
  /\ joined /\ ~nmManaged /\ pc \in {"sending", "wait"} => ack

ShapeInv == Types /\ Started /\ Traced

(* The initial states.                                                     *)
LEMMA InitEstablishes == Init => ShapeInv
  BY DEF Init, ShapeInv, Types, Started, Traced, Dark, NmStates

(* stop_ap, wherever it is called, leaves nothing.                         *)
LEMMA LeaveKeeps ==
  ASSUME ShapeInv, NEW next \in {"idle", "down"}, Leave(next)
  PROVE  ShapeInv'
<1>1. /\ pc' \in {"idle", "down"} /\ hHandle' = FALSE /\ dHandle' = FALSE
      /\ hostapd' = "none" /\ dnsmasq' = "none"
      /\ nm' = nm /\ nmManaged' = nmManaged /\ addr' \in {addr, "none"}
  BY DEF ShapeInv, Types, Started, Leave, StopAp, Ended
<1>2. /\ leaseNew' = leaseNew /\ ack' \in {ack, FALSE}
      /\ neigh' \in {neigh, "none"}
      /\ joined' \in {joined, FALSE}
      /\ joined' => joined /\ neigh' = neigh /\ nm = "ap"
  BY DEF ShapeInv, Types, Leave, StopAp, ClientDrops, client
<1>3. Types'
  BY <1>1, <1>2 DEF ShapeInv, Types
<1>4. Started'
  BY <1>1 DEF Started, Dark
<1>5. Traced'
  BY <1>1, <1>2 DEF ShapeInv, Traced
<1> QED
  BY <1>3, <1>4, <1>5 DEF ShapeInv

(* Each step keeps it.                                                     *)
LEMMA StepKeeps == ShapeInv /\ [Next]_vars => ShapeInv'
<1> SUFFICES ASSUME ShapeInv, [Next]_vars PROVE ShapeInv'
  OBVIOUS
<1> USE DEF ShapeInv, Types, Started, Traced, Dark
<1>1. CASE PhoneFound
  BY <1>1 DEF PhoneFound, procs, client
<1>2. CASE CheckNm
  BY <1>2 DEF CheckNm, procs, client
<1>3. CASE SetupInterface
  BY <1>3 DEF SetupInterface, procs, client
<1>4. CASE LaunchHostapd
  BY <1>4 DEF LaunchHostapd
<1>5. CASE LaunchDnsmasq
  <2>1. Types'
    BY <1>5 DEF LaunchDnsmasq
  <2>2. CASE hostapd = "dead"
    <3>1. Started' /\ pc' = "failed"
      BY <1>5, <2>2 DEF LaunchDnsmasq
    <3> QED
      BY <1>5, <2>1, <2>2, <3>1 DEF LaunchDnsmasq
  <2>3. CASE pc' = "sending"
    <3>1. Started'
      BY <1>5, <2>3 DEF LaunchDnsmasq
    <3>2. ~joined' /\ dHandle'
      BY <1>5, <2>3 DEF LaunchDnsmasq
    <3> QED
      BY <2>1, <3>1, <3>2
  <2>4. CASE pc' = "undo"
    <3>1. Started'
      BY <1>5, <2>4 DEF LaunchDnsmasq
    <3> QED
      BY <1>5, <2>1, <2>4, <3>1 DEF LaunchDnsmasq
  <2> QED
    BY <1>5, <2>2, <2>3, <2>4 DEF LaunchDnsmasq
<1>6. CASE Undo
  BY <1>6 DEF Undo, client
<1>7. CASE PairingFails
  BY <1>7, LeaveKeeps DEF PairingFails
<1>8. CASE CredentialsSent
  BY <1>8 DEF CredentialsSent, procs
<1>9. CASE ClientJoined
  BY <1>9 DEF ClientJoined, procs
<1>10. CASE NoClient
  BY <1>10, LeaveKeeps DEF NoClient
<1>11. CASE SessionEnds \/ Shutdown
  BY <1>11, LeaveKeeps DEF SessionEnds, Shutdown
<1>12. CASE ProcessDies
  <2>1. Types'
    BY <1>12 DEF ProcessDies
  <2>2. Started'
    BY <1>12 DEF ProcessDies
  <2>3. Traced'
    BY <1>12 DEF ProcessDies
  <2> QED
    BY <2>1, <2>2, <2>3
<1>13. CASE NmChanges
  BY <1>13 DEF NmChanges, NmStates, procs
<1>14. CASE PhoneJoins
  BY <1>14 DEF PhoneJoins, ApUp, OwnAp, procs
<1>15. CASE PhoneLeaves
  BY <1>15 DEF PhoneLeaves, procs
<1>16. CASE NeighbourChanges
  BY <1>16 DEF NeighbourChanges, procs
<1>17. CASE UNCHANGED vars
  BY <1>17 DEF vars, procs, client
<1> QED
  BY <1>1, <1>2, <1>3, <1>4, <1>5, <1>6, <1>7, <1>8, <1>9, <1>10, <1>11, <1>12,
     <1>13, <1>14, <1>15, <1>16, <1>17
     DEF Next, Orchestrator, Surroundings, StartAp

LEMMA Invariance == Spec => []ShapeInv
  BY InitEstablishes, StepKeeps, PTL DEF Spec

(***************************************************************************)
(* The types, and that what was started has its handle and our address.    *)
(***************************************************************************)
THEOREM TypeCorrect == Spec => []TypeOK
<1>1. ShapeInv => TypeOK
  BY DEF ShapeInv, Types, Started, TypeOK, OwnAp
<1> QED
  BY <1>1, Invariance, PTL

(***************************************************************************)
(* No process survives stop_ap, wherever start_ap was left.                *)
(***************************************************************************)
THEOREM DarkSafe == Spec => []IdleIsDark
<1>1. ShapeInv => IdleIsDark
  BY DEF ShapeInv, Started, IdleIsDark, Dark
<1> QED
  BY <1>1, Invariance, PTL

(***************************************************************************)
(* A phone that has joined leaves a trace where the program looks.         *)
(***************************************************************************)
THEOREM ClientSafe == Spec => []ClientEvident
<1>1. ShapeInv => ClientEvident
  BY DEF ShapeInv, Types, Traced, ClientEvident, Evidence
<1> QED
  BY <1>1, Invariance, PTL

(***************************************************************************)
(* Only setup_interface, or NetworkManager, replaces a foreign address.    *)
(***************************************************************************)
THEOREM AddressSafe == Spec => ForeignAddressKept
<1>1. ShapeInv /\ [Next]_vars =>
        (addr = "foreign" /\ addr' # "foreign" => pc = "configure" \/ nm' # nm)
  <2> SUFFICES ASSUME ShapeInv, [Next]_vars, addr = "foreign", addr' # "foreign"
               PROVE  pc = "configure" \/ nm' # nm
    OBVIOUS
  <2>1. ~hHandle /\ ~dHandle /\ pc # "undo"
    BY DEF ShapeInv, Started
  <2>2. ASSUME NEW next, Leave(next) PROVE FALSE
    BY <2>1, <2>2 DEF Leave, StopAp, OursRun
  <2>3. CASE SetupInterface \/ NmChanges
    BY <2>3 DEF SetupInterface, NmChanges, NmStates
  <2>4. CASE PairingFails \/ NoClient \/ SessionEnds \/ Shutdown
    BY <2>2, <2>4 DEF PairingFails, NoClient, SessionEnds, Shutdown
  <2>5. CASE PhoneFound \/ CheckNm \/ LaunchHostapd \/ LaunchDnsmasq \/ Undo
    BY <2>1, <2>5 DEF PhoneFound, CheckNm, LaunchHostapd, LaunchDnsmasq, Undo
  <2>6. CASE CredentialsSent \/ ClientJoined \/ ProcessDies \/ PhoneJoins \/ PhoneLeaves
             \/ NeighbourChanges \/ UNCHANGED vars
    BY <2>6 DEF CredentialsSent, ClientJoined, ProcessDies, PhoneJoins, PhoneLeaves,
                NeighbourChanges, vars
  <2> QED
    BY <2>3, <2>4, <2>5, <2>6 DEF Next, Orchestrator, Surroundings, StartAp
<1> QED
  BY <1>1, Invariance, PTL DEF Spec, ForeignAddressKept
=============================================================================
