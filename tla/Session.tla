------------------------------- MODULE Session -------------------------------
(***************************************************************************)
(* How the end of a projection is noticed.  PROJECTION_ACTIVE starts a     *)
(* task for each sign of it and ends when one of them does: OpenAuto exits *)
(* or logs that it stopped (piauto/openauto.py), its TCP session on port   *)
(* 5000 goes (polled), the phone goes from the neighbour table (polled,    *)
(* piauto/wifi.py), BlueZ signals Connected = False, or the phone asks for *)
(* a new RFCOMM connection (piauto/ble.py).  StateMachine.tla lets these   *)
(* tasks finish at any time; here is what makes them finish.  Time is      *)
(* counted in ticks where the two rules about misses depend on it.         *)
(***************************************************************************)
EXTENDS Naturals

CONSTANTS
  PollInterval,  \* ticks between two looks at the neighbour table
  ProbeTime,     \* the kernel asks a present phone for at most so long, ...
  ReachTime      \* ... and then believes in it for at least so long

ASSUME TimesAssumption ==
  /\ PollInterval \in Nat /\ ProbeTime \in Nat /\ ReachTime \in Nat
  /\ ProbeTime < PollInterval /\ PollInterval < ReachTime

VARIABLES
  pc,        \* "connecting" (all the rest), "projecting"
  running,   \* the OpenAuto process is
  stopped,   \* _projection_stopped
  tcp,       \* a connection on port 5000 is established
  onAp,      \* the phone is on the access point
  listed,    \* its neighbour entry is REACHABLE or STALE
  age,       \* ticks since the entry has been so
  linked,    \* the phone's property Connected
  knock,     \* a new RFCOMM connection is queued
  tcpTask,   \* "off", "look", "watch", "over"
  wifiTask,  \* "off", "confirm", "watch", "over"
  misses,    \* consecutive_misses
  pollIn,    \* ticks to the next look at the table
  btTask,    \* "off", "asking", "listening", "blocked", "over"
  rfTask,    \* "off", "waiting", "grace", "over"
  real       \* what has really happened since the projection started
             \* (of the signs whose tasks could be wrong about it)

air   == <<onAp, listed, age>>
world == <<running, stopped, tcp, air, linked, knock>>
leave == <<wifiTask, misses, pollIn>>
tasks == <<tcpTask, leave, btTask, rfTask>>
vars  == <<pc, world, tasks, real>>

Sign == {"exit", "tcp", "wifi", "bt"}

Init ==
  /\ pc = "connecting"
  /\ running = TRUE /\ stopped = FALSE /\ tcp = FALSE
  /\ onAp = TRUE /\ listed = TRUE /\ age = 0 /\ linked = TRUE /\ knock = FALSE
  /\ tcpTask = "off" /\ wifiTask = "off" /\ btTask = "off" /\ rfTask = "off"
  /\ misses = 0 /\ pollIn = 0 /\ real = {}

-----------------------------------------------------------------------------
(* The handler of PROJECTION_ACTIVE.                                       *)

Start ==
  /\ pc = "connecting"
  /\ pc' = "projecting"
  /\ tcpTask' = "look" /\ wifiTask' = "confirm" /\ btTask' = "asking" /\ rfTask' = "waiting"
  /\ misses' = 0 /\ pollIn' = 0
  /\ real' = (IF running THEN {} ELSE {"exit"}) \cup (IF onAp THEN {} ELSE {"wifi"})
  /\ UNCHANGED world

TaskOver ==
  \/ ~running \/ stopped
  \/ tcpTask = "over" \/ wifiTask = "over" \/ btTask = "over" \/ rfTask = "over"

(* Slip: the filter of reconnects is not cancelled in its 2 s.             *)
EndGraceGoesOn ==
  /\ pc = "projecting" /\ TaskOver
  /\ pc' = "connecting"
  /\ running' = TRUE /\ stopped' = FALSE /\ tcp' = FALSE
  /\ tcpTask' = "off" /\ wifiTask' = "off" /\ btTask' = "off"
  /\ rfTask' = IF rfTask = "grace" THEN "grace" ELSE "off"
  /\ misses' = 0 /\ pollIn' = 0 /\ real' = {}
  /\ UNCHANGED <<air, linked, knock>>

(* The other tasks are cancelled and awaited, OpenAuto is killed; it is    *)
(* started anew for a retry or for the next session.                       *)
End ==
  /\ pc = "projecting" /\ TaskOver
  /\ pc' = "connecting"
  /\ running' = TRUE /\ stopped' = FALSE /\ tcp' = FALSE
  /\ tcpTask' = "off" /\ wifiTask' = "off" /\ btTask' = "off" /\ rfTask' = "off"
  /\ misses' = 0 /\ pollIn' = 0 /\ real' = {}
  /\ UNCHANGED <<air, linked, knock>>

-----------------------------------------------------------------------------
(* wait_for_tcp_session_end: a session must have been seen before its end  *)
(* is; each look also ends the task when OpenAuto has exited.              *)

TcpPoll ==
  /\ tcpTask \in {"look", "watch"}
  /\ tcpTask' = IF ~running THEN "over"
                ELSE IF tcp THEN "watch"
                ELSE IF tcpTask = "watch" THEN "over" ELSE "look"
  /\ UNCHANGED <<pc, world, leave, btTask, rfTask, real>>

-----------------------------------------------------------------------------
(* wait_for_client_leave_ap: it looks at once and then at every interval.  *)

Confirm ==
  /\ wifiTask = "confirm" /\ pollIn = 0
  /\ wifiTask' = IF listed THEN "watch" ELSE "confirm"
  /\ pollIn' = PollInterval
  /\ UNCHANGED <<pc, world, tcpTask, misses, btTask, rfTask, real>>

(* Slip: one miss is enough.                                               *)
WatchOnce ==
  /\ wifiTask = "watch" /\ pollIn = 0
  /\ wifiTask' = IF listed THEN "watch" ELSE "over"
  /\ pollIn' = PollInterval
  /\ UNCHANGED <<pc, world, tcpTask, misses, btTask, rfTask, real>>

(* Slip: a miss is forgotten whenever the table is looked at.              *)
WatchForgets ==
  /\ wifiTask = "watch" /\ pollIn = 0
  /\ misses' = IF listed THEN 0 ELSE 1
  /\ pollIn' = PollInterval
  /\ UNCHANGED <<pc, world, tcpTask, wifiTask, btTask, rfTask, real>>

Watch ==
  /\ wifiTask = "watch" /\ pollIn = 0
  /\ IF listed THEN misses' = 0 /\ UNCHANGED wifiTask
     ELSE /\ misses' = misses + 1
          /\ wifiTask' = IF misses' >= 2 THEN "over" ELSE "watch"
  /\ pollIn' = PollInterval
  /\ UNCHANGED <<pc, world, tcpTask, btTask, rfTask, real>>

-----------------------------------------------------------------------------
(* wait_for_phone_disconnect: the device is introspected before the signal *)
(* is subscribed to; when that fails the task blocks for ever.             *)
Subscribe ==
  /\ btTask = "asking"
  /\ btTask' \in {"listening", "blocked"}
  /\ UNCHANGED <<pc, world, tcpTask, leave, rfTask, real>>

(* _rfcomm_genuine_disconnect: the connection is taken and closed; 2 s     *)
(* later is_running, a property, is called, which raises TypeError: the    *)
(* task ends whether or not OpenAuto runs.                                 *)
TakeKnock ==
  /\ rfTask = "waiting" /\ knock
  /\ rfTask' = "grace" /\ knock' = FALSE
  /\ UNCHANGED <<pc, running, stopped, tcp, air, linked, tcpTask, leave, btTask, real>>

GraceOver ==
  /\ rfTask = "grace"
  /\ rfTask' = "over"
  /\ UNCHANGED <<pc, world, tcpTask, leave, btTask, real>>

-----------------------------------------------------------------------------
(* OpenAuto, the phone and the kernel.                                     *)

Happens(sign) == real' = IF pc = "projecting" THEN real \cup {sign} ELSE real

(* OpenAuto exits, or one of its log monitors reads that it has stopped.   *)
OpenAutoEnds ==
  /\ running
  /\ \/ running' = FALSE /\ tcp' = FALSE /\ Happens("exit") /\ UNCHANGED stopped
     \/ stopped' = TRUE /\ UNCHANGED <<running, tcp, real>>
  /\ UNCHANGED <<pc, air, linked, knock, tasks>>

TcpConnects ==
  /\ running /\ onAp /\ ~tcp
  /\ tcp' = TRUE
  /\ UNCHANGED <<pc, running, stopped, air, linked, knock, tasks, real>>

(* Either side closes, or the kernel gives up on a phone that is gone.     *)
TcpBreaks ==
  /\ tcp
  /\ tcp' = FALSE /\ Happens("tcp")
  /\ UNCHANGED <<pc, running, stopped, air, linked, knock, tasks>>

PhoneLeaves ==
  /\ onAp
  /\ onAp' = FALSE /\ Happens("wifi")
  /\ UNCHANGED <<pc, running, stopped, tcp, listed, age, linked, knock, tasks>>

PhoneJoins ==
  /\ ~onAp
  /\ onAp' = TRUE /\ listed' = TRUE /\ age' = 0
  /\ UNCHANGED <<pc, running, stopped, tcp, linked, knock, tasks, real>>

(* An entry that has not been confirmed for long is probed.                *)
Probe ==
  /\ listed /\ age >= ReachTime
  /\ listed' = FALSE /\ age' = 0
  /\ UNCHANGED <<pc, running, stopped, tcp, onAp, linked, knock, tasks, real>>

Answer ==
  /\ onAp /\ ~listed
  /\ listed' = TRUE /\ age' = 0
  /\ UNCHANGED <<pc, running, stopped, tcp, onAp, linked, knock, tasks, real>>

(* The link is lost, or made; the signal reaches a task that has           *)
(* subscribed to it.                                                       *)
LinkChanges ==
  /\ linked' = ~linked
  /\ IF linked THEN Happens("bt") ELSE UNCHANGED real
  /\ btTask' = IF linked /\ btTask = "listening" THEN "over" ELSE btTask
  /\ UNCHANGED <<pc, running, stopped, tcp, air, knock, tcpTask, leave, rfTask>>

Knock ==
  /\ linked /\ ~knock
  /\ knock' = TRUE
  /\ UNCHANGED <<pc, running, stopped, tcp, air, linked, tasks, real>>

(* A look that is due and an answer that is due come first.                *)
Tick ==
  /\ pollIn > 0 \/ wifiTask \in {"off", "over"}
  /\ ~(onAp /\ ~listed /\ age >= ProbeTime)
  /\ pollIn' = IF pollIn > 0 THEN pollIn - 1 ELSE 0
  /\ age' = IF age < ReachTime THEN age + 1 ELSE age
  /\ UNCHANGED <<pc, running, stopped, tcp, onAp, listed, linked, knock,
                 tcpTask, wifiTask, misses, btTask, rfTask, real>>

Look == Confirm \/ Watch

Watcher == TcpPoll \/ Look \/ Subscribe \/ TakeKnock \/ GraceOver

Phone ==
  \/ OpenAutoEnds \/ TcpConnects \/ TcpBreaks \/ PhoneLeaves \/ PhoneJoins
  \/ Probe \/ Answer \/ LinkChanges \/ Knock

Next == Start \/ End \/ Watcher \/ Phone \/ Tick

Spec == Init /\ [][Next]_vars

(* The event loop, time, and a kernel that forgets who does not answer.    *)
FairSpec ==
  /\ Spec
  /\ WF_vars(End) /\ WF_vars(TcpPoll) /\ WF_vars(Look) /\ WF_vars(Tick)
  /\ WF_vars(~onAp /\ TcpBreaks) /\ WF_vars(~onAp /\ Probe)

-----------------------------------------------------------------------------
(***************************************************************************)
(* Every variable has its type; a task runs in a projection only.          *)
(***************************************************************************)
TypeOK ==
  /\ pc \in {"connecting", "projecting"} /\ real \in SUBSET Sign
  /\ tcpTask \in {"off", "look", "watch", "over"}
  /\ wifiTask \in {"off", "confirm", "watch", "over"}
  /\ btTask \in {"off", "asking", "listening", "blocked", "over"}
  /\ rfTask \in {"off", "waiting", "grace", "over"}
  /\ misses \in 0 .. 2 /\ pollIn \in 0 .. PollInterval /\ age \in 0 .. ReachTime
  /\ running \in BOOLEAN /\ stopped \in BOOLEAN /\ tcp \in BOOLEAN /\ knock \in BOOLEAN
  /\ onAp \in BOOLEAN /\ listed \in BOOLEAN /\ linked \in BOOLEAN
  /\ pc = "connecting" => /\ tcpTask = "off" /\ wifiTask = "off"
                          /\ btTask = "off" /\ rfTask = "off"
  /\ misses = 2 => wifiTask = "over"

(***************************************************************************)
(* No false end (wifi.py:372, "prevents a false-positive"): a task that    *)
(* ended did so because of something that happened in this projection.  A  *)
(* phone that stays on the access point is never declared gone, although   *)
(* its entry is unlisted whenever the kernel probes it, and a TCP session  *)
(* that is not there yet is not taken for one that is over.                *)
(***************************************************************************)
EndsForCause ==
  /\ wifiTask = "over" => "wifi" \in real
  /\ tcpTask = "over" => "tcp" \in real \/ "exit" \in real
  /\ btTask = "over" => "bt" \in real

(***************************************************************************)
(* A phone that drives away is noticed, once the TCP session or the entry  *)
(* of the phone has been seen, however silently it goes: no log line, no   *)
(* exit, no signal from BlueZ.                                             *)
(***************************************************************************)
GoneIsNoticed ==
  (~onAp /\ (tcpTask = "watch" \/ wifiTask = "watch")) ~> (pc = "connecting" \/ onAp)
=============================================================================
