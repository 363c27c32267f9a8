---------------------------- MODULE StateMachine ----------------------------
(***************************************************************************)
(* The PiAuto orchestrator (piauto/statemachine.py): one asyncio task that *)
(* runs the handler of the current state, and the parties it shares the    *)
(* event loop with.  A step of a handler is the code between two awaits,   *)
(* so everything that may happen while it is suspended (the ignition, the  *)
(* phone, BlueZ, the OpenAuto and splash processes, the user at the touch  *)
(* screen) happens between two steps.                                      *)
(***************************************************************************)
EXTENDS Naturals, States

CONSTANTS
  MaxRetries,   \* MAX_RETRIES
  Faults        \* the failures of the surroundings that may happen

(***************************************************************************)
(* "splash": the splash process dies or cannot be started.                 *)
(* "bluez" : the BlueZ daemon restarts.                                    *)
(* "tasks" : a background task (fan control, ignition monitor) ends with   *)
(*           an exception of the GPIO library.                             *)
(* "raise" : a handler is left by an exception its own code does not catch.*)
(***************************************************************************)
FaultKind == {"splash", "bluez", "tasks", "raise"}

ASSUME MaxRetriesAssumption == MaxRetries \in Nat \ {0}
ASSUME FaultsAssumption == Faults \subseteq FaultKind

VARIABLES
  life,          \* "up", "exited" by sys.exit(1), or "halted"
  state,         \* _state
  event,         \* the event of the last _transition
  pc,            \* where the handler of the current state is suspended
  retryCount,    \* _retry_count
  phone,         \* whether _current_phone is set
  done,          \* the finished tasks of the asyncio.wait in progress
  result,        \* what the finished phone, client or ready task returned
  openauto,      \* the OpenAuto process
  active,        \* OpenAutoManager._projection_active
  stopped,       \* OpenAutoManager._projection_stopped
  splash,        \* the splash process is alive
  ap,            \* the access point has been started and not stopped
  advertising,   \* BleManager._advertising
  bluez,         \* the registrations with BlueZ: "none", "registered", "lost"
  reconnecting,  \* IDLE's reconnect loop is running
  volume,        \* the volume sync task is running
  pin,           \* the level of the ignition sense pin
  ignitionOff,   \* the _ignition_off event
  ignitionTask,  \* _ignition_task
  thermalTask    \* _thermal_task

control  == <<life, state, event, pc>>
session  == <<retryCount, phone>>
waiting  == <<done, result>>
process  == <<openauto, active, stopped>>
bluetooth == <<advertising, bluez, reconnecting>>
ignition == <<pin, ignitionOff, ignitionTask>>
rest     == <<volume, thermalTask>>
data     == <<session, waiting, process, splash, ap, bluetooth, ignition, rest>>
vars     == <<control, data>>

(* The await points of each handler; "enter" is the start of a handler.    *)
Suspended ==
  \/ pc = "enter"
  \/ state = "BOOTING" /\ pc \in {"boot_splash", "boot_ble"}
  \/ state = "IDLE" /\ pc \in {"idle_stop", "idle_splash", "idle_advertise", "idle_wait",
                              "setup_launch", "setup_read", "setup_line"}
  \/ state = "BT_PAIRING" /\ pc \in {"pair_ap", "pair_splash", "pair_launch",
                                    "pair_listen", "pair_send", "pair_trust"}
  \/ state = "WIFI_WAIT" /\ pc = "wifi_wait"
  \/ state = "TCP_CONNECT" /\ pc = "tcp_wait"
  \/ state = "PROJECTION_ACTIVE" /\ pc \in {"proj_wait", "proj_decide", "proj_splash"}
  \/ state = "ERROR_RECOVERY" /\ pc \in {"rec_splash", "rec_wait", "rec_launch"}
  \/ state = "SHUTDOWN" /\ pc \in {"down_radio", "down_thermal", "down_ignition", "down_save"}

(* Signs that the phone has ended the session.                             *)
DisconnectTask == {"rfcomm", "bt", "wifi", "tcp"}
Task == {"phone", "setup", "bluez", "ignition", "client", "ready", "exit", "stopped"}
          \cup DisconnectTask

Running == "running"
Exited  == {"exited_clean", "exited_error"}

Init ==
  /\ life = "up" /\ state = "BOOTING" /\ event = "NONE" /\ pc = "enter"
  /\ retryCount = 0 /\ phone = FALSE /\ done = {} /\ result = "none"
  /\ openauto = "none" /\ active = FALSE /\ stopped = FALSE
  /\ splash = FALSE /\ ap = FALSE
  /\ advertising = FALSE /\ bluez = "none" /\ reconnecting = FALSE /\ volume = FALSE
  /\ ignitionOff = FALSE /\ ignitionTask = "none" /\ thermalTask = "none"
  /\ pin = "high"

-----------------------------------------------------------------------------
(* What the handlers are built from.                                       *)

At(s, p) == life = "up" /\ state = s /\ pc = p

Goto(p) == pc' = p /\ UNCHANGED <<life, state, event>>

Transition(to, e) == state' = to /\ event' = e /\ pc' = "enter" /\ UNCHANGED life

(* SplashManager.launch: a failure to start the process is only logged.    *)
LaunchSplash == splash' \in IF "splash" \in Faults THEN {TRUE, splash} ELSE {TRUE}

KillSplash == splash' = FALSE

(* OpenAutoManager.kill: the process leaves with a status other than 0.    *)
KillOpenAuto ==
  /\ openauto' = IF openauto = Running THEN "exited_error" ELSE openauto
  /\ UNCHANGED <<active, stopped>>

(* OpenAutoManager.launch, which first kills a previous instance; the flags *)
(* its log monitors set are cleared once the new process is there.         *)
LaunchOpenAuto == openauto' = Running /\ active' = FALSE /\ stopped' = FALSE

StopAp == ap' = FALSE

(* asyncio.wait on new tasks: the one that waits for the ignition event    *)
(* finishes at once when the event is already set.                         *)
StartWait(finished) ==
  /\ done' = finished \cup (IF ignitionOff THEN {"ignition"} ELSE {})
  /\ result' = "none"

TaskEnds(t, r) ==
  /\ t \notin done
  /\ done' = done \cup {t}
  /\ result' = r
  /\ UNCHANGED <<control, session, process, splash, ap, bluetooth, ignition, rest>>

-----------------------------------------------------------------------------
(* BOOTING: the managers are created one after the other.                  *)

BootMonitors ==
  /\ At("BOOTING", "enter")
  /\ ignitionOff' = FALSE /\ ignitionTask' = Running /\ thermalTask' = Running
  /\ Goto("boot_splash")
  /\ UNCHANGED <<session, waiting, process, splash, ap, bluetooth, pin, volume>>

BootSplash ==
  /\ At("BOOTING", "boot_splash")
  /\ LaunchSplash
  /\ Goto("boot_ble")
  /\ UNCHANGED <<session, waiting, process, ap, bluetooth, ignition, rest>>

(* BleManager.setup reports failure by its result, which nobody looks at.  *)
BootBle ==
  /\ At("BOOTING", "boot_ble")
  /\ bluez' \in {"none", "registered"}
  /\ Transition("IDLE", "SERVICES_STARTED")
  /\ UNCHANGED <<session, waiting, process, splash, ap, advertising, reconnecting,
                 ignition, rest>>

(* A failure or the 60 s limit, with the profile registered or not.        *)
BootAborts ==
  /\ life = "up" /\ state = "BOOTING"
  /\ \E e \in {"BOOT_FAILED", "BOOT_TIMEOUT"} : Transition("SHUTDOWN", e)
  /\ bluez' \in IF pc = "boot_ble" THEN {"none", "registered"} ELSE {bluez}
  /\ UNCHANGED <<session, waiting, process, splash, ap, advertising, reconnecting,
                 ignition, rest>>

-----------------------------------------------------------------------------
(* IDLE: tidy up, show the splash screen, advertise, wait for a phone.     *)

(* Slip: the count of the last phone's failures is kept.                   *)
IdleEnterKeepsCount ==
  /\ At("IDLE", "enter")
  /\ phone' = FALSE
  /\ Goto("idle_stop")
  /\ UNCHANGED <<retryCount, waiting, process, splash, ap, bluetooth, ignition, rest>>

IdleEnter ==
  /\ At("IDLE", "enter")
  /\ retryCount' = 0 /\ phone' = FALSE
  /\ Goto("idle_stop")
  /\ UNCHANGED <<waiting, process, splash, ap, bluetooth, ignition, rest>>

(* Slip: an OpenAuto left by WIFI_WAIT or ERROR_RECOVERY is not looked for.*)
IdleStopApOnly ==
  /\ At("IDLE", "idle_stop")
  /\ StopAp
  /\ Goto("idle_splash")
  /\ UNCHANGED <<session, waiting, process, splash, bluetooth, ignition, rest>>

IdleStop ==
  /\ At("IDLE", "idle_stop")
  /\ StopAp /\ KillOpenAuto
  /\ Goto("idle_splash")
  /\ UNCHANGED <<session, waiting, splash, bluetooth, ignition, rest>>

IdleSplash ==
  /\ At("IDLE", "idle_splash")
  /\ LaunchSplash
  /\ Goto("idle_advertise")
  /\ UNCHANGED <<session, waiting, process, ap, bluetooth, ignition, rest>>

(* start_advertising reports no failure; the reconnect loop is started when *)
(* a phone has been paired before.  The task that reads the splash's output *)
(* finishes at once when there is no splash process to read from.          *)
IdleAdvertise ==
  /\ At("IDLE", "idle_advertise")
  /\ advertising' \in BOOLEAN /\ reconnecting' \in BOOLEAN
  /\ StartWait(IF splash THEN {} ELSE {"setup"})
  /\ Goto("idle_wait")
  /\ UNCHANGED <<session, process, splash, ap, bluez, ignition, rest>>

(* A phone opens the RFCOMM channel; without the profile none can.         *)
PhoneArrives ==
  /\ At("IDLE", "idle_wait")
  /\ \E r \in {"yes", "no"} :
       /\ r = "yes" => bluez = "registered"
       /\ r = "no" => bluez = "none"
       /\ TaskEnds("phone", r)

(* A SETUP line, from this splash process or left by an earlier one.       *)
SetupPressed == At("IDLE", "idle_wait") /\ TaskEnds("setup", result)

(* Slip: the loop is not cancelled when IDLE moves on.                     *)
ReconnectLoopGoesOn == UNCHANGED reconnecting

EndReconnectLoop == reconnecting' = FALSE

(* Slip: the phone and the button are looked at before the ignition.       *)
IdleLeaveAtOnce ==
  /\ At("IDLE", "idle_wait")
  /\ done # {} /\ "bluez" \notin done
  /\ EndReconnectLoop
  /\ UNCHANGED <<retryCount, waiting, process, splash, ap, advertising, bluez, ignition, rest>>

IdleLeave ==
  /\ At("IDLE", "idle_wait")
  /\ done # {} /\ done \cap {"bluez", "ignition"} = {}
  /\ EndReconnectLoop
  /\ UNCHANGED <<retryCount, waiting, process, splash, ap, advertising, bluez, ignition, rest>>

IdleSetup ==
  /\ IdleLeave
  /\ "setup" \in done
  /\ Goto("setup_launch")
  /\ UNCHANGED phone

IdlePhone ==
  /\ IdleLeave
  /\ "setup" \notin done
  /\ \/ result = "yes" /\ phone' = TRUE /\ Transition("BT_PAIRING", "PHONE_DETECTED")
     \/ result # "yes" /\ phone' = FALSE /\ Goto("enter")

(* The speaker set-up screen, run inside IDLE.                             *)
SetupLaunch ==
  /\ At("IDLE", "setup_launch")
  /\ advertising' = FALSE
  /\ LaunchSplash
  /\ Goto("setup_read")
  /\ UNCHANGED <<session, waiting, process, ap, bluez, reconnecting, ignition, rest>>

(* read_stdout_line looks at the process once, then waits for a line.      *)
SetupRead ==
  /\ At("IDLE", "setup_read")
  /\ IF splash THEN Goto("setup_line") ELSE Transition("IDLE", "PHONE_DISCONNECTED")
  /\ UNCHANGED data

(* The user pairs a speaker, or leaves the screen.                         *)
SetupLine ==
  /\ At("IDLE", "setup_line")
  /\ splash
  /\ Goto("setup_read") \/ Transition("IDLE", "PHONE_DISCONNECTED")
  /\ UNCHANGED data

-----------------------------------------------------------------------------
(* BT_PAIRING: access point, OpenAuto, credentials, all within 30 s.       *)

HandshakeFails == KillOpenAuto /\ Transition("IDLE", "BT_HANDSHAKE_FAILED")

PairEnter ==
  /\ At("BT_PAIRING", "enter")
  /\ LaunchSplash
  /\ IF ignitionOff THEN Transition("SHUTDOWN", "IGNITION_OFF") ELSE Goto("pair_ap")
  /\ UNCHANGED <<session, waiting, process, ap, bluetooth, ignition, rest>>

PairStartAp ==
  /\ At("BT_PAIRING", "pair_ap")
  /\ \/ ap' = TRUE /\ Goto("pair_splash")
     \/ StopAp /\ Transition("IDLE", "BT_HANDSHAKE_FAILED")
  /\ UNCHANGED <<session, waiting, process, splash, bluetooth, ignition, rest>>

PairKillSplash ==
  /\ At("BT_PAIRING", "pair_splash")
  /\ KillSplash
  /\ Goto("pair_launch")
  /\ UNCHANGED <<session, waiting, process, ap, bluetooth, ignition, rest>>

PairLaunch ==
  /\ At("BT_PAIRING", "pair_launch")
  /\ (LaunchOpenAuto /\ Goto("pair_listen")) \/ HandshakeFails
  /\ UNCHANGED <<session, waiting, splash, ap, bluetooth, ignition, rest>>

(* The port is bound, or is not within 15 s, or the process has exited.    *)
PairListen ==
  /\ At("BT_PAIRING", "pair_listen")
  /\ (openauto = Running /\ Goto("pair_send") /\ UNCHANGED process) \/ HandshakeFails
  /\ UNCHANGED <<session, waiting, splash, ap, bluetooth, ignition, rest>>

PairSend ==
  /\ At("BT_PAIRING", "pair_send")
  /\ (Goto("pair_trust") /\ UNCHANGED process) \/ HandshakeFails
  /\ UNCHANGED <<session, waiting, splash, ap, bluetooth, ignition, rest>>

(* Slip: the advertisement goes on.                                        *)
PairTrustOnly ==
  /\ At("BT_PAIRING", "pair_trust")
  /\ Transition("WIFI_WAIT", "CREDENTIALS_SENT")
  /\ UNCHANGED <<session, waiting, process, splash, ap, bluetooth, ignition, rest>>

(* trust_device and stop_advertising, which report no failure.             *)
PairTrust ==
  /\ At("BT_PAIRING", "pair_trust")
  /\ advertising' = FALSE
  /\ Transition("WIFI_WAIT", "CREDENTIALS_SENT")
  /\ UNCHANGED <<session, waiting, process, splash, ap, bluez, reconnecting, ignition, rest>>

(* The 30 s limit cancels whatever the handler was waiting for.            *)
PairTimeout ==
  /\ life = "up" /\ state = "BT_PAIRING" /\ pc # "enter"
  /\ HandshakeFails
  /\ ap' \in IF pc = "pair_ap" THEN BOOLEAN ELSE {ap}
  /\ splash' \in IF pc = "pair_splash" THEN {splash, FALSE} ELSE {splash}
  /\ UNCHANGED <<session, waiting, bluetooth, ignition, rest>>

-----------------------------------------------------------------------------
(* WIFI_WAIT: the phone joins the access point, or does not within 30 s.   *)

WifiEnter ==
  /\ At("WIFI_WAIT", "enter")
  /\ StartWait({})
  /\ Goto("wifi_wait")
  /\ UNCHANGED <<session, process, splash, ap, bluetooth, ignition, rest>>

ClientTaskEnds ==
  At("WIFI_WAIT", "wifi_wait") /\ \E r \in {"yes", "no"} : TaskEnds("client", r)

WifiClient ==
  /\ At("WIFI_WAIT", "wifi_wait")
  /\ done = {"client"}
  /\ IF result = "yes"
     THEN Transition("TCP_CONNECT", "PHONE_JOINED_AP") /\ UNCHANGED <<process, ap>>
     ELSE KillOpenAuto /\ StopAp /\ Transition("IDLE", "WIFI_TIMEOUT")
  /\ UNCHANGED <<session, waiting, splash, bluetooth, ignition, rest>>

-----------------------------------------------------------------------------
(* TCP_CONNECT: OpenAuto reports that it projects, exits, or 30 s pass.    *)

TcpEnter ==
  /\ At("TCP_CONNECT", "enter")
  /\ IF ignitionOff
     THEN Transition("SHUTDOWN", "IGNITION_OFF") /\ UNCHANGED waiting
     ELSE StartWait({}) /\ Goto("tcp_wait")
  /\ UNCHANGED <<session, process, splash, ap, bluetooth, ignition, rest>>

(* 30 s may pass at the moment OpenAuto reports.                           *)
ReadyTaskEnds ==
  /\ At("TCP_CONNECT", "tcp_wait")
  /\ \E r \in {"yes", "no"} : (r = "yes" => active) /\ TaskEnds("ready", r)

(* A failed attempt leaves the OpenAuto process as it is.                  *)
TcpReady ==
  /\ At("TCP_CONNECT", "tcp_wait")
  /\ done = {"ready"}
  /\ IF result = "yes" THEN Transition("PROJECTION_ACTIVE", "OPENAUTO_READY")
                       ELSE Transition("ERROR_RECOVERY", "OPENAUTO_FAILED")
  /\ UNCHANGED data

-----------------------------------------------------------------------------
(* PROJECTION_ACTIVE: the first of nine tasks to finish ends the session.  *)

(* Slip: a projection that was reached gives the retries back.             *)
ProjEnterForgetsCount ==
  /\ At("PROJECTION_ACTIVE", "enter")
  /\ volume' = TRUE /\ retryCount' = 0
  /\ StartWait({})
  /\ Goto("proj_wait")
  /\ UNCHANGED <<phone, process, splash, ap, bluetooth, ignition, thermalTask>>

ProjEnter ==
  /\ At("PROJECTION_ACTIVE", "enter")
  /\ volume' = TRUE
  /\ StartWait({})
  /\ Goto("proj_wait")
  /\ UNCHANGED <<session, process, splash, ap, bluetooth, ignition, thermalTask>>

(***************************************************************************)
(* wait_for_projection_stopped also returns when the process exits.  The   *)
(* phone drops the session in one of four ways; for a new RFCOMM           *)
(* connection _rfcomm_genuine_disconnect waits 2 s and calls the property  *)
(* is_running as if it were a method: the TypeError ends the task, whether *)
(* or not OpenAuto still runs.                                             *)
(***************************************************************************)
ProjectionTaskEnds(t) ==
  /\ At("PROJECTION_ACTIVE", "proj_wait")
  /\ t = "exit" => openauto # Running
  /\ t = "stopped" => stopped \/ openauto # Running
  /\ TaskEnds(t, result)

(* The other tasks are cancelled and awaited, the volume sync stopped.     *)
ProjLeave ==
  /\ At("PROJECTION_ACTIVE", "proj_wait")
  /\ done # {}
  /\ volume' = FALSE
  /\ Goto("proj_decide")
  /\ UNCHANGED <<session, waiting, process, splash, ap, bluetooth, ignition, thermalTask>>

ProjDisconnected ==
  /\ At("PROJECTION_ACTIVE", "proj_decide")
  /\ done \cap {"bluez", "ignition"} = {}
  /\ done \cap (DisconnectTask \cup {"stopped"}) # {}
  /\ KillOpenAuto
  /\ Goto("proj_splash")
  /\ UNCHANGED <<session, waiting, splash, ap, bluetooth, ignition, rest>>

ProjExited ==
  /\ At("PROJECTION_ACTIVE", "proj_decide")
  /\ done = {"exit"}
  /\ IF openauto = "exited_clean" THEN Goto("proj_splash")
                                  ELSE Transition("ERROR_RECOVERY", "CONNECTION_LOST")
  /\ UNCHANGED data

ProjSplash ==
  /\ At("PROJECTION_ACTIVE", "proj_splash")
  /\ LaunchSplash
  /\ Transition("IDLE", "PHONE_DISCONNECTED")
  /\ UNCHANGED <<session, waiting, process, ap, bluetooth, ignition, rest>>

-----------------------------------------------------------------------------
(* ERROR_RECOVERY: count, wait 5 s, try OpenAuto again or give up.         *)

(* Slip: one attempt too many.                                             *)
RetryAtLimit == retryCount <= MaxRetries

RetryAvailable == retryCount < MaxRetries

(* Slip: the failure is not counted.                                       *)
RecEnterUncounted ==
  /\ At("ERROR_RECOVERY", "enter")
  /\ Goto("rec_splash")
  /\ UNCHANGED <<session, waiting, process, splash, ap, bluetooth, ignition, rest>>

RecEnter ==
  /\ At("ERROR_RECOVERY", "enter")
  /\ retryCount' = retryCount + 1
  /\ Goto("rec_splash")
  /\ UNCHANGED <<phone, waiting, process, splash, ap, bluetooth, ignition, rest>>

RecSplash ==
  /\ At("ERROR_RECOVERY", "rec_splash")
  /\ LaunchSplash
  /\ IF ignitionOff THEN Transition("SHUTDOWN", "IGNITION_OFF") ELSE Goto("rec_wait")
  /\ UNCHANGED <<session, waiting, process, ap, bluetooth, ignition, rest>>

RecIgnitionOff ==
  /\ At("ERROR_RECOVERY", "rec_wait")
  /\ ignitionOff
  /\ Transition("SHUTDOWN", "IGNITION_OFF")
  /\ UNCHANGED data

(* Slip: OpenAuto is relaunched beside the splash screen.                  *)
RecWaitedWithSplash ==
  /\ At("ERROR_RECOVERY", "rec_wait")
  /\ IF RetryAvailable
     THEN UNCHANGED ap /\ Goto("rec_launch")
     ELSE StopAp /\ Transition("IDLE", "RETRIES_EXHAUSTED")
  /\ UNCHANGED <<session, waiting, process, splash, bluetooth, ignition, rest>>

(* 5 s have passed: no attempt is left, or the display is freed for one.   *)
RecWaited ==
  /\ At("ERROR_RECOVERY", "rec_wait")
  /\ IF RetryAvailable
     THEN KillSplash /\ UNCHANGED ap /\ Goto("rec_launch")
     ELSE StopAp /\ UNCHANGED splash /\ Transition("IDLE", "RETRIES_EXHAUSTED")
  /\ UNCHANGED <<session, waiting, process, bluetooth, ignition, rest>>

RecLaunch ==
  /\ At("ERROR_RECOVERY", "rec_launch")
  /\ \/ LaunchOpenAuto /\ UNCHANGED ap /\ Transition("TCP_CONNECT", "RETRY_AVAILABLE")
     \/ KillOpenAuto /\ StopAp /\ Transition("IDLE", "RETRIES_EXHAUSTED")
  /\ UNCHANGED <<session, waiting, splash, bluetooth, ignition, rest>>

-----------------------------------------------------------------------------
(* How the waits end that watch BlueZ and the ignition: a lost BlueZ goes  *)
(* first, then the ignition, then whatever else has finished.              *)

Waiting == {"idle_wait", "wifi_wait", "tcp_wait", "proj_decide"}

(* Slip: the program exits and leaves OpenAuto on the display.             *)
BluezLostNoKill ==
  /\ life = "up" /\ pc \in {"idle_wait", "proj_decide"}
  /\ "bluez" \in done
  /\ EndReconnectLoop
  /\ life' = "exited"
  /\ UNCHANGED <<state, event, pc, session, waiting, process, splash, ap, advertising,
                 bluez, ignition, rest>>

BluezLost ==
  /\ life = "up" /\ pc \in {"idle_wait", "proj_decide"}
  /\ "bluez" \in done
  /\ IF state = "IDLE" THEN UNCHANGED process ELSE KillOpenAuto
  /\ EndReconnectLoop
  /\ life' = "exited"
  /\ UNCHANGED <<state, event, pc, session, waiting, splash, ap, advertising, bluez,
                 ignition, rest>>

IgnitionOffSeen ==
  /\ life = "up" /\ pc \in Waiting
  /\ "ignition" \in done /\ "bluez" \notin done
  /\ EndReconnectLoop
  /\ Transition("SHUTDOWN", "IGNITION_OFF")
  /\ UNCHANGED <<session, waiting, process, splash, ap, advertising, bluez, ignition, rest>>

-----------------------------------------------------------------------------
(* SHUTDOWN: everything is stopped, the system halted.                     *)

DownDisplay ==
  /\ At("SHUTDOWN", "enter")
  /\ KillOpenAuto /\ KillSplash
  /\ Goto("down_radio")
  /\ UNCHANGED <<session, waiting, ap, bluetooth, ignition, rest>>

DownRadio ==
  /\ At("SHUTDOWN", "down_radio")
  /\ StopAp
  /\ advertising' = FALSE /\ bluez' = "none"
  /\ Goto("down_thermal")
  /\ UNCHANGED <<session, waiting, process, splash, reconnecting, ignition, rest>>

(***************************************************************************)
(* Cancelling a background task and awaiting it: only CancelledError is    *)
(* caught, so a task that ended with another exception raises it here, and *)
(* the main loop starts SHUTDOWN from its beginning.                       *)
(***************************************************************************)
Reap(task, next) ==
  IF task = "failed" THEN Transition("SHUTDOWN", "BOOT_FAILED") ELSE Goto(next)

Reaped(task) == IF task = Running THEN "cancelled" ELSE task

DownThermal ==
  /\ At("SHUTDOWN", "down_thermal")
  /\ Reap(thermalTask, "down_ignition")
  /\ thermalTask' = Reaped(thermalTask)
  /\ UNCHANGED <<session, waiting, process, splash, ap, bluetooth, ignition, volume>>

DownIgnition ==
  /\ At("SHUTDOWN", "down_ignition")
  /\ Reap(ignitionTask, "down_save")
  /\ ignitionTask' = Reaped(ignitionTask)
  /\ UNCHANGED <<session, waiting, process, splash, ap, bluetooth, pin, ignitionOff, rest>>

(* save_time, which only logs its failure (the clock file is in            *)
(* Storage.tla), and the order to halt the system.                         *)
DownSave ==
  /\ At("SHUTDOWN", "down_save")
  /\ life' = "halted"
  /\ UNCHANGED <<state, event, pc, data>>

-----------------------------------------------------------------------------
(* _main_loop: an exception that leaves a handler, at an await that starts *)
(* or ends a process outside a try of the handler's own, or in the write   *)
(* of save_pairing after the credentials have been sent; an ignition that  *)
(* has been noticed is dealt with before anything that may raise.          *)
Fallible ==
  {"idle_stop", "idle_splash", "setup_launch",
   "pair_ap", "pair_splash", "pair_launch", "pair_listen", "pair_send",
   "wifi_wait", "tcp_wait",
   "proj_decide", "proj_splash", "rec_splash", "rec_wait", "rec_launch", "down_radio"}

HandlerRaises ==
  /\ "raise" \in Faults
  /\ life = "up" /\ pc \in Fallible
  /\ pc \in {"wifi_wait", "tcp_wait", "proj_decide"} =>
       done # {} /\ ("ignition" \in done => "bluez" \in done)
  /\ IF state \in Retriable THEN Transition("ERROR_RECOVERY", "CONNECTION_LOST")
                            ELSE Transition("SHUTDOWN", "BOOT_FAILED")
  /\ UNCHANGED data

-----------------------------------------------------------------------------
(* The surroundings.                                                       *)

(* The pin falls, and the monitor, if it is running, sees the edge and sets *)
(* the event (the debounce in between is in IgnitionMonitor.tla).          *)
IgnitionSwitchedOff ==
  /\ life # "halted" /\ pin = "high"
  /\ pin' = "low"
  /\ IF life = "up" /\ ignitionTask = Running
     THEN ignitionOff' = TRUE /\ ignitionTask' = "finished"
     ELSE UNCHANGED <<ignitionOff, ignitionTask>>
  /\ UNCHANGED <<control, session, waiting, process, splash, ap, bluetooth, rest>>

(* Slip: IDLE does not wait for the ignition.                              *)
IgnitionTaskEndsInSession ==
  /\ life = "up" /\ pc \in {"wifi_wait", "tcp_wait", "proj_wait"}
  /\ ignitionOff
  /\ TaskEnds("ignition", result)

IgnitionTaskEnds ==
  /\ life = "up" /\ pc \in {"idle_wait", "wifi_wait", "tcp_wait", "proj_wait"}
  /\ ignitionOff
  /\ TaskEnds("ignition", result)

(* OpenAuto logs that it projects or has stopped, or its process ends.     *)
OpenAutoSteps ==
  /\ life = "up" /\ openauto = Running
  /\ \/ active' = TRUE /\ UNCHANGED <<openauto, stopped>>
     \/ stopped' = TRUE /\ UNCHANGED <<openauto, active>>
     \/ openauto' \in Exited /\ UNCHANGED <<active, stopped>>
  /\ UNCHANGED <<control, session, waiting, splash, ap, bluetooth, ignition, rest>>

SplashDies ==
  /\ "splash" \in Faults /\ life = "up" /\ splash
  /\ splash' = FALSE
  /\ UNCHANGED <<control, session, waiting, process, ap, bluetooth, ignition, rest>>

(* All registrations are gone; only IDLE and PROJECTION_ACTIVE have a task *)
(* that watches for it, while they wait.  Without registrations IDLE's     *)
(* wait ends at once, before its watch could notice anything.              *)
BluezRestarts ==
  /\ "bluez" \in Faults /\ life = "up" /\ bluez = "registered"
  /\ bluez' = "lost"
  /\ done' = IF pc \in {"idle_wait", "proj_wait"} THEN done \cup {"bluez"} ELSE done
  /\ UNCHANGED <<control, session, result, process, splash, ap, advertising, reconnecting,
                 ignition, rest>>

BackgroundTaskFails ==
  /\ "tasks" \in Faults /\ life = "up"
  /\ \/ thermalTask = Running /\ thermalTask' = "failed" /\ UNCHANGED ignitionTask
     \/ ignitionTask = Running /\ ignitionTask' = "failed" /\ UNCHANGED thermalTask
  /\ UNCHANGED <<control, session, waiting, process, splash, ap, bluetooth, pin, ignitionOff,
                 volume>>

(* systemd ends what the program left behind and starts it again.          *)
Restart ==
  /\ life = "exited"
  /\ life' = "up" /\ state' = "BOOTING" /\ event' = "NONE" /\ pc' = "enter"
  /\ retryCount' = 0 /\ phone' = FALSE /\ done' = {} /\ result' = "none"
  /\ openauto' = "none" /\ active' = FALSE /\ stopped' = FALSE
  /\ splash' = FALSE /\ ap' = FALSE
  /\ advertising' = FALSE /\ bluez' = "none" /\ reconnecting' = FALSE /\ volume' = FALSE
  /\ ignitionOff' = FALSE /\ ignitionTask' = "none" /\ thermalTask' = "none"
  /\ UNCHANGED pin

-----------------------------------------------------------------------------
(* The steps of the orchestrator's own code, by handler.                   *)
Booting      == BootMonitors \/ BootSplash \/ BootBle \/ BootAborts
Idling       == IdleEnter \/ IdleStop \/ IdleSplash \/ IdleAdvertise \/ IdleSetup \/ IdlePhone
SettingUp    == SetupLaunch \/ SetupRead
Pairing      == PairEnter \/ PairStartAp \/ PairKillSplash \/ PairLaunch \/ PairListen
                  \/ PairSend \/ PairTrust \/ PairTimeout
Connecting   == WifiEnter \/ WifiClient \/ TcpEnter \/ TcpReady
Projecting   == ProjEnter \/ ProjLeave \/ ProjDisconnected \/ ProjExited \/ ProjSplash
Recovering   == RecEnter \/ RecSplash \/ RecIgnitionOff \/ RecWaited \/ RecLaunch
Interrupted  == BluezLost \/ IgnitionOffSeen
ShuttingDown == DownDisplay \/ DownRadio \/ DownThermal \/ DownIgnition \/ DownSave

HandlerStep ==
  \/ Booting \/ Idling \/ SettingUp \/ Pairing \/ Connecting \/ Projecting \/ Recovering
  \/ Interrupted \/ ShuttingDown

(* A task that a handler waits for finishes.                               *)
TaskStep ==
  \/ PhoneArrives \/ SetupPressed \/ ClientTaskEnds \/ ReadyTaskEnds
  \/ \E t \in DisconnectTask \cup {"exit", "stopped"} : ProjectionTaskEnds(t)
  \/ IgnitionTaskEnds

Surroundings ==
  \/ SetupLine \/ IgnitionSwitchedOff \/ OpenAutoSteps \/ SplashDies \/ BluezRestarts
  \/ BackgroundTaskFails \/ Restart

Next == HandlerStep \/ HandlerRaises \/ TaskStep \/ Surroundings

Spec == Init /\ [][Next]_vars

(***************************************************************************)
(* The event loop runs every coroutine that is ready, the time limits of   *)
(* WIFI_WAIT and TCP_CONNECT expire, and systemd restarts the program.     *)
(* Nothing obliges the phone, the user, the processes or the ignition.     *)
(***************************************************************************)
Fairness ==
  /\ WF_vars(HandlerStep)
  /\ WF_vars(IgnitionTaskEnds)
  /\ WF_vars(ClientTaskEnds)
  /\ WF_vars(ReadyTaskEnds)
  /\ WF_vars(Restart)

FairSpec == Spec /\ Fairness

-----------------------------------------------------------------------------
ControlOK == life \in Life /\ state \in State /\ event \in Event /\ Suspended

FlagsOK ==
  /\ phone \in BOOLEAN /\ active \in BOOLEAN /\ stopped \in BOOLEAN
  /\ splash \in BOOLEAN /\ ap \in BOOLEAN /\ advertising \in BOOLEAN
  /\ reconnecting \in BOOLEAN /\ volume \in BOOLEAN
  /\ ignitionOff \in BOOLEAN

ProcessesOK ==
  /\ openauto \in {"none", Running} \cup Exited
  /\ bluez \in {"none", "registered", "lost"}
  /\ pin \in {"high", "low"}
  /\ ignitionTask \in {"none", Running, "finished", "failed", "cancelled"}
  /\ thermalTask \in {"none", Running, "failed", "cancelled"}

WaitingOK == done \in SUBSET Task /\ result \in {"none", "yes", "no"}

CountOK == retryCount \in 0 .. MaxRetries

(***************************************************************************)
(* Every variable has its type; in particular no handler is suspended at   *)
(* an await of another, and the recoveries counted never pass the limit.   *)
(***************************************************************************)
TypeOK == ControlOK /\ FlagsOK /\ ProcessesOK /\ WaitingOK /\ CountOK

(* OpenAuto draws from its launch until the session is given up.           *)
OpenAutoDraws ==
  \/ pc \in {"pair_launch", "pair_listen", "pair_send", "pair_trust", "rec_launch"}
  \/ state \in {"WIFI_WAIT", "TCP_CONNECT", "PROJECTION_ACTIVE"}

(***************************************************************************)
(* Display ownership while a phone is being connected or projects: no      *)
(* splash process holds the DRM master from the moment OpenAuto is         *)
(* launched until the orchestrator leaves the session for IDLE or          *)
(* ERROR_RECOVERY.  Both launches must free the display first, on every    *)
(* path that leads to them.                                                *)
(***************************************************************************)
DisplayHandedOver == OpenAutoDraws => ~splash

(***************************************************************************)
(* While a new connection can be set up (advertising, waiting, pairing a   *)
(* speaker) nothing of an earlier session is left: no OpenAuto process, no *)
(* access point, no volume sync.                                           *)
(***************************************************************************)
IdleIsClean ==
  state = "IDLE" /\ pc \notin {"enter", "idle_stop"} =>
    openauto # Running /\ ~ap /\ ~volume

(***************************************************************************)
(* A session past the credential exchange has what its handlers rely on:   *)
(* the phone whose address they read, the access point the phone joins,    *)
(* and no advertisement that would invite a second phone.                  *)
(***************************************************************************)
SessionIsComplete ==
  /\ state \in {"BT_PAIRING", "WIFI_WAIT", "TCP_CONNECT", "PROJECTION_ACTIVE",
                "ERROR_RECOVERY"} => phone
  /\ state \in {"WIFI_WAIT", "TCP_CONNECT", "PROJECTION_ACTIVE", "ERROR_RECOVERY"} =>
       ap /\ ~advertising

(***************************************************************************)
(* Work started in the background ends with the wait it was started for:   *)
(* no page to the last phone leaves once IDLE has moved on, and the volume *)
(* is not synchronised after the projection.  (The connection to a paired  *)
(* speaker, connect_speaker, is also started in IDLE but never awaited or  *)
(* cancelled; it is not in this model.)                                    *)
(***************************************************************************)
BackgroundWorkContained ==
  /\ reconnecting => pc = "idle_wait"
  /\ volume => pc = "proj_wait"

(***************************************************************************)
(* Whichever of the two ends the program comes to, and from whatever it    *)
(* was doing: when a lost BlueZ makes it leave, no OpenAuto, reconnect     *)
(* loop or volume sync runs, and the access point is up only if a          *)
(* projection was broken off (the rest is systemd's to end: the splash,    *)
(* the access point of that projection, the monitors); when the system is  *)
(* told to halt, also the screen, the access point, the advertisement, the *)
(* registrations with BlueZ and both monitoring tasks are down, although   *)
(* SHUTDOWN may have started over several times on the way.                *)
(***************************************************************************)
EndsClean ==
  /\ life \in {"exited", "halted"} => openauto # Running /\ ~volume /\ ~reconnecting
  /\ life = "exited" => (ap => state = "PROJECTION_ACTIVE")
  /\ life = "halted" =>
       /\ ~splash /\ ~ap /\ ~advertising /\ bluez = "none"
       /\ thermalTask # Running /\ ignitionTask # Running

(***************************************************************************)
(* The ignition beats whatever finished in the same wait (a phone, a press *)
(* on the screen, a lost session, a client): the next state is SHUTDOWN.   *)
(* Only a lost BlueZ is looked at first.                                   *)
(***************************************************************************)
IgnitionWins ==
  [][("ignition" \in done /\ "bluez" \notin done /\ state' # state) => state' = "SHUTDOWN"]_vars

InSession ==
  state \in {"BT_PAIRING", "WIFI_WAIT", "TCP_CONNECT", "PROJECTION_ACTIVE", "ERROR_RECOVERY"}

(* The awaits of a session, counted down to the next failure: those at the *)
(* start of a handler by its state, the others by their place in it.       *)
FromEntry ==
  [BT_PAIRING |-> 16, WIFI_WAIT |-> 9, TCP_CONNECT |-> 7, PROJECTION_ACTIVE |-> 5,
   ERROR_RECOVERY |-> 1]

FromAwait ==
  [pair_ap |-> 15, pair_splash |-> 14, pair_launch |-> 13, pair_listen |-> 12,
   pair_send |-> 11, pair_trust |-> 10, wifi_wait |-> 8,
   rec_splash |-> 10, rec_wait |-> 9, rec_launch |-> 8,
   tcp_wait |-> 6, proj_wait |-> 4, proj_decide |-> 3, proj_splash |-> 2]

Before(s, p) == IF p = "enter" THEN FromEntry[s] ELSE FromAwait[p]

(* How many awaits the session can still come to: those to the next        *)
(* failure, and once round by ERROR_RECOVERY for every retry that is left. *)
AwaitsLeft == 10 * (MaxRetries - retryCount) + Before(state, pc)

(***************************************************************************)
(* A session goes forward: whatever fails, no step of a handler leads back *)
(* to an await with as much before it.  A projection that was reached does *)
(* not give the retries back, so one that keeps breaking comes to IDLE     *)
(* too, after at most 10 * MaxRetries + 16 awaits.                         *)
(***************************************************************************)
SessionAdvances ==
  [][InSession /\ InSession' /\ <<state, pc>>' # <<state, pc>> =>
       AwaitsLeft' \in 0 .. AwaitsLeft - 1]_vars

(***************************************************************************)
(* An attempt to connect a phone comes to an end: however the phone, the   *)
(* access point and OpenAuto behave, the program does not go round between *)
(* connecting and recovering for ever.                                     *)
(***************************************************************************)
AttemptResolves ==
  state \in {"BT_PAIRING", "WIFI_WAIT", "TCP_CONNECT", "ERROR_RECOVERY"} ~>
    state \in {"IDLE", "PROJECTION_ACTIVE", "SHUTDOWN"}

(***************************************************************************)
(* Once the ignition event is set the system is halted, from whatever      *)
(* state and await the program is in, unless a lost BlueZ ends the program *)
(* first or the speaker set-up screen is open.                             *)
(***************************************************************************)
IgnitionHandled ==
  ignitionOff ~> life \in {"halted", "exited"} \/ pc = "setup_line"

(***************************************************************************)
(* The life cycle that Lifecycle.tla promises.  A failure is counted by    *)
(* the handler of ERROR_RECOVERY, and forgotten by the handler of IDLE,    *)
(* once they run; the promise is about the transitions that lead there.    *)
(***************************************************************************)
Attempts ==
  IF state = "ERROR_RECOVERY" /\ pc = "enter" THEN retryCount + 1
  ELSE IF state = "IDLE" THEN 0
  ELSE retryCount

Promise == INSTANCE Lifecycle WITH attempts <- Attempts

KeepsLifecycle == Promise!Spec
=============================================================================
