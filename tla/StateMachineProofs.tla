-------------------------- MODULE StateMachineProofs --------------------------
(***************************************************************************)
(* Proofs about the orchestrator, for every retry limit and every choice   *)
(* of faults: its safety properties hold and it implements Lifecycle.tla.  *)
(*                                                                         *)
(* IInv is the inductive invariant.  One lemma per handler (and one each   *)
(* for the main loop's except clause, the finished tasks and the           *)
(* surroundings) shows that its steps preserve IInv, conjunct by conjunct. *)
(***************************************************************************)
EXTENDS StateMachine, TLAPS

USE DEF At, Goto, Transition, Running, Exited, control, session, waiting, process,
        bluetooth, ignition, rest, data

(* Failures are counted only after a phone has joined: the count is 0 when *)
(* IDLE has begun, and below the limit wherever another attempt may start. *)
RetryCounted ==
  /\ CountOK
  /\ state = "IDLE" /\ pc # "enter" => retryCount = 0
  /\ state \in {"BT_PAIRING", "WIFI_WAIT"} => retryCount = 0
  /\ state \in Retriable => retryCount < MaxRetries
  /\ state = "ERROR_RECOVERY" /\ pc \in {"enter", "rec_launch"} => retryCount < MaxRetries

(* The access point is up before OpenAuto and the credentials need it.     *)
SessionInv ==
  /\ SessionIsComplete
  /\ pc \in {"pair_splash", "pair_launch", "pair_listen", "pair_send", "pair_trust"} => ap

(* What each step of SHUTDOWN leaves behind stays so until the halt.       *)
DownInv ==
  state = "SHUTDOWN" =>
    /\ pc # "enter" => openauto # Running /\ ~splash
    /\ pc \in {"down_thermal", "down_ignition", "down_save"} =>
         ~ap /\ ~advertising /\ bluez = "none"
    /\ pc \in {"down_ignition", "down_save"} => thermalTask # Running
    /\ pc = "down_save" => ignitionTask # Running

EndInv ==
  /\ life = "halted" => state = "SHUTDOWN" /\ pc = "down_save"
  /\ life = "exited" =>
       /\ openauto # Running /\ "bluez" \in done
       /\ pc \in {"idle_wait", "proj_decide"} /\ ~reconnecting

(* A noticed ignition is kept only where it will be looked at.             *)
IgnitionAwaited ==
  "ignition" \in done /\ "bluez" \notin done =>
    \/ pc \in {"idle_wait", "wifi_wait", "tcp_wait", "proj_wait", "proj_decide"}
    \/ state = "SHUTDOWN"

IInv ==
  /\ ControlOK /\ FlagsOK /\ ProcessesOK /\ WaitingOK /\ RetryCounted
  /\ DisplayHandedOver /\ SessionInv /\ BackgroundWorkContained /\ IdleIsClean
  /\ DownInv /\ EndInv /\ IgnitionAwaited

-----------------------------------------------------------------------------
(* BOOTING creates the managers.                                           *)
LEMMA BootingKeeps == ASSUME IInv, Booting PROVE IInv'
<1> USE DEF IInv
<1> USE DEF Booting, BootMonitors, BootSplash, BootBle, BootAborts,
  LaunchSplash
<1>1. ControlOK' BY DEF ControlOK, Suspended, Life, State, Event, Retriable
<1>2. FlagsOK'
  <2>1. CASE BootMonitors BY ZenonT(90), <2>1 DEF FlagsOK
  <2>2. CASE BootSplash BY <2>2 DEF FlagsOK
  <2>3. CASE BootBle BY <2>3 DEF FlagsOK
  <2>4. CASE BootAborts BY <2>4 DEF FlagsOK
  <2> QED BY <2>1, <2>2, <2>3, <2>4
<1>3. ProcessesOK' BY DEF ProcessesOK
<1>4. WaitingOK' BY DEF WaitingOK, Task, DisconnectTask
<1>5. RetryCounted' BY MaxRetriesAssumption DEF RetryCounted, CountOK,
  Retriable
<1>6. DisplayHandedOver' BY DEF DisplayHandedOver, OpenAutoDraws, Retriable
<1>7. SessionInv' BY DEF SessionInv, SessionIsComplete, Retriable
<1>8. BackgroundWorkContained'
  <2>1. pc \notin {"idle_wait", "proj_wait"}
    BY DEF ControlOK, Suspended
  <2>2. (reconnecting => pc = "idle_wait")' BY <2>1 DEF BackgroundWorkContained
  <2>3. (volume => pc = "proj_wait")' BY <2>1 DEF BackgroundWorkContained
  <2> QED BY <2>2, <2>3 DEF BackgroundWorkContained
<1>9. IdleIsClean' BY DEF BackgroundWorkContained, IdleIsClean, Retriable
<1>10. DownInv' BY DEF DownInv, Retriable
<1>11. EndInv' BY DEF EndInv, IdleIsClean
<1>12. IgnitionAwaited' BY DEF IgnitionAwaited, Retriable
<1> QED BY <1>1, <1>2, <1>3, <1>4, <1>5, <1>6, <1>7, <1>8, <1>9, <1>10, <1>11,
  <1>12

(* IDLE tidies up, advertises and waits for a phone.                       *)
LEMMA IdlingKeeps == ASSUME IInv, Idling PROVE IInv'
<1> USE DEF IInv
<1> USE DEF Idling, IdleEnter, IdleStop, IdleSplash, IdleAdvertise, IdleLeave,
  IdleSetup, IdlePhone, EndReconnectLoop, LaunchSplash, StopAp, KillOpenAuto,
  StartWait
<1>1. ControlOK' BY DEF ControlOK, Suspended, Life, State, Event, Retriable
<1>2. FlagsOK' BY ZenonT(90) DEF FlagsOK
<1>3. ProcessesOK' BY DEF ProcessesOK
<1>4. WaitingOK' BY DEF WaitingOK, Task, DisconnectTask
<1>5. RetryCounted'
  <2>1. CASE IdleEnter BY MaxRetriesAssumption, <2>1 DEF RetryCounted, CountOK,
    Retriable
  <2>2. CASE IdleStop BY MaxRetriesAssumption, <2>2 DEF RetryCounted, CountOK,
    Retriable
  <2>3. CASE IdleSplash BY MaxRetriesAssumption, <2>3 DEF RetryCounted,
    CountOK, Retriable
  <2>4. CASE IdleAdvertise BY MaxRetriesAssumption, <2>4 DEF RetryCounted,
    CountOK, Retriable
  <2>5. CASE IdleSetup BY MaxRetriesAssumption, <2>5 DEF RetryCounted, CountOK,
    Retriable
  <2>6. CASE IdlePhone BY MaxRetriesAssumption, <2>6 DEF RetryCounted, CountOK,
    Retriable
  <2> QED BY <2>1, <2>2, <2>3, <2>4, <2>5, <2>6
<1>6. DisplayHandedOver' BY DEF DisplayHandedOver, OpenAutoDraws, Retriable
<1>7. SessionInv' BY DEF SessionInv, SessionIsComplete, Retriable
<1>8. BackgroundWorkContained'
  <2>1. (reconnecting => pc = "idle_wait")' BY DEF BackgroundWorkContained
  <2>2. (volume => pc = "proj_wait")' BY DEF BackgroundWorkContained
  <2> QED BY <2>1, <2>2 DEF BackgroundWorkContained
<1>9. IdleIsClean' BY DEF BackgroundWorkContained, IdleIsClean, Retriable
<1>10. DownInv' BY DEF DownInv, Retriable
<1>11. EndInv' BY DEF EndInv, IdleIsClean
<1>12. IgnitionAwaited' BY DEF IgnitionAwaited, Retriable
<1> QED BY <1>1, <1>2, <1>3, <1>4, <1>5, <1>6, <1>7, <1>8, <1>9, <1>10, <1>11,
  <1>12

(* The speaker set-up screen.                                              *)
LEMMA SettingUpKeeps == ASSUME IInv, SettingUp PROVE IInv'
<1> USE DEF IInv
<1> USE DEF SettingUp, SetupLaunch, SetupRead, LaunchSplash
<1>1. ControlOK' BY DEF ControlOK, Suspended, Life, State, Event, Retriable
<1>2. FlagsOK' BY ZenonT(90) DEF FlagsOK
<1>3. ProcessesOK' BY DEF ProcessesOK
<1>4. WaitingOK' BY DEF WaitingOK, Task, DisconnectTask
<1>5. RetryCounted' BY MaxRetriesAssumption DEF RetryCounted, CountOK,
  Retriable
<1>6. DisplayHandedOver' BY DEF DisplayHandedOver, OpenAutoDraws, Retriable
<1>7. SessionInv' BY DEF SessionInv, SessionIsComplete, Retriable
<1>8. BackgroundWorkContained'
  <2>1. (reconnecting => pc = "idle_wait")' BY DEF BackgroundWorkContained
  <2>2. (volume => pc = "proj_wait")' BY DEF BackgroundWorkContained
  <2> QED BY <2>1, <2>2 DEF BackgroundWorkContained
<1>9. IdleIsClean' BY DEF BackgroundWorkContained, IdleIsClean, Retriable
<1>10. DownInv' BY DEF DownInv, Retriable
<1>11. EndInv' BY DEF EndInv, IdleIsClean
<1>12. IgnitionAwaited' BY DEF IgnitionAwaited, Retriable
<1> QED BY <1>1, <1>2, <1>3, <1>4, <1>5, <1>6, <1>7, <1>8, <1>9, <1>10, <1>11,
  <1>12

(* BT_PAIRING hands the display over and starts OpenAuto.                  *)
LEMMA PairingKeeps == ASSUME IInv, Pairing PROVE IInv'
<1> USE DEF IInv
<1> USE DEF Pairing, PairEnter, PairStartAp, PairKillSplash, PairLaunch,
  PairListen, PairSend, PairTrust, PairTimeout, HandshakeFails, LaunchSplash,
  KillSplash, StopAp, KillOpenAuto, LaunchOpenAuto
<1>1. ControlOK' BY DEF ControlOK, Suspended, Life, State, Event, Retriable
<1>2. FlagsOK'
  <2>1. CASE PairEnter BY <2>1 DEF FlagsOK
  <2>2. CASE PairStartAp BY ZenonT(90), <2>2 DEF FlagsOK
  <2>3. CASE PairKillSplash BY ZenonT(90), <2>3 DEF FlagsOK
  <2>4. CASE PairLaunch BY <2>4 DEF FlagsOK
  <2>5. CASE PairListen BY <2>5 DEF FlagsOK
  <2>6. CASE PairSend BY <2>6 DEF FlagsOK
  <2>7. CASE PairTrust BY ZenonT(90), <2>7 DEF FlagsOK
  <2>8. CASE PairTimeout BY <2>8 DEF FlagsOK
  <2> QED BY <2>1, <2>2, <2>3, <2>4, <2>5, <2>6, <2>7, <2>8
<1>3. ProcessesOK' BY DEF ProcessesOK
<1>4. WaitingOK' BY DEF WaitingOK, Task, DisconnectTask
<1>5. RetryCounted' BY MaxRetriesAssumption DEF RetryCounted, CountOK,
  Retriable
<1>6. DisplayHandedOver' BY DEF DisplayHandedOver, OpenAutoDraws, Retriable
<1>7. SessionInv' BY DEF SessionInv, SessionIsComplete, Retriable
<1>8. BackgroundWorkContained'
  <2>1. pc \notin {"idle_wait", "proj_wait"}
    BY DEF ControlOK, Suspended
  <2>2. (reconnecting => pc = "idle_wait")' BY <2>1 DEF BackgroundWorkContained
  <2>3. (volume => pc = "proj_wait")' BY <2>1 DEF BackgroundWorkContained
  <2> QED BY <2>2, <2>3 DEF BackgroundWorkContained
<1>9. IdleIsClean' BY DEF BackgroundWorkContained, IdleIsClean, Retriable
<1>10. DownInv' BY DEF DownInv, Retriable
<1>11. EndInv' BY DEF EndInv, IdleIsClean
<1>12. IgnitionAwaited' BY DEF IgnitionAwaited, Retriable, ControlOK, Suspended
<1> QED BY <1>1, <1>2, <1>3, <1>4, <1>5, <1>6, <1>7, <1>8, <1>9, <1>10, <1>11,
  <1>12

(* WIFI_WAIT and TCP_CONNECT wait with what BT_PAIRING has set up.         *)
LEMMA ConnectingKeeps == ASSUME IInv, Connecting PROVE IInv'
<1> USE DEF IInv
<1> USE DEF Connecting, WifiEnter, WifiClient, TcpEnter, TcpReady,
  KillOpenAuto, StopAp, StartWait
<1>1. ControlOK' BY DEF ControlOK, Suspended, Life, State, Event, Retriable
<1>2. FlagsOK'
  <2>1. CASE WifiEnter BY <2>1 DEF FlagsOK
  <2>2. CASE WifiClient BY <2>2 DEF FlagsOK
  <2>3. CASE TcpEnter BY <2>3 DEF FlagsOK
  <2>4. CASE TcpReady BY <2>4 DEF FlagsOK
  <2> QED BY <2>1, <2>2, <2>3, <2>4
<1>3. ProcessesOK' BY DEF ProcessesOK
<1>4. WaitingOK' BY DEF WaitingOK, Task, DisconnectTask
<1>5. RetryCounted' BY MaxRetriesAssumption DEF RetryCounted, CountOK,
  Retriable
<1>6. DisplayHandedOver' BY DEF DisplayHandedOver, OpenAutoDraws, Retriable
<1>7. SessionInv' BY DEF SessionInv, SessionIsComplete, Retriable
<1>8. BackgroundWorkContained'
  <2>1. (reconnecting => pc = "idle_wait")' BY DEF BackgroundWorkContained
  <2>2. (volume => pc = "proj_wait")' BY DEF BackgroundWorkContained
  <2> QED BY <2>1, <2>2 DEF BackgroundWorkContained
<1>9. IdleIsClean' BY DEF BackgroundWorkContained, IdleIsClean, Retriable
<1>10. DownInv' BY DEF DownInv, Retriable
<1>11. EndInv' BY DEF EndInv, IdleIsClean
<1>12. IgnitionAwaited' BY DEF IgnitionAwaited, Retriable
<1> QED BY <1>1, <1>2, <1>3, <1>4, <1>5, <1>6, <1>7, <1>8, <1>9, <1>10, <1>11,
  <1>12

(* PROJECTION_ACTIVE ends its background work before it decides.           *)
LEMMA ProjectingKeeps == ASSUME IInv, Projecting PROVE IInv'
<1> USE DEF IInv
<1> USE DEF Projecting, ProjEnter, ProjLeave, ProjDisconnected, ProjExited,
  ProjSplash, KillOpenAuto, LaunchSplash, StartWait
<1>1. ControlOK' BY DEF ControlOK, Suspended, Life, State, Event, Retriable
<1>2. FlagsOK' BY ZenonT(90) DEF FlagsOK
<1>3. ProcessesOK' BY DEF ProcessesOK
<1>4. WaitingOK' BY DEF WaitingOK, Task, DisconnectTask
<1>5. RetryCounted' BY MaxRetriesAssumption DEF RetryCounted, CountOK,
  Retriable
<1>6. DisplayHandedOver' BY DEF DisplayHandedOver, OpenAutoDraws, Retriable
<1>7. SessionInv'
  <2>1. CASE ProjEnter BY <2>1 DEF SessionInv, SessionIsComplete, Retriable
  <2>2. CASE ProjLeave BY <2>2 DEF SessionInv, SessionIsComplete, Retriable
  <2>3. CASE ProjDisconnected BY <2>3 DEF SessionInv, SessionIsComplete,
    Retriable
  <2>4. CASE ProjExited BY <2>4 DEF SessionInv, SessionIsComplete, Retriable
  <2>5. CASE ProjSplash BY <2>5 DEF SessionInv, SessionIsComplete, Retriable
  <2> QED BY <2>1, <2>2, <2>3, <2>4, <2>5
<1>8. BackgroundWorkContained'
  <2>1. (reconnecting => pc = "idle_wait")' BY DEF BackgroundWorkContained
  <2>2. (volume => pc = "proj_wait")' BY DEF BackgroundWorkContained
  <2> QED BY <2>1, <2>2 DEF BackgroundWorkContained
<1>9. IdleIsClean' BY DEF BackgroundWorkContained, IdleIsClean, Retriable
<1>10. DownInv' BY DEF DownInv, Retriable
<1>11. EndInv' BY DEF EndInv, IdleIsClean
<1>12. IgnitionAwaited'
  <2>1. CASE ProjEnter BY <2>1 DEF IgnitionAwaited, Retriable
  <2>2. CASE ProjLeave BY <2>2 DEF IgnitionAwaited, Retriable
  <2>3. CASE ProjDisconnected BY <2>3 DEF IgnitionAwaited, Retriable
  <2>4. CASE ProjExited BY <2>4 DEF IgnitionAwaited, Retriable
  <2>5. CASE ProjSplash BY <2>5 DEF IgnitionAwaited, Retriable
  <2> QED BY <2>1, <2>2, <2>3, <2>4, <2>5
<1> QED BY <1>1, <1>2, <1>3, <1>4, <1>5, <1>6, <1>7, <1>8, <1>9, <1>10, <1>11,
  <1>12

(* ERROR_RECOVERY counts and tries again.                                  *)
LEMMA RecoveringKeeps == ASSUME IInv, Recovering PROVE IInv'
<1> USE DEF IInv
<1> USE DEF Recovering, RecEnter, RecSplash, RecIgnitionOff, RecWaited,
  RecLaunch, RetryAvailable, LaunchSplash, KillSplash, KillOpenAuto,
  LaunchOpenAuto, StopAp
<1>1. ControlOK' BY DEF ControlOK, Suspended, Life, State, Event, Retriable
<1>2. FlagsOK' BY DEF FlagsOK
<1>3. ProcessesOK' BY DEF ProcessesOK
<1>4. WaitingOK' BY DEF WaitingOK, Task, DisconnectTask
<1>5. RetryCounted'
  <2>1. CASE RecEnter BY MaxRetriesAssumption, <2>1 DEF RetryCounted, CountOK,
    Retriable
  <2>2. CASE RecSplash BY MaxRetriesAssumption, <2>2 DEF RetryCounted, CountOK,
    Retriable
  <2>3. CASE RecIgnitionOff BY MaxRetriesAssumption, <2>3 DEF RetryCounted,
    CountOK, Retriable
  <2>4. CASE RecWaited BY MaxRetriesAssumption, <2>4 DEF RetryCounted, CountOK,
    Retriable
  <2>5. CASE RecLaunch BY MaxRetriesAssumption, <2>5 DEF RetryCounted, CountOK,
    Retriable
  <2> QED BY <2>1, <2>2, <2>3, <2>4, <2>5
<1>6. DisplayHandedOver' BY DEF DisplayHandedOver, OpenAutoDraws, Retriable
<1>7. SessionInv'
  <2>1. CASE RecEnter BY <2>1 DEF SessionInv, SessionIsComplete, Retriable
  <2>2. CASE RecSplash BY <2>2 DEF SessionInv, SessionIsComplete, Retriable
  <2>3. CASE RecIgnitionOff BY <2>3 DEF SessionInv, SessionIsComplete,
    Retriable
  <2>4. CASE RecWaited BY <2>4 DEF SessionInv, SessionIsComplete, Retriable
  <2>5. CASE RecLaunch BY <2>5 DEF SessionInv, SessionIsComplete, Retriable
  <2> QED BY <2>1, <2>2, <2>3, <2>4, <2>5
<1>8. BackgroundWorkContained'
  <2>1. (reconnecting => pc = "idle_wait")' BY DEF BackgroundWorkContained
  <2>2. (volume => pc = "proj_wait")' BY DEF BackgroundWorkContained
  <2> QED BY <2>1, <2>2 DEF BackgroundWorkContained
<1>9. IdleIsClean' BY DEF BackgroundWorkContained, IdleIsClean, Retriable
<1>10. DownInv' BY DEF DownInv, Retriable
<1>11. EndInv' BY DEF EndInv, IdleIsClean
<1>12. IgnitionAwaited' BY DEF IgnitionAwaited, Retriable
<1> QED BY <1>1, <1>2, <1>3, <1>4, <1>5, <1>6, <1>7, <1>8, <1>9, <1>10, <1>11,
  <1>12

(* A wait that ends with a lost BlueZ or the ignition.                     *)
LEMMA InterruptedKeeps == ASSUME IInv, Interrupted PROVE IInv'
<1> USE DEF IInv
<1> USE DEF Interrupted, BluezLost, IgnitionOffSeen, EndReconnectLoop,
  KillOpenAuto, Waiting
<1>1. ControlOK' BY DEF ControlOK, Suspended, Life, State, Event, Retriable
<1>2. FlagsOK' BY ZenonT(90) DEF FlagsOK
<1>3. ProcessesOK' BY DEF ProcessesOK
<1>4. WaitingOK' BY DEF WaitingOK, Task, DisconnectTask
<1>5. RetryCounted' BY MaxRetriesAssumption DEF RetryCounted, CountOK,
  Retriable
<1>6. DisplayHandedOver' BY DEF DisplayHandedOver, OpenAutoDraws, Retriable
<1>7. SessionInv' BY DEF SessionInv, SessionIsComplete, Retriable
<1>8. BackgroundWorkContained'
  <2>1. (reconnecting => pc = "idle_wait")' BY DEF BackgroundWorkContained
  <2>2. (volume => pc = "proj_wait")' BY DEF BackgroundWorkContained
  <2> QED BY <2>1, <2>2 DEF BackgroundWorkContained
<1>9. IdleIsClean' BY DEF BackgroundWorkContained, IdleIsClean, Retriable
<1>10. DownInv' BY DEF DownInv, Retriable
<1>11. EndInv' BY DEF EndInv, IdleIsClean
<1>12. IgnitionAwaited' BY DEF IgnitionAwaited, Retriable
<1> QED BY <1>1, <1>2, <1>3, <1>4, <1>5, <1>6, <1>7, <1>8, <1>9, <1>10, <1>11,
  <1>12

(* SHUTDOWN takes everything down, also when it is started over.           *)
LEMMA ShuttingDownKeeps == ASSUME IInv, ShuttingDown PROVE IInv'
<1> USE DEF IInv
<1> USE DEF ShuttingDown, DownDisplay, DownRadio, DownThermal, DownIgnition,
  DownSave, Reap, Reaped, KillOpenAuto, KillSplash, StopAp
<1>1. ControlOK' BY DEF ControlOK, Suspended, Life, State, Event, Retriable
<1>2. FlagsOK' BY ZenonT(90) DEF FlagsOK
<1>3. ProcessesOK' BY DEF ProcessesOK
<1>4. WaitingOK' BY DEF WaitingOK, Task, DisconnectTask
<1>5. RetryCounted' BY MaxRetriesAssumption DEF RetryCounted, CountOK,
  Retriable
<1>6. DisplayHandedOver' BY DEF DisplayHandedOver, OpenAutoDraws, Retriable
<1>7. SessionInv' BY DEF SessionInv, SessionIsComplete, Retriable
<1>8. BackgroundWorkContained'
  <2>1. (reconnecting => pc = "idle_wait")' BY DEF BackgroundWorkContained
  <2>2. (volume => pc = "proj_wait")' BY DEF BackgroundWorkContained
  <2> QED BY <2>1, <2>2 DEF BackgroundWorkContained
<1>9. IdleIsClean' BY DEF BackgroundWorkContained, IdleIsClean, Retriable
<1>10. DownInv'
  <2>1. CASE DownDisplay BY <2>1 DEF DownInv, Retriable
  <2>2. CASE DownRadio BY <2>2 DEF DownInv, Retriable
  <2>3. CASE DownThermal BY <2>3 DEF DownInv, Retriable
  <2>4. CASE DownIgnition BY <2>4 DEF DownInv, Retriable
  <2>5. CASE DownSave BY <2>5 DEF DownInv, Retriable
  <2> QED BY <2>1, <2>2, <2>3, <2>4, <2>5
<1>11. EndInv' BY DEF EndInv, IdleIsClean
<1>12. IgnitionAwaited' BY DEF IgnitionAwaited, Retriable
<1> QED BY <1>1, <1>2, <1>3, <1>4, <1>5, <1>6, <1>7, <1>8, <1>9, <1>10, <1>11,
  <1>12

(* The main loop catches what a handler raises.                            *)
LEMMA HandlerRaisesKeeps == ASSUME IInv, HandlerRaises PROVE IInv'
<1> USE DEF IInv
<1> USE DEF HandlerRaises, Fallible
<1>1. ControlOK' BY DEF ControlOK, Suspended, Life, State, Event, Retriable
<1>2. FlagsOK' BY DEF FlagsOK
<1>3. ProcessesOK' BY DEF ProcessesOK
<1>4. WaitingOK' BY DEF WaitingOK, Task, DisconnectTask
<1>5. RetryCounted' BY MaxRetriesAssumption DEF RetryCounted, CountOK,
  Retriable
<1>6. DisplayHandedOver' BY DEF DisplayHandedOver, OpenAutoDraws, Retriable
<1>7. SessionInv' BY DEF SessionInv, SessionIsComplete, Retriable
<1>8. BackgroundWorkContained'
  <2>1. (reconnecting => pc = "idle_wait")' BY DEF BackgroundWorkContained
  <2>2. (volume => pc = "proj_wait")' BY DEF BackgroundWorkContained
  <2> QED BY <2>1, <2>2 DEF BackgroundWorkContained
<1>9. IdleIsClean' BY DEF BackgroundWorkContained, IdleIsClean, Retriable
<1>10. DownInv' BY DEF DownInv, Retriable
<1>11. EndInv' BY DEF EndInv, IdleIsClean
<1>12. IgnitionAwaited' BY DEF IgnitionAwaited, Retriable
<1> QED BY <1>1, <1>2, <1>3, <1>4, <1>5, <1>6, <1>7, <1>8, <1>9, <1>10, <1>11,
  <1>12

(* A task that is waited for finishes.                                     *)
LEMMA TaskStepKeeps == ASSUME IInv, TaskStep PROVE IInv'
<1> USE DEF IInv
<1> USE DEF TaskStep, PhoneArrives, SetupPressed, ClientTaskEnds,
  ReadyTaskEnds, ProjectionTaskEnds, IgnitionTaskEnds, TaskEnds
<1>1. ControlOK' BY DEF ControlOK, Suspended, Life, State, Event, Retriable
<1>2. FlagsOK' BY DEF FlagsOK
<1>3. ProcessesOK' BY DEF ProcessesOK
<1>4. WaitingOK' BY DEF WaitingOK, Task, DisconnectTask
<1>5. RetryCounted' BY MaxRetriesAssumption DEF RetryCounted, CountOK,
  Retriable
<1>6. DisplayHandedOver' BY DEF DisplayHandedOver, OpenAutoDraws, Retriable
<1>7. SessionInv' BY DEF SessionInv, SessionIsComplete, Retriable
<1>8. BackgroundWorkContained'
  <2>1. (reconnecting => pc = "idle_wait")' BY DEF BackgroundWorkContained
  <2>2. (volume => pc = "proj_wait")' BY DEF BackgroundWorkContained
  <2> QED BY <2>1, <2>2 DEF BackgroundWorkContained
<1>9. IdleIsClean' BY DEF BackgroundWorkContained, IdleIsClean, Retriable
<1>10. DownInv' BY DEF DownInv, Retriable
<1>11. EndInv' BY DEF EndInv, IdleIsClean
<1>12. IgnitionAwaited' BY DEF IgnitionAwaited, Retriable
<1> QED BY <1>1, <1>2, <1>3, <1>4, <1>5, <1>6, <1>7, <1>8, <1>9, <1>10, <1>11,
  <1>12

(* The surroundings and the restart.                                       *)
LEMMA SurroundingsKeeps == ASSUME IInv, Surroundings PROVE IInv'
<1> USE DEF IInv
<1> USE DEF Surroundings, SetupLine, IgnitionSwitchedOff, OpenAutoSteps,
  SplashDies, BluezRestarts, BackgroundTaskFails, Restart
<1>1. ControlOK' BY DEF ControlOK, Suspended, Life, State, Event, Retriable
<1>2. FlagsOK'
  <2>1. CASE SetupLine BY <2>1 DEF FlagsOK
  <2>2. CASE IgnitionSwitchedOff BY <2>2 DEF FlagsOK
  <2>3. CASE OpenAutoSteps BY ZenonT(90), <2>3 DEF FlagsOK
  <2>4. CASE SplashDies BY ZenonT(90), <2>4 DEF FlagsOK
  <2>5. CASE BluezRestarts BY <2>5 DEF FlagsOK
  <2>6. CASE BackgroundTaskFails BY <2>6 DEF FlagsOK
  <2>7. CASE Restart BY <2>7 DEF FlagsOK
  <2> QED BY <2>1, <2>2, <2>3, <2>4, <2>5, <2>6, <2>7
<1>3. ProcessesOK' BY DEF ProcessesOK
<1>4. WaitingOK' BY DEF WaitingOK, Task, DisconnectTask
<1>5. RetryCounted' BY MaxRetriesAssumption DEF RetryCounted, CountOK,
  Retriable
<1>6. DisplayHandedOver' BY DEF DisplayHandedOver, OpenAutoDraws, Retriable
<1>7. SessionInv' BY DEF SessionInv, SessionIsComplete, Retriable
<1>8. BackgroundWorkContained'
  <2>1. (reconnecting => pc = "idle_wait")' BY DEF BackgroundWorkContained
  <2>2. (volume => pc = "proj_wait")' BY DEF BackgroundWorkContained
  <2> QED BY <2>1, <2>2 DEF BackgroundWorkContained
<1>9. IdleIsClean' BY DEF BackgroundWorkContained, IdleIsClean, Retriable
<1>10. DownInv' BY DEF DownInv, Retriable
<1>11. EndInv' BY DEF EndInv, IdleIsClean
<1>12. IgnitionAwaited' BY DEF IgnitionAwaited, Retriable
<1> QED BY <1>1, <1>2, <1>3, <1>4, <1>5, <1>6, <1>7, <1>8, <1>9, <1>10, <1>11,
  <1>12

-----------------------------------------------------------------------------
(* The program starts with nothing running and nothing counted.            *)
LEMMA InitEstablishes == Init => IInv
<1> SUFFICES ASSUME Init PROVE IInv
  OBVIOUS
<1> USE DEF Init
<1>1. ControlOK BY DEF ControlOK, Suspended, Life, State, Event
<1>2. FlagsOK BY DEF FlagsOK
<1>3. ProcessesOK BY DEF ProcessesOK
<1>4. WaitingOK BY DEF WaitingOK
<1>5. RetryCounted BY MaxRetriesAssumption DEF RetryCounted, CountOK, Retriable
<1>6. DisplayHandedOver BY DEF DisplayHandedOver, OpenAutoDraws
<1>7. SessionInv BY DEF SessionInv, SessionIsComplete
<1>8. BackgroundWorkContained BY DEF BackgroundWorkContained
<1>9. IdleIsClean BY DEF IdleIsClean
<1>10. DownInv BY DEF DownInv
<1>11. EndInv BY DEF EndInv
<1>12. IgnitionAwaited BY DEF IgnitionAwaited
<1> QED BY <1>1, <1>2, <1>3, <1>4, <1>5, <1>6, <1>7, <1>8, <1>9, <1>10, <1>11, <1>12 DEF IInv

(* A step that changes nothing.                                            *)
LEMMA StutterKeeps == ASSUME IInv, UNCHANGED vars PROVE IInv'
<1> USE DEF IInv, vars
<1>1. ControlOK' BY DEF ControlOK, Suspended
<1>2. FlagsOK' BY DEF FlagsOK
<1>3. ProcessesOK' BY DEF ProcessesOK
<1>4. WaitingOK' BY DEF WaitingOK
<1>5. RetryCounted' BY DEF RetryCounted, CountOK
<1>6. DisplayHandedOver' BY DEF DisplayHandedOver, OpenAutoDraws
<1>7. SessionInv' BY DEF SessionInv, SessionIsComplete
<1>8. BackgroundWorkContained' BY DEF BackgroundWorkContained
<1>9. IdleIsClean' BY DEF IdleIsClean
<1>10. DownInv' BY DEF DownInv
<1>11. EndInv' BY DEF EndInv
<1>12. IgnitionAwaited' BY DEF IgnitionAwaited
<1> QED BY <1>1, <1>2, <1>3, <1>4, <1>5, <1>6, <1>7, <1>8, <1>9, <1>10, <1>11, <1>12

(* IInv is an inductive invariant.                                         *)
LEMMA Invariance == Spec => []IInv
<1>1. ASSUME IInv, [Next]_vars PROVE IInv'
  BY <1>1, BootingKeeps, IdlingKeeps, SettingUpKeeps, PairingKeeps, ConnectingKeeps,
     ProjectingKeeps, RecoveringKeeps, InterruptedKeeps, ShuttingDownKeeps,
     HandlerRaisesKeeps, TaskStepKeeps, SurroundingsKeeps, StutterKeeps
     DEF Next, HandlerStep
<1> QED BY <1>1, InitEstablishes, PTL DEF Spec

(***************************************************************************)
(* Every variable keeps its type: no handler is ever suspended at an await *)
(* of another, and the recovery counter stays within MAX_RETRIES although  *)
(* it is incremented before it is compared.                                *)
(***************************************************************************)
THEOREM TypeCorrect == Spec => []TypeOK
<1>1. IInv => TypeOK BY DEF IInv, TypeOK, RetryCounted
<1> QED BY <1>1, Invariance, PTL

(***************************************************************************)
(* No splash process holds the display from the launch of OpenAuto to the  *)
(* end of the session, on the first attempt and on every retry.            *)
(***************************************************************************)
THEOREM DisplaySafe == Spec => []DisplayHandedOver
<1>1. IInv => DisplayHandedOver BY DEF IInv
<1> QED BY <1>1, Invariance, PTL

(***************************************************************************)
(* Nothing of an earlier session is left while IDLE invites a new phone,   *)
(* whichever way the earlier session failed.                               *)
(***************************************************************************)
THEOREM IdleSafe == Spec => []IdleIsClean
<1>1. IInv => IdleIsClean BY DEF IInv
<1> QED BY <1>1, Invariance, PTL

(***************************************************************************)
(* The handlers after the credential exchange, ERROR_RECOVERY included,    *)
(* have the phone, the access point and no advertisement.                  *)
(***************************************************************************)
THEOREM SessionSafe == Spec => []SessionIsComplete
<1>1. IInv => SessionIsComplete BY DEF IInv, SessionInv
<1> QED BY <1>1, Invariance, PTL

(***************************************************************************)
(* No reconnect loop or volume sync outlives the wait it belongs to.       *)
(***************************************************************************)
THEOREM BackgroundSafe == Spec => []BackgroundWorkContained
<1>1. IInv => BackgroundWorkContained BY DEF IInv
<1> QED BY <1>1, Invariance, PTL

(***************************************************************************)
(* At an exit no OpenAuto, reconnect loop or volume sync runs, nor, but    *)
(* for a projection that was broken off, the access point; at a halt all   *)
(* is stopped, even when SHUTDOWN was started over by an exception.        *)
(***************************************************************************)
THEOREM EndSafe == Spec => []EndsClean
<1>1. IInv => EndsClean
  <2> SUFFICES ASSUME IInv PROVE EndsClean
    OBVIOUS
  <2>1. life = "exited" =>
          /\ openauto # Running /\ ~volume /\ ~reconnecting
          /\ ap => state = "PROJECTION_ACTIVE"
    <3>1. life = "exited" => ~volume /\ ~reconnecting /\ openauto # Running
      BY DEF IInv, EndInv, BackgroundWorkContained
    <3>2. life = "exited" /\ ap => state = "PROJECTION_ACTIVE"
      BY DEF IInv, EndInv, IdleIsClean, ControlOK, Suspended
    <3> QED BY <3>1, <3>2
  <2>2. life = "halted" => ~volume /\ ~reconnecting
    BY DEF IInv, EndInv, BackgroundWorkContained
  <2>3. life = "halted" =>
          /\ openauto # Running /\ ~splash /\ ~ap /\ ~advertising /\ bluez = "none"
          /\ thermalTask # Running /\ ignitionTask # Running
    BY DEF IInv, EndInv, DownInv
  <2> QED BY <2>1, <2>2, <2>3 DEF EndsClean
<1> QED BY <1>1, Invariance, PTL

-----------------------------------------------------------------------------
(***************************************************************************)
(* An ignition that was noticed beats whatever else ended the same wait.   *)
(***************************************************************************)
THEOREM IgnitionFirst == Spec => IgnitionWins
<1> DEFINE Beats ==
      ("ignition" \in done /\ "bluez" \notin done /\ state' # state) => state' = "SHUTDOWN"
<1>1. ASSUME IInv, [Next]_vars PROVE Beats
  <2> SUFFICES ASSUME "ignition" \in done, "bluez" \notin done, state' # state
               PROVE  state' = "SHUTDOWN"
    OBVIOUS
  <2>a. \/ pc \in {"idle_wait", "wifi_wait", "tcp_wait", "proj_wait", "proj_decide"}
        \/ state = "SHUTDOWN"
    BY <1>1 DEF IInv, IgnitionAwaited
  <2>b. life # "exited"
    BY <1>1 DEF IInv, EndInv
  <2>c. state \notin {"BOOTING", "BT_PAIRING"}
    BY <1>1, <2>a DEF IInv, ControlOK, Suspended
  <2>1. CASE Booting
    BY <2>1, <2>c DEF Booting, BootMonitors, BootSplash, BootBle, BootAborts
  <2>2. CASE Idling
    BY <2>2, <2>a DEF Idling, IdleEnter, IdleStop, IdleSplash, IdleAdvertise, IdleLeave,
       IdleSetup, IdlePhone
  <2>3. CASE SettingUp BY <2>3 DEF SettingUp, SetupLaunch, SetupRead
  <2>4. CASE Pairing
    BY <2>4, <2>c DEF Pairing, PairEnter, PairStartAp, PairKillSplash, PairLaunch, PairListen,
       PairSend, PairTrust, PairTimeout
  <2>5. CASE Connecting
    BY <2>5, <2>a DEF Connecting, WifiEnter, WifiClient, TcpEnter, TcpReady
  <2>6. CASE Projecting
    BY <2>6, <2>a DEF Projecting, ProjEnter, ProjLeave, ProjDisconnected, ProjExited, ProjSplash
  <2>7. CASE Recovering
    BY <2>7, <2>a DEF Recovering, RecEnter, RecSplash, RecIgnitionOff, RecWaited, RecLaunch
  <2>8. CASE Interrupted BY <2>8 DEF Interrupted, BluezLost, IgnitionOffSeen
  <2>9. CASE ShuttingDown
    BY <2>9 DEF ShuttingDown, DownDisplay, DownRadio, DownThermal, DownIgnition, DownSave, Reap
  <2>10. CASE HandlerRaises BY <2>10, <2>a DEF HandlerRaises, Fallible, Retriable
  <2>11. CASE TaskStep
    BY <2>11 DEF TaskStep, PhoneArrives, SetupPressed, ClientTaskEnds, ReadyTaskEnds,
       ProjectionTaskEnds, IgnitionTaskEnds, TaskEnds
  <2>12. CASE Surroundings
    BY <2>12, <2>a, <2>b DEF Surroundings, SetupLine, IgnitionSwitchedOff, OpenAutoSteps,
       SplashDies, BluezRestarts, BackgroundTaskFails, Restart
  <2>13. CASE UNCHANGED vars BY <2>13 DEF vars
  <2> QED
    BY <1>1, <2>1, <2>2, <2>3, <2>4, <2>5, <2>6, <2>7, <2>8, <2>9, <2>10, <2>11, <2>12, <2>13
       DEF Next, HandlerStep
<1>2. IInv /\ [Next]_vars => [Beats]_vars
  BY <1>1
<1> QED BY <1>2, Invariance, PTL DEF Spec, IgnitionWins

-----------------------------------------------------------------------------
(* How far before the next failure each await of a session is.             *)
LEMMA BeforeValues ==
  /\ Before("BT_PAIRING", "enter") = 16 /\ Before("WIFI_WAIT", "enter") = 9
  /\ Before("TCP_CONNECT", "enter") = 7 /\ Before("PROJECTION_ACTIVE", "enter") = 5
  /\ Before("ERROR_RECOVERY", "enter") = 1
  /\ \A h : /\ Before(h, "pair_ap") = 15 /\ Before(h, "pair_splash") = 14
             /\ Before(h, "pair_launch") = 13 /\ Before(h, "pair_listen") = 12
             /\ Before(h, "pair_send") = 11 /\ Before(h, "pair_trust") = 10
             /\ Before(h, "wifi_wait") = 8 /\ Before(h, "tcp_wait") = 6
             /\ Before(h, "proj_wait") = 4 /\ Before(h, "proj_decide") = 3
             /\ Before(h, "proj_splash") = 2 /\ Before(h, "rec_splash") = 10
             /\ Before(h, "rec_wait") = 9 /\ Before(h, "rec_launch") = 8
BY DEF Before, FromEntry, FromAwait

(* The two ways to go forward: nearer to the next failure, or past one,    *)
(* which is counted, to the start of the next round.                       *)
Nearer ==
  /\ retryCount' = retryCount
  /\ Before(state, pc) \in 1 .. 16 /\ Before(state', pc') \in 1 .. 16
  /\ Before(state', pc') < Before(state, pc)

NextRound ==
  /\ retryCount' = retryCount + 1 /\ retryCount < MaxRetries
  /\ Before(state, pc) = 1 /\ Before(state', pc') = 10

LEMMA ForwardCounts ==
  ASSUME RetryCounted, Nearer \/ NextRound PROVE AwaitsLeft' \in 0 .. AwaitsLeft - 1
<1> DEFINE b == Before(state, pc)  c == Before(state', pc')
<1>1. retryCount \in 0 .. MaxRetries /\ MaxRetries \in Nat
  BY MaxRetriesAssumption DEF RetryCounted, CountOK
<1>2. AwaitsLeft = 10 * (MaxRetries - retryCount) + b
  BY DEF AwaitsLeft
<1>3. AwaitsLeft' = 10 * (MaxRetries - retryCount') + c
  BY DEF AwaitsLeft
<1>4. CASE Nearer
  <2>1. b \in 1 .. 16 /\ c \in 1 .. 16 /\ c < b /\ retryCount' = retryCount
    BY <1>4 DEF Nearer
  <2> HIDE DEF b, c
  <2> QED BY <1>1, <1>2, <1>3, <2>1
<1>5. CASE NextRound
  <2>1. b = 1 /\ c = 10 /\ retryCount' = retryCount + 1 /\ retryCount < MaxRetries
    BY <1>5 DEF NextRound
  <2> HIDE DEF b, c
  <2> QED BY <1>1, <1>2, <1>3, <2>1
<1> QED BY <1>4, <1>5

LEMMA StepAdvances ==
  ASSUME IInv, [Next]_vars, InSession, InSession', <<state, pc>>' # <<state, pc>>
  PROVE  Nearer \/ NextRound
<1>c. ControlOK /\ RetryCounted BY DEF IInv
<1>s. state \in {"BT_PAIRING", "WIFI_WAIT", "TCP_CONNECT", "PROJECTION_ACTIVE",
                 "ERROR_RECOVERY"}
  BY DEF InSession
<1>t. state' \in {"BT_PAIRING", "WIFI_WAIT", "TCP_CONNECT", "PROJECTION_ACTIVE",
                  "ERROR_RECOVERY"}
  BY DEF InSession
<1>1. ~Booting
  BY <1>s DEF Booting, BootMonitors, BootSplash, BootBle, BootAborts
<1>2. ~Idling
  BY <1>s DEF Idling, IdleEnter, IdleStop, IdleSplash, IdleAdvertise, IdleLeave,
     IdleSetup, IdlePhone
<1>3. ~SettingUp BY <1>s DEF SettingUp, SetupLaunch, SetupRead
<1>4. CASE Pairing
  <2>1. /\ \/ /\ state' = "BT_PAIRING"
              /\ \/ pc = "enter" /\ pc' = "pair_ap"
                 \/ pc = "pair_ap" /\ pc' = "pair_splash"
                 \/ pc = "pair_splash" /\ pc' = "pair_launch"
                 \/ pc = "pair_launch" /\ pc' = "pair_listen"
                 \/ pc = "pair_listen" /\ pc' = "pair_send"
                 \/ pc = "pair_send" /\ pc' = "pair_trust"
           \/ pc = "pair_trust" /\ state' = "WIFI_WAIT" /\ pc' = "enter"
        /\ state = "BT_PAIRING" /\ retryCount' = retryCount
    BY <1>4, <1>t DEF Pairing, PairEnter, PairStartAp, PairKillSplash, PairLaunch, PairListen,
       PairSend, PairTrust, PairTimeout, HandshakeFails
  <2> QED BY <2>1, BeforeValues DEF Nearer
<1>5. CASE Connecting
  <2>1. /\ \/ state = "WIFI_WAIT" /\ pc = "enter" /\ state' = state /\ pc' = "wifi_wait"
           \/ pc = "wifi_wait" /\ state' = "TCP_CONNECT" /\ pc' = "enter"
           \/ state = "TCP_CONNECT" /\ pc = "enter" /\ state' = state /\ pc' = "tcp_wait"
           \/ pc = "tcp_wait" /\ state' = "PROJECTION_ACTIVE" /\ pc' = "enter"
           \/ pc = "tcp_wait" /\ state' = "ERROR_RECOVERY" /\ pc' = "enter"
        /\ retryCount' = retryCount
    BY <1>5, <1>t DEF Connecting, WifiEnter, WifiClient, TcpEnter, TcpReady
  <2> QED BY <2>1, BeforeValues DEF Nearer
<1>6. CASE Projecting
  <2>1. /\ \/ /\ state = "PROJECTION_ACTIVE" /\ state' = state
              /\ \/ pc = "enter" /\ pc' = "proj_wait"
                 \/ pc = "proj_wait" /\ pc' = "proj_decide"
                 \/ pc = "proj_decide" /\ pc' = "proj_splash"
           \/ pc = "proj_decide" /\ state' = "ERROR_RECOVERY" /\ pc' = "enter"
        /\ retryCount' = retryCount
    BY <1>6, <1>t DEF Projecting, ProjEnter, ProjLeave, ProjDisconnected, ProjExited, ProjSplash
  <2> QED BY <2>1, BeforeValues DEF Nearer
<1>7. CASE Recovering
  <2>1. CASE RecEnter
    <3>1. retryCount < MaxRetries
      BY <2>1, <1>c DEF RecEnter, RetryCounted
    <3>2. /\ state = "ERROR_RECOVERY" /\ pc = "enter" /\ pc' = "rec_splash"
          /\ retryCount' = retryCount + 1
      BY <2>1 DEF RecEnter
    <3> QED BY <3>1, <3>2, BeforeValues DEF NextRound
  <2>2. CASE ~RecEnter
    <3>1. /\ \/ pc = "rec_splash" /\ pc' = "rec_wait"
             \/ pc = "rec_wait" /\ pc' = "rec_launch"
             \/ pc = "rec_launch" /\ state' = "TCP_CONNECT" /\ pc' = "enter"
          /\ retryCount' = retryCount
      BY <1>7, <2>2, <1>t DEF Recovering, RecSplash, RecIgnitionOff, RecWaited, RecLaunch
    <3> QED BY <3>1, BeforeValues DEF Nearer
  <2> QED BY <2>1, <2>2
<1>8. ~BluezLost BY DEF BluezLost
<1>9. ~IgnitionOffSeen BY <1>t DEF IgnitionOffSeen
<1>10. ~ShuttingDown
  BY <1>s DEF ShuttingDown, DownDisplay, DownRadio, DownThermal, DownIgnition, DownSave
<1>11. CASE HandlerRaises
  <2>1. state \in Retriable BY <1>11, <1>t DEF HandlerRaises
  <2>2. pc \in {"tcp_wait", "proj_decide", "proj_splash"}
    BY <1>11, <1>c, <2>1 DEF HandlerRaises, Fallible, ControlOK, Suspended, Retriable
  <2>3. state' = "ERROR_RECOVERY" /\ pc' = "enter" /\ retryCount' = retryCount
    BY <1>11, <2>1 DEF HandlerRaises
  <2> QED BY <2>2, <2>3, BeforeValues DEF Nearer
<1>12. ~TaskStep
  BY DEF TaskStep, PhoneArrives, SetupPressed, ClientTaskEnds, ReadyTaskEnds,
     ProjectionTaskEnds, IgnitionTaskEnds, TaskEnds
<1>13. ~Surroundings
  BY <1>s, <1>t DEF Surroundings, SetupLine, IgnitionSwitchedOff, OpenAutoSteps, SplashDies,
     BluezRestarts, BackgroundTaskFails, Restart
<1>14. ~UNCHANGED vars BY DEF vars
<1> QED
  BY <1>1, <1>2, <1>3, <1>4, <1>5, <1>6, <1>7, <1>8, <1>9, <1>10, <1>11, <1>12, <1>13, <1>14
     DEF Next, HandlerStep, Interrupted

(***************************************************************************)
(* A session only goes forward, for every retry limit and every choice of  *)
(* faults: from the first await of BT_PAIRING it comes to at most          *)
(* 10 * MaxRetries + 16 awaits before it is back in IDLE, in SHUTDOWN or   *)
(* at the end of the program.                                              *)
(***************************************************************************)
THEOREM SessionForward == Spec => SessionAdvances
<1>1. ASSUME IInv, [Next]_vars
      PROVE  InSession /\ InSession' /\ <<state, pc>>' # <<state, pc>> =>
               AwaitsLeft' \in 0 .. AwaitsLeft - 1
  BY <1>1, StepAdvances, ForwardCounts DEF IInv
<1> QED BY <1>1, Invariance, PTL DEF Spec, SessionAdvances

-----------------------------------------------------------------------------
(* The life cycle of Lifecycle.tla.                                        *)

USE DEF Promise!vars

(* A documented transition is a step of the life cycle.                    *)
LEMMA EdgeTaken ==
  ASSUME NEW s, NEW e, NEW t, <<s, e, t>> \in Promise!Edge, Promise!Take(s, e, t)
  PROVE  Promise!Next
  BY DEF Promise!Next

(* The transitions the handlers make.                                      *)
LEMMA Edges ==
  /\ <<"BOOTING", "SERVICES_STARTED", "IDLE">> \in Promise!Edge
  /\ <<"BOOTING", "BOOT_TIMEOUT", "SHUTDOWN">> \in Promise!Edge
  /\ <<"IDLE", "PHONE_DETECTED", "BT_PAIRING">> \in Promise!Edge
  /\ <<"IDLE", "PHONE_DISCONNECTED", "IDLE">> \in Promise!Edge
  /\ <<"BT_PAIRING", "CREDENTIALS_SENT", "WIFI_WAIT">> \in Promise!Edge
  /\ <<"BT_PAIRING", "BT_HANDSHAKE_FAILED", "IDLE">> \in Promise!Edge
  /\ <<"WIFI_WAIT", "PHONE_JOINED_AP", "TCP_CONNECT">> \in Promise!Edge
  /\ <<"WIFI_WAIT", "WIFI_TIMEOUT", "IDLE">> \in Promise!Edge
  /\ <<"TCP_CONNECT", "OPENAUTO_READY", "PROJECTION_ACTIVE">> \in Promise!Edge
  /\ <<"TCP_CONNECT", "OPENAUTO_FAILED", "ERROR_RECOVERY">> \in Promise!Edge
  /\ <<"PROJECTION_ACTIVE", "PHONE_DISCONNECTED", "IDLE">> \in Promise!Edge
  /\ <<"ERROR_RECOVERY", "RETRY_AVAILABLE", "TCP_CONNECT">> \in Promise!Edge
  /\ <<"ERROR_RECOVERY", "RETRIES_EXHAUSTED", "IDLE">> \in Promise!Edge
  BY DEF Promise!Edge

(* The ignition leads to SHUTDOWN from every state but BOOTING.            *)
LEMMA IgnitionEdge ==
  ASSUME NEW s \in State \ {"BOOTING", "SHUTDOWN"}
  PROVE  <<s, "IGNITION_OFF", "SHUTDOWN">> \in Promise!Edge
  BY DEF Promise!Edge, Promise!State, State

(* An exception in a state without a retry leads to SHUTDOWN,              *)
LEMMA FailureEdge ==
  ASSUME NEW s \in State \ Retriable
  PROVE  <<s, "BOOT_FAILED", "SHUTDOWN">> \in Promise!Edge
  BY DEF Promise!Edge, Promise!State, State, Promise!Retriable, Retriable

(* in the others to ERROR_RECOVERY.                                        *)
LEMMA RetryEdge ==
  ASSUME NEW s \in Retriable
  PROVE  <<s, "CONNECTION_LOST", "ERROR_RECOVERY">> \in Promise!Edge
  BY DEF Promise!Edge, Promise!Retriable, Retriable

(* Every step takes an edge of the life cycle or is invisible to it.       *)
LEMMA StepKeepsLifecycle == ASSUME IInv, [Next]_vars PROVE [Promise!Next]_(Promise!vars)
<1> USE DEF Attempts
<1>c. ControlOK /\ RetryCounted BY DEF IInv
<1>1. CASE Booting
  <2>1. BootMonitors \/ BootSplash => UNCHANGED Promise!vars
    BY DEF BootMonitors, BootSplash
  <2>2. BootBle => Promise!Take("BOOTING", "SERVICES_STARTED", "IDLE")
    BY DEF BootBle, Promise!Take
  <2>3. BootAborts => \/ Promise!Take("BOOTING", "BOOT_TIMEOUT", "SHUTDOWN")
                      \/ Promise!Take("BOOTING", "BOOT_FAILED", "SHUTDOWN")
    BY DEF BootAborts, Promise!Take
  <2>4. <<"BOOTING", "BOOT_FAILED", "SHUTDOWN">> \in Promise!Edge
    BY FailureEdge DEF State, Retriable
  <2> QED BY <1>1, <2>1, <2>2, <2>3, <2>4, EdgeTaken, Edges DEF Booting
<1>2. CASE Idling
  <2>1. IdleEnter \/ IdleStop \/ IdleSplash \/ IdleAdvertise \/ IdleSetup =>
          UNCHANGED Promise!vars
    BY DEF IdleEnter, IdleStop, IdleSplash, IdleAdvertise, IdleSetup, IdleLeave
  <2>2. IdlePhone => \/ Promise!Take("IDLE", "PHONE_DETECTED", "BT_PAIRING")
                     \/ UNCHANGED Promise!vars
    BY <1>c DEF IdlePhone, IdleLeave, RetryCounted, Promise!Take
  <2> QED BY <1>2, <2>1, <2>2, EdgeTaken, Edges DEF Idling
<1>3. CASE SettingUp
  <2>1. \/ Promise!Take("IDLE", "PHONE_DISCONNECTED", "IDLE")
        \/ UNCHANGED Promise!vars
    BY <1>3 DEF SettingUp, SetupLaunch, SetupRead, Promise!Take
  <2> QED BY <2>1, EdgeTaken, Edges
<1>4. CASE Pairing
  <2>1. PairEnter => \/ Promise!Take("BT_PAIRING", "IGNITION_OFF", "SHUTDOWN")
                     \/ UNCHANGED Promise!vars
    BY DEF PairEnter, Promise!Take
  <2>2. PairStartAp \/ PairLaunch \/ PairListen \/ PairSend \/ PairTimeout =>
          \/ Promise!Take("BT_PAIRING", "BT_HANDSHAKE_FAILED", "IDLE")
          \/ UNCHANGED Promise!vars
    BY DEF PairStartAp, PairLaunch, PairListen, PairSend, PairTimeout, HandshakeFails,
       Promise!Take
  <2>3. PairKillSplash => UNCHANGED Promise!vars
    BY DEF PairKillSplash
  <2>4. PairTrust => Promise!Take("BT_PAIRING", "CREDENTIALS_SENT", "WIFI_WAIT")
    BY DEF PairTrust, Promise!Take
  <2>5. <<"BT_PAIRING", "IGNITION_OFF", "SHUTDOWN">> \in Promise!Edge
    BY IgnitionEdge DEF State
  <2> QED BY <1>4, <2>1, <2>2, <2>3, <2>4, <2>5, EdgeTaken, Edges DEF Pairing
<1>5. CASE Connecting
  <2>1. WifiEnter => UNCHANGED Promise!vars
    BY DEF WifiEnter
  <2>2. WifiClient => \/ Promise!Take("WIFI_WAIT", "PHONE_JOINED_AP", "TCP_CONNECT")
                      \/ Promise!Take("WIFI_WAIT", "WIFI_TIMEOUT", "IDLE")
    BY DEF WifiClient, Promise!Take
  <2>3. TcpEnter => \/ Promise!Take("TCP_CONNECT", "IGNITION_OFF", "SHUTDOWN")
                    \/ UNCHANGED Promise!vars
    BY DEF TcpEnter, Promise!Take
  <2>4. TcpReady => \/ Promise!Take("TCP_CONNECT", "OPENAUTO_READY", "PROJECTION_ACTIVE")
                    \/ Promise!Take("TCP_CONNECT", "OPENAUTO_FAILED", "ERROR_RECOVERY")
    BY DEF TcpReady, Promise!Take
  <2>5. <<"TCP_CONNECT", "IGNITION_OFF", "SHUTDOWN">> \in Promise!Edge
    BY IgnitionEdge DEF State
  <2> QED BY <1>5, <2>1, <2>2, <2>3, <2>4, <2>5, EdgeTaken, Edges DEF Connecting
<1>6. CASE Projecting
  <2>1. ProjEnter \/ ProjLeave \/ ProjDisconnected => UNCHANGED Promise!vars
    BY DEF ProjEnter, ProjLeave, ProjDisconnected
  <2>2. ProjExited => \/ Promise!Take("PROJECTION_ACTIVE", "CONNECTION_LOST", "ERROR_RECOVERY")
                      \/ UNCHANGED Promise!vars
    BY DEF ProjExited, Promise!Take
  <2>3. ProjSplash => Promise!Take("PROJECTION_ACTIVE", "PHONE_DISCONNECTED", "IDLE")
    BY DEF ProjSplash, Promise!Take
  <2>4. <<"PROJECTION_ACTIVE", "CONNECTION_LOST", "ERROR_RECOVERY">> \in Promise!Edge
    BY RetryEdge DEF Retriable
  <2> QED BY <1>6, <2>1, <2>2, <2>3, <2>4, EdgeTaken, Edges DEF Projecting
<1>7. CASE Recovering
  <2>1. RecEnter => UNCHANGED Promise!vars
    BY DEF RecEnter
  <2>2. RecSplash \/ RecIgnitionOff =>
          \/ Promise!Take("ERROR_RECOVERY", "IGNITION_OFF", "SHUTDOWN")
          \/ UNCHANGED Promise!vars
    BY DEF RecSplash, RecIgnitionOff, Promise!Take
  <2>3. RecWaited => \/ Promise!Take("ERROR_RECOVERY", "RETRIES_EXHAUSTED", "IDLE")
                     \/ UNCHANGED Promise!vars
    BY DEF RecWaited, Promise!Take
  <2>4. RecLaunch => \/ Promise!Take("ERROR_RECOVERY", "RETRY_AVAILABLE", "TCP_CONNECT")
                     \/ Promise!Take("ERROR_RECOVERY", "RETRIES_EXHAUSTED", "IDLE")
    BY <1>c DEF RecLaunch, RetryCounted, Promise!Take
  <2>5. <<"ERROR_RECOVERY", "IGNITION_OFF", "SHUTDOWN">> \in Promise!Edge
    BY IgnitionEdge DEF State
  <2> QED BY <1>7, <2>1, <2>2, <2>3, <2>4, <2>5, EdgeTaken, Edges DEF Recovering
<1>8. CASE BluezLost
  <2>1. Promise!Exit
    BY <1>8, <1>c DEF BluezLost, ControlOK, Suspended, Promise!Exit
  <2> QED BY <2>1 DEF Promise!Next
<1>9. CASE IgnitionOffSeen
  <2>1. state \in State \ {"BOOTING", "SHUTDOWN"}
    BY <1>9, <1>c DEF IgnitionOffSeen, Waiting, ControlOK, Suspended
  <2>2. Promise!Take(state, "IGNITION_OFF", "SHUTDOWN")
    BY <1>9, <1>c, <2>1 DEF IgnitionOffSeen, Waiting, ControlOK, Suspended, RetryCounted,
       Promise!Take
  <2> QED BY <2>1, <2>2, IgnitionEdge, EdgeTaken
<1>10. CASE ShuttingDown
  <2>1. DownDisplay \/ DownRadio => UNCHANGED Promise!vars
    BY DEF DownDisplay, DownRadio
  <2>2. DownThermal \/ DownIgnition => \/ Promise!Take("SHUTDOWN", "BOOT_FAILED", "SHUTDOWN")
                                       \/ UNCHANGED Promise!vars
    BY DEF DownThermal, DownIgnition, Reap, Promise!Take
  <2>3. DownSave => Promise!Halt
    BY DEF DownSave, Promise!Halt
  <2>4. <<"SHUTDOWN", "BOOT_FAILED", "SHUTDOWN">> \in Promise!Edge
    BY FailureEdge DEF State, Retriable
  <2> QED BY <1>10, <2>1, <2>2, <2>3, <2>4, EdgeTaken DEF ShuttingDown, Promise!Next
<1>11. CASE HandlerRaises
  <2>1. CASE state \in Retriable
    <3>1. Promise!Take(state, "CONNECTION_LOST", "ERROR_RECOVERY")
      BY <1>11, <2>1 DEF HandlerRaises, Retriable, Promise!Take
    <3> QED BY <2>1, <3>1, RetryEdge, EdgeTaken
  <2>2. CASE state \notin Retriable
    <3>1. state \in State \ Retriable
      BY <1>c, <2>2 DEF ControlOK
    <3>2. pc # "enter"
      BY <1>11 DEF HandlerRaises, Fallible
    <3>3. Promise!Take(state, "BOOT_FAILED", "SHUTDOWN")
      BY <1>11, <1>c, <2>2, <3>2 DEF HandlerRaises, RetryCounted, Promise!Take
    <3> QED BY <3>1, <3>3, FailureEdge, EdgeTaken
  <2> QED BY <2>1, <2>2
<1>12. CASE TaskStep
  BY <1>12 DEF TaskStep, PhoneArrives, SetupPressed, ClientTaskEnds, ReadyTaskEnds,
     ProjectionTaskEnds, IgnitionTaskEnds, TaskEnds
<1>13. CASE Surroundings
  <2>1. SetupLine => \/ Promise!Take("IDLE", "PHONE_DISCONNECTED", "IDLE")
                     \/ UNCHANGED Promise!vars
    BY DEF SetupLine, Promise!Take
  <2>2. Restart => Promise!Restart
    BY DEF Restart, Promise!Restart
  <2>3. IgnitionSwitchedOff \/ OpenAutoSteps \/ SplashDies \/ BluezRestarts
          \/ BackgroundTaskFails => UNCHANGED Promise!vars
    BY DEF IgnitionSwitchedOff, OpenAutoSteps, SplashDies, BluezRestarts, BackgroundTaskFails
  <2> QED BY <1>13, <2>1, <2>2, <2>3, EdgeTaken, Edges DEF Surroundings, Promise!Next
<1>14. CASE UNCHANGED vars BY <1>14 DEF vars
<1> QED
  BY <1>1, <1>2, <1>3, <1>4, <1>5, <1>6, <1>7, <1>8, <1>9, <1>10, <1>11, <1>12, <1>13, <1>14
     DEF Next, HandlerStep, Interrupted

(***************************************************************************)
(* The orchestrator implements the life cycle it promises: only the        *)
(* documented transitions, a bounded number of recoveries per connection,  *)
(* an exit only out of IDLE or a projection, and a halt only after         *)
(* SHUTDOWN.                                                               *)
(***************************************************************************)
THEOREM ImplementsLifecycle == Spec => KeepsLifecycle
<1>1. Init => Promise!Init
  BY DEF Init, Promise!Init, Attempts
<1> QED BY <1>1, Invariance, StepKeepsLifecycle, PTL DEF Spec, KeepsLifecycle, Promise!Spec

-----------------------------------------------------------------------------
(* The documentation promises that SHUTDOWN completes.  What the code does *)
(* instead, for every retry limit and every choice of faults: a background *)
(* task that has failed is never forgotten, and its failure is never       *)
(* passed over.                                                            *)

(* Beyond a step of SHUTDOWN that awaits a task, the task had not failed;  *)
(* BOOTING starts its tasks once.                                          *)
ReapedBefore ==
  /\ state = "SHUTDOWN" /\ pc \in {"down_ignition", "down_save"} =>
       thermalTask \notin {Running, "failed"}
  /\ state = "SHUTDOWN" /\ pc = "down_save" => ignitionTask \notin {Running, "failed"}
  /\ state = "BOOTING" /\ pc = "enter" => thermalTask = "none" /\ ignitionTask = "none"

FailureForbidsHalt ==
  life = "halted" => thermalTask # "failed" /\ ignitionTask # "failed"

FailureRemembered ==
  [][/\ thermalTask = "failed" => thermalTask' = "failed" \/ life = "exited"
     /\ ignitionTask = "failed" => ignitionTask' = "failed" \/ life = "exited"]_vars

(* Only BOOTING, SHUTDOWN, the tasks themselves, the pin and a restart     *)
(* change the background tasks.                                            *)
LEMMA OthersLeaveTasks ==
  ASSUME \/ BootSplash \/ BootBle \/ BootAborts \/ Idling \/ SettingUp \/ Pairing
         \/ Connecting \/ Projecting \/ Recovering \/ Interrupted
         \/ DownDisplay \/ DownRadio \/ DownSave \/ HandlerRaises \/ TaskStep
         \/ SetupLine \/ OpenAutoSteps \/ SplashDies \/ BluezRestarts
  PROVE  thermalTask' = thermalTask /\ ignitionTask' = ignitionTask
<1>1. CASE BootSplash \/ BootBle \/ BootAborts
  BY <1>1 DEF BootSplash, BootBle, BootAborts
<1>2. CASE Idling
  BY <1>2 DEF Idling, IdleEnter, IdleStop, IdleSplash, IdleAdvertise, IdleSetup, IdlePhone,
     IdleLeave
<1>3. CASE SettingUp BY <1>3 DEF SettingUp, SetupLaunch, SetupRead
<1>4. CASE Pairing
  BY <1>4 DEF Pairing, PairEnter, PairStartAp, PairKillSplash, PairLaunch, PairListen,
     PairSend, PairTrust, PairTimeout, HandshakeFails
<1>5. CASE Connecting BY <1>5 DEF Connecting, WifiEnter, WifiClient, TcpEnter, TcpReady
<1>6. CASE Projecting
  BY <1>6 DEF Projecting, ProjEnter, ProjLeave, ProjDisconnected, ProjExited, ProjSplash
<1>7. CASE Recovering
  BY <1>7 DEF Recovering, RecEnter, RecSplash, RecIgnitionOff, RecWaited, RecLaunch
<1>8. CASE Interrupted BY <1>8 DEF Interrupted, BluezLost, IgnitionOffSeen
<1>9. CASE DownDisplay \/ DownRadio \/ DownSave
  BY <1>9 DEF DownDisplay, DownRadio, DownSave
<1>10. CASE HandlerRaises BY <1>10 DEF HandlerRaises
<1>11. CASE TaskStep
  BY <1>11 DEF TaskStep, PhoneArrives, SetupPressed, ClientTaskEnds, ReadyTaskEnds,
     ProjectionTaskEnds, IgnitionTaskEnds, TaskEnds
<1>12. CASE SetupLine \/ OpenAutoSteps \/ SplashDies \/ BluezRestarts
  BY <1>12 DEF SetupLine, OpenAutoSteps, SplashDies, BluezRestarts
<1> QED BY <1>1, <1>2, <1>3, <1>4, <1>5, <1>6, <1>7, <1>8, <1>9, <1>10, <1>11, <1>12

(* They neither enter BOOTING nor pass an await of SHUTDOWN.               *)
LEMMA OthersKeepPlace ==
  ASSUME ControlOK, EndInv,
         \/ BootSplash \/ BootBle \/ BootAborts \/ Idling \/ SettingUp \/ Pairing
         \/ Connecting \/ Projecting \/ Recovering \/ Interrupted
         \/ DownDisplay \/ DownRadio \/ DownSave \/ HandlerRaises \/ TaskStep
         \/ SetupLine \/ OpenAutoSteps \/ SplashDies \/ BluezRestarts
  PROVE  /\ (state = "BOOTING" /\ pc = "enter")' => UNCHANGED <<state, pc>>
         /\ (state = "SHUTDOWN" /\ pc \in {"down_ignition", "down_save"})' =>
              UNCHANGED <<state, pc>>
<1>1. CASE BootSplash \/ BootBle \/ BootAborts
  BY <1>1 DEF BootSplash, BootBle, BootAborts
<1>2. CASE Idling
  BY <1>2 DEF Idling, IdleEnter, IdleStop, IdleSplash, IdleAdvertise, IdleSetup, IdlePhone,
     IdleLeave
<1>3. CASE SettingUp BY <1>3 DEF SettingUp, SetupLaunch, SetupRead
<1>4. CASE Pairing
  BY <1>4 DEF Pairing, PairEnter, PairStartAp, PairKillSplash, PairLaunch, PairListen,
     PairSend, PairTrust, PairTimeout, HandshakeFails
<1>5. CASE Connecting BY <1>5 DEF Connecting, WifiEnter, WifiClient, TcpEnter, TcpReady
<1>6. CASE Projecting
  BY <1>6 DEF Projecting, ProjEnter, ProjLeave, ProjDisconnected, ProjExited, ProjSplash
<1>7. CASE Recovering
  BY <1>7 DEF Recovering, RecEnter, RecSplash, RecIgnitionOff, RecWaited, RecLaunch
<1>8. CASE Interrupted BY <1>8 DEF Interrupted, BluezLost, IgnitionOffSeen
<1>9. CASE DownDisplay \/ DownRadio \/ DownSave
  BY <1>9 DEF DownDisplay, DownRadio, DownSave
<1>10. CASE HandlerRaises BY <1>10 DEF HandlerRaises, Fallible
<1>11. CASE TaskStep
  BY <1>11 DEF TaskStep, PhoneArrives, SetupPressed, ClientTaskEnds, ReadyTaskEnds,
     ProjectionTaskEnds, IgnitionTaskEnds, TaskEnds
<1>12. CASE SetupLine \/ OpenAutoSteps \/ SplashDies \/ BluezRestarts
  BY <1>12 DEF SetupLine, OpenAutoSteps, SplashDies, BluezRestarts
<1> QED BY <1>1, <1>2, <1>3, <1>4, <1>5, <1>6, <1>7, <1>8, <1>9, <1>10, <1>11, <1>12

LEMMA StepReaps ==
  ASSUME ControlOK, EndInv, ReapedBefore, [Next]_vars
  PROVE  /\ ReapedBefore'
         /\ thermalTask = "failed" => thermalTask' = "failed" \/ life = "exited"
         /\ ignitionTask = "failed" => ignitionTask' = "failed" \/ life = "exited"
<1> USE DEF ReapedBefore
<1>1. CASE \/ BootSplash \/ BootBle \/ BootAborts \/ Idling \/ SettingUp \/ Pairing
           \/ Connecting \/ Projecting \/ Recovering \/ Interrupted
           \/ DownDisplay \/ DownRadio \/ DownSave \/ HandlerRaises \/ TaskStep
           \/ SetupLine \/ OpenAutoSteps \/ SplashDies \/ BluezRestarts
  <2>1. UNCHANGED <<thermalTask, ignitionTask>> BY <1>1, OthersLeaveTasks
  <2>2. /\ (state = "BOOTING" /\ pc = "enter")' => UNCHANGED <<state, pc>>
        /\ (state = "SHUTDOWN" /\ pc \in {"down_ignition", "down_save"})' =>
              UNCHANGED <<state, pc>>
    BY <1>1, OthersKeepPlace
  <2> QED BY <2>1, <2>2
<1>2. CASE BootMonitors BY <1>2 DEF BootMonitors
<1>3. CASE DownThermal BY <1>3 DEF DownThermal, Reap, Reaped
<1>4. CASE DownIgnition BY <1>4 DEF DownIgnition, Reap, Reaped
<1>5. CASE IgnitionSwitchedOff BY <1>5 DEF IgnitionSwitchedOff
<1>6. CASE BackgroundTaskFails BY <1>6 DEF BackgroundTaskFails
<1>7. CASE Restart BY <1>7 DEF Restart
<1>8. CASE UNCHANGED vars BY <1>8 DEF vars
<1> QED
  BY <1>1, <1>2, <1>3, <1>4, <1>5, <1>6, <1>7, <1>8
     DEF Next, HandlerStep, Booting, ShuttingDown, Surroundings

(***************************************************************************)
(* Once the fan or the ignition task has failed, no later shutdown of that *)
(* run of the program halts the system: nothing clears the failure but a   *)
(* restart, and the system has not halted in any state that holds one.     *)
(* The run claim_shutdown shows one such behaviour; this is every one.     *)
(***************************************************************************)
THEOREM FailedTaskForbidsHalt == Spec => FailureRemembered /\ []FailureForbidsHalt
<1>1. Init => ReapedBefore BY DEF Init, ReapedBefore
<1>2. IInv => ControlOK /\ EndInv BY DEF IInv
<1>3. IInv /\ ReapedBefore => FailureForbidsHalt
  BY DEF IInv, EndInv, ReapedBefore, FailureForbidsHalt
<1> QED
  BY <1>1, <1>2, <1>3, Invariance, StepReaps, PTL DEF Spec, FailureRemembered
===============================================================================
