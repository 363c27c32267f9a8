-------------------------------- MODULE Rfcomm --------------------------------
(***************************************************************************)
(* The RFCOMM connections phones open for the Wi-Fi credentials            *)
(* (piauto/ble.py): BlueZ hands each to the profile, which queues a        *)
(* duplicate of its file descriptor; IDLE takes connections from the queue *)
(* through wait_for_phone, PROJECTION_ACTIVE through                       *)
(* wait_for_rfcomm_reconnect_attempt; send_credentials uses the one held   *)
(* in _rfcomm_fd.  The module follows the descriptors.  What the           *)
(* orchestrator does between these calls is reduced to the phases it       *)
(* passes through (StateMachine.tla has the detail).                       *)
(***************************************************************************)
EXTENDS Naturals, Sequences, SequencesExt

CONSTANTS
  MaxRetries,   \* MAX_RETRIES of the orchestrator
  MaxConns      \* bound: how many connections phones open

ASSUME RfcommAssumption == MaxRetries \in Nat /\ MaxConns \in Nat

Conn == 1 .. MaxConns
None == 0

VARIABLES
  phase,    \* what the orchestrator is doing
  queue,    \* _connection_queue
  open,     \* the connections whose duplicated descriptor is open
  naming,   \* the one whose phone's name wait_for_phone is asking BlueZ for
  found,    \* the one wait_for_phone has returned to IDLE
  held,     \* _rfcomm_fd
  phone,    \* _current_phone, by the connection it came with
  retries,  \* _retry_count
  made      \* how many connections have been made

vars == <<phase, queue, open, naming, found, held, phone, retries, made>>

Phase == {"idle", "setup", "pairing", "sending", "connecting", "projecting", "ending",
          "down", "closed"}

Init ==
  /\ phase = "idle"
  /\ queue = <<>> /\ open = {} /\ made = 0
  /\ naming = None /\ found = None /\ held = None /\ phone = None /\ retries = 0

(* IDLE forgets the phone and the retries.                                 *)
EnterIdle == phase' = "idle" /\ phone' = None /\ retries' = 0

EnterDown == phase' = "down" /\ UNCHANGED <<phone, retries>>

(***************************************************************************)
(* Profile1.NewConnection, while the profile is registered: in any phase.  *)
(***************************************************************************)
NewConnection ==
  /\ phase # "closed" /\ made < MaxConns
  /\ made' = made + 1
  /\ queue' = Append(queue, made') /\ open' = open \cup {made'}
  /\ UNCHANGED <<phase, naming, found, held, phone, retries>>

-----------------------------------------------------------------------------
(* wait_for_phone: it takes the oldest connection, asks for the name of    *)
(* the device, and only then stores the descriptor.                        *)

(* Slip: the latest connection first.                                      *)
TakeLatest ==
  /\ phase = "idle" /\ naming = None /\ found = None
  /\ queue # <<>>
  /\ naming' = Last(queue) /\ queue' = Front(queue)
  /\ UNCHANGED <<phase, open, found, held, phone, retries, made>>

(* Slip: a descriptor left by a failed session keeps the next one waiting. *)
TakeWhenNoneHeld ==
  /\ phase = "idle" /\ naming = None /\ found = None /\ held = None
  /\ queue # <<>>
  /\ naming' = Head(queue) /\ queue' = Tail(queue)
  /\ UNCHANGED <<phase, open, found, held, phone, retries, made>>

TakeConnection ==
  /\ phase = "idle" /\ naming = None /\ found = None
  /\ queue # <<>>
  /\ naming' = Head(queue) /\ queue' = Tail(queue)
  /\ UNCHANGED <<phase, open, found, held, phone, retries, made>>

(* Slip: a descriptor that is there is kept.                               *)
PhoneNamedKeepsFd ==
  /\ phase = "idle" /\ naming # None
  /\ held' = (IF held = None THEN naming ELSE held) /\ found' = naming /\ naming' = None
  /\ UNCHANGED <<phase, queue, open, phone, retries, made>>

PhoneNamed ==
  /\ phase = "idle" /\ naming # None
  /\ held' = naming /\ found' = naming /\ naming' = None
  /\ UNCHANGED <<phase, queue, open, phone, retries, made>>

(* IDLE goes on with the phone it has been given.                          *)
PhoneDetected ==
  /\ phase = "idle" /\ found # None
  /\ phone' = found /\ found' = None
  /\ phase' = "pairing"
  /\ UNCHANGED <<queue, open, naming, held, retries, made>>

(* Slip: the tasks are left to themselves.                                 *)
IdleLeftRunning ==
  /\ phase = "idle"
  /\ \E p \in {"setup", "down"} : phase' = p
  /\ UNCHANGED <<queue, open, naming, found, held, phone, retries, made>>

(* The set-up button or the ignition ends IDLE's wait: the task is         *)
(* cancelled, or its result is not looked at.                              *)
IdleInterrupted ==
  /\ phase = "idle"
  /\ naming' = None /\ found' = None
  /\ \E p \in {"setup", "down"} : phase' = p
  /\ UNCHANGED <<queue, open, held, phone, retries, made>>

(* The user leaves the set-up screen, or it cannot be opened.              *)
SetupEnds ==
  /\ phase = "setup"
  /\ EnterIdle \/ EnterDown
  /\ UNCHANGED <<queue, open, naming, found, held, made>>

-----------------------------------------------------------------------------
(* BT_PAIRING: the access point and OpenAuto come first and may fail.      *)
PairingFails ==
  /\ phase = "pairing"
  /\ EnterIdle \/ EnterDown
  /\ UNCHANGED <<queue, open, naming, found, held, made>>

SendCredentials ==
  /\ phase = "pairing" /\ held # None
  /\ phase' = "sending"
  /\ UNCHANGED <<queue, open, naming, found, held, phone, retries, made>>

(* Slip: the descriptor is closed and remembered.                          *)
ExchangeEndsFdKept ==
  /\ phase = "sending"
  /\ open' = open \ {held}
  /\ \/ phase' = "connecting" /\ UNCHANGED <<phone, retries>>
     \/ EnterIdle
  /\ UNCHANGED <<queue, naming, found, held, made>>

(* The exchange ends, or the 30 s limit cancels the wait for it; the       *)
(* descriptor is closed in either case.  save_pairing may raise after it.  *)
ExchangeEnds ==
  /\ phase = "sending"
  /\ open' = open \ {held} /\ held' = None
  /\ \/ phase' = "connecting" /\ UNCHANGED <<phone, retries>>
     \/ EnterIdle
     \/ EnterDown
  /\ UNCHANGED <<queue, naming, found, made>>

-----------------------------------------------------------------------------
(* WIFI_WAIT, TCP_CONNECT and ERROR_RECOVERY leave the queue alone.        *)
ConnectingEnds ==
  /\ phase = "connecting"
  /\ \/ phase' = "projecting" /\ UNCHANGED <<phone, retries>>
     \/ EnterIdle
     \/ EnterDown
  /\ UNCHANGED <<queue, open, naming, found, held, made>>

(* wait_for_rfcomm_reconnect_attempt: the descriptor is closed at once, and *)
(* 2 s later the session is ended.                                         *)
ReconnectAttempt ==
  /\ phase = "projecting" /\ queue # <<>>
  /\ queue' = Tail(queue) /\ open' = open \ {Head(queue)}
  /\ phase' = "ending"
  /\ UNCHANGED <<naming, found, held, phone, retries, made>>

(* The end of the session, by this or by another sign.                     *)
ProjectionEnds ==
  /\ phase \in {"projecting", "ending"}
  /\ \/ EnterIdle
     \/ EnterDown
  /\ UNCHANGED <<queue, open, naming, found, held, made>>

(* A failure while connecting or projecting; ERROR_RECOVERY counts it and  *)
(* connects again, below the limit.                                        *)
ConnectionLost ==
  /\ phase \in {"connecting", "projecting", "ending"}
  /\ retries + 1 < MaxRetries
  /\ retries' = retries + 1
  /\ phase' = "connecting"
  /\ UNCHANGED <<phone, queue, open, naming, found, held, made>>

(* BleManager.close, in SHUTDOWN.                                          *)
Close ==
  /\ phase = "down"
  /\ open' = open \ {held} /\ held' = None
  /\ phase' = "closed"
  /\ UNCHANGED <<queue, naming, found, phone, retries, made>>

-----------------------------------------------------------------------------
Idling  == TakeConnection \/ PhoneNamed \/ PhoneDetected
Ending  == ProjectionEnds /\ phase = "ending"

Next ==
  \/ NewConnection \/ Idling \/ IdleInterrupted \/ SetupEnds
  \/ PairingFails \/ SendCredentials \/ ExchangeEnds \/ ConnectingEnds
  \/ ReconnectAttempt \/ ProjectionEnds \/ ConnectionLost \/ Close

Spec == Init /\ [][Next]_vars

(***************************************************************************)
(* The event loop runs the tasks that are ready, and every phase but the   *)
(* set-up screen and a projection nobody ends has a time limit.            *)
(***************************************************************************)
Fairness ==
  /\ WF_vars(Idling) /\ WF_vars(ReconnectAttempt) /\ WF_vars(Ending) /\ WF_vars(Close)
  /\ WF_vars(PairingFails \/ SendCredentials) /\ WF_vars(ExchangeEnds)
  /\ WF_vars(ConnectingEnds)

FairSpec == Spec /\ Fairness

-----------------------------------------------------------------------------
Queued == ToSet(queue)

(***************************************************************************)
(* Every variable has its type; a phone that is being named or has been    *)
(* found belongs to the present wait of IDLE, never to an earlier one.     *)
(***************************************************************************)
TypeOK ==
  /\ phase \in Phase /\ made \in 0 .. MaxConns /\ retries \in 0 .. MaxRetries
  /\ queue \in Seq(Conn) /\ open \subseteq Conn
  /\ naming \in Conn \cup {None} /\ found \in Conn \cup {None}
  /\ held \in Conn \cup {None} /\ phone \in Conn \cup {None}
  /\ naming # None \/ found # None => phase = "idle"
  /\ phone # None => phase \notin {"idle", "setup"}

(***************************************************************************)
(* Each descriptor has one owner, the queue, the name query or _rfcomm_fd, *)
(* and is open while it has it: none is closed twice (the number may be    *)
(* another file by then) or used after it has been closed.                 *)
(***************************************************************************)
OwnedOnce ==
  /\ Queued \cup ({naming, held} \ {None}) \subseteq open
  /\ IsInjective(queue)
  /\ {naming, held} \cap Queued = {}
  /\ naming # None => naming # held

(***************************************************************************)
(* The credentials go to the phone the session is for: _rfcomm_fd, set     *)
(* inside wait_for_phone, and _current_phone, set by IDLE from its result, *)
(* agree when send_credentials needs them, also after sessions that failed *)
(* and left a descriptor behind.                                           *)
(***************************************************************************)
CredentialsToPhone == phase \in {"pairing", "sending"} => held = phone /\ held # None

(***************************************************************************)
(* Connections are delivered in the order in which they were made and once *)
(* at most; one that has been closed, or lost by a pairing that failed     *)
(* before the exchange, is not used again by any later session.            *)
(***************************************************************************)
PlaceOf(c) ==
  IF c > made THEN "coming"
  ELSE IF c \notin open THEN "closed"
  ELSE IF c \in Queued THEN "waiting"
  ELSE IF c \in {naming, held} THEN "served" ELSE "lost"

Delivered == INSTANCE Delivery WITH place <- [c \in Conn |-> PlaceOf(c)]

DeliversInOrder == Delivered!Spec

(***************************************************************************)
(* A phone that has opened a connection is not left waiting in the queue   *)
(* for ever, whatever becomes of the sessions before it, unless the        *)
(* program is in the set-up screen or going down.                          *)
(***************************************************************************)
ConnectionServed ==
  \A c \in Conn : c \in Queued ~> (c \notin Queued \/ phase \in {"setup", "down", "closed"})
=============================================================================
