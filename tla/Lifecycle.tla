------------------------------ MODULE Lifecycle ------------------------------
(***************************************************************************)
(* What the PiAuto orchestrator promises about its life cycle: the eight   *)
(* states, the events that lead from one to the other, a bounded number of *)
(* recovery attempts per connection, and how a run of the program ends.    *)
(* StateMachine.tla implements it.                                         *)
(***************************************************************************)
EXTENDS Naturals, States

CONSTANT MaxRetries      \* MAX_RETRIES of statemachine.py

VARIABLES
  life,        \* "up", "exited" (status 1, systemd restarts it) or "halted"
  state,       \* the current State
  event,       \* the Event of the last transition
  attempts     \* failures counted since the phone was last looked for

vars == <<life, state, event, attempts>>

Edge ==
  {<<"BOOTING", "SERVICES_STARTED", "IDLE">>,
   <<"BOOTING", "BOOT_TIMEOUT", "SHUTDOWN">>,
   <<"IDLE", "PHONE_DETECTED", "BT_PAIRING">>,
   <<"IDLE", "PHONE_DISCONNECTED", "IDLE">>,        \* the speaker set-up ends
   <<"BT_PAIRING", "CREDENTIALS_SENT", "WIFI_WAIT">>,
   <<"BT_PAIRING", "BT_HANDSHAKE_FAILED", "IDLE">>,
   <<"WIFI_WAIT", "PHONE_JOINED_AP", "TCP_CONNECT">>,
   <<"WIFI_WAIT", "WIFI_TIMEOUT", "IDLE">>,
   <<"TCP_CONNECT", "OPENAUTO_READY", "PROJECTION_ACTIVE">>,
   <<"TCP_CONNECT", "OPENAUTO_FAILED", "ERROR_RECOVERY">>,
   <<"PROJECTION_ACTIVE", "PHONE_DISCONNECTED", "IDLE">>,
   <<"ERROR_RECOVERY", "RETRY_AVAILABLE", "TCP_CONNECT">>,
   <<"ERROR_RECOVERY", "RETRIES_EXHAUSTED", "IDLE">>}
  \cup {<<s, "IGNITION_OFF", "SHUTDOWN">> : s \in State \ {"BOOTING", "SHUTDOWN"}}
  \cup {<<s, "BOOT_FAILED", "SHUTDOWN">> : s \in State \ Retriable}
  \cup {<<s, "CONNECTION_LOST", "ERROR_RECOVERY">> : s \in Retriable}

Init ==
  /\ life = "up"
  /\ state = "BOOTING"
  /\ event = "NONE"
  /\ attempts = 0

(***************************************************************************)
(* A transition: a failure after the phone joined the access point is      *)
(* counted, looking for a phone again forgets the count, and another       *)
(* attempt is made only while the count is below the limit.                *)
(***************************************************************************)
Take(from, e, to) ==
  /\ life = "up"
  /\ state = from
  /\ e = "RETRY_AVAILABLE" => attempts < MaxRetries
  /\ state' = to
  /\ event' = e
  /\ attempts' = IF to = "IDLE" THEN 0
                 ELSE IF to = "ERROR_RECOVERY" THEN attempts + 1
                 ELSE attempts
  /\ life' = life

(***************************************************************************)
(* BlueZ restarted: the program leaves with status 1, only while it looks  *)
(* for a phone or projects, and systemd starts it again.                   *)
(***************************************************************************)
Exit ==
  /\ life = "up"
  /\ state \in {"IDLE", "PROJECTION_ACTIVE"}
  /\ life' = "exited"
  /\ UNCHANGED <<state, event, attempts>>

Restart ==
  /\ life = "exited"
  /\ life' = "up"
  /\ state' = "BOOTING"
  /\ event' = "NONE"
  /\ attempts' = 0

Halt ==
  /\ life = "up"
  /\ state = "SHUTDOWN"
  /\ life' = "halted"
  /\ UNCHANGED <<state, event, attempts>>

Next ==
  \/ \E edge \in Edge : Take(edge[1], edge[2], edge[3])
  \/ Exit
  \/ Restart
  \/ Halt

Spec == Init /\ [][Next]_vars

=============================================================================
