-------------------------------- MODULE States --------------------------------
(***************************************************************************)
(* The states and the events of the orchestrator (enums State and Event of *)
(* piauto/statemachine.py).  "NONE" stands for "no transition yet".        *)
(***************************************************************************)
State == {"BOOTING", "IDLE", "BT_PAIRING", "WIFI_WAIT", "TCP_CONNECT",
          "PROJECTION_ACTIVE", "ERROR_RECOVERY", "SHUTDOWN"}

Event == {"NONE", "SERVICES_STARTED", "BOOT_FAILED", "BOOT_TIMEOUT",
          "PHONE_DETECTED", "CREDENTIALS_SENT", "BT_HANDSHAKE_FAILED",
          "PHONE_JOINED_AP", "WIFI_TIMEOUT", "OPENAUTO_READY",
          "OPENAUTO_FAILED", "CONNECTION_LOST", "PHONE_DISCONNECTED",
          "RETRY_AVAILABLE", "RETRIES_EXHAUSTED", "IGNITION_OFF"}

Life == {"up", "exited", "halted"}

(***************************************************************************)
(* The states in which a phone is on the access point: an unexpected       *)
(* failure there is worth another attempt, everywhere else it ends the run.*)
(***************************************************************************)
Retriable == {"TCP_CONNECT", "PROJECTION_ACTIVE"}
=============================================================================
