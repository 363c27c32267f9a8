---------------------------- MODULE Registrations ----------------------------
(***************************************************************************)
(* What the program registers with BlueZ while it runs (piauto/ble.py):    *)
(* the BLE advertisement, by start_advertising and stop_advertising, and   *)
(* the HFP profile, by the reconnect loop of IDLE.  Each is an object      *)
(* exported on the program's own D-Bus connection and then registered by a *)
(* call to BlueZ; a flag remembers that the call has succeeded.  dbus_next *)
(* refuses to export an interface on a path that has it already.  A call   *)
(* may fail, and it may be given up while BlueZ works on it: by the task   *)
(* that cancels the loop, and by the 30 s limit of BT_PAIRING.             *)
(***************************************************************************)
EXTENDS Naturals

CONSTANT MaxFailures     \* bound: how many D-Bus calls fail

ASSUME MaxFailuresAssumption == MaxFailures \in Nat

VARIABLES
  pc,            \* where the orchestrator is
  loop,          \* where the reconnect loop is, "none" when it is not running
  advExported, advRegistered,   \* the advertisement: exported; _adv_registered
  hfpExported, hfpRegistered,   \* the HFP profile: exported; _hfp_hf_registered
  bzAdv, bzHfp,  \* BlueZ has the advertisement, the profile
  visible,       \* Discoverable, of the adapter
  limited,       \* stop_advertising runs within the limit of BT_PAIRING
  cutOff,        \* a stop_advertising was cut off with the flag set
  failures       \* calls that have failed

adv     == <<advExported, advRegistered, bzAdv>>
hfp     == <<hfpExported, hfpRegistered, bzHfp>>
pairing == <<limited, cutOff>>
vars    == <<pc, loop, adv, hfp, visible, pairing, failures>>

Init ==
  /\ pc = "start" /\ loop = "none" /\ failures = 0
  /\ advExported = FALSE /\ advRegistered = FALSE /\ bzAdv = FALSE
  /\ hfpExported = FALSE /\ hfpRegistered = FALSE /\ bzHfp = FALSE
  /\ visible = FALSE /\ limited = FALSE /\ cutOff = FALSE

Succeeds == UNCHANGED failures
Fails    == failures < MaxFailures /\ failures' = failures + 1

NoFailure == failures = 0

-----------------------------------------------------------------------------
(* start_advertising, whose failures are logged and nothing else.          *)

(* The adapter's properties are set and the advertisement exported, unless *)
(* it is registered; exporting it twice raises ValueError.                 *)
SetAdapter ==
  /\ pc = "start"
  /\ \/ Succeeds /\ (advRegistered \/ ~advExported)
        /\ pc' = "register" /\ advExported' = TRUE /\ visible' = TRUE
     \/ Succeeds /\ ~advRegistered /\ advExported
        /\ pc' = "idle" /\ visible' = TRUE /\ UNCHANGED advExported
     \/ Fails /\ pc' = "idle" /\ visible' \in {visible, TRUE} /\ UNCHANGED advExported
  /\ UNCHANGED <<loop, advRegistered, bzAdv, hfp, pairing>>

(* Slip: an advertisement that the flag says is registered is not          *)
(* registered again.                                                       *)
RegisterAdvertisementOnce ==
  /\ pc = "register"
  /\ pc' = "idle"
  /\ \/ Succeeds /\ ~advRegistered /\ ~bzAdv
        /\ bzAdv' = TRUE /\ advRegistered' = TRUE /\ cutOff' = FALSE
     \/ Succeeds /\ (advRegistered \/ bzAdv) /\ UNCHANGED <<bzAdv, advRegistered, cutOff>>
     \/ Fails /\ UNCHANGED <<bzAdv, advRegistered, cutOff>>
  /\ UNCHANGED <<loop, advExported, hfp, visible, limited>>

(* RegisterAdvertisement, which is called even if the flag is set: BlueZ   *)
(* answers AlreadyExists when it has it.                                   *)
RegisterAdvertisement ==
  /\ pc = "register"
  /\ pc' = "idle"
  /\ \/ Succeeds /\ ~bzAdv /\ bzAdv' = TRUE /\ advRegistered' = TRUE /\ cutOff' = FALSE
     \/ Succeeds /\ bzAdv /\ UNCHANGED <<bzAdv, advRegistered, cutOff>>
     \/ Fails /\ UNCHANGED <<bzAdv, advRegistered, cutOff>>
  /\ UNCHANGED <<loop, advExported, hfp, visible, limited>>

-----------------------------------------------------------------------------
(* The reconnect loop: page the phone, register HFP while it is connected, *)
(* rest for 30 s.                                                          *)

StartLoop ==
  /\ pc = "idle" /\ loop = "none"
  /\ loop' = "page"
  /\ UNCHANGED <<pc, adv, hfp, visible, pairing, failures>>

(* The phone answers the page, or is out of range, or refuses.             *)
PageEnds ==
  /\ loop = "page"
  /\ loop' \in {"answered", "rest"}
  /\ UNCHANGED <<pc, adv, hfp, visible, pairing, failures>>

(* The profile is exported first, which can be done once only.             *)
ExportHfp ==
  /\ loop = "answered"
  /\ IF hfpRegistered \/ hfpExported
     THEN loop' = "rest" /\ UNCHANGED hfpExported
     ELSE loop' = "register" /\ hfpExported' = TRUE
  /\ UNCHANGED <<pc, adv, hfpRegistered, bzHfp, visible, pairing, failures>>

RegisterHfp ==
  /\ loop = "register"
  /\ loop' = "rest"
  /\ \/ Succeeds /\ bzHfp' = TRUE /\ hfpRegistered' = TRUE
     \/ Fails /\ UNCHANGED <<bzHfp, hfpRegistered>>
  /\ UNCHANGED <<pc, adv, hfpExported, visible, pairing>>

Rested ==
  /\ loop = "rest"
  /\ loop' = "page"
  /\ UNCHANGED <<pc, adv, hfp, visible, pairing, failures>>

(* Slip: the loop is not cancelled.                                        *)
LoopGoesOn == UNCHANGED <<loop, hfp>>

(* The loop is cancelled and awaited when IDLE moves on; BlueZ may have    *)
(* received the call whose answer is no longer waited for.                 *)
CancelLoop ==
  /\ loop' = "none"
  /\ bzHfp' \in IF loop = "register" THEN BOOLEAN ELSE {bzHfp}
  /\ UNCHANGED <<hfpExported, hfpRegistered>>

-----------------------------------------------------------------------------
(* The orchestrator around them.                                           *)

(* A phone has been found (BT_PAIRING), or the set-up screen is wanted.    *)
LeaveIdle ==
  /\ pc = "idle"
  /\ \/ pc' = "pairing" /\ limited' = TRUE
     \/ pc' = "stop" /\ limited' = FALSE
  /\ CancelLoop
  /\ UNCHANGED <<adv, visible, cutOff, failures>>

(* A pairing that fails or runs out of time goes back to IDLE, one that    *)
(* succeeds calls stop_advertising, still within its limit.                *)
PairingEnds ==
  /\ pc = "pairing"
  /\ pc' \in {"start", "stop"}
  /\ UNCHANGED <<loop, adv, hfp, visible, pairing, failures>>

(* Slip: an error of BlueZ leaves the flag as it is, the object is gone.   *)
StopAdvertisingFlagKept ==
  /\ pc = "stop"
  /\ pc' = "hide"
  /\ IF advRegistered
     THEN /\ \/ Succeeds /\ bzAdv' = FALSE /\ advRegistered' = FALSE
             \/ Fails /\ UNCHANGED <<bzAdv, advRegistered>>
          /\ advExported' = FALSE /\ cutOff' = FALSE
     ELSE Succeeds /\ UNCHANGED <<adv, cutOff>>
  /\ UNCHANGED <<loop, hfp, visible, limited>>

(* stop_advertising first unregisters; once BlueZ has answered, whatever   *)
(* it is, the flag is reset and the object unexported.                     *)
StopAdvertising ==
  /\ pc = "stop"
  /\ pc' = "hide"
  /\ IF advRegistered
     THEN /\ (Succeeds /\ bzAdv' = FALSE) \/ (Fails /\ UNCHANGED bzAdv)
          /\ advExported' = FALSE /\ advRegistered' = FALSE /\ cutOff' = FALSE
     ELSE Succeeds /\ UNCHANGED <<adv, cutOff>>
  /\ UNCHANGED <<loop, hfp, visible, limited>>

(* Then it makes the adapter not discoverable.                             *)
HideAdapter ==
  /\ pc = "hide"
  /\ pc' = "session"
  /\ (Succeeds /\ visible' = FALSE) \/ (Fails /\ UNCHANGED visible)
  /\ UNCHANGED <<loop, adv, hfp, pairing>>

(***************************************************************************)
(* The 30 s limit cuts stop_advertising off at one of its calls: the       *)
(* CancelledError passes its except clauses, BT_PAIRING goes back to IDLE, *)
(* and BlueZ may have done what it was asked for.                          *)
(***************************************************************************)
StopCutOff ==
  /\ limited /\ pc \in {"stop", "hide"}
  /\ pc' = "start"
  /\ IF pc = "stop"
     THEN /\ advRegistered /\ cutOff' = TRUE
          /\ bzAdv' \in {bzAdv, FALSE} /\ UNCHANGED visible
     ELSE visible' \in {visible, FALSE} /\ UNCHANGED <<bzAdv, cutOff>>
  /\ UNCHANGED <<loop, advExported, advRegistered, hfp, limited, failures>>

(* The session or the set-up screen ends, and IDLE starts again.           *)
SessionEnds ==
  /\ pc = "session"
  /\ pc' = "start"
  /\ UNCHANGED <<loop, adv, hfp, visible, pairing, failures>>

Advertise == SetAdapter \/ RegisterAdvertisement

Reconnect == StartLoop \/ PageEnds \/ ExportHfp \/ RegisterHfp \/ Rested

Stop == StopAdvertising \/ HideAdapter \/ StopCutOff

Next == Advertise \/ Reconnect \/ LeaveIdle \/ PairingEnds \/ Stop \/ SessionEnds

Spec == Init /\ [][Next]_vars

-----------------------------------------------------------------------------
FlagsOK ==
  /\ advExported \in BOOLEAN /\ advRegistered \in BOOLEAN /\ bzAdv \in BOOLEAN
  /\ hfpExported \in BOOLEAN /\ hfpRegistered \in BOOLEAN /\ bzHfp \in BOOLEAN
  /\ visible \in BOOLEAN /\ limited \in BOOLEAN /\ cutOff \in BOOLEAN

CountOK == failures \in 0 .. MaxFailures

(***************************************************************************)
(* Every variable has its type; the reconnect loop runs in IDLE only.      *)
(***************************************************************************)
TypeOK ==
  /\ pc \in {"start", "register", "idle", "pairing", "stop", "hide", "session"}
  /\ loop \in {"none", "page", "answered", "register", "rest"}
  /\ loop # "none" => pc = "idle"
  /\ FlagsOK
  /\ CountOK

(***************************************************************************)
(* What a flag says is registered is registered, through calls that fail,  *)
(* a loop that is cancelled in its calls, and sessions that end without    *)
(* stop_advertising: the object is exported and BlueZ has it.  The one     *)
(* exception is a stop_advertising that the limit of BT_PAIRING has cut    *)
(* off, after which BlueZ may have dropped the advertisement, until it is  *)
(* registered again; even then the object is exported.                     *)
(***************************************************************************)
FlagsAreTrue ==
  /\ advRegistered => advExported /\ (bzAdv \/ cutOff)
  /\ hfpRegistered => hfpExported /\ bzHfp

(***************************************************************************)
(* As long as no call has failed the program can be found whenever it      *)
(* waits for a phone, in the first session and in every later one, and     *)
(* wherever a stop_advertising was cut off before it; and it cannot be     *)
(* found once a session is under way.                                      *)
(***************************************************************************)
DiscoverableInIdle ==
  NoFailure =>
    /\ pc = "idle" => bzAdv /\ visible
    /\ pc = "session" => ~bzAdv /\ ~visible
=============================================================================
