------------------------- MODULE RegistrationsProofs -------------------------
(***************************************************************************)
(* Proofs about Registrations.tla, for any number of failed calls.         *)
(***************************************************************************)
EXTENDS Registrations, TLAPS

(* A registration under way is of an exported object; one of HFP is under  *)
(* way only if there is none yet, so that a cancelled call casts no doubt  *)
(* on one that has succeeded.                                              *)
Pending ==
  /\ pc = "register" => advExported
  /\ loop = "register" => hfpExported /\ ~hfpRegistered

(* Without a failure BlueZ has no advertisement that the flag does not     *)
(* know of, the object is exported for a registration or for the call that *)
(* makes it, and every wait of IDLE and what follows it has all three; a   *)
(* stop that has been cut off leaves IDLE's start to restore them.         *)
AdvAgrees ==
  NoFailure =>
    /\ bzAdv => advRegistered
    /\ advExported => advRegistered \/ pc = "register"
    /\ pc = "register" => visible
    /\ pc \in {"idle", "pairing", "stop"} => bzAdv /\ advRegistered
    /\ pc = "idle" => visible
    /\ pc \in {"hide", "session"} => ~advRegistered
    /\ pc = "session" => ~visible

IInv == TypeOK /\ FlagsAreTrue /\ Pending /\ AdvAgrees

(* The invariant holds at the start, whatever the bound.                   *)
LEMMA InitEstablishes == Init => IInv
<1>1. Init => CountOK
  BY MaxFailuresAssumption DEF Init, CountOK
<1> QED
  BY <1>1 DEF Init, IInv, TypeOK, FlagsOK, FlagsAreTrue, Pending, AdvAgrees

(* A call that succeeds leaves the number of failures alone, one that      *)
(* fails makes it positive.                                                *)
LEMMA Failing ==
  ASSUME CountOK
  PROVE  /\ Succeeds => CountOK' /\ (NoFailure' <=> NoFailure)
         /\ Fails => CountOK' /\ ~NoFailure'
BY MaxFailuresAssumption DEF CountOK, Succeeds, Fails, NoFailure

(* Each step of start_advertising, the reconnect loop and the orchestrator *)
(* around them keeps it.                                                   *)
LEMMA StepKeeps == IInv /\ [Next]_vars => IInv'
<1> SUFFICES ASSUME IInv, [Next]_vars PROVE IInv'
  OBVIOUS
<1>1. CountOK
  BY DEF IInv, TypeOK
<1>2. /\ Succeeds => CountOK' /\ (NoFailure' <=> NoFailure)
      /\ Fails => CountOK' /\ ~NoFailure'
  BY <1>1, Failing
<1>3. UNCHANGED failures => CountOK' /\ (NoFailure' <=> NoFailure)
  BY <1>2 DEF Succeeds
<1> USE <1>1, <1>2, <1>3
    DEF IInv, TypeOK, FlagsOK, FlagsAreTrue, Pending, AdvAgrees, adv, hfp, pairing
<1>4. CASE SetAdapter
  <2>1. FlagsOK'
    BY <1>4 DEF SetAdapter
  <2>2. TypeOK'
    BY <1>4, <2>1 DEF SetAdapter
  <2>3. FlagsAreTrue' /\ Pending'
    BY <1>4 DEF SetAdapter
  <2>4. AdvAgrees'
    BY <1>4 DEF SetAdapter
  <2> QED
    BY <2>2, <2>3, <2>4
<1>5. CASE RegisterAdvertisement
  <2>1. FlagsOK'
    BY <1>5 DEF RegisterAdvertisement
  <2>2. FlagsAreTrue'
    BY <1>5 DEF RegisterAdvertisement
  <2>3. TypeOK'
    BY <1>5, <2>1 DEF RegisterAdvertisement
  <2>4. Pending'
    BY <1>5 DEF RegisterAdvertisement
  <2>5. AdvAgrees'
    BY <1>5 DEF RegisterAdvertisement
  <2> QED
    BY <2>2, <2>3, <2>4, <2>5
<1>6. CASE Reconnect
  <2>1. CASE StartLoop
    BY <2>1 DEF StartLoop
  <2>2. CASE PageEnds
    BY <2>2 DEF PageEnds
  <2>3. CASE ExportHfp
    BY <2>3 DEF ExportHfp
  <2>4. CASE RegisterHfp
    <3>1. FlagsOK'
      BY <2>4 DEF RegisterHfp
    <3>2. FlagsAreTrue'
      BY <2>4 DEF RegisterHfp
    <3>3. TypeOK'
      BY <2>4, <3>1 DEF RegisterHfp
    <3>4. Pending'
      BY <2>4 DEF RegisterHfp
    <3>5. AdvAgrees'
      BY <2>4 DEF RegisterHfp
    <3> QED
      BY <3>2, <3>3, <3>4, <3>5
  <2>5. CASE Rested
    BY <2>5 DEF Rested
  <2> QED
    BY <1>6, <2>1, <2>2, <2>3, <2>4, <2>5 DEF Reconnect
<1>7. CASE LeaveIdle
  BY <1>7 DEF LeaveIdle, CancelLoop
<1>8. CASE PairingEnds
  BY <1>8 DEF PairingEnds
<1>9. CASE Stop
  <2>1. CASE StopAdvertising
    <3>1. FlagsOK'
      BY <2>1 DEF StopAdvertising
    <3>2. TypeOK'
      BY <2>1, <3>1 DEF StopAdvertising
    <3>3. FlagsAreTrue' /\ Pending'
      BY <2>1 DEF StopAdvertising
    <3>4. AdvAgrees'
      BY <2>1 DEF StopAdvertising
    <3> QED
      BY <3>2, <3>3, <3>4
  <2>2. CASE HideAdapter
    BY <2>2 DEF HideAdapter
  <2>3. CASE StopCutOff
    BY <2>3 DEF StopCutOff
  <2> QED
    BY <1>9, <2>1, <2>2, <2>3 DEF Stop
<1>10. CASE SessionEnds
  BY <1>10 DEF SessionEnds
<1>11. CASE UNCHANGED vars
  BY <1>11 DEF vars
<1> QED
  BY <1>4, <1>5, <1>6, <1>7, <1>8, <1>9, <1>10, <1>11 DEF Next, Advertise

(* So it holds in every reachable state.                                   *)
LEMMA Invariance == Spec => []IInv
  BY InitEstablishes, StepKeeps, PTL DEF Spec

(* The types, and that the reconnect loop never outlives IDLE's wait.      *)
THEOREM TypeCorrect == Spec => []TypeOK
  BY Invariance, PTL DEF IInv

(* However many calls fail, the flags of start_advertising and of the      *)
(* reconnect loop promise no registration that BlueZ does not have, unless *)
(* a stop_advertising was cut off; the object is exported even then.       *)
THEOREM FlagsSafe == Spec => []FlagsAreTrue
  BY Invariance, PTL DEF IInv

(* With no failure every wait of IDLE is discoverable, in whatever way the *)
(* sessions before it ended, a stop_advertising that was cut off included. *)
THEOREM DiscoverableSafe == Spec => []DiscoverableInIdle
<1>1. IInv => DiscoverableInIdle
  BY DEF IInv, AdvAgrees, DiscoverableInIdle
<1> QED
  BY <1>1, Invariance, PTL
=============================================================================
