----------------------------- MODULE GpioProofs ------------------------------
(***************************************************************************)
(* Proofs about IgnitionMonitor.tla and Gpio.tla, for every debounce time  *)
(* and however often the line changes and the program is restarted.        *)
(***************************************************************************)
EXTENDS Gpio, TLAPS

(* Only a requested line reports edges, and only a monitor that has been   *)
(* started, and not stopped, has one.                                      *)
RequestInv ==
  /\ seenFall => requested
  /\ requested => task \in {"waiting", "debouncing", "ended"}
  /\ task = "ended" => fired
  /\ fired => requested \/ task = "stopped"

IInv == TypeOK /\ RequestInv /\ NoEdgeLost

(* Nothing is requested, and nothing has been seen, at the start.          *)
LEMMA InitEstablishes == Init => IInv
<1>1. Init => CountsOK
  BY DebounceAssumption, BoundsAssumption DEF Init, CountsOK
<1> QED
  BY <1>1 DEF Init, IInv, TypeOK, RequestInv, NoEdgeLost

(* No counter leaves its range.                                            *)
LEMMA StepCounts == CountsOK /\ [Next]_vars => CountsOK'
<1> SUFFICES ASSUME CountsOK, [Next]_vars PROVE CountsOK'
  OBVIOUS
<1> USE DebounceAssumption, BoundsAssumption DEF CountsOK, line
<1>1. CASE Setup \/ Monitor \/ Stop
  BY <1>1 DEF Setup, Monitor, ReadEdges, Confirm, Stop
<1>2. CASE Restart
  BY <1>2 DEF Restart
<1>3. CASE Falls \/ Rises
  BY <1>3 DEF Falls, Rises
<1>4. CASE Tick
  BY <1>4 DEF Tick
<1>5. CASE UNCHANGED vars
  BY <1>5 DEF vars
<1> QED
  BY <1>1, <1>2, <1>3, <1>4, <1>5 DEF Next

(* The program's steps, those of the line and the ticks keep the invariant.*)
LEMMA StepKeeps == IInv /\ [Next]_vars => IInv'
<1> SUFFICES ASSUME IInv, [Next]_vars PROVE IInv'
  OBVIOUS
<1>1. CountsOK'
  BY StepCounts DEF IInv, TypeOK
<1> USE <1>1 DEF IInv, TypeOK, RequestInv, NoEdgeLost, line
<1>2. CASE Setup
  BY <1>2 DEF Setup
<1>3. CASE ReadEdges
  BY <1>3 DEF ReadEdges
<1>4. CASE Confirm
  BY <1>4 DEF Confirm
<1>5. CASE Stop
  BY <1>5 DEF Stop
<1>6. CASE Restart
  BY <1>6 DEF Restart
<1>7. CASE Falls
  BY <1>7 DEF Falls
<1>8. CASE Rises
  BY <1>8 DEF Rises
<1>9. CASE Tick
  BY <1>9 DEF Tick
<1>10. CASE UNCHANGED vars
  BY <1>10 DEF vars
<1> QED
  BY <1>2, <1>3, <1>4, <1>5, <1>6, <1>7, <1>8, <1>9, <1>10 DEF Next, Monitor

(* So it holds in every reachable state.                                   *)
LEMMA Invariance == Spec => []IInv
  BY InitEstablishes, StepKeeps, PTL DEF Spec

(* The types, and that the monitor never waits on a line it does not hold. *)
THEOREM TypeCorrect == Spec => []TypeOK
  BY Invariance, PTL DEF IInv

(* No fall of the requested line is forgotten while the line stays low: it *)
(* is buffered, being debounced, or confirmed.                             *)
THEOREM NoLostIgnition == Spec => []NoEdgeLost
  BY Invariance, PTL DEF IInv

-----------------------------------------------------------------------------
(* The thermal monitor changes nothing of the ignition monitor's, and what *)
(* they do together is a step of the latter.                               *)
LEMMA GpioSteps == [GpioNext]_gpioVars => [Next]_vars
<1> SUFFICES ASSUME [GpioNext]_gpioVars PROVE [Next]_vars
  OBVIOUS
<1>1. CASE GpioSetup \/ Ignition \/ GpioStop \/ GpioRestart
  BY <1>1 DEF GpioSetup, Ignition, GpioStop, GpioRestart, Next
<1>2. CASE Thermal \/ Heat \/ SensorChanges \/ UNCHANGED gpioVars
  BY <1>2 DEF Thermal, ThermalStarts, Poll, Heat, SensorChanges, gpioVars
<1> QED
  BY <1>1, <1>2 DEF GpioNext

(***************************************************************************)
(* The composition implements the ignition monitor by itself: the thermal  *)
(* task, on the same event loop, cannot make it lose an ignition.          *)
(***************************************************************************)
THEOREM GpioImplementsMonitor == GpioSpec => Spec
<1>1. GpioInit => Init
  BY DEF GpioInit
<1> QED
  BY <1>1, GpioSteps, PTL DEF GpioSpec, Spec

(* What is remembered of the fan, beside the ignition monitor.             *)
FanOK ==
  /\ temp \in Temp /\ sensor \in BOOLEAN
  /\ thermal \in {"none", "polling", "disabled", "stopped"}
  /\ fanOn \in BOOLEAN /\ fan \in BOOLEAN
  /\ requested => (fan <=> fanOn)
  /\ thermal \in {"none", "disabled"} => ~fanOn
  /\ task = "none" => thermal = "none"

(* A turn of the loop leaves line and memory in agreement.                 *)
LEMMA ReadAndSetAgrees ==
  ASSUME FanOK, ReadAndSet
  PROVE  /\ fanOn' \in BOOLEAN /\ fan' \in BOOLEAN
         /\ requested => (fan' <=> fanOn')
         /\ ~sensor => fanOn' = fanOn
<1>1. CASE sensor
  <2>1. (ComputeDuty > 0) \in BOOLEAN
    OBVIOUS
  <2> DEFINE on == ComputeDuty > 0
  <2>2. fanOn' = on /\ fan' = IF requested THEN on ELSE fan
    BY <1>1 DEF ReadAndSet, SetFanDuty
  <2>3. on \in BOOLEAN
    BY <2>1
  <2> HIDE DEF on
  <2> QED
    BY <1>1, <2>2, <2>3, Zenon DEF FanOK
<1>2. CASE ~sensor
  BY <1>2 DEF ReadAndSet, FanOK
<1> QED
  BY <1>1, <1>2

(* Each step keeps it.                                                     *)
LEMMA StepKeepsFan == TypeOK /\ FanOK /\ [GpioNext]_gpioVars => FanOK'
<1> SUFFICES ASSUME TypeOK, FanOK, [GpioNext]_gpioVars PROVE FanOK'
  OBVIOUS
<1>1. CASE GpioSetup
  <2>1. /\ task' # "none" /\ fanOn' = fanOn /\ thermal' = thermal /\ thermal = "none"
        /\ fan' = (fan /\ ~requested') /\ temp' = temp /\ sensor' = sensor
    BY <1>1 DEF GpioSetup, Setup, FanOK
  <2> QED
    BY <2>1, Zenon DEF FanOK
<1>2. CASE Ignition
  BY <1>2 DEF Ignition, Monitor, ReadEdges, Confirm, Falls, Rises, Tick, FanOK, fanVars, line
<1>3. CASE Thermal
  <2>1. ReadAndSet /\ UNCHANGED <<vars, temp, sensor>>
    BY <1>3 DEF Thermal, ThermalStarts, Poll
  <2>2. /\ thermal' \in {"polling", "disabled"} /\ task # "none"
        /\ thermal' = "disabled" => ~sensor /\ ~fanOn
    BY <1>3 DEF Thermal, ThermalStarts, Poll, FanOK
  <2> QED
    BY <2>1, <2>2, ReadAndSetAgrees DEF FanOK, vars
<1>4. CASE GpioStop
  <2>1. /\ requested' = FALSE /\ task' = "stopped" /\ thermal' = "stopped"
        /\ temp' = temp /\ sensor' = sensor /\ fanOn' = fanOn
    BY <1>4 DEF GpioStop, Stop
  <2>2. (0 > 0) = FALSE
    OBVIOUS
  <2>3. fan' = IF requested THEN FALSE ELSE fan
    BY <1>4, <2>2 DEF GpioStop, SetFanDuty
  <2> QED
    BY <2>1, <2>3, Zenon DEF FanOK
<1>5. CASE GpioRestart
  BY <1>5 DEF GpioRestart, Restart, FanOK
<1>6. CASE Heat
  BY <1>6 DEF Heat, FanOK, vars
<1>7. CASE SensorChanges
  BY <1>7 DEF SensorChanges, FanOK, vars
<1>8. CASE UNCHANGED gpioVars
  BY <1>8 DEF gpioVars, fanVars, vars, FanOK
<1> QED
  BY <1>1, <1>2, <1>3, <1>4, <1>5, <1>6, <1>7, <1>8 DEF GpioNext

(* Both invariants together.                                               *)
LEMMA GpioInvariance == GpioSpec => [](TypeOK /\ FanOK)
<1>1. GpioInit => FanOK
  BY DEF GpioInit, FanOK, Init
<1>2. GpioSpec => []TypeOK
  BY GpioImplementsMonitor, TypeCorrect, PTL
<1> QED
  BY <1>1, <1>2, StepKeepsFan, PTL DEF GpioSpec

(***************************************************************************)
(* The types of the composition, and that the fan line agrees with what    *)
(* the thermal monitor remembers, also after readings that failed.         *)
(***************************************************************************)
THEOREM FanAgrees == GpioSpec => []GpioTypeOK
<1>1. TypeOK /\ FanOK => GpioTypeOK
  BY DEF FanOK, GpioTypeOK
<1> QED
  BY <1>1, GpioInvariance, PTL

(***************************************************************************)
(* The fan goes off only below the band, or when nobody watches.           *)
(***************************************************************************)
THEOREM FanSteady == GpioSpec => NoCycling
<1>1. TypeOK /\ FanOK /\ [GpioNext]_gpioVars =>
        (fan /\ ~fan' => temp = "cold" \/ task = "none" \/ task' \in {"none", "stopped"})
  <2> SUFFICES ASSUME TypeOK, FanOK, [GpioNext]_gpioVars, fan, ~fan', task # "none"
               PROVE  temp = "cold" \/ task' \in {"none", "stopped"}
    OBVIOUS
  <2>1. CASE Thermal
    <3>1. sensor /\ requested /\ fan' = (ComputeDuty > 0)
      BY <2>1 DEF Thermal, ThermalStarts, Poll, ReadAndSet, SetFanDuty
    <3>2. fanOn
      BY <3>1 DEF FanOK
    <3>3. temp # "cold" => ComputeDuty > 0
      BY <3>2 DEF ComputeDuty, FanOK, Temp
    <3> QED
      BY <3>1, <3>3
  <2>2. CASE GpioStop \/ GpioRestart
    BY <2>2 DEF GpioStop, GpioRestart, Stop, Restart
  <2>3. CASE GpioSetup
    BY <2>3 DEF GpioSetup, Setup
  <2>4. CASE Ignition \/ Heat \/ SensorChanges \/ UNCHANGED gpioVars
    BY <2>4 DEF Ignition, Heat, SensorChanges, gpioVars, fanVars
  <2> QED
    BY <2>1, <2>2, <2>3, <2>4 DEF GpioNext
<1> QED
  BY <1>1, GpioInvariance, PTL DEF GpioSpec, NoCycling

(* No fall of the ignition line is forgotten in the composition either.    *)
THEOREM NoLostIgnitionComposed == GpioSpec => []NoEdgeLost
  BY GpioImplementsMonitor, NoLostIgnition, PTL
=============================================================================
