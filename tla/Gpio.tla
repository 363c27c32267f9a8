--------------------------------- MODULE Gpio ---------------------------------
(***************************************************************************)
(* The two lines of piauto/gpio.py and the tasks that use them, from their *)
(* start in BOOTING to SHUTDOWN or a restart: the ignition monitor of      *)
(* IgnitionMonitor.tla, and the thermal monitor (piauto/thermal.py), which *)
(* reads the temperature and switches the fan.  The fan has two speeds for *)
(* thermal.py and one for the line.                                        *)
(***************************************************************************)
EXTENDS IgnitionMonitor

VARIABLES
  temp,     \* "cold", below the band of the hysteresis; "band"; "warm", from
            \* fan_low_temp; "hot", from fan_high_temp
  sensor,   \* the sensor can be read
  thermal,  \* the thermal task: "none", "polling", "disabled", "stopped"
  fanOn,    \* _fan_on
  fan       \* the level of the fan line

fanVars  == <<temp, sensor, thermal, fanOn, fan>>
gpioVars == <<vars, fanVars>>

Temp == {"cold", "band", "warm", "hot"}

GpioInit ==
  /\ Init
  /\ temp \in Temp /\ sensor \in BOOLEAN
  /\ thermal = "none" /\ fanOn = FALSE /\ fan = FALSE

-----------------------------------------------------------------------------
(* setup requests both lines, that of the fan at a low level, or none.     *)
GpioSetup == Setup /\ fan' = (fan /\ ~requested') /\ UNCHANGED <<temp, sensor, thermal, fanOn>>

(* The ignition monitor and its line; time.                                *)
Ignition == (Monitor \/ Falls \/ Rises \/ Tick) /\ UNCHANGED fanVars

(* Slip: no hysteresis.                                                    *)
ComputeDutyPlain == IF temp = "hot" THEN 100 ELSE IF temp = "warm" THEN 50 ELSE 0

(* Slip: the fan is started at the upper threshold only.                   *)
ComputeDutyLate ==
  IF temp = "hot" THEN 100 ELSE IF fanOn /\ temp # "cold" THEN 50 ELSE 0

(* _compute_duty.                                                          *)
ComputeDuty ==
  IF temp = "hot" THEN 100
  ELSE IF temp = "warm" \/ (fanOn /\ temp = "band") THEN 50 ELSE 0

(* set_fan_duty: without a line it does nothing.                           *)
SetFanDuty(percent) == fan' = IF requested THEN percent > 0 ELSE fan

(* Slip: a fan without a known temperature is switched off.                *)
ReadAndSetOff ==
  IF sensor THEN fanOn' = (ComputeDuty > 0) /\ SetFanDuty(ComputeDuty)
            ELSE SetFanDuty(0) /\ UNCHANGED fanOn

(* One turn of the loop; a sensor that cannot be read leaves the fan alone.*)
ReadAndSet ==
  IF sensor THEN fanOn' = (ComputeDuty > 0) /\ SetFanDuty(ComputeDuty)
            ELSE UNCHANGED <<fanOn, fan>>

(* run: a sensor that cannot be read at the start is never read again.     *)
ThermalStarts ==
  /\ thermal = "none" /\ task # "none"
  /\ thermal' = IF sensor THEN "polling" ELSE "disabled"
  /\ ReadAndSet
  /\ UNCHANGED <<vars, temp, sensor>>

Poll ==
  /\ thermal = "polling"
  /\ ReadAndSet
  /\ UNCHANGED <<vars, temp, sensor, thermal>>

(* SHUTDOWN: the thermal task is stopped first, with a duty of 0, and the  *)
(* lines are released last.                                                *)
GpioStop ==
  /\ Stop
  /\ thermal' = "stopped" /\ SetFanDuty(0)
  /\ UNCHANGED <<temp, sensor, fanOn>>

(* The kernel releases the lines of a process that exits; the fan's may    *)
(* keep its level.                                                         *)
GpioRestart ==
  /\ Restart
  /\ thermal' = "none" /\ fanOn' = FALSE /\ fan' \in {fan, FALSE}
  /\ UNCHANGED <<temp, sensor>>

(* The processor and its sensor.                                           *)
Warmer == {<<"cold", "band">>, <<"band", "warm">>, <<"warm", "hot">>}

Heat ==
  /\ temp' \in {t \in Temp : <<temp, t>> \in Warmer \/ <<t, temp>> \in Warmer}
  /\ UNCHANGED <<vars, sensor, thermal, fanOn, fan>>

SensorChanges ==
  /\ sensor' = ~sensor
  /\ UNCHANGED <<vars, temp, thermal, fanOn, fan>>

Thermal == ThermalStarts \/ Poll

GpioNext ==
  \/ GpioSetup \/ Ignition \/ Thermal \/ GpioStop \/ GpioRestart
  \/ Heat \/ SensorChanges

GpioSpec == GpioInit /\ [][GpioNext]_gpioVars

(* The event loop runs both tasks, and time passes.                        *)
GpioFairSpec ==
  /\ GpioSpec
  /\ WF_gpioVars(GpioSetup) /\ WF_gpioVars(Thermal)
  /\ WF_gpioVars(Monitor /\ UNCHANGED fanVars) /\ WF_gpioVars(Tick /\ UNCHANGED fanVars)

-----------------------------------------------------------------------------
(***************************************************************************)
(* Every variable has its type, and the line has the level that the        *)
(* thermal monitor, whose hysteresis depends on it, remembers: also after  *)
(* readings that failed, and it is off where nothing was ever read.        *)
(***************************************************************************)
GpioTypeOK ==
  /\ TypeOK
  /\ temp \in Temp /\ sensor \in BOOLEAN
  /\ thermal \in {"none", "polling", "disabled", "stopped"}
  /\ fanOn \in BOOLEAN /\ fan \in BOOLEAN
  /\ requested => (fan <=> fanOn)
  /\ thermal \in {"none", "disabled"} => ~fanOn

(***************************************************************************)
(* A fan is not switched to and fro: while the program runs it goes off    *)
(* only when the temperature has left the band below, however often the    *)
(* temperature or the sensor came and went.                                *)
(***************************************************************************)
NoCycling ==
  [][fan /\ ~fan' => temp = "cold" \/ task = "none" \/ task' \in {"none", "stopped"}]_gpioVars

(***************************************************************************)
(* A processor that stays warm gets its fan, from a monitor that runs and  *)
(* can read the sensor.                                                    *)
(***************************************************************************)
WarmIsCooled ==
  (thermal = "polling" /\ requested /\ temp = "warm" /\ sensor)
    ~> (fan \/ temp # "warm" \/ ~sensor \/ task \in {"none", "stopped"})
=============================================================================
