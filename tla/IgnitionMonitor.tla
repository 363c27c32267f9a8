--------------------------- MODULE IgnitionMonitor ---------------------------
(***************************************************************************)
(* The ignition sense line (piauto/gpio.py): the kernel reports falling    *)
(* edges of GPIO 17 while the line is requested, and the monitor task      *)
(* waits for one, sleeps for the debounce time and reads the level.        *)
(* Time is counted in ticks; StateMachine.tla abstracts all of this to the *)
(* action IgnitionSwitchedOff.                                             *)
(***************************************************************************)
EXTENDS Naturals

CONSTANTS
  Debounce,    \* debounce_ms, in ticks
  MaxToggles,  \* bound: how often the level of the pin changes
  MaxRestarts  \* bound: how often the program is restarted

ASSUME DebounceAssumption == Debounce \in Nat \ {0}
ASSUME BoundsAssumption == MaxToggles \in Nat /\ MaxRestarts \in Nat

VARIABLES
  pin,         \* level of GPIO 17: with the pull-up, "high" is ignition on
  requested,   \* the line is requested with falling edge detection
  edge,        \* an edge is in the kernel's buffer of the request
  task,        \* the monitor: "none", "waiting", "debouncing", "mock", "ended",
               \* "stopped"
  slept,       \* ticks of the debounce sleep that have passed
  fired,       \* _ignition_fired and the _ignition_off event
  seenFall,    \* the pin has fallen under the present request
  toggles, restarts

line == <<pin, toggles>>
vars == <<line, requested, edge, task, slept, fired, seenFall, restarts>>

Init ==
  /\ pin \in {"high", "low"} /\ toggles = 0
  /\ requested = FALSE /\ edge = FALSE /\ task = "none" /\ slept = 0
  /\ fired = FALSE /\ seenFall = FALSE /\ restarts = 0

-----------------------------------------------------------------------------
(* BOOTING: request the line and start the monitor; without a GPIO chip it *)
(* only sleeps until it is stopped.                                        *)
Setup ==
  /\ task = "none"
  /\ \/ requested' = TRUE /\ task' = "waiting"
     \/ requested' = FALSE /\ task' = "mock"
  /\ fired' = FALSE
  /\ UNCHANGED <<line, edge, slept, seenFall, restarts>>

(* wait_edge_events returns, the events are read and the sleep begins.     *)
ReadEdges ==
  /\ task = "waiting" /\ edge
  /\ edge' = FALSE
  /\ task' = "debouncing" /\ slept' = 0
  /\ UNCHANGED <<line, requested, fired, seenFall, restarts>>

(* Slip: the active-low level is read the wrong way round.                 *)
ConfirmInverted ==
  /\ task = "debouncing" /\ slept >= Debounce
  /\ IF pin = "high" THEN task' = "ended" /\ fired' = TRUE
                     ELSE task' = "waiting" /\ UNCHANGED fired
  /\ slept' = 0
  /\ UNCHANGED <<line, requested, edge, seenFall, restarts>>

(* Slip: the monitor returns after the first reading, whatever it is.      *)
ConfirmOnce ==
  /\ task = "debouncing" /\ slept >= Debounce
  /\ fired' = (pin = "low") /\ task' = "ended"
  /\ slept' = 0
  /\ UNCHANGED <<line, requested, edge, seenFall, restarts>>

(* The sleep is over: one reading of the level decides.                    *)
Confirm ==
  /\ task = "debouncing" /\ slept >= Debounce
  /\ IF pin = "low" THEN task' = "ended" /\ fired' = TRUE
                    ELSE task' = "waiting" /\ UNCHANGED fired
  /\ slept' = 0
  /\ UNCHANGED <<line, requested, edge, seenFall, restarts>>

(* SHUTDOWN: stop(), cancel and await the task, close().                   *)
Stop ==
  /\ task \in {"waiting", "debouncing", "mock", "ended"}
  /\ task' = "stopped" /\ slept' = 0
  /\ requested' = FALSE /\ edge' = FALSE /\ seenFall' = FALSE
  /\ UNCHANGED <<line, fired, restarts>>

(* sys.exit(1) and a new process: nothing is remembered.                   *)
Restart ==
  /\ task \notin {"none", "stopped"} /\ restarts < MaxRestarts
  /\ restarts' = restarts + 1
  /\ task' = "none" /\ slept' = 0 /\ fired' = FALSE
  /\ requested' = FALSE /\ edge' = FALSE /\ seenFall' = FALSE
  /\ UNCHANGED line

-----------------------------------------------------------------------------
(* The line and the time.                                                  *)

Falls ==
  /\ pin = "high" /\ toggles < MaxToggles
  /\ pin' = "low" /\ toggles' = toggles + 1
  /\ edge' = requested /\ seenFall' = requested
  /\ UNCHANGED <<requested, task, slept, fired, restarts>>

Rises ==
  /\ pin = "low" /\ toggles < MaxToggles
  /\ pin' = "high" /\ toggles' = toggles + 1
  /\ seenFall' = FALSE
  /\ UNCHANGED <<requested, edge, task, slept, fired, restarts>>

(* A tick; the loop wakes the sleeping monitor at the end of its sleep or  *)
(* later.                                                                  *)
Tick ==
  /\ task = "debouncing" /\ slept < Debounce
  /\ slept' = slept + 1
  /\ UNCHANGED <<line, requested, edge, task, fired, seenFall, restarts>>

Monitor == ReadEdges \/ Confirm

Next == Setup \/ Monitor \/ Stop \/ Restart \/ Falls \/ Rises \/ Tick

Spec == Init /\ [][Next]_vars

-----------------------------------------------------------------------------
CountsOK ==
  /\ slept \in 0 .. Debounce
  /\ toggles \in 0 .. MaxToggles /\ restarts \in 0 .. MaxRestarts

(***************************************************************************)
(* Every variable has its type, and the monitor keeps to its line: it      *)
(* waits for an edge or samples the level only of a line it holds, and has *)
(* nothing left to do once the ignition is confirmed.                      *)
(***************************************************************************)
TypeOK ==
  /\ pin \in {"high", "low"}
  /\ task \in {"none", "waiting", "debouncing", "mock", "ended", "stopped"}
  /\ requested \in BOOLEAN /\ edge \in BOOLEAN /\ fired \in BOOLEAN /\ seenFall \in BOOLEAN
  /\ task \in {"waiting", "debouncing"} => requested
  /\ fired => task \in {"ended", "stopped"}
  /\ CountsOK

(***************************************************************************)
(* No lost ignition: while the pin is low after a fall under the request,  *)
(* the edge is still in the buffer, or is being debounced, or has been     *)
(* confirmed.  Edges that arrive during the debounce sleep, between the    *)
(* reading of the events and that of the level, must not be forgotten.     *)
(***************************************************************************)
NoEdgeLost == seenFall /\ pin = "low" => edge \/ task = "debouncing" \/ fired

(***************************************************************************)
(* An ignition switched off while it is monitored, and not on again, is    *)
(* confirmed, however often the pin bounced before.                        *)
(***************************************************************************)
SteadyLowConfirmed ==
  (seenFall /\ pin = "low") ~> (fired \/ pin = "high" \/ task \in {"none", "stopped"})
=============================================================================
