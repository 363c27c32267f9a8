# PiAuto in TLA+

PiAuto turns a Raspberry Pi into a wireless Android Auto head unit. It is one
Python program (`piauto/`), an asyncio event loop that drives the Bluetooth
daemon, the Wi-Fi access point, a splash-screen process, the OpenAuto process
and two GPIO lines. This directory holds TLA+ modules of its control, the TLC
configurations that check them on small instances, and TLAPS proofs for every
value of the constants. Line numbers refer to the Python files under `piauto/`.

## 1. The system

| Component (file) | State it keeps | Operations | Interacts with |
| --- | --- | --- | --- |
| Orchestrator (`statemachine.py`) | current `State`, retry count, current phone, the ignition event, its background tasks | one handler per state, run by `_main_loop`; each awaits its managers and races tasks with `asyncio.wait` | calls every other component; the ignition monitor calls back |
| GPIO lines (`gpio.py`) | line request, `_running` | `setup`, `monitor_ignition`, `set_fan_duty`, `stop`, `close` | a thread waits for kernel edges; callback sets the ignition event |
| Thermal monitor (`thermal.py`) | fan on or off | poll loop with hysteresis | the sensor, the fan line |
| BLE manager (`ble.py`) | D-Bus connection, flags of what is registered, queue of connections, `_rfcomm_fd` | `setup`, `start/stop_advertising`, `wait_for_phone`, `send_credentials`, reconnect paging, watches, `close` | BlueZ calls back with connections; `send_credentials` runs in a thread |
| Pairing store (`ble.py`), clock (`clock.py`) | two files under `/data` | `save_pairing` with its eviction, `load`; `restore_time`, `save_time` | the system clock; the reconnect loop pages the store's first phone |
| OpenAuto manager (`openauto.py`) | process, two event flags set by log monitors | `launch`, `kill`, several waits, the TCP poller | process, `ss` polls |
| Wi-Fi manager (`wifi.py`) | hostapd and dnsmasq processes, `_nm_managed` | `start_ap`, `stop_ap`, `wait_for_client`, `wait_for_client_leave_ap` | processes, NetworkManager, lease file, neighbour table |
| End of a session (`statemachine.py:537`, `openauto.py`, `wifi.py`, `ble.py`) | nine tasks of PROJECTION_ACTIVE | each watches for one sign that the phone has gone | what it watches; the first to finish ends the session |
| Splash manager (`splash.py`, first half) | process, queue of its output lines | `launch`, `launch_bt_setup`, `read_stdout_line`, `kill` | process over stdin/stdout, DRM master |
| Splash application (`splash.py`, second half), speaker pairing (`bt_pair.py`) | the view shown, the pairing helper | buttons, command reader, `_pair_device` | user, stdin/stdout, BlueZ |
| Volume sync (`volume.py`) | last volume per transport | poll loop | BlueZ, `wpctl` |
| Configuration, HFP handshake, logging | | sequential | |

What is hard about it: a step of the program is the code between two awaits,
and everything else (the user, the phone, BlueZ, four child processes, the
ignition) moves in between. Nine tasks race during a projection and the handler
looks at their results in a fixed order. A 30 s limit can cancel a handler
at any await. Resources (display, radio, descriptors, exported D-Bus objects) are
passed between handlers that do not know how the previous one ended. The end of a
session is guessed from signs that lag and lapse. Files are overwritten in place on a
board whose power goes with the ignition and whose clock may start from 0. The program
must halt in time when the ignition goes off, and systemd restarts it with nothing
remembered when BlueZ has been restarted. `PROJECT.json` lists these hazards
one by one, at the line where each bites, with the properties aimed at it.

What makes each component correct:

* Orchestrator: documented transitions only; retries bounded; display, access
  point, advertisement and OpenAuto on exactly when they should be, on every
  path; ignition first; nothing left behind at exit or halt; attempts end.
* Ignition monitor: no edge forgotten; a lasting fall confirmed; a bounce not.
* Fan: agrees with what the monitor remembers; does not cycle; a warm Pi is cooled.
* RFCOMM connections: each descriptor owned once; credentials to the right
  phone; served in the order of arrival, once; nobody waits for ever.
* Registrations: flags tell the truth, but for a stop that was cut off; discoverable
  whenever it waits.
* Access point: nothing of ours outlives a failed or cancelled start; no address
  of others is taken; a phone that has joined is not overlooked.
* End of a session: no task ends a session under a phone that is there; a phone that
  has gone is noticed.
* Splash and set-up screen: screen and program agree; what the screen says is
  saved; a stale line closes nothing; Back returns.
* Storage: the phones that connected last are the ones remembered; no record is of a
  later second than the clock; a power cut after a save finds a fresh time.

## 2. The modules

| Module | Models | Used by |
| --- | --- | --- |
| `States` | the enums `State` and `Event`, how a run ends | both below |
| `Lifecycle` | abstract: which event leads from which state to which, how many attempts, how a run ends | refined by `StateMachine` |
| `StateMachine` | the orchestrator and its surroundings | `StateMachineProofs`, `Claims` |
| `Claims` | sentences of the documentation that the orchestrator does not keep | two `claim_*` runs |
| `IgnitionMonitor` | line request, edges, debounce | extended by `Gpio` |
| `Gpio` | the ignition monitor composed with the fan and its monitor | `GpioProofs` |
| `Delivery` | abstract: what becomes of a connection | refined by `Rfcomm` |
| `Rfcomm` | connections and their descriptors | `RfcommProofs` |
| `Registrations` | advertisement and HFP profile | `RegistrationsProofs` |
| `AccessPoint` | hostapd, dnsmasq, NetworkManager, and looking for the phone | `AccessPointProofs` |
| `Session` | the tasks that watch for the end of a projection | `SessionProofs` |
| `SetupScreen` | splash process, its lines, the set-up and the pairing helper | `SetupScreenProofs` |
| `RecentPhones` | abstract: the phones that connected last | refined by `Storage` |
| `Storage` | clock file and pairing store over a disk that lags | `StorageProofs` |

**StateMachine.** `state` is `_state`, `pc` the await at which its handler is
suspended. An action is the code from one await to the next: its guard is
where the handler is plus the code's conditions, its primed variables are what
that code assigns, through operators named after the managers' methods
(`LaunchSplash`, `KillOpenAuto`, `StopAp`, ...). A method that awaits several times
without anything else in the program reading what it changes meanwhile is one
step (`kill`, `stop_ap`). `done` is the set of finished tasks of the
`asyncio.wait` in progress: tasks finish one by one and the handler may resume after
any of them, so several can be in `done` when it looks, in the order in which
it looks. `HandlerRaises` is the `except` clause of `_main_loop`. The
surroundings are the level of the pin, the OpenAuto process (logs, exits by itself),
the splash process (dies), BlueZ (restarts), the background tasks (fail), and
systemd. Which of the faults can happen is the constant `Faults`, so a run can state
what a property needs. It takes the managers at their word: a start of the access
point succeeds or not, a task of a projection finishes at any time, a splash
process is there or not. The modules below model what is behind these choices,
each with the orchestrator reduced to the phases that matter to it.

**Lifecycle.** Four variables: how the run stands, the state, the last event,
the attempts counted. `StateMachine!KeepsLifecycle` refines it with
`attempts <- Attempts`. The only difference in time is that the handler counts a failure (and
forgets the count) when it starts, one step after the transition; `Attempts` looks
ahead by that step.

**IgnitionMonitor, Gpio.** Time in ticks. `edge` is the kernel's buffer, `slept` the
debounce sleep; what a tick changes is only that sleep. The orchestrator module has
all of this as the one action `IgnitionSwitchedOff`. `Gpio` extends it by the other
line of the same class: the temperature by its place between the two thresholds and
the hysteresis band, a sensor that comes and goes, and the thermal task, which is
stopped before the lines are released.

**Rfcomm.** Connections are numbered in the order in which they are made. `open` is
the set whose duplicated descriptor is open, `queue`, `naming`, `held` its possible
owners: the queue, the local variable of `wait_for_phone` while it asks for the
device's name, `_rfcomm_fd`. **Delivery** forgets the owners: a connection is coming,
waiting, served, closed or lost, served and turned away in the order of
arrival, and never comes back. `Rfcomm!DeliversInOrder` maps each connection to its place.

**Registrations.** For the advertisement and the HFP profile: whether the
object is exported on the program's D-Bus connection, whether the flag is set,
and whether BlueZ has it. `Succeeds` and `Fails` are the two ends of a call. A call can also
be given up while BlueZ works on it: the loop's by `CancelLoop`, and those of
`stop_advertising` by `StopCutOff`, the 30 s limit of BT_PAIRING (`statemachine.py:410`,
`limited`; the set-up calls it without a limit). The `CancelledError` passes the except clauses
(`ble.py:772`), so the flag stays set although BlueZ may have dropped the advertisement; `cutOff`
notes that until it is registered again. `visible` is the adapter's Discoverable.

**AccessPoint.** `pc` is where `start_ap` is suspended, so that `PairingFails` can be its
failure or its cancellation at each of them. The processes and the handles to them are
separate variables, which is what can disagree. Of the phone there are the traces that
`wait_for_client` looks at: an unread line of dnsmasq's output, a lease file newer than the
credentials, a neighbour entry. `_nm_managed` is sticky, as in the code.

**Session.** One variable per task, one action per turn of its loop, and beside them what
they watch: OpenAuto and its log, the TCP connection, the phone on the access point and the
kernel's belief in it, the Bluetooth link, a queued connection. Time is counted in ticks
because the rule of two misses is about time: `PollInterval` is the poll of the neighbour table,
`ProbeTime` how long the kernel asks a phone that is there, `ReachTime` how long it
then believes in it. `real` records what has really happened since the projection
started.

**SetupScreen.** The program and the splash process as two programs joined by two pipes
and a queue. The pump moves lines from the pipe to the queue, which outlives the process;
the readers of IDLE and of the set-up take them from there. The process shows one of two views
and runs a helper (`bt_pair`) that reports a success some seconds before it
ends. The user presses whatever is on the screen. `told` is what the screen has said
last, `saved` what is in the configuration.

**Storage.** The clock file and the pairing store, as the program reads them
and as the disk has them. Time is counted in ticks, `Second` of them a second: the file has
`Whole(now)`, which is `int(time.time())` (`clock.py:62`), the records have `now`
(`statemachine.py:408`), and `restore_time` compares whole seconds. `Flush` writes one file,
`PowerCut` leaves a file that was being overwritten old, new or empty, `PowerOn` may start the clock
from 0, `save_time` may fail (`TimeNotSaved`), and `BootFails` is a boot that fails before
`restore_time` and so overwrites the saved time in SHUTDOWN. `Recorded` is `save_pairing`, sorting
and eviction included. `dated` says that `save_time` has succeeded, and its file survived, since
the last `save_pairing`. `intact` says that nothing has been lost so far, told by what happens and
not by what the clocks then show: no write or setting of the clock has failed, no record has
been lost in a cut, and the power has never gone off without `dated`. **RecentPhones** is the
promise: the list of the phones that connected last, latest first, until something is lost;
`Storage!RemembersLatest` maps `Order(store)` to it.

An operator whose comment starts with "Slip" is not part of the model. It is a
plausible programming mistake, listed under `mutants` in `PROJECT.json`: put in the place
of the operator beside it, it makes the named property fail, which shows that
the property says something about the code.

## 3. Runs that pass

| Run | Instance | States | Shows |
| --- | --- | --- | --- |
| `sm` | 3 retries (the code's number), all faults | 791 000 | type invariant, five safety invariants, `IgnitionWins`, `SessionAdvances`, refinement of `Lifecycle` |
| `sm_live` | 2 retries, splash faults | 27 891 | `AttemptResolves`, `IgnitionHandled` |
| `ignition` | debounce 3 ticks, 6 level changes, 1 restart | 10 064 | no edge forgotten, lasting falls confirmed, the fan steady and right |
| `rfcomm` | 4 connections, 3 retries | 990 | ownership, right phone, refinement of `Delivery`, everyone served |
| `registrations` | 3 failing calls | 2 003 | flags true, discoverable in IDLE, through stops that are cut off |
| `accesspoint` | `wlan0` (standalone) | 915 | nothing left in IDLE, foreign address kept, phone not overlooked |
| `session` | poll 2, probe 1, reach 3 ticks | 332 616 | no false end, a phone that has gone is noticed |
| `setup` | 2 speakers, 4 lines, 2 faults | 63 784 | screen and program agree, what is said is saved, Back returns |
| `storage` | 3 phones, 2 records, 2 ticks a second, interval 2, time 8, 1 fault | 1 461 000 | fresh after a cut, no record ahead, refinement of `RecentPhones` |

Bounds. `sm` and `accesspoint` have none but the retry limit: the retry count and the sets of
tasks are bounded by the code, so the whole state space is searched. `ignition` needs a
bounce within a debounce, a fall during the sleep and a lasting fall, before and
after a restart: six changes of level make room for three falls. `rfcomm` needs a
connection left by a failed session, one in use, one queued behind it and one
that arrives late: four. `registrations` needs three failures, as many as there are
kinds of calls for one object; stops can be cut off any number of times. `sm_live` has two retries because the second is the first that is
repeated, and the splash faults because they change what IDLE waits for; the
other faults can end the program or, as `claim_shutdown` shows, keep it in SHUTDOWN.
`accesspoint` takes the standalone interface, the one that can also be a station: `uap0`
has a part of its states. `session` has the three times in the order that the real ones have
(an answer after a moment, a poll every 3 s, at least 15 s of belief; see the caveat in section 7), at the smallest values
that leave a tick on either side of the poll. `setup` needs a left-over line, a
pairing and a Back on their way together with one more press, a choice between
speakers, and a process that dies twice (once in a session, once in the
set-up). `storage` needs a store that is full and a phone more, a second save of the same
projection, a record in the second half of a second that the file cuts off, and a power cut with the clock
behind; one fault is enough to lose something, and
after it only the promises that do not need `intact` remain.

Deadlock is checked in `registrations`. The other modules stop by design (halted, closed,
out of level changes or of time) or can always idle.

## 4. Fairness

* `StateMachine`: weak fairness of the handlers' own steps (the event loop runs
  what is ready), of the ignition task (its event is set), of the client and ready
  tasks (both have a 30 s limit in the code), and of the restart by systemd. None
  for the phone, the user, the processes or the ignition. A projection may last for ever.
* `Gpio`: the event loop (`GpioSetup`, `Monitor`, `Thermal`) and time. None for the line,
  the temperature or the sensor: `WarmIsCooled` is about a Pi that stays warm and a sensor
  that stays readable.
* `Rfcomm`: the event loop; limits of pairing, exchange and connecting; the 2 s grace after
  a reconnect attempt. None for new connections and for interruptions. A projection that
  nobody ends is ended by the first queued connection, because of the finding
  `claim_renegotiation`: `ConnectionServed` depends on it.
* `Session`: the event loop's own steps (`End`, `TcpPoll`, `Look`), time, and of the
  kernel that it gives up the connection and the neighbour entry of a phone that has gone
  (its timers do; a phone that is there may be believed in for ever). None for the phone.
* `SetupScreen`: both event loops (`Program` and `Pump` of the one, `ReadCommand` of the
  other). None for the user, the helper or the phone.
* `Registrations`, `AccessPoint` and `Storage`: none, and no liveness property.

## 5. Runs that end in a violation

Each contradicts a sentence of the documentation; `PROJECT.json` quotes it under
`findings`.

| Run | What happens |
| --- | --- |
| `claim_shutdown` | a failed background task makes SHUTDOWN start over for ever |
| `claim_renegotiation` | a renegotiation ends the projection (`is_running()` on a property) |
| `claim_clock_stale` | before the first save of a projection the clock file is as old as all the time spent outside projections and in short ones |

More sentences are not kept and have no run of their own, because the model shows
them by its form:

* after a TCP_CONNECT that timed out the splash is launched beside the running OpenAuto
  (`statemachine.py:498`, `:646`; `docs/StateMachine.md:241`, "exactly one process owns the DRM
  master"): `DisplayHandedOver` excepts ERROR_RECOVERY;
* the ignition is looked at only at certain awaits, so ordinary transitions are made with it
  pending (`docs/StateMachine.md:237`, "not a queued event"), and not at all while the set-up
  screen is open (`statemachine.py:344`): `IgnitionHandled` excepts it;
* a BlueZ restart outside two waits is missed (`statemachine.py:285`; `docs/SRS.md:256`);
* a line that is low before it is requested makes no edge and is never noticed
  (`gpio.py:60`; `docs/SRS.md:158`);
* the debounce reads the level once, at its end (`gpio.py:89`, "must remain LOW");
* a failed HFP registration is never retried with success, as the object stays exported
  (`ble.py:581`; `docs/Implementation.md:772`);
* a connection queued before a projection ends it (`ble.py:883`, "new");
* descriptors of pairings that failed before the exchange are overwritten, not closed
  (`ble.py:832`; `close`, "clean up RFCOMM fd"): `Delivery` calls them lost;
* `start_ap` returns `True` when NetworkManager has the interface connected as a station,
  with no access point at all (`wifi.py:189`, "already managing an AP"): `CheckNm`.

## 6. Proofs

All are for every value of the constants, from the assumptions named in the modules:
the retry limit is a positive number (`MaxRetriesAssumption`), the faults are among
those described, bounds are numbers, the poll interval lies between the kernel's times
(`TimesAssumption`), the absent value is none of the present ones. None assumes fairness.

* `StateMachineProofs`: the type invariant, the five safety invariants,
  `IgnitionWins`, and that `StateMachine` implements `Lifecycle`. The inductive
  invariant `IInv` adds what the invariants rest on: where the retry
  count is 0 or below the limit (`RetryCounted`; without it a retry could
  start from an unreachable count), that the access point is up from the moment it
  has been started (`SessionInv`), what each step of SHUTDOWN has already done
  (`DownInv`, `EndInv`), and at which awaits a noticed ignition can be
  pending (`IgnitionAwaited`). One lemma per handler shows that its steps keep every conjunct; a
  second pass over the actions maps each to a step of `Lifecycle` or a stutter.
  `SessionForward` (`SessionAdvances`) is what `AttemptResolves` rests on without any fairness:
  `AwaitsLeft` counts the awaits that a session can still come to, those to the next failure
  and ten more for each retry left, and every step of a handler lowers it, also the one from
  a projection that breaks into ERROR_RECOVERY. It needs `RetryCounted`.
  `FailedTaskForbidsHalt` turns the run `claim_shutdown` into a statement about every
  run: no shutdown that follows the failure of the fan or the ignition task halts the system
  (`ReapedBefore`: past the await of a task in SHUTDOWN that task has not failed).
* `GpioProofs`: types and `NoEdgeLost` of the ignition monitor by itself, from an invariant
  that ties the pending fall to a held line; that the composition with the fan implements
  the monitor (`GpioImplementsMonitor`), so that `NoEdgeLost` carries over; that the fan
  agrees with the memory of its monitor (`FanOK`) and does not cycle.
* `RfcommProofs`: types, `OwnedOnce` and `CredentialsToPhone`. The strengthening says
  that a found connection is the held one (`Matched`) and that new connections get
  new numbers (`Numbered`); two lemmas say what `Head`, `Tail` and `Append` do to
  the members of a queue without duplicates. `Delivers` is the refinement of `Delivery`; it
  needs that the queue is in the order of the numbers (`Sorted`).
* `RegistrationsProofs`: types, `FlagsAreTrue` and `DiscoverableInIdle`. `AdvAgrees` says what
  holds between object, flag and BlueZ without a failed call; a stop that is cut off breaks
  only the agreement of flag and BlueZ, which `RegisterAdvertisement` restores because it is called
  whatever the flag says.
* `AccessPointProofs`: types (handles included), `IdleIsDark`, `ClientEvident`,
  `ForeignAddressKept`. `Started` says what has been started at each await of `start_ap`;
  `Traced` which trace a phone that has joined has left and who is asked for it.
* `SessionProofs`: types and `EndsForCause`. The invariant behind the rule of two misses
  is `Rhythm`: after one miss, the age of the entry and the time to the next look add up so
  that a phone that is there has answered by then, and has not yet been doubted again.
* `SetupScreenProofs`: types, `NeverStuck`, `SetupKept`, `ToldIsSaved` and `BackComesNearer`. All argue about
  `Coming`, the queue followed by the pipe. `Shown` says what the process shows or has been
  told to show, `BackOnce` and `BackComes` that there is one Back in `Coming` exactly when the program
  waits on a view that the user has left. For `ToldIsSaved` there is in `Coming` a place
  up to which the program will have saved what the screen said, with no Back before it and no
  other pairing after it but behind a Back (`ToldKept`, `Settles`), and pairings left over when the set-up
  is left are read by IDLE before the button that opens it again (`StaleDropped`).
  `BackComesNearer` is the safety behind `BackReturns`: each line that the set-up reads brings
  the Back one place nearer, and nothing else moves it.
* `StorageProofs`: `FreshAfterSave` from the sleep since the last save (`SavedAge`);
  `NoRecordAhead` from a restored clock (`ClockRestored`), from what a successful `save_time`
  says of the records before it (`RecordsDated`), and from the arithmetic of whole seconds
  (`WholeBounds`, `WholeOrder`: cutting off fractions never turns the order of two times round;
  `ReadingAhead`: a saved second later than the present one is later than now); and its
  consequence that `save_pairing` never evicts the phone it was called for, for every capacity,
  because a pairing takes a second and a record is less than one ahead of a restored
  clock (`RecordsOlder`). The second half
  is about `Order`. The rank of a record is the number of records before it; ranks are
  distinct, and a set of distinct numbers below the size of the store is all of them, so there
  is exactly one order (`OrderUnique`). What `save_pairing` writes has the phone in
  front and the others as they were, but the last of a full store (`RecordedLatest`). From these
  follow `TypeOK`, the refinement of `RecentPhones` (`Remembers`) and that the
  reconnect loop pages the phone that connected last (`LastIsPaged`).

Only model-checked: the liveness properties (`AttemptResolves`, `IgnitionHandled`,
`SteadyLowConfirmed`, `WarmIsCooled`, `ConnectionServed`, `GoneIsNoticed`, `BackReturns`),
which TLAPS cannot prove (fairness and ENABLED are out of its reach). Every invariant, action
property and refinement that a run checks is also proved. There is no recursive definition
in the project.

## 7. Not modelled, and caveats

Not modelled:

* the memory of the volume sync: what it sets is a volume of another process, and nothing else
  reads it. That it runs only during a projection is in `StateMachine`;
* the HFP handshake: a fixed exchange of AT commands in a thread that shares no state;
* loading and validating the configuration (`config.py`): sequential, with tests of its own.
  `save_speaker_mac` is the one write;
* of the speaker pairing its D-Bus calls and the scan; of the splash application drawing and the
  display; of OpenAuto the sweep of stale processes and the certificate;
* `PIAUTO_NO_AP`, the radio channel and the text of hostapd's and dnsmasq's files;
* logging, the entry point, the build script.

What a reader should know before trusting a property:

* `AccessPoint`: NetworkManager is assumed to leave the interface alone while the program
  has started something on it. A stale neighbour entry of a phone that has gone counts as a
  phone that has joined, as in the code; `ClientEvident` is about the other direction. When
  hostapd exits within its first 0.5 s our address stays on the interface.
* `Session`: `ProbeTime < PollInterval` holds as long as there is traffic, which confirms the
  phone's entry within a moment. After an idle spell the kernel first waits 5 s in a delay state
  that the code (`wifi.py:366`) does not count; a phone whose traffic does not confirm it
  in that time can be missed twice. A TCP session that ends before the first look is not
  noticed by its poller, and a Bluetooth disconnect before the subscription is not
  noticed at all (`ble.py:850` calls this task the most reliable); `GoneIsNoticed` holds because
  other tasks notice.
* `SetupScreen`: a set-up whose process dies while the program waits for a line is never left
  (`splash.py:244`): the properties are about processes that run. A stale SETUP opens the
  set-up later, which the user can leave. `saved` is the configuration in memory: a failed write
  of its file is logged and no more (`config.py:184`). `KillSplash` is one step; the 30 s limit of
  BT_PAIRING can cut `kill` off between the end of the pump and that of the process
  (`splash.py:258`), which leaves a process whose lines nobody reads until the next one starts.
  A pairing that succeeds after Back is dropped, and one
  that is interrupted leaves the saved speaker without its bond. Killing the helper
  kills `sudo`; that `bt_pair` may go on is not modelled.
* `Storage`: after a cut between a pairing and the next successful `save_time` (in IDLE, or before
  the first save of a projection) the clock comes back behind the record, and the next phone that
  pairs may be the one evicted (`ble.py:314`). `intact` is then false and nothing is promised.
  The same after a boot that fails before `restore_time`: `_validate` raises for a value of the
  wrong type (`config.py:210`, outside the `try`), and SHUTDOWN overwrites the saved
  time with the clock as it is. So "monotonically increasing time across boots" (`clock.py:24`)
  is not kept in these cases, and otherwise to the second only: a record can be up to a second
  later than the clock after the next boot, which no order of pairings shows, because the model
  takes a second for what precedes a pairing: the rest of the boot, a phone that connects, the access
  point and the display (`wifi.py:261` and `splash.py:298` sleep for half of one each; with an
  access point of NetworkManager only the latter), OpenAuto, the exchange.
* `Registrations`: between a stop that was cut off and the next start `_adv_registered` may be
  set with nothing advertised. SHUTDOWN's `stop_advertising` is the end and not modelled.
* `StateMachine`: `EndsClean` is about what the program itself ends. At an exit for a lost BlueZ
  the splash may be up, and the access point if a projection was broken off: systemd ends
  them. At a halt `save_time` has been called, and whether it succeeded is not known here (it
  only logs a failure, `clock.py:64`; see `Storage`). The task that connects the paired speaker
  (`statemachine.py:249`) is started without being awaited or cancelled and can outlive IDLE; it is
  not modelled, nor is the cancellation of `_main_loop` itself (`statemachine.py:146`), which
  nothing in the program asks for.
* `StateMachine`: its free choices are meant to include the behaviours of the modules beside
  it. This has been compared action by action, not checked: the reduced orchestrators of
  `Rfcomm` and `AccessPoint` go to SHUTDOWN from each phase whose handler can raise.

Worth doing next: the inclusion just mentioned as refinements of a common abstraction; the
safety halves of the other liveness properties, as `SessionForward` and `BackComesNearer` are
of theirs.

## 8. Running

    tlc -config sm.cfg StateMachine.tla
    tlc -config ignition.cfg Gpio.tla
    tlc -config claim_clock_stale.cfg Storage.tla
    tlapm SetupScreenProofs.tla

`PROJECT.json` lists every run with its module and configuration.
