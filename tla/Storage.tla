-------------------------------- MODULE Storage --------------------------------
(***************************************************************************)
(* What outlives the program, under /data: the clock file (piauto/clock.py)*)
(* and the pairing store (PairingStore in piauto/ble.py), for a board      *)
(* whose clock may start from 0 and whose power may be cut.  The records   *)
(* of the store are ordered by the clock that the clock file restores, but *)
(* the file has whole seconds and the records have fractions of them.      *)
(* Files are overwritten in place: the program reads what it has written,  *)
(* the disk has it later.  Time is counted in ticks.                       *)
(***************************************************************************)
EXTENDS Integers, FiniteSets

CONSTANTS
  Phones,      \* phones that pair, numbered in the order of their addresses
  None,        \* no phone
  MaxRecords,  \* max_paired
  Second,      \* ticks of a second
  Interval,    \* ticks of CLOCK_SAVE_INTERVAL_S
  MaxTime,     \* bound: the clock
  MaxFaults    \* bound: cuts, failed writes, failed settings of the clock and boots

ASSUME PhonesAssumption == Phones \subseteq Nat /\ None \notin Phones
ASSUME RecordsAssumption == MaxRecords \in Nat \ {0}
ASSUME SecondAssumption == Second \in Nat \ {0}
ASSUME BoundsAssumption == Interval \in Nat /\ MaxTime \in Nat /\ MaxFaults \in Nat

VARIABLES
  pc,         \* "off", "booting", "idle" (and pairing), "projecting"
  now,        \* the system clock
  clockFile,  \* the time in the clock file, or Unreadable
  clockDisk,  \* ... and what the disk has of it
  store,      \* phone |-> last_connected
  storeDisk,
  slept,      \* ticks of the sleep of _periodic_clock_save
  saved,      \* it has saved in this projection, and did so the last time
  last,       \* the phone that paired last, or None
  dated,      \* save_time has succeeded since the last save_pairing
  intact,     \* nothing has been lost so far
  faults

clock == <<clockFile, clockDisk>>
files == <<clock, store, storeDisk>>
sleep == <<slept, saved>>
ghost == <<last, dated, intact>>
vars  == <<pc, now, files, sleep, ghost, faults>>

(* What load and restore_time make of a file that is empty or not there.   *)
Unreadable == -1

NoRecords == [p \in {} |-> 0]

(* int(time.time()), in ticks.                                             *)
Whole(t) == Second * (t \div Second)

-----------------------------------------------------------------------------
(* PairingStore.                                                           *)

(* The order of the records: latest first, then by address.                *)
Before(s, q, p) == s[q] > s[p] \/ (s[q] = s[p] /\ q < p)

Ahead(s, p) == {q \in DOMAIN s : Before(s, q, p)}

(* Slip: the list is cut before it is sorted, so a new phone goes first.   *)
RecordedUnsorted(s, p, t) ==
  LET all == [q \in DOMAIN s \cup {p} |-> IF q = p THEN t ELSE s[q]]
  IN  IF p \notin DOMAIN s /\ Cardinality(DOMAIN s) >= MaxRecords THEN s ELSE all

(* Slip: nothing is evicted.                                               *)
RecordedUnbounded(s, p, t) == [q \in DOMAIN s \cup {p} |-> IF q = p THEN t ELSE s[q]]

(* save_pairing.                                                           *)
Recorded(s, p, t) ==
  LET all  == [q \in DOMAIN s \cup {p} |-> IF q = p THEN t ELSE s[q]]
      kept == {q \in DOMAIN all : Cardinality(Ahead(all, q)) < MaxRecords}
  IN  [q \in kept |-> all[q]]

(* The list as load returns it; get_last_connected is its first phone.     *)
Order(s) ==
  [i \in 1 .. Cardinality(DOMAIN s) |->
     CHOOSE p \in DOMAIN s : Cardinality(Ahead(s, p)) = i - 1]

-----------------------------------------------------------------------------
Init ==
  /\ pc = "off" /\ now = 0
  /\ clockFile \in {Unreadable, 0} /\ clockDisk = clockFile
  /\ store = NoRecords /\ storeDisk = NoRecords
  /\ slept = 0 /\ saved = FALSE /\ last = None
  /\ dated = TRUE /\ intact = TRUE /\ faults = 0

CanFail == faults < MaxFaults

(* The board starts, with a clock that has a battery or without.           *)
PowerOn ==
  /\ pc = "off"
  /\ pc' = "booting" /\ now' \in {0, now}
  /\ UNCHANGED <<files, sleep, ghost, faults>>

(* Slip: the saved time is set whatever the time is.                       *)
RestoreTimeAlways ==
  /\ pc = "booting"
  /\ pc' = "idle"
  /\ now' = IF clockFile = Unreadable THEN now ELSE clockFile
  /\ UNCHANGED <<files, sleep, ghost, faults>>

(* restore_time, which compares whole seconds; "date" may fail, which is   *)
(* logged.                                                                 *)
RestoreTime ==
  /\ pc = "booting"
  /\ pc' = "idle"
  /\ \/ /\ now' = IF clockFile > Whole(now) THEN clockFile ELSE now
        /\ UNCHANGED <<intact, faults>>
     \/ /\ clockFile > Whole(now) /\ CanFail
        /\ intact' = FALSE /\ faults' = faults + 1 /\ UNCHANGED now
  /\ UNCHANGED <<files, sleep, last, dated>>

(* save_pairing after the credentials have been sent.  What precedes it is *)
(* taken to last a second: a phone that connects, an access point and a    *)
(* display to hand over (wifi.py:261 and splash.py:298 sleep for half a    *)
(* second each), OpenAuto that starts, the exchange, and after a boot also *)
(* the rest of the boot.  A write that fails may have emptied the file.    *)
SavePairing ==
  /\ pc = "idle" /\ now + Second <= MaxTime
  /\ now' = now + Second
  /\ last' \in Phones
  /\ dated' = FALSE
  /\ \/ store' = Recorded(store, last', now') /\ UNCHANGED <<intact, faults>>
     \/ /\ CanFail
        /\ store' \in {store, NoRecords} /\ intact' = FALSE /\ faults' = faults + 1
  /\ UNCHANGED <<pc, clock, storeDisk, sleep>>

StartProjection ==
  /\ pc = "idle"
  /\ pc' = "projecting" /\ slept' = 0 /\ saved' = FALSE
  /\ UNCHANGED <<now, files, ghost, faults>>

(* The task is cancelled, in its sleep.                                    *)
EndProjection ==
  /\ pc = "projecting" /\ slept < Interval
  /\ pc' = "idle" /\ slept' = 0 /\ saved' = FALSE
  /\ UNCHANGED <<now, files, ghost, faults>>

(* Slip: the task saves once.                                              *)
PeriodicSaveOnce ==
  /\ pc = "projecting" /\ slept = Interval
  /\ slept' = 0 /\ saved' = TRUE /\ dated' = TRUE
  /\ clockFile' = IF saved THEN clockFile ELSE Whole(now)
  /\ UNCHANGED <<pc, now, clockDisk, store, storeDisk, last, intact, faults>>

(* save_time; a failure is logged and leaves the old time, or none.        *)
TimeSaved == clockFile' = Whole(now) /\ dated' = TRUE /\ UNCHANGED faults

TimeNotSaved ==
  /\ CanFail
  /\ clockFile' \in {clockFile, Unreadable} /\ dated' = (dated /\ clockFile' = clockFile)
  /\ faults' = faults + 1

(* _periodic_clock_save.                                                   *)
PeriodicSave ==
  /\ pc = "projecting" /\ slept = Interval
  /\ slept' = 0
  /\ (TimeSaved /\ saved' = TRUE) \/ (TimeNotSaved /\ saved' = FALSE)
  /\ UNCHANGED <<pc, now, clockDisk, store, storeDisk, last, intact>>

(* SHUTDOWN saves the time as its last action; the halt writes all to disk.*)
Shutdown ==
  /\ pc \in {"idle", "projecting"} /\ slept < Interval
  /\ pc' = "off" /\ slept' = 0 /\ saved' = FALSE
  /\ TimeSaved \/ TimeNotSaved
  /\ clockDisk' = clockFile' /\ storeDisk' = store
  /\ intact' = (intact /\ dated')
  /\ UNCHANGED <<now, store, last>>

(* A boot that fails before restore_time (in load_config, _validate raises *)
(* for a value of the wrong type) goes to SHUTDOWN too, which overwrites   *)
(* the file with the clock as it is.                                       *)
BootFails ==
  /\ pc = "booting" /\ CanFail
  /\ pc' = "off" /\ intact' = FALSE /\ dated' = FALSE /\ faults' = faults + 1
  /\ clockFile' = Whole(now) /\ clockDisk' = clockFile' /\ storeDisk' = store
  /\ UNCHANGED <<now, store, sleep, last>>

-----------------------------------------------------------------------------
(* The process exits and systemd starts a new one, which boots.            *)
Restart ==
  /\ pc \in {"idle", "projecting"} /\ slept < Interval
  /\ pc' = "booting" /\ slept' = 0 /\ saved' = FALSE
  /\ UNCHANGED <<now, files, ghost, faults>>

Tick ==
  /\ pc \in {"idle", "projecting"} /\ now < MaxTime
  /\ now' = now + 1
  /\ IF pc = "projecting" THEN slept < Interval /\ slept' = slept + 1 ELSE UNCHANGED slept
  /\ UNCHANGED <<pc, files, saved, ghost, faults>>

(* What has been written reaches the disk, one file at a time.             *)
Flush ==
  /\ \/ clockDisk' = clockFile /\ UNCHANGED storeDisk
     \/ storeDisk' = store /\ UNCHANGED clockDisk
  /\ UNCHANGED <<pc, now, clockFile, store, sleep, ghost, faults>>

(* A file that was being overwritten is the old one, the new one or empty. *)
Survivors(file, disk, empty) == IF file = disk THEN {file} ELSE {file, disk, empty}

PowerCut ==
  /\ pc # "off" /\ CanFail
  /\ pc' = "off" /\ slept' = 0 /\ saved' = FALSE /\ faults' = faults + 1
  /\ clockFile' \in Survivors(clockFile, clockDisk, Unreadable) /\ clockDisk' = clockFile'
  /\ store' \in Survivors(store, storeDisk, NoRecords) /\ storeDisk' = store'
  /\ dated' = (dated /\ clockFile' = clockFile)
  /\ intact' = (intact /\ store' = store /\ dated')
  /\ UNCHANGED <<now, last>>

Program ==
  \/ RestoreTime \/ SavePairing \/ StartProjection \/ EndProjection \/ PeriodicSave
  \/ Shutdown \/ BootFails

Next == PowerOn \/ Program \/ Restart \/ Tick \/ Flush \/ PowerCut

Spec == Init /\ [][Next]_vars

-----------------------------------------------------------------------------
Records == UNION {[P -> 0 .. MaxTime] : P \in SUBSET Phones}

(***************************************************************************)
(* Every variable has its type, and no more than max_paired phones are     *)
(* remembered.                                                             *)
(***************************************************************************)
TypeOK ==
  /\ Cardinality(DOMAIN store) <= MaxRecords
  /\ pc \in {"off", "booting", "idle", "projecting"} /\ now \in 0 .. MaxTime
  /\ clockFile \in -1 .. MaxTime /\ clockDisk \in -1 .. MaxTime
  /\ store \in Records /\ storeDisk \in Records
  /\ slept \in 0 .. Interval /\ last \in Phones \cup {None} /\ faults \in 0 .. MaxFaults
  /\ saved \in BOOLEAN /\ dated \in BOOLEAN /\ intact \in BOOLEAN

(***************************************************************************)
(* A power cut in a projection finds a time in the clock file that is at   *)
(* most one interval old (and the fraction of a second that save_time cuts *)
(* off), once the periodic save has succeeded and has reached the disk,    *)
(* and as long as the saves succeed (statemachine.py:507, "no more than 5  *)
(* minutes stale").  A cut while the file is being overwritten may find an *)
(* older time or none.                                                     *)
(***************************************************************************)
FreshAfterSave ==
  [][PowerCut /\ pc = "projecting" /\ saved /\ clockDisk = clockFile =>
       clockFile' # Unreadable /\ now - clockFile' < Interval + Second]_vars

(***************************************************************************)
(* As long as nothing is lost, no record is of a later second than the     *)
(* clock of the running program, or than the clock it will have after the  *)
(* next boot, so that the phone saved next is the latest: restarts, clean  *)
(* shutdowns, and cuts that come after the time has been saved, must not   *)
(* set the clock back behind a record.  Lost is a record, a write that     *)
(* failed, a setting of the clock that failed, or the time of a pairing    *)
(* when the program ends before save_time has been called again.           *)
(***************************************************************************)
NoRecordAhead ==
  intact => \A p \in DOMAIN store :
    Whole(store[p]) <= IF pc = "off" \/ clockFile > now THEN clockFile ELSE now

(***************************************************************************)
(* The store is the list of the phones that connected last, whatever the   *)
(* sequence of pairings, evictions, shutdowns and restarts, and however    *)
(* often the clock starts from 0.  This is what the reconnection in IDLE   *)
(* relies on to page the right phone.                                      *)
(***************************************************************************)
Recent == INSTANCE RecentPhones WITH order <- Order(store)

RemembersLatest == Recent!Spec

-----------------------------------------------------------------------------
(* A sentence about the clock file that the code does not keep.            *)

(***************************************************************************)
(* docs/Architecture.md:338: saves at every clean shutdown and every 5     *)
(* minutes of a projection ensure that after a power cut "the restored     *)
(* clock is at most 5 minutes stale".  The time spent before the first     *)
(* save of the projection, in IDLE and connecting, is not counted.         *)
(***************************************************************************)
AtMostStale ==
  pc = "projecting" /\ clockFile # Unreadable => now - clockFile < Interval + Second
=============================================================================
