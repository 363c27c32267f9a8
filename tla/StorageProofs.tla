---------------------------- MODULE StorageProofs ----------------------------
(***************************************************************************)
(* Proofs about Storage.tla: the age of the clock file, that no record is  *)
(* ahead of the clock, that therefore the phone that has just paired is    *)
(* not the one that is evicted, and that the store implements              *)
(* RecentPhones.tla: the ranks of the records (how many are before each)   *)
(* are the numbers below the size of the store, so that the records have   *)
(* one order, and save_pairing changes it as the promise says.             *)
(***************************************************************************)
EXTENDS Storage, Sequences, FiniteSetTheorems, TLAPS

(* The type invariant without the size of the store.                       *)
Flags ==
  /\ pc \in {"off", "booting", "idle", "projecting"}
  /\ saved \in BOOLEAN /\ dated \in BOOLEAN /\ intact \in BOOLEAN

Numbers ==
  /\ now \in Nat /\ slept \in 0 .. Interval
  /\ clockFile \in Int /\ clockFile >= Unreadable
  /\ clockDisk \in Int /\ clockDisk >= Unreadable

(* Every record has a time.                                                *)
Timed(s) == DOMAIN s \subseteq Phones /\ \A p \in DOMAIN s : s[p] \in Int

Stores == Timed(store) /\ Timed(storeDisk)

(* The clock has gone on for as long as the sleep since the last save.     *)
SavedAge == pc = "projecting" /\ saved => clockFile >= 0 /\ now - clockFile < slept + Second

(* The file has whole seconds, or nothing.                                 *)
Readings == {Unreadable} \cup {Whole(t) : t \in Int}

FileWhole == clockFile \in Readings /\ clockDisk \in Readings

(* The clock file is behind a clock that has been restored.                *)
ClockRestored == intact /\ pc \in {"idle", "projecting"} => clockFile <= now

(* The clock file is not behind a record that was saved before it.         *)
RecordsDated == intact /\ dated => \A p \in DOMAIN store : Whole(store[p]) <= clockFile

IInv ==
  /\ Flags /\ Numbers /\ Stores /\ SavedAge /\ FileWhole
  /\ ClockRestored /\ RecordsDated /\ NoRecordAhead

-----------------------------------------------------------------------------
(* Whole seconds.                                                          *)

(* save_time cuts off less than a second.                                  *)
LEMMA WholeBounds ==
  ASSUME NEW t \in Int
  PROVE  Whole(t) \in Int /\ Whole(t) <= t /\ t < Whole(t) + Second
<1> DEFINE q == t \div Second
           r == t % Second
<1>1. q \in Int /\ r \in 0 .. (Second - 1)
  BY SecondAssumption
<1>2. t = Second * q + r
  BY SecondAssumption
<1>3. Second * q \in Int
  BY SecondAssumption, <1>1
<1> HIDE DEF q, r
<1>4. Second * q <= t /\ t < Second * q + Second
  BY SecondAssumption, <1>1, <1>2, <1>3
<1> QED
  BY <1>3, <1>4 DEF Whole, q

LEMMA WholeNat ==
  ASSUME NEW t \in Nat
  PROVE  Whole(t) \in Nat
<1>1. t \div Second \in Int /\ t \div Second >= 0
  BY SecondAssumption
<1> QED
  BY <1>1, SecondAssumption DEF Whole

(* Two whole seconds that differ are a second apart.                       *)
LEMMA SecondApart ==
  ASSUME NEW a \in Int, NEW b \in Int, a < b
  PROVE  Second * a + Second <= Second * b
<1>1. b - a - 1 \in Nat
  OBVIOUS
<1>2. Second * (b - a - 1) \in Nat
  BY <1>1, SecondAssumption
<1>3. Second * (b - a - 1) = Second * b - Second * a - Second
  BY SecondAssumption
<1> QED
  BY <1>2, <1>3, SecondAssumption

(* A whole second that is past is not later than the present one.          *)
LEMMA WholeOrder ==
  ASSUME NEW u \in Int, NEW t \in Int, Whole(u) <= t
  PROVE  Whole(u) <= Whole(t)
<1> DEFINE a == t \div Second
           b == u \div Second
<1>1. a \in Int /\ b \in Int
  BY SecondAssumption
<1>2. CASE a < b
  <2>1. Second * a + Second <= Second * b
    BY <1>1, <1>2, SecondApart
  <2>2. Whole(t) + Second <= Whole(u)
    BY <2>1 DEF Whole
  <2> QED
    BY <2>2, WholeBounds, SecondAssumption
<1>3. CASE b = a
  <2>1. Whole(u) = Whole(t)
    BY <1>3 DEF Whole
  <2> QED
    BY <2>1, WholeBounds
<1>4. CASE b < a
  <2>1. Second * b + Second <= Second * a
    BY <1>1, <1>4, SecondApart
  <2>2. Whole(u) + Second <= Whole(t)
    BY <2>1 DEF Whole
  <2> QED
    BY <2>2, WholeBounds, SecondAssumption
<1> QED
  BY <1>1, <1>2, <1>3, <1>4

(* What can be read from the file and is later than the present second is  *)
(* later than now.                                                         *)
LEMMA ReadingAhead ==
  ASSUME NEW c \in Readings, NEW t \in Nat, c > Whole(t)
  PROVE  c > t
<1>1. CASE c = Unreadable
  BY <1>1, WholeNat DEF Unreadable
<1>2. CASE \E u \in Int : c = Whole(u)
  BY <1>2, WholeOrder, WholeBounds
<1> QED
  BY <1>1, <1>2 DEF Readings

-----------------------------------------------------------------------------
(* save_pairing, as an operator.                                           *)

(* It gives the phone the time, and the others keep theirs or go.          *)
LEMMA RecordedRecords ==
  ASSUME NEW s, Timed(s), NEW p \in Phones, NEW t \in Int
  PROVE  /\ Timed(Recorded(s, p, t))
         /\ \A q \in DOMAIN Recorded(s, p, t) :
              \/ q = p /\ Recorded(s, p, t)[q] = t
              \/ q \in DOMAIN s /\ Recorded(s, p, t)[q] = s[q]
  BY DEF Recorded, Timed

(* A phone saved with the latest time is not evicted.                      *)
LEMMA LatestRecorded ==
  ASSUME NEW s, Timed(s), NEW p \in Phones, NEW t \in Int, \A q \in DOMAIN s : s[q] < t
  PROVE  p \in DOMAIN Recorded(s, p, t)
<1> DEFINE all == [q \in DOMAIN s \cup {p} |-> IF q = p THEN t ELSE s[q]]
<1>1. Ahead(all, p) = {}
  <2> SUFFICES ASSUME NEW q \in DOMAIN all, Before(all, q, p) PROVE FALSE
    BY DEF Ahead
  <2>1. q # p => all[q] < t
    OBVIOUS
  <2>2. all[p] = t /\ all[q] \in Int /\ p \in Nat
    BY PhonesAssumption DEF Timed
  <2> QED
    BY <2>1, <2>2 DEF Before
<1>2. Cardinality(Ahead(all, p)) = 0
  BY <1>1, FS_EmptySet
<1> QED
  BY <1>2, RecordsAssumption DEF Recorded

-----------------------------------------------------------------------------
(* The initial states.                                                     *)
LEMMA InitEstablishes == Init => IInv
<1> SUFFICES ASSUME Init PROVE IInv
  OBVIOUS
<1>1. Flags
  BY DEF Init, Flags
<1>2. Numbers
  BY BoundsAssumption DEF Init, Numbers, Unreadable
<1>3. store = NoRecords /\ storeDisk = NoRecords /\ DOMAIN NoRecords = {}
  BY DEF Init, NoRecords
<1>4. Stores /\ RecordsDated /\ NoRecordAhead
  BY <1>3 DEF Stores, Timed, RecordsDated, NoRecordAhead
<1>5. SavedAge /\ ClockRestored
  BY DEF Init, SavedAge, ClockRestored
<1>6. FileWhole
  <2>1. Whole(0) = 0
    BY SecondAssumption DEF Whole
  <2>2. 0 \in Readings /\ Unreadable \in Readings
    BY <2>1 DEF Readings
  <2> QED
    BY <2>2 DEF Init, FileWhole
<1> QED
  BY <1>1, <1>2, <1>4, <1>5, <1>6 DEF IInv

(* Each step keeps the flags.                                              *)
LEMMA KeepsFlags == IInv /\ [Next]_vars => Flags'
<1> SUFFICES ASSUME Flags, [Next]_vars PROVE Flags'
  BY DEF IInv
<1> USE DEF Flags, sleep, ghost
<1>1. CASE PowerOn \/ RestoreTime \/ SavePairing
  BY <1>1 DEF PowerOn, RestoreTime, SavePairing
<1>2. CASE StartProjection \/ EndProjection
  BY <1>2 DEF StartProjection, EndProjection
<1>3. ASSUME TimeSaved \/ TimeNotSaved PROVE dated' \in BOOLEAN
  <2>1. CASE TimeSaved
    BY <2>1 DEF TimeSaved
  <2>2. CASE TimeNotSaved
    <3>1. dated' = (dated /\ clockFile' = clockFile)
      BY <2>2 DEF TimeNotSaved
    <3> QED
      BY <3>1, Zenon
  <2> QED
    BY <1>3, <2>1, <2>2
<1>4. CASE PeriodicSave
  BY <1>3, <1>4 DEF PeriodicSave
<1>5. CASE Shutdown
  <2>1. pc' = "off" /\ saved' = FALSE /\ (TimeSaved \/ TimeNotSaved) /\ intact' = (intact /\ dated')
    BY <1>5 DEF Shutdown
  <2>2. intact' \in BOOLEAN
    BY <2>1, Zenon
  <2> QED
    BY <1>3, <2>1, <2>2
<1>6. CASE BootFails \/ Restart \/ Tick \/ Flush
  BY <1>6 DEF BootFails, Restart, Tick, Flush
<1>7. CASE PowerCut
  <2>1. /\ pc' = "off" /\ saved' = FALSE
        /\ dated' = (dated /\ clockFile' = clockFile)
        /\ intact' = (intact /\ store' = store /\ dated')
    BY <1>7 DEF PowerCut
  <2> QED
    BY <2>1, Zenon
<1>8. CASE UNCHANGED vars
  BY <1>8 DEF vars
<1> QED
  BY <1>1, <1>2, <1>4, <1>5, <1>6, <1>7, <1>8 DEF Next, Program

(* Each step keeps the numbers.                                            *)
LEMMA KeepsNumbers == IInv /\ [Next]_vars => Numbers'
<1> SUFFICES ASSUME IInv, [Next]_vars PROVE Numbers'
  OBVIOUS
<1>1. Whole(now) \in Nat
  BY WholeNat DEF IInv, Numbers
<1> USE BoundsAssumption, SecondAssumption
    DEF IInv, Numbers, Unreadable, clock, files, sleep, ghost
<1>2. CASE PowerOn
  BY <1>2 DEF PowerOn
<1>3. CASE RestoreTime
  <2>1. now' \in {now, clockFile} /\ (now' = clockFile => clockFile > Whole(now) \/ clockFile = now)
    BY <1>3 DEF RestoreTime
  <2>2. UNCHANGED <<clockFile, clockDisk, slept>>
    BY <1>3 DEF RestoreTime
  <2> QED
    BY <1>1, <2>1, <2>2
<1>4. CASE SavePairing
  BY <1>4 DEF SavePairing
<1>5. CASE StartProjection \/ EndProjection
  BY <1>5 DEF StartProjection, EndProjection
<1>6. ASSUME TimeSaved \/ TimeNotSaved PROVE clockFile' \in Int /\ clockFile' >= -1
  BY <1>1, <1>6 DEF TimeSaved, TimeNotSaved
<1>7. CASE PeriodicSave
  <2>1. /\ TimeSaved \/ TimeNotSaved
        /\ slept' = 0 /\ UNCHANGED <<now, clockDisk>>
    BY <1>7 DEF PeriodicSave
  <2> QED
    BY <1>6, <2>1
<1>8. CASE Shutdown
  <2>1. /\ TimeSaved \/ TimeNotSaved
        /\ slept' = 0 /\ clockDisk' = clockFile' /\ UNCHANGED now
    BY <1>8 DEF Shutdown
  <2> QED
    BY <1>6, <2>1
<1>9. CASE BootFails
  BY <1>1, <1>9 DEF BootFails
<1>10. CASE Restart \/ Flush
  BY <1>10 DEF Restart, Flush
<1>11. CASE Tick
  BY <1>11 DEF Tick
<1>12. CASE PowerCut
  BY <1>12 DEF PowerCut, Survivors
<1>13. CASE UNCHANGED vars
  BY <1>13 DEF vars
<1> QED
  BY <1>2, <1>3, <1>4, <1>5, <1>7, <1>8, <1>9, <1>10, <1>11, <1>12, <1>13 DEF Next, Program

(* Each step keeps the stores.                                             *)
LEMMA KeepsStores == IInv /\ [Next]_vars => Stores'
<1> SUFFICES ASSUME IInv, [Next]_vars PROVE Stores'
  OBVIOUS
<1>1. Timed(NoRecords)
  BY DEF Timed, NoRecords
<1>2. CASE SavePairing
  <2>1. now' \in Int /\ last' \in Phones /\ storeDisk' = storeDisk
    BY <1>2, SecondAssumption DEF SavePairing, IInv, Numbers, clock
  <2>2. Timed(Recorded(store, last', now'))
    BY <2>1, RecordedRecords DEF IInv, Stores
  <2>3. store' \in {store, NoRecords, Recorded(store, last', now')}
    BY <1>2 DEF SavePairing
  <2> QED
    BY <1>1, <2>1, <2>2, <2>3 DEF IInv, Stores
<1>3. CASE PowerCut \/ Flush
  <2>1. store' \in {store, storeDisk, NoRecords} /\ storeDisk' \in {storeDisk, store'}
    BY <1>3 DEF PowerCut, Flush, Survivors
  <2> QED
    BY <1>1, <2>1 DEF IInv, Stores
<1>4. CASE ~(SavePairing \/ PowerCut \/ Flush)
  <2>1. store' = store /\ storeDisk' \in {storeDisk, store}
    BY <1>4 DEF Next, Program, PowerOn, RestoreTime, StartProjection, EndProjection,
                PeriodicSave, Shutdown, BootFails, Restart, Tick, vars, files
  <2> QED
    BY <2>1 DEF IInv, Stores
<1> QED
  BY <1>2, <1>3, <1>4

(* Each step keeps whole seconds in the file.                              *)
LEMMA KeepsFileWhole == IInv /\ [Next]_vars => FileWhole'
<1> SUFFICES ASSUME IInv, [Next]_vars PROVE FileWhole'
  OBVIOUS
<1>1. Whole(now) \in Readings /\ Unreadable \in Readings
  BY DEF IInv, Numbers, Readings
<1>2. CASE PeriodicSave \/ Shutdown
  <2>1. /\ clockFile' \in {clockFile, Whole(now), Unreadable}
        /\ clockDisk' \in {clockDisk, clockFile'}
    BY <1>2 DEF PeriodicSave, Shutdown, TimeSaved, TimeNotSaved
  <2> QED
    BY <1>1, <2>1 DEF IInv, FileWhole
<1>3. CASE BootFails
  BY <1>1, <1>3 DEF BootFails, FileWhole
<1>4. CASE PowerCut \/ Flush
  <2>1. /\ clockFile' \in {clockFile, clockDisk, Unreadable}
        /\ clockDisk' \in {clockDisk, clockFile, clockFile'}
    BY <1>4 DEF PowerCut, Flush, Survivors
  <2> QED
    BY <1>1, <2>1 DEF IInv, FileWhole
<1>5. CASE ~(PeriodicSave \/ Shutdown \/ BootFails \/ PowerCut \/ Flush)
  <2>1. clockFile' = clockFile /\ clockDisk' = clockDisk
    BY <1>5 DEF Next, Program, PowerOn, RestoreTime, SavePairing, StartProjection,
                EndProjection, Restart, Tick, vars, files, clock
  <2> QED
    BY <2>1 DEF IInv, FileWhole
<1> QED
  BY <1>2, <1>3, <1>4, <1>5

(* Each step keeps the age of the clock file.                              *)
LEMMA KeepsClock == IInv /\ [Next]_vars => SavedAge' /\ ClockRestored'
<1> SUFFICES ASSUME IInv, [Next]_vars PROVE SavedAge' /\ ClockRestored'
  OBVIOUS
<1>1. Whole(now) \in Nat /\ Whole(now) <= now /\ now < Whole(now) + Second
  BY WholeNat, WholeBounds DEF IInv, Numbers
<1> USE BoundsAssumption, SecondAssumption
    DEF IInv, Flags, Numbers, Unreadable, SavedAge, ClockRestored, clock, files, sleep, ghost
<1>2. CASE PowerOn
  BY <1>2 DEF PowerOn
<1>3. CASE RestoreTime
  <2>1. pc' = "idle" /\ clockFile' = clockFile
    BY <1>3 DEF RestoreTime
  <2>2. intact' => now' = IF clockFile > Whole(now) THEN clockFile ELSE now
    BY <1>3 DEF RestoreTime
  <2>3. intact' => clockFile' <= now'
    BY <1>1, <2>1, <2>2
  <2> QED
    BY <2>1, <2>3
<1>4. CASE SavePairing
  BY <1>4 DEF SavePairing
<1>5. CASE StartProjection \/ EndProjection
  BY <1>5 DEF StartProjection, EndProjection
<1>6. CASE PeriodicSave
  <2>1. /\ pc = "projecting" /\ pc' = pc /\ now' = now /\ intact' = intact /\ slept' = 0
        /\ clockFile' \in {clockFile, Whole(now), -1}
    BY <1>6 DEF PeriodicSave, TimeSaved, TimeNotSaved
  <2>2. saved' => clockFile' = Whole(now)
    BY <1>6 DEF PeriodicSave, TimeSaved
  <2>3. saved' => clockFile' >= 0 /\ now' - clockFile' < slept' + Second
    BY <1>1, <2>1, <2>2
  <2>4. intact => clockFile <= now
    BY <2>1
  <2>5. intact' => clockFile' <= now'
    BY <1>1, <2>1, <2>4
  <2> QED
    BY <2>3, <2>5
<1>7. CASE Shutdown \/ BootFails \/ PowerCut
  BY <1>7 DEF Shutdown, BootFails, PowerCut
<1>8. CASE Restart \/ Flush
  BY <1>8 DEF Restart, Flush
<1>9. CASE Tick
  BY <1>9 DEF Tick
<1>10. CASE UNCHANGED vars
  BY <1>10 DEF vars
<1> QED
  BY <1>2, <1>3, <1>4, <1>5, <1>6, <1>7, <1>8, <1>9, <1>10 DEF Next, Program

(* A running program's records are not of a later second than its clock.   *)
LEMMA RecordsPast ==
  ASSUME IInv, intact, pc \in {"idle", "projecting"}
  PROVE  \A p \in DOMAIN store : store[p] \in Int /\ Whole(store[p]) <= Whole(now)
<1> TAKE p \in DOMAIN store
<1>1. store[p] \in Int
  BY DEF IInv, Stores, Timed
<1>2. clockFile <= now /\ now \in Int /\ clockFile \in Int
  BY DEF IInv, ClockRestored, Numbers
<1>3. Whole(store[p]) <= now
  BY <1>2 DEF IInv, NoRecordAhead
<1> QED
  BY <1>1, <1>2, <1>3, WholeOrder

(* Each step keeps the records that are dated behind the clock file.       *)
LEMMA KeepsRecordsDated == IInv /\ [Next]_vars => RecordsDated'
<1> SUFFICES ASSUME IInv, [Next]_vars, intact', dated' PROVE RecordsDated'
  BY DEF RecordsDated
<1>1. CASE PowerOn \/ RestoreTime \/ StartProjection \/ EndProjection \/ Restart \/ Tick \/ Flush
  <2>1. UNCHANGED <<store, clockFile, dated>>
    BY <1>1 DEF PowerOn, RestoreTime, StartProjection, EndProjection, Restart, Tick, Flush,
                files, clock, ghost
  <2>2. intact
    BY <1>1 DEF PowerOn, RestoreTime, StartProjection, EndProjection, Restart, Tick, Flush,
                ghost
  <2> QED
    BY <2>1, <2>2 DEF IInv, RecordsDated
<1>2. CASE SavePairing \/ BootFails
  BY <1>2 DEF SavePairing, BootFails
<1>3. CASE PeriodicSave \/ Shutdown
  <2>1. /\ pc \in {"idle", "projecting"} /\ intact /\ store' = store
        /\ TimeSaved \/ TimeNotSaved
    BY <1>3 DEF PeriodicSave, Shutdown
  <2>2. CASE TimeSaved
    BY <2>1, <2>2, RecordsPast DEF TimeSaved, RecordsDated
  <2>3. CASE TimeNotSaved
    <3>1. dated /\ clockFile' = clockFile
      BY <2>3, Zenon DEF TimeNotSaved
    <3> QED
      BY <2>1, <3>1 DEF IInv, RecordsDated
  <2> QED
    BY <2>1, <2>2, <2>3
<1>4. CASE PowerCut
  <2>1. intact /\ store' = store /\ dated /\ clockFile' = clockFile
    BY <1>4, Zenon DEF PowerCut
  <2> QED
    BY <2>1 DEF IInv, RecordsDated
<1>5. CASE UNCHANGED vars
  BY <1>5 DEF vars, files, clock, ghost, IInv, RecordsDated
<1> QED
  BY <1>1, <1>2, <1>3, <1>4, <1>5 DEF Next, Program

(* Each step keeps the records behind the clock.                           *)
LEMMA KeepsRecords == IInv /\ [Next]_vars => NoRecordAhead'
<1> DEFINE bound == IF pc = "off" \/ clockFile > now THEN clockFile ELSE now
<1> SUFFICES ASSUME IInv, [Next]_vars, intact', NEW p \in DOMAIN store'
             PROVE  Whole(store'[p]) <= bound'
  BY DEF NoRecordAhead
<1>1. bound \in Int /\ bound' \in Int /\ Stores'
  BY KeepsNumbers, KeepsStores DEF IInv, Numbers
<1>2. CASE SavePairing
  <2>1. /\ intact /\ pc = "idle" /\ pc' = "idle" /\ now' = now + Second /\ clockFile' = clockFile
        /\ last' \in Phones /\ store' = Recorded(store, last', now')
    BY <1>2 DEF SavePairing, clock, IInv, Flags
  <2>2. clockFile <= now /\ now \in Nat /\ clockFile \in Int /\ Second \in Nat
    BY <2>1, SecondAssumption DEF IInv, ClockRestored, Numbers
  <2>3. bound' = now'
    BY <2>1, <2>2
  <2>4. \/ store'[p] = now'
        \/ p \in DOMAIN store /\ store'[p] = store[p]
    BY <2>1, <2>2, RecordedRecords DEF IInv, Stores
  <2>5. CASE store'[p] = now'
    BY <1>1, <2>3, <2>5, WholeBounds
  <2>6. CASE p \in DOMAIN store /\ store'[p] = store[p]
    <3>1. store[p] \in Int /\ Whole(store[p]) <= Whole(now)
      BY <2>1, <2>6, RecordsPast
    <3>2. Whole(store[p]) \in Int /\ Whole(now) \in Int /\ Whole(now) <= now
      BY <2>2, <3>1, WholeBounds
    <3> QED
      BY <2>1, <2>2, <2>3, <2>6, <3>1, <3>2
  <2> QED
    BY <2>4, <2>5, <2>6
<1>3. CASE PowerCut \/ Shutdown
  <2>1. pc' = "off" /\ dated'
    <3>1. CASE PowerCut
      BY <3>1, Zenon DEF PowerCut
    <3>2. CASE Shutdown
      BY <3>2, Zenon DEF Shutdown
    <3> QED
      BY <1>3, <3>1, <3>2
  <2>2. RecordsDated'
    BY KeepsRecordsDated
  <2> QED
    BY <2>1, <2>2 DEF RecordsDated
<1>4. CASE BootFails
  BY <1>4 DEF BootFails
<1>5. CASE ~(SavePairing \/ PowerCut \/ Shutdown \/ BootFails)
  <2>1. store' = store /\ intact
    BY <1>5 DEF Next, Program, PowerOn, RestoreTime, StartProjection, EndProjection,
                PeriodicSave, Restart, Tick, Flush, vars, files, ghost, IInv, Flags
  <2>2. Whole(store[p]) <= bound /\ store[p] \in Int /\ Whole(store[p]) \in Int
    BY <2>1, WholeBounds DEF IInv, NoRecordAhead, Stores, Timed
  <2>3. CASE PeriodicSave
    <3>1. pc = "projecting" /\ pc' = pc /\ now' = now
      BY <2>3 DEF PeriodicSave
    <3>2. clockFile <= now /\ now \in Int /\ clockFile' \in Int /\ clockFile \in Int
      BY <2>1, <3>1, KeepsNumbers DEF IInv, ClockRestored, Numbers
    <3> QED
      BY <2>1, <2>2, <3>1, <3>2
  <2>4. CASE ~PeriodicSave
    <3>1. bound <= bound'
      <4> USE DEF clock, files, sleep, IInv, Numbers
      <4>1. CASE PowerOn
        BY <4>1 DEF PowerOn
      <4>2. CASE RestoreTime
        <5>1. /\ pc = "booting" /\ pc' = "idle" /\ clockFile' = clockFile
              /\ now' = IF clockFile > Whole(now) THEN clockFile ELSE now
          BY <4>2 DEF RestoreTime
        <5>2. clockFile > Whole(now) => clockFile > now
          BY ReadingAhead DEF FileWhole
        <5>3. Whole(now) \in Int /\ Whole(now) <= now
          BY WholeBounds
        <5> QED
          BY <5>1, <5>2, <5>3
      <4>3. CASE StartProjection \/ EndProjection \/ Restart \/ Flush
        <5>1. (pc = "off") = (pc' = "off")
          BY <4>3 DEF StartProjection, EndProjection, Restart, Flush
        <5>2. clockFile' = clockFile /\ now' = now
          BY <4>3 DEF StartProjection, EndProjection, Restart, Flush
        <5> QED
          BY <5>1, <5>2
      <4>4. CASE Tick
        BY <4>4 DEF Tick
      <4>5. CASE UNCHANGED vars
        BY <4>5 DEF vars
      <4> QED
        BY <1>5, <2>4, <4>1, <4>2, <4>3, <4>4, <4>5 DEF Next, Program
    <3> QED
      BY <1>1, <2>1, <2>2, <3>1
  <2> QED
    BY <2>3, <2>4
<1> QED
  BY <1>2, <1>3, <1>4, <1>5

LEMMA Invariance == Spec => []IInv
<1>1. IInv /\ [Next]_vars => IInv'
  BY KeepsFlags, KeepsNumbers, KeepsStores, KeepsFileWhole, KeepsClock, KeepsRecordsDated,
     KeepsRecords DEF IInv
<1> QED
  BY <1>1, InitEstablishes, PTL DEF Spec

-----------------------------------------------------------------------------
(***************************************************************************)
(* After a save that has reached the disk, a power cut in the projection   *)
(* finds a time that is at most one interval old.                          *)
(***************************************************************************)
THEOREM ClockFresh == Spec => FreshAfterSave
<1>1. IInv /\ [Next]_vars =>
        (PowerCut /\ pc = "projecting" /\ saved /\ clockDisk = clockFile =>
           clockFile' # Unreadable /\ now - clockFile' < Interval + Second)
  <2> SUFFICES ASSUME IInv, PowerCut, pc = "projecting", saved, clockDisk = clockFile
               PROVE  clockFile' # Unreadable /\ now - clockFile' < Interval + Second
    OBVIOUS
  <2>1. clockFile' = clockFile
    BY DEF PowerCut, Survivors
  <2>2. clockFile >= 0 /\ now - clockFile < slept + Second
    BY DEF IInv, SavedAge
  <2>3. now \in Nat /\ clockFile \in Int /\ slept \in 0 .. Interval
    BY DEF IInv, Numbers
  <2> QED
    BY <2>1, <2>2, <2>3, BoundsAssumption, SecondAssumption DEF Unreadable
<1> QED
  BY <1>1, Invariance, PTL DEF Spec, FreshAfterSave

(***************************************************************************)
(* No record is of a later second than the clock, now or after the next    *)
(* boot.                                                                   *)
(***************************************************************************)
THEOREM RecordsBehindClock == Spec => []NoRecordAhead
<1>1. IInv => NoRecordAhead
  BY DEF IInv
<1> QED
  BY <1>1, Invariance, PTL

(***************************************************************************)
(* The phone that has just paired is remembered: as long as nothing was    *)
(* lost, save_pairing does not evict the phone it was called for.          *)
(***************************************************************************)
JustPairedKept == [][SavePairing /\ intact' => last' \in DOMAIN store']_vars

(* A record of the store is older than the pairing that is saved next.     *)
LEMMA RecordsOlder ==
  ASSUME IInv, intact, pc = "idle"
  PROVE  \A q \in DOMAIN store : store[q] < now + Second
<1> TAKE q \in DOMAIN store
<1>1. store[q] \in Int /\ Whole(store[q]) <= Whole(now) /\ now \in Int
  BY RecordsPast DEF IInv, Numbers
<1>2. /\ Whole(store[q]) \in Int /\ store[q] < Whole(store[q]) + Second
      /\ Whole(now) \in Int /\ Whole(now) <= now
  BY <1>1, WholeBounds
<1> QED
  BY <1>1, <1>2, SecondAssumption

THEOREM JustPairedIsKept == Spec => JustPairedKept
<1>1. IInv /\ [Next]_vars => (SavePairing /\ intact' => last' \in DOMAIN store')
  <2> SUFFICES ASSUME IInv, SavePairing, intact' PROVE last' \in DOMAIN store'
    OBVIOUS
  <2>1. /\ intact /\ pc = "idle" /\ now' = now + Second /\ last' \in Phones
        /\ store' = Recorded(store, last', now')
    BY DEF SavePairing, IInv, Flags
  <2>2. now' \in Int
    BY <2>1, SecondAssumption DEF IInv, Numbers
  <2>3. \A q \in DOMAIN store : store[q] < now'
    BY <2>1, RecordsOlder
  <2> QED
    BY <2>1, <2>2, <2>3, LatestRecorded DEF IInv, Stores
<1> QED
  BY <1>1, Invariance, PTL DEF Spec, JustPairedKept

-----------------------------------------------------------------------------
(* The order of the records.  The rank of a phone is how many are before   *)
(* it; a store is a finite number of records whose ranks are the numbers   *)
(* below its size.                                                         *)

Finite(s) == Timed(s) /\ IsFiniteSet(DOMAIN s)

Rank(s, p) == Cardinality(Ahead(s, p))

(* Before is a strict total order.                                         *)
LEMMA BeforeOrders ==
  ASSUME NEW s, Timed(s)
  PROVE  /\ \A p \in DOMAIN s : ~Before(s, p, p)
         /\ \A p, q, r \in DOMAIN s : Before(s, p, q) /\ Before(s, q, r) => Before(s, p, r)
         /\ \A p, q \in DOMAIN s : p = q \/ Before(s, p, q) \/ Before(s, q, p)
<1>1. \A p \in DOMAIN s : p \in Nat /\ s[p] \in Int
  BY PhonesAssumption DEF Timed
<1> QED
  BY <1>1 DEF Before

(* Ranks are numbers below the size, and grow with the order.              *)
LEMMA RankBounds ==
  ASSUME NEW s, Finite(s), NEW p \in DOMAIN s
  PROVE  /\ IsFiniteSet(Ahead(s, p))
         /\ Cardinality(DOMAIN s) \in Nat
         /\ Rank(s, p) \in Nat /\ Rank(s, p) < Cardinality(DOMAIN s)
<1>1. Ahead(s, p) \in SUBSET DOMAIN s /\ p \notin Ahead(s, p)
  BY BeforeOrders DEF Ahead, Finite
<1>2. /\ IsFiniteSet(Ahead(s, p)) /\ Rank(s, p) <= Cardinality(DOMAIN s)
      /\ Rank(s, p) # Cardinality(DOMAIN s)
  BY <1>1, FS_Subset DEF Finite, Rank
<1>3. Rank(s, p) \in Nat /\ Cardinality(DOMAIN s) \in Nat
  BY <1>2, FS_CardinalityType DEF Finite, Rank
<1> QED
  BY <1>2, <1>3

LEMMA RankGrows ==
  ASSUME NEW s, Finite(s), NEW p \in DOMAIN s, NEW q \in DOMAIN s, Before(s, p, q)
  PROVE  Rank(s, p) < Rank(s, q)
<1>1. Ahead(s, p) \in SUBSET Ahead(s, q)
  BY BeforeOrders DEF Ahead, Finite
<1>2. p \in Ahead(s, q) /\ p \notin Ahead(s, p)
  BY BeforeOrders DEF Ahead, Finite
<1>3. IsFiniteSet(Ahead(s, q)) /\ Rank(s, p) \in Nat /\ Rank(s, q) \in Nat
  BY RankBounds
<1>4. Rank(s, p) <= Rank(s, q) /\ Rank(s, p) # Rank(s, q)
  BY <1>1, <1>2, <1>3, FS_Subset DEF Rank
<1> QED
  BY <1>3, <1>4

(* The order is the order of the ranks, and no two phones share one.       *)
LEMMA RankOrders ==
  ASSUME NEW s, Finite(s), NEW p \in DOMAIN s, NEW q \in DOMAIN s
  PROVE  /\ Before(s, p, q) <=> Rank(s, p) < Rank(s, q)
         /\ Rank(s, p) = Rank(s, q) => p = q
<1>1. Rank(s, p) \in Nat /\ Rank(s, q) \in Nat
  BY RankBounds
<1>2. p = q \/ Before(s, p, q) \/ Before(s, q, p)
  BY BeforeOrders DEF Finite
<1>3. /\ Before(s, p, q) => Rank(s, p) < Rank(s, q)
      /\ Before(s, q, p) => Rank(s, q) < Rank(s, p)
  BY RankGrows
<1> QED
  BY <1>1, <1>2, <1>3

(* Each number below the size is the rank of a phone.                      *)
LEMMA RanksCover ==
  ASSUME NEW s, Finite(s), NEW k \in Nat, k < Cardinality(DOMAIN s)
  PROVE  \E p \in DOMAIN s : Rank(s, p) = k
<1> DEFINE n == Cardinality(DOMAIN s)
           f == [p \in DOMAIN s |-> Rank(s, p)]
<1>1. n \in Nat
  BY FS_CardinalityType DEF Finite
<1>2. f \in [DOMAIN s -> 0 .. n - 1]
  BY <1>1, RankBounds
<1>3. f \in Injection(DOMAIN s, 0 .. n - 1)
  BY <1>2, RankOrders DEF Injection, IsInjective
<1>4. IsFiniteSet(0 .. n - 1) /\ Cardinality(0 .. n - 1) = n
  <2>1. 0 \in Int /\ n - 1 \in Int
    BY <1>1
  <2>2. IsFiniteSet(0 .. n - 1) /\ Cardinality(0 .. n - 1) = IF 0 > n - 1 THEN 0 ELSE n - 1 - 0 + 1
    BY <2>1, FS_Interval
  <2> QED
    BY <1>1, <2>2
<1>5. f \in Surjection(DOMAIN s, 0 .. n - 1)
  BY <1>3, <1>4, FS_Injection
<1>6. k \in 0 .. n - 1
  BY <1>1
<1>7. PICK p \in DOMAIN s : f[p] = k
  BY <1>5, <1>6 DEF Surjection
<1> QED
  BY <1>7

(* So Order lists the records by rank.                                     *)
LEMMA OrderByRank ==
  ASSUME NEW s, Finite(s)
  PROVE  LET n == Cardinality(DOMAIN s)
         IN  /\ n \in Nat
             /\ Order(s) \in [1 .. n -> DOMAIN s]
             /\ \A i \in 1 .. n : Rank(s, Order(s)[i]) = i - 1
             /\ \A p \in DOMAIN s : Rank(s, p) + 1 \in 1 .. n /\ Order(s)[Rank(s, p) + 1] = p
             /\ \A i, j \in 1 .. n : Order(s)[i] = Order(s)[j] => i = j
<1> DEFINE n == Cardinality(DOMAIN s)
<1>1. n \in Nat
  BY FS_CardinalityType DEF Finite
<1>2. ASSUME NEW i \in 1 .. n
      PROVE  Order(s)[i] \in DOMAIN s /\ Rank(s, Order(s)[i]) = i - 1
  <2>1. \E p \in DOMAIN s : Cardinality(Ahead(s, p)) = i - 1
    BY <1>1, RanksCover DEF Rank
  <2> QED
    BY <2>1 DEF Order, Rank
<1>3. Order(s) \in [1 .. n -> DOMAIN s]
  BY <1>2 DEF Order
<1>4. ASSUME NEW p \in DOMAIN s
      PROVE  Rank(s, p) + 1 \in 1 .. n /\ Order(s)[Rank(s, p) + 1] = p
  <2>1. Rank(s, p) \in Nat /\ Rank(s, p) < n
    BY RankBounds
  <2>2. Rank(s, p) + 1 \in 1 .. n
    BY <1>1, <2>1
  <2>3. Order(s)[Rank(s, p) + 1] \in DOMAIN s
        /\ Rank(s, Order(s)[Rank(s, p) + 1]) = Rank(s, p)
    BY <1>2, <2>1, <2>2
  <2> QED
    BY <2>2, <2>3, RankOrders
<1>5. \A i, j \in 1 .. n : Order(s)[i] = Order(s)[j] => i = j
  BY <1>1, <1>2
<1> QED
  BY <1>1, <1>2, <1>3, <1>4, <1>5

(* Only Order does: a list of the phones by their ranks is Order.          *)
LEMMA OrderUnique ==
  ASSUME NEW s, Finite(s), NEW m \in Nat, NEW f \in [1 .. m -> DOMAIN s],
         \A i \in 1 .. m : Rank(s, f[i]) = i - 1,
         \A p \in DOMAIN s : Rank(s, p) < m
  PROVE  Order(s) = f
<1> DEFINE n == Cardinality(DOMAIN s)
<1>1. /\ n \in Nat /\ Order(s) \in [1 .. n -> DOMAIN s]
      /\ \A i \in 1 .. n : Rank(s, Order(s)[i]) = i - 1
  BY OrderByRank
<1>2. m <= n
  <2> SUFFICES ASSUME m > n PROVE FALSE
    BY <1>1
  <2>1. f[m] \in DOMAIN s /\ Rank(s, f[m]) = m - 1
    BY <1>1
  <2> QED
    BY <1>1, <2>1, RankBounds
<1>3. n <= m
  <2> SUFFICES ASSUME n > m PROVE FALSE
    BY <1>1
  <2>1. Order(s)[n] \in DOMAIN s /\ Rank(s, Order(s)[n]) = n - 1
    BY <1>1
  <2>2. Rank(s, Order(s)[n]) < m
    BY <2>1
  <2> QED
    BY <1>1, <2>1, <2>2
<1>4. \A i \in 1 .. m : Order(s)[i] = f[i]
  <2> TAKE i \in 1 .. m
  <2>1. /\ Order(s)[i] \in DOMAIN s /\ f[i] \in DOMAIN s
        /\ Rank(s, Order(s)[i]) = Rank(s, f[i])
    BY <1>1, <1>2
  <2> QED
    BY <2>1, RankOrders
<1> QED
  BY <1>1, <1>2, <1>3, <1>4

-----------------------------------------------------------------------------
(* save_pairing, by the ranks.  Added is the list before it is cut.        *)

Added(s, p, t) == [q \in DOMAIN s \cup {p} |-> IF q = p THEN t ELSE s[q]]

LEMMA AddedFinite ==
  ASSUME NEW s, Finite(s), NEW p \in Phones, NEW t \in Int
  PROVE  Finite(Added(s, p, t))
<1>1. Timed(Added(s, p, t))
  BY DEF Added, Timed, Finite
<1>2. IsFiniteSet(DOMAIN s \cup {p}) /\ DOMAIN Added(s, p, t) = DOMAIN s \cup {p}
  BY FS_AddElement DEF Finite, Added
<1> QED
  BY <1>1, <1>2 DEF Finite

(* The records kept are those of the first max_paired ranks, unchanged.    *)
LEMMA RecordedKeeps ==
  ASSUME NEW s, NEW p, NEW t
  PROVE  LET all == Added(s, p, t)
             new == Recorded(s, p, t)
         IN  /\ DOMAIN new = {q \in DOMAIN all : Rank(all, q) < MaxRecords}
             /\ \A q \in DOMAIN new : new[q] = all[q]
  BY DEF Recorded, Added, Rank

LEMMA RecordedFinite ==
  ASSUME NEW s, Finite(s), NEW p \in Phones, NEW t \in Int
  PROVE  Finite(Recorded(s, p, t))
<1>1. Finite(Added(s, p, t)) /\ DOMAIN Recorded(s, p, t) \in SUBSET DOMAIN Added(s, p, t)
  BY AddedFinite, RecordedKeeps
<1>2. IsFiniteSet(DOMAIN Recorded(s, p, t))
  BY <1>1, FS_Subset DEF Finite
<1>3. Timed(Recorded(s, p, t))
  BY RecordedRecords DEF Finite
<1> QED
  BY <1>2, <1>3 DEF Finite

(* Cutting the list does not change the ranks of what is kept.             *)
LEMMA RecordedRanks ==
  ASSUME NEW s, Finite(s), NEW p \in Phones, NEW t \in Int,
         NEW q \in DOMAIN Recorded(s, p, t)
  PROVE  Rank(Recorded(s, p, t), q) = Rank(Added(s, p, t), q)
<1> DEFINE all == Added(s, p, t)
           new == Recorded(s, p, t)
<1>1. /\ DOMAIN new = {r \in DOMAIN all : Rank(all, r) < MaxRecords}
      /\ \A r \in DOMAIN new : new[r] = all[r]
  BY RecordedKeeps
<1>2. Finite(all) /\ MaxRecords \in Nat
  BY AddedFinite, RecordsAssumption
<1>3. ASSUME NEW r \in DOMAIN all, Before(all, r, q)
      PROVE  r \in DOMAIN new
  <2>1. Rank(all, r) < Rank(all, q) /\ Rank(all, q) < MaxRecords
    BY <1>1, <1>2, <1>3, RankGrows
  <2>2. Rank(all, r) \in Nat /\ Rank(all, q) \in Nat
    BY <1>1, <1>2, RankBounds
  <2> QED
    BY <1>1, <1>2, <2>1, <2>2
<1>4. Ahead(new, q) = Ahead(all, q)
  BY <1>1, <1>3 DEF Ahead, Before
<1> QED
  BY <1>4 DEF Rank

(* No more than max_paired phones are remembered.                          *)
LEMMA RecordedFits ==
  ASSUME NEW s, Finite(s), NEW p \in Phones, NEW t \in Int
  PROVE  Cardinality(DOMAIN Recorded(s, p, t)) <= MaxRecords
<1> DEFINE new == Recorded(s, p, t)
           n == Cardinality(DOMAIN new)
<1>1. Finite(new) /\ n \in Nat /\ MaxRecords \in Nat
  BY RecordedFinite, FS_CardinalityType, RecordsAssumption DEF Finite
<1> SUFFICES ASSUME MaxRecords < n PROVE FALSE
  BY <1>1
<1>2. PICK q \in DOMAIN new : Rank(new, q) = MaxRecords
  BY <1>1, RanksCover
<1>3. Rank(Added(s, p, t), q) < MaxRecords
  BY RecordedKeeps
<1> QED
  BY <1>1, <1>2, <1>3, RecordedRanks

-----------------------------------------------------------------------------
(* The phone saved with the latest time becomes the first.                 *)

LEMMA AddedRanks ==
  ASSUME NEW s, Finite(s), NEW p \in Phones, NEW t \in Int, \A q \in DOMAIN s : s[q] < t
  PROVE  LET all == Added(s, p, t)
         IN  /\ Rank(all, p) = 0
             /\ \A q \in DOMAIN s \ {p} :
                  Rank(all, q) = IF p \in Ahead(s, q) THEN Rank(s, q) ELSE Rank(s, q) + 1
<1> DEFINE all == Added(s, p, t)
<1>1. /\ DOMAIN all = DOMAIN s \cup {p} /\ all[p] = t
      /\ \A q \in DOMAIN s \ {p} : all[q] = s[q] /\ s[q] \in Int /\ s[q] < t
  BY DEF Added, Finite, Timed
<1>2. p \in Nat
  BY PhonesAssumption
<1>3. Ahead(all, p) = {}
  <2> SUFFICES ASSUME NEW q \in DOMAIN all, Before(all, q, p) PROVE FALSE
    BY DEF Ahead
  <2>1. q # p => all[q] < t /\ all[q] \in Int
    BY <1>1
  <2> QED
    BY <1>1, <1>2, <2>1 DEF Before
<1>4. Rank(all, p) = 0
  BY <1>3, FS_EmptySet DEF Rank
<1>5. ASSUME NEW q \in DOMAIN s \ {p}
      PROVE  Rank(all, q) = IF p \in Ahead(s, q) THEN Rank(s, q) ELSE Rank(s, q) + 1
  <2>1. Before(all, p, q)
    BY <1>1 DEF Before
  <2>2. \A r \in DOMAIN s \ {p} : Before(all, r, q) <=> Before(s, r, q)
    BY <1>1 DEF Before
  <2>3. Ahead(all, q) = Ahead(s, q) \cup {p}
    BY <1>1, <2>1, <2>2 DEF Ahead
  <2>4. IsFiniteSet(Ahead(s, q))
    BY RankBounds
  <2> QED
    BY <2>3, <2>4, FS_AddElement DEF Rank
<1> QED
  BY <1>4, <1>5

(* What Latest looks up: the place of the phone, and the new length.       *)
PlaceOf(p, o) ==
  IF p \in Recent!Range(o) THEN CHOOSE i \in DOMAIN o : o[i] = p ELSE Len(o) + 1

SizeOf(p, o) ==
  IF PlaceOf(p, o) > Len(o) /\ Len(o) < MaxRecords THEN Len(o) + 1 ELSE Len(o)

LEMMA LatestDefined ==
  ASSUME NEW p, NEW o
  PROVE  Recent!Latest(p, o) =
           [i \in 1 .. SizeOf(p, o) |->
              IF i = 1 THEN p ELSE IF i <= PlaceOf(p, o) THEN o[i - 1] ELSE o[i]]
  BY DEF Recent!Latest, PlaceOf, SizeOf

LEMMA OrderPlaces ==
  ASSUME NEW s, Finite(s), NEW p
  PROVE  LET n == Cardinality(DOMAIN s)
         IN  /\ Len(Order(s)) = n /\ n \in Nat
             /\ p \in DOMAIN s => PlaceOf(p, Order(s)) = Rank(s, p) + 1
                                  /\ Rank(s, p) \in Nat /\ Rank(s, p) < n
             /\ p \notin DOMAIN s => PlaceOf(p, Order(s)) = n + 1
<1> DEFINE n == Cardinality(DOMAIN s)
           o == Order(s)
<1>1. /\ n \in Nat /\ o \in [1 .. n -> DOMAIN s]
      /\ \A q \in DOMAIN s : Rank(s, q) + 1 \in 1 .. n /\ o[Rank(s, q) + 1] = q
      /\ \A i, j \in 1 .. n : o[i] = o[j] => i = j
  BY OrderByRank
<1>2. DOMAIN o = 1 .. n /\ Len(o) = n
  <2>1. o \in Seq(DOMAIN s)
    BY <1>1
  <2> QED
    BY <1>1, <2>1
<1>3. Recent!Range(o) = DOMAIN s
  <2>1. \A q \in DOMAIN s : \E i \in DOMAIN o : o[i] = q
    BY <1>1, <1>2
  <2>2. \A i \in DOMAIN o : o[i] \in DOMAIN s
    BY <1>1, <1>2
  <2> QED
    BY <2>1, <2>2 DEF Recent!Range
<1>4. CASE p \in DOMAIN s
  <2>1. Rank(s, p) + 1 \in 1 .. n /\ o[Rank(s, p) + 1] = p
    BY <1>1, <1>4
  <2>2. \A i \in DOMAIN o : o[i] = p => i = Rank(s, p) + 1
    BY <1>1, <1>2, <2>1
  <2>3. PlaceOf(p, o) = Rank(s, p) + 1
    BY <1>2, <1>3, <1>4, <2>1, <2>2 DEF PlaceOf
  <2>4. Rank(s, p) \in Nat /\ Rank(s, p) < n
    BY <1>4, RankBounds
  <2> QED
    BY <1>1, <1>2, <1>4, <2>3, <2>4
<1>5. CASE p \notin DOMAIN s
  BY <1>1, <1>2, <1>3, <1>5 DEF PlaceOf
<1> QED
  BY <1>4, <1>5

(* The length of the list without and with the phone.                      *)
LEMMA SizeFits ==
  ASSUME NEW s, Finite(s), Cardinality(DOMAIN s) <= MaxRecords, NEW p
  PROVE  LET n    == Cardinality(DOMAIN s)
             size == SizeOf(p, Order(s))
         IN  /\ size \in Nat /\ 1 <= size /\ size <= MaxRecords
             /\ p \in DOMAIN s => size = n
             /\ p \notin DOMAIN s => size = IF n < MaxRecords THEN n + 1 ELSE n
  BY OrderPlaces, RecordsAssumption DEF SizeOf

(***************************************************************************)
(* save_pairing with the latest time is what RecentPhones promises.        *)
(***************************************************************************)
LEMMA RecordedLatest ==
  ASSUME NEW s, Finite(s), Cardinality(DOMAIN s) <= MaxRecords,
         NEW p \in Phones, NEW t \in Int, \A q \in DOMAIN s : s[q] < t
  PROVE  Order(Recorded(s, p, t)) = Recent!Latest(p, Order(s))
<1> DEFINE n == Cardinality(DOMAIN s)
           o == Order(s)
           all == Added(s, p, t)
           new == Recorded(s, p, t)
           place == PlaceOf(p, o)
           size == SizeOf(p, o)
           f == [i \in 1 .. size |-> IF i = 1 THEN p ELSE IF i <= place THEN o[i - 1] ELSE o[i]]
<1>1. /\ n \in Nat
      /\ \A i \in 1 .. n : o[i] \in DOMAIN s /\ Rank(s, o[i]) = i - 1
  BY OrderByRank
<1>2. /\ p \in DOMAIN s => place = Rank(s, p) + 1 /\ Rank(s, p) \in Nat /\ Rank(s, p) < n
      /\ p \notin DOMAIN s => place = n + 1
  BY OrderPlaces
<1>3. /\ size \in Nat /\ 1 <= size /\ size <= MaxRecords /\ MaxRecords \in Nat
      /\ p \in DOMAIN s => size = n
      /\ p \notin DOMAIN s => size = IF n < MaxRecords THEN n + 1 ELSE n
  BY SizeFits, RecordsAssumption
<1>4. /\ Rank(all, p) = 0
      /\ \A q \in DOMAIN s \ {p} :
           Rank(all, q) = IF p \in Ahead(s, q) THEN Rank(s, q) ELSE Rank(s, q) + 1
  BY AddedRanks
<1>5. /\ DOMAIN all = DOMAIN s \cup {p}
      /\ DOMAIN new = {q \in DOMAIN all : Rank(all, q) < MaxRecords}
  <2>1. DOMAIN all = DOMAIN s \cup {p}
    BY DEF Added
  <2>2. DOMAIN new = {q \in DOMAIN all : Rank(all, q) < MaxRecords}
    <3>1. /\ DOMAIN new = {q \in DOMAIN all : Rank(all, q) < MaxRecords}
          /\ \A q \in DOMAIN new : new[q] = all[q]
      BY RecordedKeeps
    <3> QED
      BY <3>1
  <2> QED
    BY <2>1, <2>2
<1>6. \A q \in DOMAIN new : Rank(new, q) = Rank(all, q)
  BY RecordedRanks
<1>7. \A q \in DOMAIN s : p \in Ahead(s, q) <=> p \in DOMAIN s /\ Rank(s, p) < Rank(s, q)
  BY RankOrders DEF Ahead
<1>8. ASSUME NEW i \in 1 .. size
      PROVE  f[i] \in DOMAIN all /\ Rank(all, f[i]) = i - 1
  <2>1. CASE i = 1
    BY <1>3, <1>4, <1>5, <2>1
  <2>2. CASE i # 1 /\ i <= place
    <3>1. i - 1 \in 1 .. n
      BY <1>1, <1>3, <2>2
    <3>2. f[i] = o[i - 1] /\ o[i - 1] \in DOMAIN s /\ Rank(s, o[i - 1]) = i - 2
      BY <1>1, <2>2, <3>1
    <3>3. p \in DOMAIN s => ~(Rank(s, p) <= i - 2)
      BY <1>2, <2>2
    <3>4. o[i - 1] # p /\ p \notin Ahead(s, o[i - 1])
      BY <1>2, <1>7, <3>2, <3>3
    <3>5. Rank(all, o[i - 1]) = (i - 2) + 1
      BY <1>4, <3>2, <3>4
    <3> QED
      BY <1>5, <3>2, <3>5
  <2>3. CASE i > place
    <3>1. p \in DOMAIN s
      BY <1>1, <1>2, <1>3, <2>3
    <3>2. i \in 1 .. n /\ i # 1
      BY <1>2, <1>3, <2>3, <3>1
    <3>3. f[i] = o[i] /\ o[i] \in DOMAIN s /\ Rank(s, o[i]) = i - 1
      BY <1>1, <1>2, <2>3, <3>1, <3>2
    <3>4. Rank(s, p) < i - 1
      BY <1>2, <2>3, <3>1
    <3>5. o[i] # p /\ p \in Ahead(s, o[i])
      BY <1>2, <1>7, <3>1, <3>3, <3>4
    <3> QED
      BY <1>4, <1>5, <3>3, <3>5
  <2>4. place \in Nat
    BY <1>1, <1>2
  <2> QED
    BY <2>1, <2>2, <2>3, <2>4
<1>9. \A i \in 1 .. size : f[i] \in DOMAIN new /\ Rank(new, f[i]) = i - 1
  BY <1>3, <1>5, <1>6, <1>8
<1>10. ASSUME NEW q \in DOMAIN new
       PROVE  Rank(new, q) < size
  <2>1. q \in DOMAIN all /\ Rank(new, q) = Rank(all, q) /\ Rank(all, q) < MaxRecords
    BY <1>5, <1>6
  <2>2. CASE q = p
    BY <1>3, <1>4, <2>1, <2>2
  <2>3. CASE q # p
    <3>1. q \in DOMAIN s /\ Rank(s, q) \in Nat /\ Rank(s, q) < n
      BY <1>5, <2>1, <2>3, RankBounds
    <3>2. Rank(all, q) = IF p \in Ahead(s, q) THEN Rank(s, q) ELSE Rank(s, q) + 1
      BY <1>4, <2>3, <3>1
    <3>3. CASE p \notin DOMAIN s
      BY <1>1, <1>3, <2>1, <3>1, <3>2, <3>3
    <3>4. CASE p \in DOMAIN s
      <4>1. Rank(s, q) # Rank(s, p)
        BY <2>3, <3>1, <3>4, RankOrders
      <4> QED
        BY <1>1, <1>2, <1>3, <1>7, <2>1, <3>1, <3>2, <3>4, <4>1
    <3> QED
      BY <3>3, <3>4
  <2> QED
    BY <2>2, <2>3
<1>11. Finite(new) /\ f \in [1 .. size -> DOMAIN new]
  BY <1>9, RecordedFinite
<1>12. Order(new) = f
  <2> HIDE DEF f, new, size
  <2> QED
    BY <1>3, <1>9, <1>10, <1>11, OrderUnique
<1> QED
  BY <1>12, LatestDefined

-----------------------------------------------------------------------------
(* The type invariant.                                                     *)

Fits(s) ==
  s \in Records /\ IsFiniteSet(DOMAIN s) /\ Cardinality(DOMAIN s) <= MaxRecords

Bounded ==
  /\ now \in 0 .. MaxTime /\ clockFile \in -1 .. MaxTime /\ clockDisk \in -1 .. MaxTime
  /\ slept \in 0 .. Interval /\ faults \in 0 .. MaxFaults
  /\ last \in Phones \cup {None}

TInv == Bounded /\ Fits(store) /\ Fits(storeDisk)

LEMMA FitsFinite ==
  ASSUME NEW s, Fits(s)
  PROVE  Finite(s) /\ DOMAIN s \subseteq Phones
         /\ \A q \in DOMAIN s : s[q] \in 0 .. MaxTime
<1>1. PICK P \in SUBSET Phones : s \in [P -> 0 .. MaxTime]
  BY DEF Fits, Records
<1>2. DOMAIN s \subseteq Phones /\ \A q \in DOMAIN s : s[q] \in 0 .. MaxTime
  BY <1>1
<1>3. \A q \in DOMAIN s : s[q] \in Int
  BY <1>2
<1> QED
  BY <1>2, <1>3 DEF Finite, Timed, Fits

LEMMA NoRecordsFit == Fits(NoRecords) /\ NoRecords = <<>>
<1>1. DOMAIN NoRecords = {}
  BY DEF NoRecords
<1>2. NoRecords \in [{} -> 0 .. MaxTime]
  BY DEF NoRecords
<1>3. IsFiniteSet({}) /\ Cardinality({}) = 0
  BY FS_EmptySet
<1>4. NoRecords \in Records
  BY <1>2 DEF Records
<1> QED
  BY <1>1, <1>3, <1>4, RecordsAssumption DEF Fits, NoRecords

LEMMA RecordedStillFits ==
  ASSUME NEW s, Fits(s), NEW p \in Phones, NEW t \in 0 .. MaxTime
  PROVE  Fits(Recorded(s, p, t))
<1> DEFINE new == Recorded(s, p, t)
<1>1. Finite(s) /\ t \in Int /\ DOMAIN s \subseteq Phones
      /\ \A q \in DOMAIN s : s[q] \in 0 .. MaxTime
  BY FitsFinite
<1>2. IsFiniteSet(DOMAIN new) /\ Cardinality(DOMAIN new) <= MaxRecords
  BY <1>1, RecordedFinite, RecordedFits DEF Finite
<1>3. DOMAIN new \subseteq Phones /\ \A q \in DOMAIN new : new[q] \in 0 .. MaxTime
  BY <1>1, RecordedRecords DEF Finite, Timed
<1>4. new = [q \in DOMAIN new |-> new[q]]
  BY DEF Recorded
<1>5. new \in [DOMAIN new -> 0 .. MaxTime]
  BY <1>3, <1>4
<1> QED
  BY <1>2, <1>3, <1>5 DEF Fits, Records

LEMMA InitTyped == Init => TInv
  BY NoRecordsFit, BoundsAssumption DEF Init, TInv, Bounded, Unreadable

LEMMA KeepsBounds == TInv /\ [Next]_vars => Bounded'
<1> SUFFICES ASSUME Bounded, [Next]_vars PROVE Bounded'
  BY DEF TInv
<1>1. Whole(now) \in 0 .. MaxTime
  <2>1. Whole(now) \in Nat /\ Whole(now) <= now
    BY WholeNat, WholeBounds DEF Bounded
  <2> QED
    BY <2>1, BoundsAssumption DEF Bounded
<1> USE BoundsAssumption, SecondAssumption
    DEF Bounded, Unreadable, CanFail, clock, files, sleep, ghost
<1>2. CASE PowerOn
  BY <1>2 DEF PowerOn
<1>3. CASE RestoreTime
  BY <1>1, <1>3 DEF RestoreTime
<1>4. CASE SavePairing
  BY <1>4 DEF SavePairing
<1>5. CASE StartProjection \/ EndProjection
  BY <1>5 DEF StartProjection, EndProjection
<1>6. ASSUME TimeSaved \/ TimeNotSaved
      PROVE  clockFile' \in -1 .. MaxTime /\ faults' \in 0 .. MaxFaults
  BY <1>1, <1>6 DEF TimeSaved, TimeNotSaved
<1>7. CASE PeriodicSave
  <2>1. /\ TimeSaved \/ TimeNotSaved
        /\ slept' = 0 /\ UNCHANGED <<now, clockDisk, last>>
    BY <1>7 DEF PeriodicSave
  <2> QED
    BY <1>6, <2>1
<1>8. CASE Shutdown
  <2>1. /\ TimeSaved \/ TimeNotSaved
        /\ slept' = 0 /\ clockDisk' = clockFile' /\ UNCHANGED <<now, last>>
    BY <1>8 DEF Shutdown
  <2> QED
    BY <1>6, <2>1
<1>9. CASE BootFails
  BY <1>1, <1>9 DEF BootFails
<1>10. CASE Restart \/ Flush
  BY <1>10 DEF Restart, Flush
<1>11. CASE Tick
  BY <1>11 DEF Tick
<1>12. CASE PowerCut
  <2>1. /\ slept' = 0 /\ faults < MaxFaults /\ faults' = faults + 1 /\ UNCHANGED <<now, last>>
        /\ clockFile' \in {clockFile, clockDisk, Unreadable} /\ clockDisk' = clockFile'
    BY <1>12 DEF PowerCut, Survivors
  <2> QED
    BY <2>1
<1>13. CASE UNCHANGED vars
  BY <1>13 DEF vars
<1> QED
  BY <1>2, <1>3, <1>4, <1>5, <1>7, <1>8, <1>9, <1>10, <1>11, <1>12, <1>13 DEF Next, Program

LEMMA KeepsFits == TInv /\ [Next]_vars => Fits(store') /\ Fits(storeDisk')
<1> SUFFICES ASSUME TInv, [Next]_vars PROVE Fits(store') /\ Fits(storeDisk')
  OBVIOUS
<1>1. CASE SavePairing
  <2>1. now' \in 0 .. MaxTime /\ last' \in Phones /\ storeDisk' = storeDisk
    BY <1>1, BoundsAssumption, SecondAssumption DEF SavePairing, TInv, Bounded, clock
  <2>2. store' \in {store, NoRecords, Recorded(store, last', now')}
    BY <1>1 DEF SavePairing
  <2> QED
    BY <2>1, <2>2, NoRecordsFit, RecordedStillFits DEF TInv
<1>2. CASE PowerCut \/ Flush
  <2>1. store' \in {store, storeDisk, NoRecords} /\ storeDisk' \in {storeDisk, store'}
    BY <1>2 DEF PowerCut, Flush, Survivors
  <2> QED
    BY <2>1, NoRecordsFit DEF TInv
<1>3. CASE ~(SavePairing \/ PowerCut \/ Flush)
  <2>1. store' = store /\ storeDisk' \in {storeDisk, store}
    BY <1>3 DEF Next, Program, PowerOn, RestoreTime, StartProjection, EndProjection,
                PeriodicSave, Shutdown, BootFails, Restart, Tick, vars, files
  <2> QED
    BY <2>1 DEF TInv
<1> QED
  BY <1>1, <1>2, <1>3

LEMMA Typed == Spec => []TInv
<1>1. TInv /\ [Next]_vars => TInv'
  BY KeepsBounds, KeepsFits DEF TInv
<1> QED
  BY <1>1, InitTyped, PTL DEF Spec

(***************************************************************************)
(* The types; in particular no more than max_paired phones are remembered, *)
(* whatever is written, lost and read again.                               *)
(***************************************************************************)
THEOREM TypeCorrect == Spec => []TypeOK
<1>1. IInv /\ TInv => TypeOK
  BY DEF IInv, Flags, TInv, Bounded, Fits, TypeOK
<1> QED
  BY <1>1, Invariance, Typed, PTL

-----------------------------------------------------------------------------
(* The refinement of RecentPhones.                                         *)

(* Whatever a store holds, its order is one that RecentPhones knows.       *)
LEMMA OrderKnown ==
  ASSUME NEW s, Fits(s)
  PROVE  Order(s) \in Recent!Orders
<1> DEFINE n == Cardinality(DOMAIN s)
<1>1. Finite(s) /\ DOMAIN s \subseteq Phones
  BY FitsFinite
<1>2. /\ n \in Nat /\ Order(s) \in [1 .. n -> DOMAIN s]
      /\ \A i, j \in 1 .. n : Order(s)[i] = Order(s)[j] => i = j
  BY <1>1, OrderByRank
<1>3. n \in 0 .. MaxRecords
  BY <1>2, RecordsAssumption DEF Fits
<1>4. Order(s) \in [1 .. n -> Phones]
  BY <1>1, <1>2
<1>5. Recent!IsInjective(Order(s))
  BY <1>2 DEF Recent!IsInjective
<1> QED
  BY <1>3, <1>4, <1>5 DEF Recent!Orders

LEMMA InitRecent == Init => Recent!Init
<1> SUFFICES ASSUME Init PROVE Recent!Init
  OBVIOUS
<1>1. Cardinality(DOMAIN store) = 0
  BY FS_EmptySet DEF Init, NoRecords
<1>2. Order(store) = <<>>
  BY <1>1 DEF Order
<1> QED
  BY <1>2 DEF Init, Recent!Init

(* A pairing that is saved is a connection; the clock has gone on, so its  *)
(* record is the latest as long as nothing has been lost.                  *)
LEMMA SavedIsConnected ==
  ASSUME IInv, TInv, SavePairing, store' = Recorded(store, last', now'),
         UNCHANGED <<intact, faults>>
  PROVE  Recent!Next
<1>1. last' \in Phones /\ pc = "idle" /\ now' = now + Second /\ now \in Nat /\ intact' = intact
  BY DEF SavePairing, IInv, Numbers
<1>2. now' \in 0 .. MaxTime /\ now' \in Int
  BY <1>1, BoundsAssumption, SecondAssumption DEF SavePairing
<1>3. CASE intact
  <2>1. \A q \in DOMAIN store : store[q] < now'
    BY <1>1, <1>3, RecordsOlder
  <2>2. Finite(store) /\ Cardinality(DOMAIN store) <= MaxRecords
    BY FitsFinite DEF TInv, Fits
  <2>3. Order(store') = Recent!Latest(last', Order(store))
    BY <1>1, <1>2, <2>1, <2>2, RecordedLatest
  <2>4. Recent!Connect(last')
    BY <1>1, <1>3, <2>3 DEF Recent!Connect
  <2> QED
    BY <1>1, <2>4 DEF Recent!Next
<1>4. CASE ~intact
  <2>1. Order(store') \in Recent!Orders
    BY <1>1, <1>2, RecordedStillFits, OrderKnown DEF TInv
  <2>2. Recent!Connect(last')
    BY <1>1, <1>4, <2>1 DEF Recent!Connect
  <2> QED
    BY <1>1, <2>2 DEF Recent!Next
<1> QED
  BY <1>3, <1>4

(* Where something is lost, RecentPhones may lose anything.                *)
LEMMA LostIsLost ==
  ASSUME Fits(store'), intact' = FALSE, last' \in {last} \cup Phones
  PROVE  Recent!Next
<1>1. Order(store') \in Recent!Orders
  BY OrderKnown
<1>2. Recent!Lose
  BY <1>1 DEF Recent!Lose
<1> QED
  BY <1>2 DEF Recent!Next

LEMMA StepRecent == IInv /\ TInv /\ TInv' /\ [Next]_vars => [Recent!Next]_(Recent!vars)
<1> SUFFICES ASSUME IInv, TInv, TInv', [Next]_vars PROVE [Recent!Next]_(Recent!vars)
  OBVIOUS
<1>1. Fits(store') /\ intact \in BOOLEAN
  BY DEF TInv, IInv, Flags
<1>2. CASE SavePairing
  <2>1. last' \in Phones
    BY <1>2 DEF SavePairing
  <2>2. \/ store' = Recorded(store, last', now') /\ UNCHANGED <<intact, faults>>
        \/ intact' = FALSE
    BY <1>2 DEF SavePairing
  <2>3. Recent!Next
    BY <1>1, <1>2, <2>1, <2>2, SavedIsConnected, LostIsLost
  <2> QED
    BY <2>3
<1>3. CASE PowerCut
  <2>1. /\ last' = last
        /\ intact' = (intact /\ store' = store /\ dated')
    BY <1>3 DEF PowerCut
  <2>2. intact' = FALSE \/ (intact' = intact /\ store' = store)
    BY <1>1, <2>1, Zenon
  <2>3. CASE intact' = FALSE
    BY <1>1, <2>1, <2>3, LostIsLost
  <2>4. CASE intact' = intact /\ store' = store
    BY <2>1, <2>4 DEF Recent!vars
  <2> QED
    BY <2>2, <2>3, <2>4
<1>4. CASE ~(SavePairing \/ PowerCut)
  <2>1. store' = store /\ last' = last
    BY <1>4 DEF Next, Program, PowerOn, RestoreTime, StartProjection, EndProjection,
                PeriodicSave, Shutdown, BootFails, Restart, Tick, Flush, vars, files, ghost
  <2>2. intact' = intact \/ intact' = FALSE
    <3>1. CASE Shutdown
      <4>1. intact' = (intact /\ dated')
        BY <3>1 DEF Shutdown
      <4> QED
        BY <1>1, <4>1, Zenon
    <3>2. CASE ~Shutdown
      BY <1>4, <3>2 DEF Next, Program, PowerOn, RestoreTime, StartProjection, EndProjection,
                        PeriodicSave, BootFails, Restart, Tick, Flush, vars, ghost
    <3> QED
      BY <3>1, <3>2
  <2>3. CASE intact' = FALSE
    BY <1>1, <2>1, <2>3, LostIsLost
  <2>4. CASE intact' = intact
    BY <2>1, <2>4 DEF Recent!vars
  <2> QED
    BY <2>2, <2>3, <2>4
<1> QED
  BY <1>2, <1>3, <1>4

(***************************************************************************)
(* The pairing store implements RecentPhones: the list it returns is that  *)
(* of the phones that connected last, for every number of phones and every *)
(* capacity, as long as nothing has been lost.                             *)
(***************************************************************************)
THEOREM Remembers == Spec => RemembersLatest
<1>1. Spec => Recent!Init /\ [][Recent!Next]_(Recent!vars)
  BY InitRecent, StepRecent, Invariance, Typed, PTL DEF Spec
<1> QED
  BY <1>1, PTL DEF RemembersLatest, Recent!Spec

(* The list that is promised begins with the phone that connected last.    *)
LEMMA LatestFirst ==
  ASSUME NEW s, Fits(s), NEW p
  PROVE  1 \in DOMAIN Recent!Latest(p, Order(s)) /\ Recent!Latest(p, Order(s))[1] = p
<1> DEFINE size == SizeOf(p, Order(s))
<1>1. Finite(s) /\ Cardinality(DOMAIN s) <= MaxRecords
  BY FitsFinite DEF Fits
<1>2. size \in Nat /\ 1 <= size
  BY <1>1, SizeFits
<1>3. 1 \in 1 .. size
  BY <1>2
<1> HIDE DEF size
<1>4. Recent!Latest(p, Order(s)) =
        [i \in 1 .. size |->
           IF i = 1 THEN p ELSE IF i <= PlaceOf(p, Order(s)) THEN Order(s)[i - 1]
                                                             ELSE Order(s)[i]]
  BY LatestDefined DEF size
<1> QED
  BY <1>3, <1>4

(* The phone that get_last_connected returns, if anything has connected.   *)
PagesLast == intact /\ last # None => 1 \in DOMAIN Order(store) /\ Order(store)[1] = last

(***************************************************************************)
(* The phone that the reconnect loop of IDLE pages is the one that         *)
(* connected last, as long as nothing has been lost: across evictions,     *)
(* restarts, shutdowns and boots with a clock that starts from 0.          *)
(***************************************************************************)
THEOREM LastIsPaged == Spec => []PagesLast
<1>1. Init => PagesLast
  BY DEF Init, PagesLast
<1>2. IInv /\ TInv /\ TInv' /\ [Next]_vars /\ PagesLast => PagesLast'
  <2> SUFFICES ASSUME IInv, TInv, TInv', [Next]_vars, PagesLast PROVE PagesLast'
    OBVIOUS
  <2>1. [Recent!Next]_(Recent!vars)
    BY StepRecent
  <2>2. Fits(store)
    BY DEF TInv
  <2>3. CASE UNCHANGED Recent!vars
    BY <2>3 DEF Recent!vars, PagesLast
  <2>4. CASE Recent!Lose
    BY <2>4 DEF Recent!Lose, PagesLast
  <2>5. ASSUME NEW p \in Phones, Recent!Connect(p) PROVE PagesLast'
    <3>1. last' = p /\ intact' = intact /\ (intact => Order(store') = Recent!Latest(p, Order(store)))
      BY <2>5 DEF Recent!Connect
    <3>2. intact => 1 \in DOMAIN Order(store') /\ Order(store')[1] = p
      BY <2>2, <3>1, LatestFirst
    <3> QED
      BY <3>1, <3>2 DEF PagesLast
  <2> QED
    BY <2>1, <2>3, <2>4, <2>5 DEF Recent!Next
<1> QED
  BY <1>1, <1>2, Invariance, Typed, PTL DEF Spec
=============================================================================
