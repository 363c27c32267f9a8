---------------------------- MODULE SessionProofs ----------------------------
(***************************************************************************)
(* Proofs about Session.tla.  Why a phone that stays is never declared     *)
(* gone: between two looks at the table either its entry has been answered *)
(* for and is too young to be probed again, or it is still being probed,   *)
(* and then for as long as the time since the first look (Rhythm); but a   *)
(* present phone answers before the second.                                *)
(***************************************************************************)
EXTENDS Session, TLAPS

(* The type invariant without its numbers: the tasks, and the world.       *)
TaskShapes ==
  /\ pc \in {"connecting", "projecting"}
  /\ tcpTask \in {"off", "look", "watch", "over"}
  /\ wifiTask \in {"off", "confirm", "watch", "over"}
  /\ btTask \in {"off", "asking", "listening", "blocked", "over"}
  /\ rfTask \in {"off", "waiting", "grace", "over"}
  /\ pc = "connecting" => /\ tcpTask = "off" /\ wifiTask = "off"
                          /\ btTask = "off" /\ rfTask = "off"

Flags ==
  /\ real \in SUBSET Sign
  /\ running \in BOOLEAN /\ stopped \in BOOLEAN /\ tcp \in BOOLEAN /\ knock \in BOOLEAN
  /\ onAp \in BOOLEAN /\ listed \in BOOLEAN /\ linked \in BOOLEAN

Shapes == TaskShapes /\ Flags

(* Its numbers; a phone that is there is asked for ProbeTime at most.      *)
Numbers ==
  /\ misses \in 0 .. 2 /\ pollIn \in 0 .. PollInterval /\ age \in 0 .. ReachTime
  /\ misses = 2 => wifiTask = "over"
  /\ wifiTask \in {"off", "confirm"} => misses = 0
  /\ onAp /\ ~listed => age <= ProbeTime

(* What has happened is remembered, and ended tasks have their cause.      *)
Caused ==
  /\ pc = "projecting" => /\ ~running => "exit" \in real
                          /\ ~onAp => "wifi" \in real
  /\ tcpTask = "watch" /\ ~tcp => "tcp" \in real \/ "exit" \in real
  /\ tcpTask = "over" => "tcp" \in real \/ "exit" \in real
  /\ btTask = "over" => "bt" \in real

(* After a miss, as long as the phone stays.                               *)
Rhythm ==
  wifiTask = "watch" /\ misses = 1 /\ "wifi" \notin real =>
    IF listed THEN age <= PollInterval - pollIn ELSE age >= PollInterval - pollIn

GoneForCause == wifiTask = "over" => "wifi" \in real

IInv == Shapes /\ Numbers /\ Caused /\ Rhythm /\ GoneForCause

(* The initial states.                                                     *)
LEMMA InitEstablishes == Init => IInv
<1> SUFFICES ASSUME Init PROVE IInv
  OBVIOUS
<1>1. Shapes
  BY DEF Init, Shapes, TaskShapes, Flags
<1>2. Numbers
  BY TimesAssumption DEF Init, Numbers
<1>3. Caused /\ Rhythm /\ GoneForCause
  BY DEF Init, Caused, Rhythm, GoneForCause
<1> QED
  BY <1>1, <1>2, <1>3 DEF IInv

(* Each step keeps the shape of the tasks.                                 *)
LEMMA KeepsTaskShapes == IInv /\ [Next]_vars => TaskShapes'
<1> SUFFICES ASSUME IInv, [Next]_vars PROVE TaskShapes'
  OBVIOUS
<1> USE DEF IInv, Shapes, TaskShapes
<1>1. CASE Start \/ End
  BY <1>1 DEF Start, End, world, air
<1>2. CASE TcpPoll \/ Subscribe \/ TakeKnock \/ GraceOver
  BY <1>2 DEF TcpPoll, Subscribe, TakeKnock, GraceOver, world, air, leave
<1>3. CASE Confirm \/ Watch
  BY <1>3 DEF Confirm, Watch, world, air
<1>4. CASE OpenAutoEnds \/ TcpConnects \/ TcpBreaks
  BY <1>4 DEF OpenAutoEnds, TcpConnects, TcpBreaks, Happens, air, tasks, leave
<1>5. CASE PhoneLeaves \/ PhoneJoins \/ Probe \/ Answer
  BY <1>5 DEF PhoneLeaves, PhoneJoins, Probe, Answer, Happens, tasks, leave
<1>6. CASE LinkChanges \/ Knock
  BY <1>6 DEF LinkChanges, Knock, Happens, air, tasks, leave
<1>7. CASE Tick \/ UNCHANGED vars
  BY <1>7 DEF Tick, vars, world, air, tasks, leave
<1> QED
  BY <1>1, <1>2, <1>3, <1>4, <1>5, <1>6, <1>7 DEF Next, Watcher, Look, Phone

(* Each step keeps the flags.                                              *)
LEMMA KeepsFlags == IInv /\ [Next]_vars => Flags'
<1> SUFFICES ASSUME IInv, [Next]_vars PROVE Flags'
  OBVIOUS
<1> USE DEF IInv, Shapes, Flags
<1>1. CASE Start \/ End
  BY <1>1 DEF Start, End, world, air, Sign
<1>2. CASE TcpPoll \/ Subscribe \/ TakeKnock \/ GraceOver
  BY <1>2 DEF TcpPoll, Subscribe, TakeKnock, GraceOver, world, air, leave
<1>3. CASE Confirm \/ Watch
  <2>1. UNCHANGED <<world, real>>
    BY <1>3 DEF Confirm, Watch
  <2> QED
    BY <2>1 DEF world, air
<1>4. CASE OpenAutoEnds \/ TcpConnects \/ TcpBreaks
  BY <1>4 DEF OpenAutoEnds, TcpConnects, TcpBreaks, Happens, Sign, air, tasks, leave
<1>5. CASE PhoneLeaves \/ PhoneJoins \/ Probe \/ Answer
  BY <1>5 DEF PhoneLeaves, PhoneJoins, Probe, Answer, Happens, Sign, tasks, leave
<1>6. CASE LinkChanges \/ Knock
  BY <1>6 DEF LinkChanges, Knock, Happens, Sign, air, tasks, leave
<1>7. CASE Tick \/ UNCHANGED vars
  BY <1>7 DEF Tick, vars, world, air, tasks, leave
<1> QED
  BY <1>1, <1>2, <1>3, <1>4, <1>5, <1>6, <1>7 DEF Next, Watcher, Look, Phone

(* Each step keeps the numbers.                                            *)
LEMMA KeepsNumbers == IInv /\ [Next]_vars => Numbers'
<1> SUFFICES ASSUME IInv, [Next]_vars PROVE Numbers'
  OBVIOUS
<1> USE TimesAssumption DEF IInv, Numbers
<1>1. CASE Start \/ End
  BY <1>1 DEF Start, End, world, air
<1>2. CASE TcpPoll \/ Subscribe \/ TakeKnock \/ GraceOver
  BY <1>2 DEF TcpPoll, Subscribe, TakeKnock, GraceOver, world, air, leave
<1>3. CASE Confirm
  BY <1>3 DEF Confirm, world, air
<1>4. CASE Watch
  BY <1>4 DEF Watch, world, air
<1>5. CASE OpenAutoEnds \/ TcpConnects \/ TcpBreaks \/ LinkChanges \/ Knock
  BY <1>5 DEF OpenAutoEnds, TcpConnects, TcpBreaks, LinkChanges, Knock, air, tasks, leave
<1>6. CASE PhoneLeaves \/ PhoneJoins
  BY <1>6 DEF PhoneLeaves, PhoneJoins, tasks, leave
<1>7. CASE Probe \/ Answer
  BY <1>7 DEF Probe, Answer, tasks, leave
<1>8. CASE Tick
  BY <1>8 DEF Tick
<1>9. CASE UNCHANGED vars
  BY <1>9 DEF vars, world, air, tasks, leave
<1> QED
  BY <1>1, <1>2, <1>3, <1>4, <1>5, <1>6, <1>7, <1>8, <1>9 DEF Next, Watcher, Look, Phone

(* Each step keeps the causes.                                             *)
LEMMA KeepsCaused == IInv /\ [Next]_vars => Caused'
<1> SUFFICES ASSUME IInv, [Next]_vars PROVE Caused'
  OBVIOUS
<1> USE DEF IInv, Shapes, TaskShapes, Flags, Caused
<1>1. CASE Start \/ End
  BY <1>1 DEF Start, End, world, air
<1>2. CASE TcpPoll \/ Subscribe \/ TakeKnock \/ GraceOver
  BY <1>2 DEF TcpPoll, Subscribe, TakeKnock, GraceOver, world, air, leave
<1>3. CASE Confirm \/ Watch
  BY <1>3 DEF Confirm, Watch, world, air
<1>4. CASE OpenAutoEnds \/ TcpConnects \/ TcpBreaks
  BY <1>4 DEF OpenAutoEnds, TcpConnects, TcpBreaks, Happens, air, tasks, leave
<1>5. CASE PhoneLeaves \/ PhoneJoins \/ Probe \/ Answer
  BY <1>5 DEF PhoneLeaves, PhoneJoins, Probe, Answer, Happens, tasks, leave
<1>6. CASE LinkChanges \/ Knock
  BY <1>6 DEF LinkChanges, Knock, Happens, air, tasks, leave
<1>7. CASE Tick \/ UNCHANGED vars
  BY <1>7 DEF Tick, vars, world, air, tasks, leave
<1> QED
  BY <1>1, <1>2, <1>3, <1>4, <1>5, <1>6, <1>7 DEF Next, Watcher, Look, Phone

(* Each step keeps the rhythm of the looks and the answers.                *)
LEMMA KeepsRhythm == IInv /\ [Next]_vars => Rhythm'
<1> SUFFICES ASSUME IInv, [Next]_vars, wifiTask' = "watch", misses' = 1, "wifi" \notin real'
             PROVE  IF listed' THEN age' <= PollInterval - pollIn'
                               ELSE age' >= PollInterval - pollIn'
  BY DEF Rhythm
<1> USE TimesAssumption DEF IInv, Numbers, Rhythm
<1>1. CASE Start \/ End
  BY <1>1 DEF Start, End
<1>2. CASE TcpPoll \/ Subscribe \/ TakeKnock \/ GraceOver
  BY <1>2 DEF TcpPoll, Subscribe, TakeKnock, GraceOver, world, air, leave
<1>3. CASE Confirm \/ Watch
  <2>1. CASE Confirm
    BY <2>1 DEF Confirm
  <2>2. CASE Watch
    BY <2>2 DEF Watch, world, air
  <2> QED
    BY <1>3, <2>1, <2>2
<1>4. CASE OpenAutoEnds \/ TcpConnects \/ TcpBreaks \/ LinkChanges \/ Knock
  BY <1>4 DEF OpenAutoEnds, TcpConnects, TcpBreaks, LinkChanges, Knock, Happens, air, tasks, leave
<1>5. CASE PhoneLeaves \/ PhoneJoins
  BY <1>5 DEF PhoneLeaves, PhoneJoins, Happens, tasks, leave
<1>6. CASE Probe \/ Answer
  BY <1>6 DEF Probe, Answer, tasks, leave
<1>7. CASE Tick
  BY <1>7 DEF Tick
<1>8. CASE UNCHANGED vars
  BY <1>8 DEF vars, world, air, tasks, leave
<1> QED
  BY <1>1, <1>2, <1>3, <1>4, <1>5, <1>6, <1>7, <1>8 DEF Next, Watcher, Look, Phone

(* A phone that stays is there at the second look.                         *)
LEMMA KeepsGoneForCause == IInv /\ [Next]_vars => GoneForCause'
<1> SUFFICES ASSUME IInv, [Next]_vars, wifiTask' = "over" PROVE "wifi" \in real'
  BY DEF GoneForCause
<1> USE DEF IInv, GoneForCause
<1>1. CASE Watch
  <2>1. wifiTask = "watch" /\ real' = real
    BY <1>1 DEF Watch
  <2> SUFFICES ASSUME "wifi" \notin real PROVE FALSE
    BY <2>1
  <2>2. onAp /\ ~listed
    BY <1>1, <2>1 DEF Watch, Shapes, TaskShapes, Flags, Caused
  <2>3. misses = 1 /\ pollIn = 0
    BY <1>1, <2>1, <2>2 DEF Watch, Numbers
  <2>4. age >= PollInterval /\ age <= ProbeTime /\ age \in Nat
    BY <2>1, <2>2, <2>3, TimesAssumption DEF Rhythm, Numbers
  <2> QED
    BY <2>4, TimesAssumption
<1>2. CASE Start \/ End \/ Confirm
  BY <1>2 DEF Start, End, Confirm, Shapes, TaskShapes
<1>3. CASE TcpPoll \/ Subscribe \/ TakeKnock \/ GraceOver \/ Tick
  BY <1>3 DEF TcpPoll, Subscribe, TakeKnock, GraceOver, Tick, leave
<1>4. CASE OpenAutoEnds \/ TcpConnects \/ TcpBreaks \/ LinkChanges \/ Knock
  BY <1>4 DEF OpenAutoEnds, TcpConnects, TcpBreaks, LinkChanges, Knock, Happens, tasks, leave
<1>5. CASE PhoneLeaves \/ PhoneJoins \/ Probe \/ Answer \/ UNCHANGED vars
  BY <1>5 DEF PhoneLeaves, PhoneJoins, Probe, Answer, Happens, vars, tasks, leave
<1> QED
  BY <1>1, <1>2, <1>3, <1>4, <1>5 DEF Next, Watcher, Look, Phone

LEMMA Invariance == Spec => []IInv
<1>1. IInv /\ [Next]_vars => IInv'
  BY KeepsTaskShapes, KeepsFlags, KeepsNumbers, KeepsCaused, KeepsRhythm, KeepsGoneForCause
     DEF IInv, Shapes
<1> QED
  BY <1>1, InitEstablishes, PTL DEF Spec

(***************************************************************************)
(* The types, and that no task of a projection outlives it.                *)
(***************************************************************************)
THEOREM TypeCorrect == Spec => []TypeOK
<1>1. IInv => TypeOK
  BY DEF IInv, Shapes, TaskShapes, Flags, Numbers, TypeOK
<1> QED
  BY <1>1, Invariance, PTL

(***************************************************************************)
(* No false end, for every poll interval between the time a present phone  *)
(* takes to answer and the time its entry is believed in.                  *)
(***************************************************************************)
THEOREM NoFalseEnd == Spec => []EndsForCause
<1>1. IInv => EndsForCause
  BY DEF IInv, Caused, GoneForCause, EndsForCause
<1> QED
  BY <1>1, Invariance, PTL
=============================================================================
