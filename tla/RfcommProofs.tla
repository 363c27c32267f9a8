----------------------------- MODULE RfcommProofs -----------------------------
(***************************************************************************)
(* Proofs about Rfcomm.tla, for any number of connections and retries.     *)
(***************************************************************************)
EXTENDS Rfcomm, TLAPS

(* Taking the oldest element of a queue without duplicates.                *)
LEMMA TakenFromQueue ==
  ASSUME NEW S, NEW q \in Seq(S), q # <<>>
  PROVE  /\ Head(q) \in S /\ Tail(q) \in Seq(S)
         /\ Head(q) \in ToSet(q) /\ ToSet(Tail(q)) \subseteq ToSet(q)
         /\ IsInjective(q) => IsInjective(Tail(q)) /\ Head(q) \notin ToSet(Tail(q))
<1>1. Head(q) = q[1] /\ 1 \in DOMAIN q /\ Tail(q) \in Seq(S)
  OBVIOUS
<1>2. \A i \in DOMAIN Tail(q) : i + 1 \in DOMAIN q /\ i + 1 # 1 /\ Tail(q)[i] = q[i + 1]
  OBVIOUS
<1>3. Head(q) \in ToSet(q) /\ ToSet(Tail(q)) \subseteq ToSet(q)
  BY <1>1, <1>2 DEF ToSet
<1>4. ASSUME IsInjective(q) PROVE IsInjective(Tail(q)) /\ Head(q) \notin ToSet(Tail(q))
  BY <1>1, <1>2, <1>4 DEF ToSet, IsInjective
<1> QED
  BY <1>1, <1>3, <1>4

(* Adding a new one.                                                       *)
LEMMA AddedToQueue ==
  ASSUME NEW S, NEW q \in Seq(S), NEW e \in S
  PROVE  /\ Append(q, e) \in Seq(S)
         /\ ToSet(Append(q, e)) = ToSet(q) \cup {e}
         /\ IsInjective(q) /\ e \notin ToSet(q) => IsInjective(Append(q, e))
<1>1. /\ Append(q, e) \in Seq(S)
      /\ DOMAIN Append(q, e) = DOMAIN q \cup {Len(q) + 1}
      /\ Len(q) + 1 \notin DOMAIN q
      /\ Append(q, e)[Len(q) + 1] = e
      /\ \A i \in DOMAIN q : Append(q, e)[i] = q[i]
  OBVIOUS
<1>2. ToSet(Append(q, e)) = ToSet(q) \cup {e}
  BY <1>1 DEF ToSet
<1>3. ASSUME IsInjective(q), e \notin ToSet(q) PROVE IsInjective(Append(q, e))
  BY <1>1, <1>3 DEF ToSet, IsInjective
<1> QED
  BY <1>1, <1>2, <1>3

-----------------------------------------------------------------------------
(***************************************************************************)
(* The strengthening.  A connection found by IDLE is the one held until    *)
(* IDLE has looked at it; the connections open are numbered up to made, so *)
(* that the next one is new.                                               *)
(***************************************************************************)
Matched == found # None => held = found /\ naming = None

Numbered == \A c \in open : c <= made

IInv == TypeOK /\ OwnedOnce /\ CredentialsToPhone /\ Matched /\ Numbered

(* None is not a connection, so it is never queued.                        *)
LEMMA NoneUnqueued == IInv => None \notin Queued
<1>1. queue \in Seq(Conn) => Queued \subseteq Conn
  BY DEF Queued, ToSet
<1> QED
  BY <1>1 DEF IInv, TypeOK, Conn, None

(* At the start nothing is queued, held or open.                           *)
LEMMA InitIInv == Init => IInv
<1> SUFFICES ASSUME Init PROVE IInv
  OBVIOUS
<1> USE RfcommAssumption DEF Init
<1>1. queue \in Seq(Conn) /\ ToSet(queue) = {} /\ IsInjective(queue)
  BY DEF ToSet, IsInjective
<1>2. TypeOK
  BY <1>1 DEF TypeOK, Phase, None
<1>3. OwnedOnce
  BY <1>1 DEF OwnedOnce, Queued, None
<1> QED
  BY <1>2, <1>3 DEF IInv, CredentialsToPhone, Matched, Numbered, None

(* A connection that BlueZ delivers has a number no descriptor has yet.    *)
LEMMA NewConnectionIInv == IInv /\ NewConnection => IInv'
<1> SUFFICES ASSUME IInv, NewConnection PROVE IInv'
  OBVIOUS
<1> USE RfcommAssumption
<1>1. made' \in Conn /\ made' = made + 1 /\ made' # None /\ made' \in 0 .. MaxConns
  BY DEF IInv, TypeOK, NewConnection, Conn, None
<1>2. made' \notin open
  BY <1>1 DEF IInv, TypeOK, Numbered, Conn
<1>3. queue \in Seq(Conn) /\ queue' = Append(queue, made')
  BY DEF IInv, TypeOK, NewConnection
<1>4. made' \notin Queued /\ IsInjective(queue)
  BY <1>2 DEF IInv, OwnedOnce
<1>5. queue' \in Seq(Conn) /\ Queued' = Queued \cup {made'} /\ IsInjective(queue')
  BY <1>1, <1>3, <1>4, AddedToQueue DEF Queued
<1>6. TypeOK'
  BY <1>1, <1>5 DEF IInv, TypeOK, NewConnection
<1>7. OwnedOnce'
  BY <1>1, <1>2, <1>5 DEF IInv, OwnedOnce, NewConnection
<1>8. Numbered'
  BY <1>1 DEF IInv, TypeOK, Numbered, NewConnection, Conn
<1> QED
  BY <1>6, <1>7, <1>8 DEF IInv, NewConnection, CredentialsToPhone, Matched

(* The two actions that take the oldest connection from the queue.         *)
LEMMA TakeConnectionIInv == IInv /\ TakeConnection => IInv'
<1> SUFFICES ASSUME IInv, TakeConnection PROVE IInv'
  OBVIOUS
<1>1. queue \in Seq(Conn) /\ queue # <<>> /\ IsInjective(queue)
  BY DEF IInv, TypeOK, OwnedOnce, TakeConnection
<1>2. /\ naming' \in Conn /\ queue' \in Seq(Conn)
      /\ naming' \in Queued /\ Queued' \subseteq Queued
      /\ IsInjective(queue') /\ naming' \notin Queued'
  BY <1>1, TakenFromQueue DEF Queued, TakeConnection
<1>3. TypeOK'
  BY <1>2 DEF IInv, TypeOK, TakeConnection
<1>4. OwnedOnce'
  BY <1>2 DEF IInv, OwnedOnce, TakeConnection
<1> QED
  BY <1>3, <1>4 DEF IInv, TakeConnection, CredentialsToPhone, Matched, Numbered

(* The one taken during projection is closed, not stored.                  *)
LEMMA ReconnectAttemptIInv == IInv /\ ReconnectAttempt => IInv'
<1> SUFFICES ASSUME IInv, ReconnectAttempt PROVE IInv'
  OBVIOUS
<1>1. queue \in Seq(Conn) /\ queue # <<>> /\ IsInjective(queue)
  BY DEF IInv, TypeOK, OwnedOnce, ReconnectAttempt
<1>2. /\ queue' \in Seq(Conn) /\ Head(queue) \in Queued /\ Queued' \subseteq Queued
      /\ IsInjective(queue') /\ Head(queue) \notin Queued'
  BY <1>1, TakenFromQueue DEF Queued, ReconnectAttempt
<1>3. TypeOK'
  BY <1>2 DEF IInv, TypeOK, ReconnectAttempt, Phase
<1>4. OwnedOnce'
  BY <1>2 DEF IInv, OwnedOnce, ReconnectAttempt
<1> QED
  BY <1>3, <1>4 DEF IInv, ReconnectAttempt, CredentialsToPhone, Matched, Numbered

(* The others leave the queue as it is.                                    *)
LEMMA QueueKept == queue' = queue => Queued' = Queued
  BY DEF Queued

(* wait_for_phone stores its connection, and IDLE takes its phone.         *)
LEMMA FoundIInv == IInv /\ (PhoneNamed \/ PhoneDetected) => IInv'
<1> SUFFICES ASSUME IInv, PhoneNamed \/ PhoneDetected PROVE IInv'
  OBVIOUS
<1>1. queue' = queue /\ Queued' = Queued
  BY QueueKept DEF PhoneNamed, PhoneDetected
<1>2. CASE PhoneNamed
  <2>1. TypeOK'
    BY <1>2 DEF IInv, TypeOK, PhoneNamed
  <2>2. OwnedOnce'
    BY <1>1, <1>2, NoneUnqueued DEF IInv, OwnedOnce, PhoneNamed
  <2> QED
    BY <1>2, <2>1, <2>2 DEF IInv, PhoneNamed, CredentialsToPhone, Matched, Numbered
<1>3. CASE PhoneDetected
  <2>1. TypeOK'
    BY <1>3 DEF IInv, TypeOK, PhoneDetected, Phase, Matched
  <2>2. OwnedOnce'
    BY <1>1, <1>3 DEF IInv, OwnedOnce, PhoneDetected
  <2>3. CredentialsToPhone'
    BY <1>3 DEF IInv, Matched, PhoneDetected, CredentialsToPhone
  <2> QED
    BY <1>3, <2>1, <2>2, <2>3 DEF IInv, PhoneDetected, Matched, Numbered
<1> QED
  BY <1>2, <1>3

(* Two ways a descriptor leaves _rfcomm_fd: closed after the exchange, or  *)
(* closed in SHUTDOWN.                                                     *)
LEMMA ReleasedIInv == IInv /\ (ExchangeEnds \/ Close) => IInv'
<1> SUFFICES ASSUME IInv, ExchangeEnds \/ Close PROVE IInv'
  OBVIOUS
<1> USE RfcommAssumption
<1>1. /\ Queued' = Queued /\ queue' = queue /\ open' = open \ {held} /\ held' = None
      /\ naming' = naming /\ found' = found /\ made' = made
      /\ phase \notin {"idle"} /\ phase' \in {"connecting", "idle", "down", "closed"}
      /\ phone' = None \/ (phone' = phone /\ phase' # "idle")
  BY QueueKept DEF ExchangeEnds, Close, EnterIdle, EnterDown
<1>2. naming = None /\ found = None
  BY <1>1 DEF IInv, TypeOK
<1>3. retries' \in 0 .. MaxRetries
  BY DEF IInv, TypeOK, ExchangeEnds, Close, EnterIdle, EnterDown
<1>4. TypeOK'
  <2>1. phone' # None => phase' \notin {"idle", "setup"}
    BY <1>1
  <2> QED
    BY <1>1, <1>2, <1>3, <2>1 DEF IInv, TypeOK, Phase
<1>5. OwnedOnce'
  BY <1>1, <1>2, NoneUnqueued DEF IInv, OwnedOnce
<1> QED
  BY <1>1, <1>2, <1>4, <1>5 DEF IInv, CredentialsToPhone, Matched, Numbered

(* The steps between phases, which touch no descriptor.                    *)
Passing ==
  SetupEnds \/ PairingFails \/ SendCredentials \/ ConnectingEnds \/ ProjectionEnds
  \/ ConnectionLost

(* They, and the interruption of IDLE, keep every owner.                   *)
LEMMA PassingIInv == IInv /\ (Passing \/ IdleInterrupted) => IInv'
<1> SUFFICES ASSUME IInv, Passing \/ IdleInterrupted PROVE IInv'
  OBVIOUS
<1> USE RfcommAssumption
<1>1. /\ Queued' = Queued /\ queue' = queue /\ open' = open /\ held' = held /\ made' = made
      /\ phase' \in Phase
  BY QueueKept DEF Passing, SetupEnds, PairingFails, SendCredentials, ConnectingEnds,
     ProjectionEnds, ConnectionLost, IdleInterrupted, EnterIdle, EnterDown, Phase
<1>2. naming' = None /\ found' = None
  BY DEF IInv, TypeOK, Passing, SetupEnds, PairingFails, SendCredentials, ConnectingEnds,
     ProjectionEnds, ConnectionLost, IdleInterrupted
<1>3. /\ phone' \in Conn \cup {None}
      /\ phone' # None => phase' \notin {"idle", "setup"}
  BY DEF IInv, TypeOK, Passing, SetupEnds, PairingFails, SendCredentials, ConnectingEnds,
     ProjectionEnds, ConnectionLost, IdleInterrupted, EnterIdle, EnterDown
<1>4. retries' \in 0 .. MaxRetries
  <2>1. retries' = retries \/ retries' = 0 \/ (retries' = retries + 1 /\ retries' < MaxRetries)
    BY DEF Passing, SetupEnds, PairingFails, SendCredentials, ConnectingEnds,
       ProjectionEnds, ConnectionLost, IdleInterrupted, EnterIdle, EnterDown
  <2>2. retries \in 0 .. MaxRetries
    BY DEF IInv, TypeOK
  <2> QED
    BY <2>1, <2>2
<1>5. phase' \in {"pairing", "sending"} => phase = "pairing" /\ phone' = phone
  BY DEF Passing, SetupEnds, PairingFails, SendCredentials, ConnectingEnds,
     ProjectionEnds, ConnectionLost, IdleInterrupted, EnterIdle, EnterDown
<1>6. TypeOK'
  BY <1>1, <1>2, <1>3, <1>4 DEF IInv, TypeOK
<1>7. OwnedOnce'
  BY <1>1, <1>2, NoneUnqueued DEF IInv, OwnedOnce
<1> QED
  BY <1>1, <1>2, <1>5, <1>6, <1>7 DEF IInv, CredentialsToPhone, Matched, Numbered

(* Every step keeps the strengthening.                                     *)
LEMMA StepIInv == IInv /\ [Next]_vars => IInv'
<1> SUFFICES ASSUME IInv, [Next]_vars PROVE IInv'
  OBVIOUS
<1>1. CASE UNCHANGED vars
  <2>1. Queued' = Queued /\ queue' = queue
    BY <1>1, QueueKept DEF vars
  <2>2. TypeOK'
    BY <1>1 DEF IInv, TypeOK, vars
  <2> QED
    BY <1>1, <2>1, <2>2 DEF vars, IInv, OwnedOnce, CredentialsToPhone, Matched, Numbered
<1>2. CASE Next
  BY <1>2, NewConnectionIInv, TakeConnectionIInv, ReconnectAttemptIInv, FoundIInv,
     ReleasedIInv, PassingIInv DEF Next, Idling, Passing
<1> QED
  BY <1>1, <1>2

(* So it always holds.                                                     *)
LEMMA Invariance == Spec => []IInv
  BY InitIInv, StepIInv, PTL DEF Spec

(***************************************************************************)
(* However many connections are made, each open descriptor in use has one  *)
(* owner: wait_for_phone, wait_for_rfcomm_reconnect_attempt,               *)
(* send_credentials and close never close or use one that is closed.       *)
(***************************************************************************)
THEOREM DescriptorsSafe == Spec => []OwnedOnce
<1>1. IInv => OwnedOnce
  BY DEF IInv
<1> QED
  BY <1>1, Invariance, PTL

(***************************************************************************)
(* send_credentials always writes to the phone the session is for.         *)
(***************************************************************************)
THEOREM CredentialsSafe == Spec => []CredentialsToPhone
<1>1. IInv => CredentialsToPhone
  BY DEF IInv
<1> QED
  BY <1>1, Invariance, PTL

(* The variables of the connection model keep their types.                 *)
THEOREM TypeCorrect == Spec => []TypeOK
<1>1. IInv => TypeOK
  BY DEF IInv
<1> QED
  BY <1>1, Invariance, PTL

-----------------------------------------------------------------------------
(***************************************************************************)
(* The connections implement Delivery.  The queue is in the order of       *)
(* arrival, which is that of the numbers.                                  *)
(***************************************************************************)
Sorted == \A i, j \in DOMAIN queue : i < j => queue[i] < queue[j]

(* The members of the queue are numbers.                                   *)
LEMMA QueueNumbers ==
  queue \in Seq(Conn) => \A i \in DOMAIN queue : queue[i] \in Nat /\ queue[i] \in Queued
<1> SUFFICES ASSUME queue \in Seq(Conn), NEW i \in DOMAIN queue
             PROVE  queue[i] \in Nat /\ queue[i] \in Queued
  OBVIOUS
<1>1. queue[i] \in Conn
  OBVIOUS
<1>2. Conn \subseteq Nat
  BY RfcommAssumption DEF Conn
<1> QED
  BY <1>1, <1>2 DEF Queued, ToSet

(* What taking the oldest connection leaves, and that it is the oldest.    *)
LEMMA OldestTaken ==
  ASSUME IInv, Sorted, queue # <<>>
  PROVE  /\ Head(queue) \in Conn /\ Head(queue) \in Queued
         /\ ToSet(Tail(queue)) = Queued \ {Head(queue)}
         /\ \A d \in Queued : Head(queue) <= d
<1>1. queue \in Seq(Conn) /\ IsInjective(queue)
  BY DEF IInv, TypeOK, OwnedOnce
<1>2. Head(queue) \in Conn /\ Head(queue) \in Queued
  BY <1>1, TakenFromQueue DEF Queued
<1>3. ToSet(Tail(queue)) \subseteq Queued \ {Head(queue)}
  BY <1>1, TakenFromQueue DEF Queued
<1>4. Head(queue) = queue[1] /\ 1 \in DOMAIN queue
  BY <1>1
<1>5. \A i \in DOMAIN queue : i = 1 \/ (i > 1 /\ i - 1 \in DOMAIN Tail(queue) /\ Tail(queue)[i - 1] = queue[i])
  BY <1>1
<1>6. Queued \ {Head(queue)} \subseteq ToSet(Tail(queue))
  BY <1>4, <1>5 DEF Queued, ToSet
<1>7. \A d \in Queued : Head(queue) <= d
  <2> SUFFICES ASSUME NEW i \in DOMAIN queue PROVE Head(queue) <= queue[i]
    BY DEF Queued, ToSet
  <2>1. queue[i] \in Nat /\ queue[1] \in Nat
    BY <1>1, <1>4, QueueNumbers
  <2> QED
    BY <1>4, <1>5, <2>1 DEF Sorted
<1> QED
  BY <1>2, <1>3, <1>6, <1>7

(* What is queued has been made.                                           *)
LEMMA QueuedMade == IInv => \A d \in Queued : d \in open /\ d <= made
  BY DEF IInv, OwnedOnce, Numbered

(* The queue stays in the order of arrival.                                *)
LEMMA StepSorted == IInv /\ Sorted /\ [Next]_vars => Sorted'
<1> SUFFICES ASSUME IInv, Sorted, [Next]_vars PROVE Sorted'
  OBVIOUS
<1>1. queue \in Seq(Conn) /\ made \in Nat
  BY RfcommAssumption DEF IInv, TypeOK
<1>2. CASE NewConnection
  <2>1. queue' = Append(queue, made + 1)
    BY <1>2 DEF NewConnection
  <2>2. \A i \in DOMAIN queue : queue[i] \in Nat /\ queue[i] <= made
    BY <1>1, QueuedMade, QueueNumbers
  <2> QED
    BY <1>1, <2>1, <2>2 DEF Sorted
<1>3. CASE TakeConnection \/ ReconnectAttempt
  <2>1. queue' = Tail(queue) /\ queue # <<>>
    BY <1>3 DEF TakeConnection, ReconnectAttempt
  <2>2. \A i \in DOMAIN Tail(queue) : i + 1 \in DOMAIN queue /\ Tail(queue)[i] = queue[i + 1]
    BY <1>1, <2>1
  <2>3. \A i, j \in DOMAIN Tail(queue) : i < j => i + 1 < j + 1
    BY <1>1
  <2> QED
    BY <2>1, <2>2, <2>3 DEF Sorted
<1>4. CASE queue' = queue
  BY <1>4 DEF Sorted
<1> QED
  BY <1>2, <1>3, <1>4 DEF Next, vars, Idling, IdleInterrupted, SetupEnds, PairingFails,
     SendCredentials, ExchangeEnds, ConnectingEnds, ProjectionEnds, ConnectionLost, Close,
     PhoneNamed, PhoneDetected

(* A step that moves one connection, and one that moves none.              *)
LEMMA OneMoves ==
  ASSUME NEW c \in Conn, NEW to, PlaceOf(c)' = to,
         \A d \in Conn : d # c => PlaceOf(d)' = PlaceOf(d)
  PROVE  Delivered!Moves(c, to)
  BY DEF Delivered!Moves

(* None moves, so the abstract connections stutter.                        *)
LEMMA NoneMoves ==
  ASSUME \A d \in Conn : PlaceOf(d)' = PlaceOf(d)
  PROVE  [c \in Conn |-> PlaceOf(c)]' = [c \in Conn |-> PlaceOf(c)]
  OBVIOUS

(* All connections are still to come at the start.                         *)
LEMMA DeliveryInit == Init => Delivered!Init
  BY RfcommAssumption DEF Init, Delivered!Init, Delivered!Conn, Conn, PlaceOf

(* A new connection arrives after those before it.                         *)
LEMMA NewConnectionDelivers == IInv /\ NewConnection => Delivered!Next
<1> SUFFICES ASSUME IInv, NewConnection PROVE Delivered!Next
  OBVIOUS
<1>0. PICK c \in Conn : c = made + 1
  BY RfcommAssumption DEF IInv, TypeOK, NewConnection, Conn
<1>1. c \in Conn /\ made \in Nat /\ queue \in Seq(Conn) /\ c = made + 1
      /\ made' = c /\ open' = open \cup {c} /\ queue' = Append(queue, c)
  BY <1>0, RfcommAssumption DEF IInv, TypeOK, NewConnection, Conn
<1>2. Queued' = Queued \cup {c}
  BY <1>1, AddedToQueue DEF Queued
<1>3. naming' = naming /\ held' = held
  BY DEF NewConnection
<1>4. PlaceOf(c) = "coming" /\ PlaceOf(c)' = "waiting"
  BY <1>1, <1>2 DEF PlaceOf, Conn
<1>5. ASSUME NEW d \in Conn, d # c PROVE PlaceOf(d)' = PlaceOf(d)
  BY <1>1, <1>2, <1>3, <1>5 DEF PlaceOf, Conn
<1>6. \A d \in Conn : d < c => PlaceOf(d) # "coming"
  BY <1>1 DEF PlaceOf, Conn
<1>7. Delivered!Moves(c, "waiting")
  BY <1>1, <1>4, <1>5, OneMoves
<1> QED
  BY <1>1, <1>4, <1>6, <1>7 DEF Delivered!Next, Delivered!Arrive, Delivered!First, Delivered!Conn, Conn

(* The oldest connection leaves the queue, to be served or turned away.    *)
LEMMA TakenDelivers ==
  IInv /\ Sorted /\ (TakeConnection \/ ReconnectAttempt) => Delivered!Next
<1> SUFFICES ASSUME IInv, Sorted, TakeConnection \/ ReconnectAttempt PROVE Delivered!Next
  OBVIOUS
<1>1. queue # <<>> /\ queue' = Tail(queue) /\ made' = made /\ held' = held
  BY DEF TakeConnection, ReconnectAttempt
<1>0. PICK c \in Conn : c = Head(queue)
  BY <1>1, OldestTaken
<1>2. c \in Conn /\ c \in Queued /\ Queued' = Queued \ {c} /\ \A d \in Queued : c <= d
  BY <1>0, <1>1, OldestTaken DEF Queued
<1>3. c \in open /\ c <= made /\ c \notin {naming, held} /\ made \in Nat
  BY <1>2, QueuedMade, RfcommAssumption DEF IInv, OwnedOnce, TypeOK
<1>4. \A d \in Conn : PlaceOf(d) = "waiting" => c <= d
  BY <1>2 DEF PlaceOf
<1>5. PlaceOf(c) = "waiting" /\ Delivered!First(c)
  BY <1>2, <1>3, <1>4 DEF PlaceOf, Conn, Delivered!First, Delivered!Conn
<1>6. CASE TakeConnection
  <2>1. naming' = c /\ naming = None /\ open' = open
    BY <1>0, <1>6 DEF TakeConnection
  <2>2. PlaceOf(c)' = "served"
    BY <1>1, <1>2, <1>3, <2>1 DEF PlaceOf, Conn
  <2>3. ASSUME NEW d \in Conn, d # c PROVE PlaceOf(d)' = PlaceOf(d)
    BY <1>1, <1>2, <2>1, <2>3 DEF PlaceOf, Conn, None
  <2>4. Delivered!Moves(c, "served")
    BY <1>2, <2>2, <2>3, OneMoves
  <2> QED
    BY <1>2, <1>5, <2>4 DEF Delivered!Next, Delivered!Serve, Delivered!Conn, Conn
<1>7. CASE ReconnectAttempt
  <2>1. naming' = naming /\ open' = open \ {c}
    BY <1>0, <1>7 DEF ReconnectAttempt
  <2>2. PlaceOf(c)' = "closed"
    BY <1>1, <1>2, <1>3, <2>1 DEF PlaceOf, Conn
  <2>3. ASSUME NEW d \in Conn, d # c PROVE PlaceOf(d)' = PlaceOf(d)
    BY <1>1, <1>2, <2>1, <2>3 DEF PlaceOf
  <2>4. Delivered!Moves(c, "closed")
    BY <1>2, <2>2, <2>3, OneMoves
  <2> QED
    BY <1>2, <1>5, <2>4 DEF Delivered!Next, Delivered!TurnAway, Delivered!Conn, Conn
<1> QED
  BY <1>6, <1>7

(* An owner gives a connection up: it has been served.                     *)
LEMMA GivenUpDelivers ==
  ASSUME IInv, Queued' = Queued, made' = made, NEW c \in {naming, held}, c # None,
         naming' = None, held' \in {naming, held, None} \ {c},
         {naming, held} \subseteq {held', c, None}, open' \in {open, open \ {c}}
  PROVE  Delivered!Next
<1>1. c \in Conn /\ c \in open /\ c \notin Queued /\ c <= made /\ made \in Nat
  BY RfcommAssumption DEF IInv, TypeOK, OwnedOnce, Numbered
<1>2. PlaceOf(c) = "served"
  BY <1>1 DEF PlaceOf, Conn
<1>3. PlaceOf(c)' \in {"closed", "lost"}
  BY <1>1 DEF PlaceOf, Conn
<1>4. ASSUME NEW d \in Conn, d # c PROVE PlaceOf(d)' = PlaceOf(d)
  BY <1>4 DEF PlaceOf, Conn, None
<1>5. Delivered!Moves(c, "closed") \/ Delivered!Moves(c, "lost")
  BY <1>1, <1>3, <1>4, OneMoves
<1> QED
  BY <1>1, <1>2, <1>5 DEF Delivered!Next, Delivered!End, Delivered!Conn, Conn

(* The owners stay, or there was none: nothing moves.                      *)
LEMMA KeptDelivers ==
  ASSUME IInv, Queued' = Queued, made' = made, open' = open,
         {naming', held'} \cup {None} = {naming, held} \cup {None}
  PROVE  UNCHANGED [c \in Conn |-> PlaceOf(c)]
<1>1. \A d \in Conn : PlaceOf(d)' = PlaceOf(d)
  BY DEF PlaceOf, Conn, None
<1> QED
  BY <1>1, NoneMoves

(* Each step of the program is a step of Delivery or moves nothing.        *)
LEMMA StepDelivers ==
  IInv /\ Sorted /\ [Next]_vars => [Delivered!Next]_([c \in Conn |-> PlaceOf(c)])
<1> SUFFICES ASSUME IInv, Sorted, [Next]_vars
             PROVE  Delivered!Next \/ UNCHANGED [c \in Conn |-> PlaceOf(c)]
  OBVIOUS
<1>1. CASE NewConnection \/ TakeConnection \/ ReconnectAttempt
  BY <1>1, NewConnectionDelivers, TakenDelivers
<1>2. CASE PhoneNamed
  <2>1. /\ Queued' = Queued /\ made' = made /\ open' = open
        /\ naming' = None /\ held' = naming /\ naming # None
    BY <1>2, QueueKept DEF PhoneNamed
  <2>2. naming # held
    BY <2>1 DEF IInv, OwnedOnce
  <2>3. CASE held = None
    BY <2>1, <2>3, KeptDelivers
  <2>4. CASE held # None
    BY <2>1, <2>2, <2>4, GivenUpDelivers
  <2> QED
    BY <2>3, <2>4
<1>3. CASE IdleInterrupted
  <2>1. Queued' = Queued /\ made' = made /\ open' = open /\ naming' = None /\ held' = held
    BY <1>3, QueueKept DEF IdleInterrupted
  <2>2. naming # None => naming # held
    BY DEF IInv, OwnedOnce
  <2>3. CASE naming = None
    BY <2>1, <2>3, KeptDelivers
  <2>4. CASE naming # None
    BY <2>1, <2>2, <2>4, GivenUpDelivers
  <2> QED
    BY <2>3, <2>4
<1>4. CASE ExchangeEnds \/ Close
  <2>1. /\ Queued' = Queued /\ made' = made /\ open' = open \ {held}
        /\ naming' = naming /\ held' = None
    BY <1>4, QueueKept DEF ExchangeEnds, Close
  <2>2. naming = None
    BY <1>4 DEF IInv, TypeOK, ExchangeEnds, Close
  <2>3. CASE held = None
    <3>1. open' = open
      BY <2>1, <2>3 DEF IInv, TypeOK, Conn, None
    <3> QED
      BY <2>1, <2>3, <3>1, KeptDelivers
  <2>4. CASE held # None
    BY <2>1, <2>2, <2>4, GivenUpDelivers
  <2> QED
    BY <2>3, <2>4
<1>5. CASE Passing \/ PhoneDetected \/ UNCHANGED vars
  <2>1. /\ Queued' = Queued /\ made' = made /\ open' = open
        /\ naming' = naming /\ held' = held
    BY <1>5, QueueKept DEF Passing, SetupEnds, PairingFails, SendCredentials,
       ConnectingEnds, ProjectionEnds, ConnectionLost, PhoneDetected, vars
  <2> QED
    BY <2>1, KeptDelivers
<1> QED
  BY <1>1, <1>2, <1>3, <1>4, <1>5 DEF Next, Idling, Passing

(***************************************************************************)
(* Connections are served in the order in which they were made, at most    *)
(* once each, and one that was closed or lost never comes back, for any    *)
(* number of connections and sessions.                                     *)
(***************************************************************************)
THEOREM Delivers == Spec => DeliversInOrder
<1>1. Init => Sorted
  BY DEF Init, Sorted
<1>2. Spec => []Sorted
  BY <1>1, StepSorted, Invariance, PTL DEF Spec
<1> QED
  BY <1>2, Invariance, DeliveryInit, StepDelivers, PTL DEF Spec, DeliversInOrder, Delivered!Spec
=============================================================================
