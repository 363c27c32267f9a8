----------------------------- MODULE RecentPhones -----------------------------
(***************************************************************************)
(* What the pairing store promises: the phones that connected last, the    *)
(* latest of them first, and no more than MaxRecords of them.  The promise *)
(* lasts as long as nothing has been lost.                                 *)
(***************************************************************************)
EXTENDS Naturals, Sequences, SequencesExt, FiniteSets

CONSTANTS Phones, None, MaxRecords

VARIABLES
  order,   \* the phones remembered, in the order in which they are tried
  last,    \* the phone that connected last
  intact   \* nothing has been lost

vars == <<order, last, intact>>

Orders ==
  {s \in UNION {[1 .. n -> Phones] : n \in 0 .. MaxRecords} : IsInjective(s)}

(* The phone goes to the front, and those that were before it step back;   *)
(* the last one drops out when there are too many.                         *)
Latest(p, s) ==
  LET place == IF p \in Range(s) THEN CHOOSE i \in DOMAIN s : s[i] = p ELSE Len(s) + 1
      size  == IF place > Len(s) /\ Len(s) < MaxRecords THEN Len(s) + 1 ELSE Len(s)
  IN  [i \in 1 .. size |-> IF i = 1 THEN p ELSE IF i <= place THEN s[i - 1] ELSE s[i]]

Init == order = <<>> /\ last = None /\ intact = TRUE

Connect(p) ==
  /\ IF intact THEN order' = Latest(p, order) ELSE order' \in Orders
  /\ last' = p /\ UNCHANGED intact

Lose == intact' = FALSE /\ order' \in Orders /\ last' \in {last} \cup Phones

Next == Lose \/ \E p \in Phones : Connect(p)

Spec == Init /\ [][Next]_vars
=============================================================================
