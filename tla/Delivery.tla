------------------------------- MODULE Delivery -------------------------------
(***************************************************************************)
(* What becomes of a connection, whoever handles it: it waits, is served   *)
(* in the order of arrival or turned away, and ends closed or lost, for    *)
(* good.  Nothing is served twice, and nothing comes back.                 *)
(***************************************************************************)
EXTENDS Naturals

CONSTANT MaxConns

Conn  == 1 .. MaxConns
Place == {"coming", "waiting", "served", "closed", "lost"}

VARIABLE place      \* where each connection is

Init == place = [c \in Conn |-> "coming"]

Moves(c, to) == place' = [place EXCEPT ![c] = to]

(* The first of those that are where c is.                                 *)
First(c) == \A d \in Conn : d < c => place[d] # place[c]

Arrive(c) == place[c] = "coming" /\ First(c) /\ Moves(c, "waiting")

Serve(c) == place[c] = "waiting" /\ First(c) /\ Moves(c, "served")

TurnAway(c) == place[c] = "waiting" /\ First(c) /\ Moves(c, "closed")

End(c) == place[c] = "served" /\ (Moves(c, "closed") \/ Moves(c, "lost"))

Next == \E c \in Conn : Arrive(c) \/ Serve(c) \/ TurnAway(c) \/ End(c)

Spec == Init /\ [][Next]_place
=============================================================================
