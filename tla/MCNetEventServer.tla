--------------------------- MODULE MCNetEventServer ---------------------------
(***************************************************************************)
(* Instances of NetEventServer for TLC: clients and sender threads are     *)
(* interchangeable model values; receivers are not, because of the round   *)
(* robin of listener_cb.                                                   *)
(***************************************************************************)
EXTENDS NetEventServer

\* Sockets that are open, or whose Close has not cleared the slot yet.
Outstanding == {c \in Conns : m_fd[c] = "open"
                                \/ \E r \in Receivers : rx[r].conn = c}

\* A server that is never full: there is always an id to spare.
BelowCapacity == Cardinality(Outstanding) < TotalIDs
RoomySpec == Init /\ [][Next /\ BelowCapacity']_vars

Symmetry == Permutations(Conns) \union Permutations(Senders)
=============================================================================
