------------------------------- MODULE MCHub -------------------------------
(* Connections of one user: on one replica, or on two. *)
EXTENDS Hub, TLC
CONSTANTS c1, c2, c3
MCPosters == Conns
MCUserOf == [c \in Conns |-> "u1"]
OneReplica == [c \in Conns |-> "a"]
TwoReplicas == [c \in Conns |-> IF c = c3 THEN "b" ELSE "a"]
=============================================================================
