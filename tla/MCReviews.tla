----------------------------- MODULE MCReviews -----------------------------
(* One completed contract whose two parties review each other at once. *)
EXTENDS Reviews, TLC
CONSTANTS k1, c1, f1, r1, r2
MCClientOf == [k \in Contracts |-> c1]
MCFreelancerOf == [k \in Contracts |-> f1]
MCStatusOf == [k \in Contracts |-> "completed"]
MCSymmetry == Permutations(Requests)
=============================================================================
