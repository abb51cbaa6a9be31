------------------------------ MODULE MCEscrow ------------------------------
(* The escrow service on a small instance. *)
EXTENDS Escrow

CONSTANTS c1, m1, m2, w1, k1, h1, h2
=============================================================================
