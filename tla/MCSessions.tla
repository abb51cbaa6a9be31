----------------------------- MODULE MCSessions -----------------------------
(* The auth service on a small instance. *)
EXTENDS Sessions

CONSTANTS u1, s1, h1, h2
=============================================================================
