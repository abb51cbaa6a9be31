----------------------------- MODULE MCEventBus -----------------------------
(* The event bus on a small instance. *)
EXTENDS EventBus, TLC

CONSTANTS e1, e2, e3, r1, r2, c1, c2

MCEvents == {e1, e2, e3}
MCConsumers == {c1, c2}

(* The events of a partition and the replicas of a consumer group are
   interchangeable. *)
BusSymmetry == Permutations(MCEvents) \cup Permutations(MCConsumers)
=============================================================================
