\* Analytics as deployed: one relay, two consumer replicas, no dead letters.
CONSTANTS
  e1 = e1  e2 = e2  e3 = e3  r1 = r1  r2 = r2  c1 = c1  c2 = c2
  Events <- MCEvents
  Relays = {r1}
  Batch = 2
  Consumers <- MCConsumers
  MaxRetries = 2
  HasDLQ = FALSE
  ClaimsInTx = TRUE
  MaxFaults = 3
SPECIFICATION Spec
SYMMETRY BusSymmetry
CHECK_DEADLOCK FALSE
INVARIANTS
  CommittedOrder
  EffectOnce
  PassedIsSettled
