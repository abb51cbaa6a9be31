\* Two relay replicas share the rows of one database; a consumer with dead letters.
CONSTANTS
  e1 = e1  e2 = e2  e3 = e3  r1 = r1  r2 = r2  c1 = c1  c2 = c2
  Events = {e1, e2}
  Relays = {r1, r2}
  Batch = 1
  Consumers = {c1, c2}
  MaxRetries = 2
  HasDLQ = TRUE
  ClaimsInTx = TRUE
  MaxFaults = 3
SPECIFICATION Spec
CHECK_DEADLOCK FALSE
INVARIANT
  RepeatedOnlyAfterFault
PROPERTY
  Delivered
