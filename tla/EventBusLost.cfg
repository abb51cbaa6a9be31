\* The notification consumer: no dead letters, and its mark is not in the commit of its
\* effect.  A message fails MaxRetries times, the next succeeds.
CONSTANTS
  e1 = e1  e2 = e2  e3 = e3  r1 = r1  r2 = r2  c1 = c1  c2 = c2
  Events <- MCEvents
  Relays = {r1}
  Batch = 2
  Consumers <- MCConsumers
  MaxRetries = 2
  HasDLQ = FALSE
  ClaimsInTx = FALSE
  MaxFaults = 3
SPECIFICATION Spec
CHECK_DEADLOCK FALSE
INVARIANT
  PassedIsHandled
