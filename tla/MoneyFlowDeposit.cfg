\* Is what an escrow holds backed by deposits?
CONSTANTS
  c1 = c1  m1 = m1  w1 = w1  k1 = k1  h1 = h1  i1 = i1  None = None
  Contracts = {c1}
  Milestones = {m1}
  Weeks = {w1}
  Keys = {k1}
  Amounts = {1, 2}
  Handlers = {h1}
  MaxCents = 2
  Intents = {i1}
  WebhookPath <- ServicePath
  ViaGateway = FALSE
SPECIFICATION Spec
INVARIANT
  HeldIsDeposited
