\* Two intents, one key, two concurrent requests.
CONSTANTS
  i1 = i1  i2 = i2  k1 = k1  h1 = h1  h2 = h2  None = None
  Intents <- MCIntents
  Keys = {k1}
  Amounts = {1, 2}
  Handlers <- MCHandlers
  WebhookPath <- ServicePath
  ViaGateway = FALSE
SPECIFICATION Spec
SYMMETRY Symmetry
INVARIANTS
  OneDepositPerPayment
  AcknowledgedIsCaptured
