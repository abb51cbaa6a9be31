\* One intent, two concurrent requests, events posted to the service.
CONSTANTS
  i1 = i1  i2 = i2  k1 = k1  h1 = h1  h2 = h2  None = None
  Intents = {i1}
  Keys = {k1}
  Amounts = {1}
  Handlers <- MCHandlers
  WebhookPath <- ServicePath
  ViaGateway = FALSE
SPECIFICATION Spec
PROPERTY
  CapturedWhenCharged
