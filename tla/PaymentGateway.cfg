\* One intent, two concurrent requests, events posted through the gateway on its public path.
CONSTANTS
  i1 = i1  i2 = i2  k1 = k1  h1 = h1  h2 = h2  None = None
  Intents = {i1}
  Keys = {k1}
  Amounts = {1}
  Handlers <- MCHandlers
  WebhookPath <- GatewayPath
  ViaGateway = TRUE
SPECIFICATION Spec
PROPERTY
  CapturedWhenCharged
