\* One user, one session of up to three tokens, two concurrent requests.
CONSTANTS
  u1 = u1  s1 = s1  h1 = h1  h2 = h2
  None = None
  Users = {u1}
  AuthSessions = {s1}
  MaxTokens = 3
  Threshold = 2
  MaxFailures = 3
  Handlers = {h1, h2}
\* The bounds on sessions, tokens and failures let the service come to rest.
CHECK_DEADLOCK FALSE
SPECIFICATION Spec
INVARIANTS
  BurnedIsDead
  OneLiveToken
  LateGuessesBounded
PROPERTIES
  NoMintOnRevoked
  RequestsEnd
