CONSTANTS
  app = app
  tab = tab
  q1 = q1
  q2 = q2
  w = w
  u = u
  v = v
  s = s
  None = None
  NoId = NoId
  NoContent = NoContent
  Sessions = {s}
  TTL = 1
  Contents = {q1, q2, w, u, v}
  Digest <- MCDigest
  DigestBytes = 2
  IdBytes = 1
  Clients = {app, tab}
  Calls = {"c1", "c2"}
  Uses <- MCUses
  SessionOf <- MCSessionOf
  Persisted = {app}
  OptionAuth <- MCOptionAuth
  BodyOf <- MCBodyOf
  MaxNow = 2
  MaxRestarts = 1
  MaxMade = 2
SPECIFICATION HttpSpec
INVARIANTS
  HttpTypeOK
  LoggedOutStaysOut
  NewestTokensAccepted
  ExecutesTheAskedQuery
  RunsOnce
PROPERTIES
  AuthForwardUnlessCrossed
  CallsSettle
CHECK_DEADLOCK FALSE
