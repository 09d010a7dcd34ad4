CONSTANTS
  u = u
  admin = admin
  r1 = r1
  r2 = r2
  c1 = c1
  c2 = c2
  Users = {u}
  Roles = {admin}
  NoUser = NoUser
  NoRole = NoRole
  Principals <- MCPrincipals
  Gates <- MCGates
  Requests = {r1, r2}
  Callers = {c1, c2}
  TTL = 1
  None = None
  MaxNow = 1
  MaxChanges = 1
  MaxInvalidations = 2
  MaxMade = 2
SPECIFICATION Spec
SYMMETRY MCSymmetry
INVARIANTS
  CacheTypeOK
  StaleAtMostTTL
  InvalidatedIsFresh
CHECK_DEADLOCK FALSE
