CONSTANTS
  r1 = r1
  user = user
  guest = guest
  Plugins <- AllKinds
  Requests = {r1}
  Keys = {user, guest}
  AnonKey = guest
  UserKey <- SameUser
  MaxCalls = 1
SPECIFICATION ExecSpec
INVARIANTS
  ResolverRunsBehindEveryGate
  ErrorsToldUnlessShaping
  AnswersAreWholeOrSubstituted
  ExecInv
PROPERTY RequestsSettle
CHECK_DEADLOCK FALSE
