CONSTANTS
  s1 = s1
  s2 = s2
  s3 = s3
  c1 = c1
  c2 = c2
  Subs = {s1, s2, s3}
  Channels = {c1}
  ChannelOf <- OneChannel
  NoSet = NoSet
  Clients = {k1, k2}
  NoClient = NoClient
  MaxMsgs = 2
  MaxCloses = 1
SPECIFICATION PgSpec
INVARIANTS
  PgTypeOK
  LiveIsReachable
  ListenedMirrorsSession
  SettledUnlessRaced
PROPERTY ContractUntilClose
CHECK_DEADLOCK FALSE
