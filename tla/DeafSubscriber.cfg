CONSTANTS
  s1 = s1
  s2 = s2
  s3 = s3
  c1 = c1
  c2 = c2
  Subs = {s1, s2}
  Channels = {c1}
  ChannelOf <- OneChannel
  NoSet = NoSet
  Clients = {k1}
  NoClient = NoClient
  MaxMsgs = 0
  MaxCloses = 0
SPECIFICATION PgSpec
INVARIANT SubscribersAreListenedFor
CHECK_DEADLOCK FALSE
