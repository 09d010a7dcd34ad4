CONSTANTS
  c1 = c1
  Subs = {s1, s2, s3}
  Channels = {c1}
  ChannelOf <- OneChannel
  NoSet = NoSet
  MaxMsgs = 2
  MaxFailures = 1
SPECIFICATION RedisSpec
INVARIANTS
  SettledUnlessLost
  OneClosureUnlessUnsubscribing
  RedisInv
PROPERTIES
  ContractUnlessCrossed
  KeptSubscriptionIsServed
CHECK_DEADLOCK FALSE
