CONSTANTS
  e1 = e1
  f1 = f1
  h1 = h1
  a1 = a1
  a2 = a2
  c1 = c1
  Subs = {e1, h1, a1}
  Streams = {e1, h1}
  AdapterOf <- ExpressAndHono
  Channels = {c1}
  ChannelOf <- OneChannel
  NoSet = NoSet
  MaxWrites = 2
  MaxErrors = 0
SPECIFICATION SseSpec
INVARIANT NotifiedStreamsAreOpen
CHECK_DEADLOCK FALSE
