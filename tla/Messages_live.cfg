\* Streams: one, two messages and a buffer of two: order, and the end of streams; the user has a DM.
\* Webhooks: three, one event, two failing statements, one death of the process.
CONSTANTS
  u1 = u1  u2 = u2  a = a  b = b  dm = dm  e1 = e1  e2 = e2
  w1 = w1  w2 = w2  m1 = m1  m2 = m2  m3 = m3
  Users = {u1}
  Channels = {a, dm}
  DMs = {dm}
  Streams = {e1}
  Socks = {}
  Messages = {m1, m2}
  UserOf <- UserOf2
  Author <- ByU1
  ChanOf <- ToA
  ViaOf <- AllPost
  Cap = 2
  MaxChanges = 1
  None = None
  Hooks = {1, 2, 3}
  Events = {ev1}
  MaxTries = 3
  MaxRowFaults = 2
  MaxDeaths = 1
  NoHook = 0
SPECIFICATION MsgSpec
INVARIANT DeliveryInv
PROPERTIES InOrder ImplementsFeed StreamEnds QueueDrains DeliveryEnds
CHECK_DEADLOCK FALSE
