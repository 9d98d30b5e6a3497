\* A stream closes while a message is being broadcast.
CONSTANTS
  u1 = u1  u2 = u2  a = a  b = b  dm = dm  e1 = e1  e2 = e2
  w1 = w1  w2 = w2  m1 = m1  m2 = m2  m3 = m3
  Users = {u1, u2}
  Channels = {a}
  DMs = {}
  Streams = {e1, e2}
  Socks = {}
  Messages = {m1}
  UserOf <- UserOf2
  Author <- ByU1
  ChanOf <- ToA
  ViaOf <- AllPost
  Cap = 1
  MaxChanges = 0
  None = None
SPECIFICATION Spec
INVARIANT AlwaysBroadcast
CHECK_DEADLOCK FALSE
