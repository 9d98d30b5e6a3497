\* Two messages are broadcast to one socket at once.
CONSTANTS
  u1 = u1  u2 = u2  a = a  b = b  dm = dm  e1 = e1  e2 = e2
  w1 = w1  w2 = w2  m1 = m1  m2 = m2  m3 = m3
  Users = {u1}
  Channels = {a}
  DMs = {}
  Streams = {}
  Socks = {w1}
  Messages = {m1, m3}
  UserOf <- UserOf1
  Author <- ByU1
  ChanOf <- ToA
  ViaOf <- AllPost
  Cap = 1
  MaxChanges = 0
  None = None
SPECIFICATION FairSpec
PROPERTY SocketsReceive
CHECK_DEADLOCK FALSE
