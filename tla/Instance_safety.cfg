\* One part at a time.  Tunnel: token changes, a refused token, connection and
\* redis faults, one request.  Channels: three people, two rooms, three calls,
\* two of them at once.  Accounts: four calls, two at once.  Bootstrap: three.
CONSTANTS
  t1 = t1  t2 = t2  bad = bad  s1 = s1  s2 = s2
  Tokens = {t1, t2, bad}
  Admitted = {t1, t2}
  Subdomains = {s1, s2}
  SubOf <- MCSubOf
  Clients = {1, 2}
  Conns = {1, 2, 3}
  Requests = {r1}
  MaxNetFaults = 1
  MaxRedisFaults = 1
  None = None
  p1 = p1  p2 = p2  p3 = p3  n1 = n1  mail1 = mail1
  People = {p1, p2, p3}
  Rooms = {1, 2}
  RoomNames <- MC_RoomNames
  RoomCalls = {1, 2}
  MaxCalls = 3
  NoName = NoName
  Addresses = {owner, guest}
  Idents = {id1, id2}
  Passwords = {pw}
  Invites = {i1, i2}
  Resets = {rst1}
  Owner = owner
  Limit = 2
  Tasks = {1, 2}
  MaxTasks = 4
  Nobody = Nobody
  NoPassword = NoPassword
  Boots = {1, 2, 3}
  Mails = {mail1, mail2}
  Words = {w}
  ChannelNames = {general}
  NoMail = NoMail
  NoBoot = NoBoot
SPECIFICATION InstSpec
INVARIANTS RelayInv AccountsInv BootInv
PROPERTIES ImplementsPublicRequest DmStays RowsKeepOwners
CHECK_DEADLOCK FALSE
