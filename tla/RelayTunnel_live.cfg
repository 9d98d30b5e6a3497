\* One request, one broken link, one redis fault, the token re-applied once.
CONSTANTS
  t1 = t1  t2 = t2  bad = bad  s1 = s1  s2 = s2
  Tokens = {t1}
  Admitted = {t1}
  Subdomains = {s1, s2}
  SubOf <- MCSubOf1
  Clients = {k1, k2}
  Conns = {c1, c2, c3}
  Requests = {r1}
  MaxNetFaults = 1
  MaxRedisFaults = 1
  None = None
SPECIFICATION FairSpec
PROPERTIES RequestAnswered Reconnects
CHECK_DEADLOCK FALSE
