\* One token and one broken link: a lost race in the registry outlives the fault.
CONSTANTS
  t1 = t1  t2 = t2  bad = bad  s1 = s1  s2 = s2
  Tokens = {t1}
  Admitted = {t1}
  Subdomains = {s1, s2}
  SubOf <- MCSubOf1
  Clients = {k1, k2}
  Conns = {c1, c2, c3}
  Requests = {}
  MaxNetFaults = 1
  MaxRedisFaults = 0
  None = None
SPECIFICATION FairSpec
PROPERTY ReachableAgain
CHECK_DEADLOCK FALSE
