\* One page at a time: two channels beside the general one and one other user,
\* two tabs and two instances, four to eight moves of the user.
CONSTANTS
  g = g  c1 = c1  c2 = c2  d1 = d1  PageNone = PageNone
  PageChannels = {g, c1, c2}
  General = g
  PageDMs = {d1}
  StarterDM = d1
  MaxClicks = 2
  MaxKeys = 2
  MaxMoves = 4
  MaxMatches = 2
  MaxArrivals = 2
  MaxVersions = 2
  MaxItemMoves = 9
  MaxPanelMoves = 8
  t1 = t1  t2 = t2  i1 = i1  i2 = i2  SessNone = SessNone
  Tabs = {t1, t2}
  Instances = {i1, i2}
  DefaultInstance = i1
  MaxOpens = 2
  MaxTokens = 2
  MaxAsks = 2
  MaxPages = 2
  SubNames = {"n1", "n2"}
  MaxBillMoves = 5
  Things = {1, 2}
  MaxSetMoves = 4
  MaxNotes = 3
  MaxShellMoves = 5
SPECIFICATION Spec
SYMMETRY PageSymmetry
INVARIANTS CreatedStays ComposerInv NoticeTruthful OneRequest OneCreation LinkReachesItsInstance SubdomainOfName WelcomeSettles OneCallPerFlag NotifyInv
PROPERTIES DraftSafe
CHECK_DEADLOCK FALSE
