SPECIFICATION FairSpec
CONSTANTS
  Url = {u, bad}
  BadUrl = {bad}
  Check = {k1, k2, k3}
  Ttl = 2
  Timeout = 2
  MaxTime = 4
CHECK_DEADLOCK FALSE
INVARIANT RecentAnswer
PROPERTY EveryCheckEnds
