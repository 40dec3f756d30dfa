CONSTANTS
  u = u
  c1 = c1
  c2 = c2
  none = none
  Requests = {1, 2}
  URLs = {u}
  Caches = {c1, c2}
  NoCache = none
  Configs <- MixedConfigs
  Calls <- TwoDirect
  Nobody = Nobody
SPECIFICATION FairSpec
PROPERTY LimitHonoured
CHECK_DEADLOCK FALSE
