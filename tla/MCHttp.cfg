CONSTANTS
  u = u
  c1 = c1
  c2 = c2
  none = none
  Requests = {1, 2, 3}
  URLs = {u}
  Caches = {c1, c2}
  NoCache = none
  Configs <- SomeConfigs
  Calls <- SomeCalls
  Nobody = Nobody
SPECIFICATION FairSpec
INVARIANTS CallsTidy
PROPERTIES ImplementsAbstract CallsSettle
CHECK_DEADLOCK FALSE
