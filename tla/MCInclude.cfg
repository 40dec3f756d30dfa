CONSTANTS
  a = a
  b = b
  c = c
  Includes = {1, 2}
  URLs = {a, b, c}
  Empty = Empty
  Unseen = Unseen
  Untrusted = {c}
  TurnOps = {"assign", "digest", "destroy", "evict"}
  RequestedOps = {"destroy"}
  LoadedOps = {"assign", "digest", "destroy"}
  FailedOps = {"destroy"}
  DestroyedOps = {"assign"}
  LinkedOps = {}
  Budget = 2
SPECIFICATION FairSpec
INVARIANTS ShowsWhatIsWanted
PROPERTIES LoadsEnd
CHECK_DEADLOCK FALSE
