CONSTANTS
  p1 = p1
  p2 = p2
  p3 = p3
  p4 = p4
  v = v
  Promises = {p1, p2, p3}
  Vals = {v}
  Undef = Undef
  Group = Group
  NoResult = NoResult
  Budget = 5
  MaxInputs = 2
SPECIFICATION FairSpec
INVARIANTS ChainsWhole UnhandledReportedOnce CombinedAgrees
PROPERTIES OutcomesFinal FollowUpsRun
CHECK_DEADLOCK FALSE
