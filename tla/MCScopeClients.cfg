CONSTANTS
  Parts = {"timers", "group", "collection", "bindings",
           "directives", "linking", "structural", "domEvents"}
  unseen = unseen
  text = text
  NaN = NaN
  undef = undef
  GroupListener = {}
  OthersQueued = FALSE
  none = none
  LinkTimes <- EachOnce
  DestroyInLink = FALSE
  LocalDigests = FALSE
  Tasks = {1, 2, 3}
  Timeouts = {1}
  Count <- Repetitions
  SkipsApply = {3}
  MaxTicks = 3
  MaxNesting = 3
SPECIFICATION ClientsSpec
INVARIANTS RegistryExact 
PROPERTIES CanceledIsSilent TasksSettle GroupHears ChangeSeen BindingsAgree LinkedOnce RowsKept EventsHandled
CHECK_DEADLOCK FALSE
