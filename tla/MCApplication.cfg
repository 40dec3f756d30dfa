CONSTANTS
  rootScope = rootScope
  childScope = childScope
  newScope = newScope
  f1 = f1
  f2 = f2
  f3 = f3
  Scopes = {rootScope, childScope, newScope}
  Root = rootScope
  Names = {"e", "$destroy"}
  Fired = {"e"}
  Listeners = {f1, f2, f3}
  Null = Null
  InitKids <- MCInitKids
  InitHeap <- MCInitHeap
  InitRegistry <- MCInitRegistry
  Ops <- MCOps
  Budget = 5
  Checked = {"events",
           "startup", "ng", "expressions", "filters", "values", "requests", "sce", "sanitize",
           "attributes", "classes", "pluralize", "controllers", "transclusion", "rows", "refs"}
  LateDeclares = FALSE
  Sites = {"$q", "$timeout", "$interpolate", "$compile"}
  Unbuilt = Unbuilt
  Loop = Loop
  Self = Self
  Undefined = Undefined
  NoRecord = NoRecord
  Rejected = Rejected
  NoValue = NoValue
  Unset = Unset
  Absent = Absent
  EmptyText = EmptyText
  NotANumber = NotANumber
SPECIFICATION ApplicationSpec
INVARIANTS ListenersOnce DeclaredWhole ServicesAgree TrustKept PageFollows ControllersReady
PROPERTIES BroadcastReaches MeantIsDone RequestsAsAsked LivesWithElement
CHECK_DEADLOCK FALSE
