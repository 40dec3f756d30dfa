CONSTANTS
  rootScope = rootScope
  childScope = childScope
  newScope = newScope
  f1 = f1
  f2 = f2
  f3 = f3
  Scopes = {rootScope, childScope, newScope}
  Root = rootScope
  Names = {"e", "$destroy"}
  Fired = {"e"}
  Listeners = {f1, f2, f3}
  Null = Null
  InitKids <- MCInitKids
  InitHeap <- MCInitHeap
  InitRegistry <- MCInitRegistry
  Ops <- OffThenEmit
  Budget = 4
SPECIFICATION Spec
PROPERTY SilencedStaysSilent
CHECK_DEADLOCK FALSE
