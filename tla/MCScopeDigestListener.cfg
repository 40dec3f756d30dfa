CONSTANTS
  r = r
  a = a
  b = b
  p = p
  o = o
  c = c
  x = x
  y = y
  v = v
  Scopes = {r, a, b}
  Root = r
  Watchers = {p, o, c}
  Cells = {x, y}
  Vals = {Undef, v, Bad}
  Bad = Bad
  Undef = Undef
  NoVal = NoVal
  Null = Null
  UserFn = UserFn
  TTL = 2
  Budget = 4
  MaxQueue = 4
  Free = {}
  CellOf <- MCCellOf
  CellVals <- MCCellVals
  Kind <- MCKind
  InitKids <- MCInitKids
  InitWatch <- MCInitWatch
  Ops <- ListenerDefers
SPECIFICATION Spec
PROPERTY DigestLeavesAllClean
CHECK_DEADLOCK FALSE
