CONSTANTS
  m1 = m1
  m2 = m2
  m3 = m3
  a = a
  b = b
  d = d
  e = e
  Modules = {m1, m2, m3}
  Entry <- MCEntry
  RequiresChoices <- MCRequiresChoices
  Names = {a, b}
  Seeds = {b}
  Decorators = {d, e}
  Null = Null
  Ops <- MCOps
  Budget = 6
SPECIFICATION Spec
INVARIANTS OneInstance PathIsUnderConstruction
PROPERTIES LoadedInOrder
CHECK_DEADLOCK FALSE
