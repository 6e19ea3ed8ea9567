CONSTANTS
  n1 = n1 n2 = n2 m1 = m1 m2 = m2 f1 = f1 f2 = f2
  Nothing = Nothing
  Names = {n1}
  Admins = {a1}
  Modules = {m1}
  Files = {f1}
  Sharers = {p1, p2}
  Slots <- OneSlot
  DevName <- DevNameOne
  Env <- NoEnv
SPECIFICATION Spec
INVARIANT MappedOnce
