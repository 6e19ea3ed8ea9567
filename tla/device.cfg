CONSTANTS
  n1 = n1 n2 = n2 m1 = m1 m2 = m2 f1 = f1 f2 = f2
  Nothing = Nothing
  Names = {n1}
  Admins = {a1}
  Modules = {m1, m2}
  Files = {f1, f2}
  Sharers = {p1}
  Slots <- TwoSlots
  DevName <- DevNameShared
  Env <- NoEnv
SPECIFICATION Spec
SYMMETRY Symmetric
INVARIANTS
  IInv
  OneOpenPerDevice
  OpenFlagIsHeld
  HandlersStay
  ListsConsistent
  ThreadHasMemory
PROPERTIES
  CallsAreAtomic
