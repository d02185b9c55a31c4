SPECIFICATION Safe
CONSTANTS
  Objects = {o1, o2, m}
  ModuleObjects = {m}
  Wrappers = {w1, w2, w3}
  Threads = {t1, t2}
  MaxArgs = 2
  MaxLost = 2
  Text = Text
  Bad = Bad
  None = None
SYMMETRY Symmetry
INVARIANTS
  TypeOK
  HandleLive
  Accounted
