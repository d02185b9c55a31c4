SPECIFICATION Safe
CONSTANTS
  Threads = {t1, t2}
  Objects = {o1, o2, o3}
  Locals = {l1, l2, l3}
  Fields = {left, right}
  None = None
SYMMETRY Symmetry
INVARIANTS
  TypeOK
  CountExact
  NoDangling
  WriteExclusive
  NoneForgotten
  Acyclic
