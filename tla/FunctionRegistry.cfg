SPECIFICATION Safe
CONSTANTS
  Threads = {t1, t2, t3}
  Names = {add, len}
  Functions = {f1, f2}
  Empty = Empty
  Torn = Torn
  None = None
SYMMETRY Symmetry
INVARIANTS
  TypeOK
  OneFunction
  OneWriter
CHECK_DEADLOCK FALSE
