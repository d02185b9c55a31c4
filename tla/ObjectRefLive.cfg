SPECIFICATION Spec
CONSTANTS
  Threads = {t1, t2}
  Objects = {o1, o2}
  Locals = {l1, l2, l3}
  Fields = {next}
  None = None
PROPERTIES
  KeepsPromise
  ReapsCompletely
