SPECIFICATION Safe
CONSTANTS
  math = math
  big = big
  bad = bad
  Files = {math, big, bad}
  Registered = {math, big}
  Modules = {m1, m2}
  Handles = {h1, h2, h3}
  Exports <- SmallExports
  Garbled = Garbled
  None = None
SYMMETRY Symmetry
INVARIANTS
  TypeOK
  ImageResident
  OpenBalanced
  EveryFunctionFound
