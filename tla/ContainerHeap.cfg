SPECIFICATION Spec
CONSTANTS
  Objects = {o1, o2, o3}
  Vars = {x, y}
  Numbers <- Indices
  None = None
  MaxSlots = 3
VIEW State
SYMMETRY Symmetry
INVARIANTS
  TypeOK
  CountMatches
  LeaksAreCycles
PROPERTIES
  ActsLikePython
