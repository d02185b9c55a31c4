SPECIFICATION Safe
CONSTANTS
  Scripts <- MCScripts
  IllTyped <- MCIllTyped
  VarNames <- MCVarNames
  MaxNumber = 3
INVARIANTS
  ShortCircuits
CHECK_DEADLOCK FALSE
