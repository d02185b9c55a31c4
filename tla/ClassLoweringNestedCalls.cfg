SPECIFICATION Safe
CONSTANTS
  Scripts <- MCScripts
  IllTyped <- MCIllTyped
  VarNames <- MCVarNames
  MaxNumber = 3
INVARIANTS
  NestedCallsAccepted
CHECK_DEADLOCK FALSE
