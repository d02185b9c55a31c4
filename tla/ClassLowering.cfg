SPECIFICATION Spec
CONSTANTS
  Scripts <- MCScripts
  IllTyped <- MCIllTyped
  VarNames <- MCVarNames
  MaxNumber = 3
INVARIANTS
  TypeOK
  FollowsScript
  CompiledFollows
  NamesMeant
  NamesFollowScopes
  TypesKept
PROPERTIES
  Halts
CHECK_DEADLOCK FALSE
