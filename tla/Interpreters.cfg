SPECIFICATION Spec
CONSTANTS
  Programs <- MCPrograms
  Damages <- MCDamages
INVARIANTS
  ReadsAsWritten
  CutWhereTooDeep
  ReferenceIsRight
  SameAnswers
PROPERTIES
  LinesAsTyped
  BlocksEnd
CHECK_DEADLOCK FALSE
