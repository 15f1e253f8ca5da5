CONSTANTS
  MaxOutput = 3
  Chunk = 2
  MaxWritten = 4
SPECIFICATION Spec
INVARIANTS
  TypeOK
  VerdictIsTheChilds
PROPERTIES
  RunReturns
CHECK_DEADLOCK FALSE
