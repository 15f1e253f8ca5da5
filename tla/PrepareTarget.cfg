CONSTANTS
  Procs = {p1, p2}
  Requests <- MCRequests
  Layout <- MCLayout
  Subdirectories <- MCSubdirectories
  None = None
  MaxMoves = 2
  MaxRemovals = 2
SPECIFICATION Spec
INVARIANTS
  TypeOK
  CheckpointIsWhole
  AnswersItsRequest
CHECK_DEADLOCK FALSE
