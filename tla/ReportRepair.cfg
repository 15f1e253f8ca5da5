CONSTANTS
  Deployables = {"api"}
  SnapshotEdges = {"e"}
  GroupOf <- MCGroupOf
  Detailed = FALSE
  SubjectOffers <- MCSubjects
  ClaimOffers <- AnyClaims
  EdgeOffers <- AnyEdges
  InitialDocs <- MCAnyInits
  MaxChunkClaims = 2
  RefKind <- MCRefKind
  HasRoot = TRUE
  Verdicts = {"ready", "unclear"}
  Forbidden = {"next task"}
  Escape <- MCEscape
  MaxRepairRounds = 2
SPECIFICATION Spec
INVARIANTS
  TypeOK
  CompleteIsBacked
  EdgesAreBacked
PROPERTIES
  RepairIsLocal
  RepairRemovesFaults
  EndsComplete
CHECK_DEADLOCK FALSE
