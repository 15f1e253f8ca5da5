CONSTANTS
  Deployables = {"api"}
  SnapshotEdges = {}
  GroupOf <- MCGroupOf
  Detailed = FALSE
  SubjectOffers <- MCSubjects
  ClaimOffers <- MCVerdictOffers
  EdgeOffers <- MCSoundEdges
  InitialDocs <- MCNoEdgeInits
  MaxChunkClaims = 2
  RefKind <- MCRefKind
  HasRoot = TRUE
  Verdicts = {"ready", "unclear"}
  Forbidden = {"next task"}
  Escape <- MCEscape
  MaxRepairRounds = 2
SPECIFICATION Spec
INVARIANTS
  ReadyIsRenderable
CHECK_DEADLOCK FALSE
