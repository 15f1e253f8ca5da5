CONSTANTS
  c1 = c1  c2 = c2  c3 = c3
  k1 = k1  k2 = k2  k3 = k3
  edge = edge
  Items <- MCItems
  Units <- MCUnits
  UnitOf <- MCUnitOf
  Slots <- MCSlots
  SlotOf <- MCSlotOf
  Edges <- MCEdges
  FieldOf <- MCFieldOf
  GlobalUnits = {"scope"}
  ClaimIds <- MCClaimIds
  Keys <- MCKeys
  Capacities = {2, 4}
  MaxClaims = 2
  MaxRelationships = 1
  MaxRetries = 1
  MaxRepairRounds = 1
SPECIFICATION Spec
SYMMETRY MCSymmetry
INVARIANTS
  TypeOK
  LeaseTableKeys
  LeaseMatchesState
  FinalizedIsCovered
  LeaseAsksForMissing
  ChunksMatchLeases
  UnitStatusNotBehind
PROPERTIES
  VersionCountsChanges
  DocumentGuarded
  FollowsProtocol
CHECK_DEADLOCK FALSE
