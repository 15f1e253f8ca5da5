CONSTANTS
  Procs = {p1, p2}
  Sessions = {s1, s2}
  Keys = {k1, k2}
  OldReport = OldReport
  Absent = Absent
  Unrenderable = {}
  MaxRepairRounds = 1
  MaxCrashes = 1
  MaxTargetChanges = 1
  MaxEdits = 1
SPECIFICATION Spec
SYMMETRY MCSymmetry
INVARIANTS
  AtRestPublished
PROPERTIES
  SessionsFollowProtocol
  VerdictsStand
CHECK_DEADLOCK FALSE
