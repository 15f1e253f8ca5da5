CONSTANTS
  Procs = {p1, p2}
  Sessions = {s1}
  Keys = {k1, k2}
  OldReport = OldReport
  Absent = Absent
  Unrenderable = {}
  MaxRepairRounds = 1
  MaxCrashes = 1
  MaxTargetChanges = 0
  MaxEdits = 2
SPECIFICATION Spec
INVARIANTS
  InFlightIsRecoverable
CHECK_DEADLOCK FALSE
