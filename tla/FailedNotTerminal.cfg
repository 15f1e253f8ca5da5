CONSTANTS
  Procs = {p1}
  Sessions = {s1}
  Keys = {k1, k2}
  OldReport = OldReport
  Absent = Absent
  Unrenderable = {}
  MaxRepairRounds = 1
  MaxCrashes = 0
  MaxTargetChanges = 1
  MaxEdits = 1
SPECIFICATION Spec
PROPERTIES
  FailedIsTerminal
CHECK_DEADLOCK FALSE
