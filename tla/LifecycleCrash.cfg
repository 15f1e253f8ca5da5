CONSTANTS
  Procs = {p1}
  Sessions = {s1}
  Keys = {k1, k2}
  OldReport = OldReport
  Absent = Absent
  Unrenderable = {1}
  MaxRepairRounds = 1
  MaxCrashes = 2
  MaxTargetChanges = 2
  MaxEdits = 2
SPECIFICATION FairSpec
INVARIANTS
  TypeOK
  AtRestPublished
  PromisedReportSurvives
  CompleteMeansRendered
  InFlightIsRecoverable
PROPERTIES
  JournalsAreSettled
  FinalizeSettles
CHECK_DEADLOCK FALSE
