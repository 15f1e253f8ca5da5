-------------------------- MODULE MCReportLifecycle --------------------------
(* Values for model checking ReportLifecycle: processes, sessions and keys   *)
(* are model values, interchangeable where no liveness is checked.           *)
EXTENDS ReportLifecycle, TLC

MCSymmetry == Permutations(Procs) \cup Permutations(Sessions) \cup Permutations(Keys)
=============================================================================
