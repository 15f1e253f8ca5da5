--------------------------- MODULE MCReportClient ---------------------------
(* Values for model checking ReportClient: two loops, one of them shorter.   *)
EXTENDS ReportClient

CONSTANTS c1, c2

MCBusySteps == [c \in Clients |-> IF c = c1 THEN 4 ELSE 2]
=============================================================================
