--------------------------- MODULE SessionProtocol ---------------------------
(***************************************************************************)
(* What a report session promises whoever drives it: the states of         *)
(* report_session_models.SessionState, the moves between them, and whether *)
(* there is a lease to answer.  ReportSession and ReportLifecycle are each *)
(* shown to implement it.                                                  *)
(***************************************************************************)
EXTENDS Naturals

VARIABLES
  state,     \* sessions.state, or "NONE" before the row exists
  version,   \* sessions.state_version
  leased     \* whether a lease is ACTIVE

vars == <<state, version, leased>>

Collecting == state = "COLLECTING" /\ leased
Collected == state = "READY" /\ ~leased

Init ==
  /\ version = 0
  /\ (state = "NONE" /\ ~leased) \/ Collecting \/ Collected

Create ==
  /\ state = "NONE"
  /\ Collecting' \/ Collected'
  /\ UNCHANGED version

\* A chunk is taken under the lease.  It need not find the session
\* collecting: one that has failed with its lease open goes back to work.
Collect ==
  /\ leased
  /\ Collecting' \/ Collected'
  /\ version' = version + 1

Move(from, to) ==
  /\ state = from /\ state' = to
  /\ version' = version + 1
  /\ UNCHANGED leased

Begin == Move("READY", "ASSEMBLING")
Render == Move("ASSEMBLING", "VALIDATING")
Reject == Move("VALIDATING", "REPAIRING")
Complete == Move("VALIDATING", "COMPLETE")
Fail == state \notin {"NONE", "FAILED"} /\ Move(state, "FAILED")

\* The rejected entries are leased again.
Reopen ==
  /\ state = "REPAIRING" /\ ~leased
  /\ Collecting'
  /\ version' = version + 1

Next == Create \/ Collect \/ Begin \/ Render \/ Reject \/ Complete \/ Fail \/ Reopen

Spec == Init /\ [][Next]_vars
=============================================================================
