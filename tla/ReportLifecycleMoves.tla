------------------------ MODULE ReportLifecycleMoves ------------------------
(***************************************************************************)
(* Theorems about ReportLifecycle for every value of its constants, from   *)
(* the invariant of ReportLifecycleProofs.                                 *)
(*                                                                         *)
(* Every step is shown to move each row in one of a few ways and to leave  *)
(* the stored results as they are (EveryStepMoves); the safety properties, *)
(* the protocol the rows follow and the finality of verdicts follow from   *)
(* that.  That a session in flight is never stranded is proved for one     *)
(* process: with two it is false.                                          *)
(***************************************************************************)
EXTENDS ReportLifecycleProofs

USE LifecycleAssumption, SentinelAssumption

-----------------------------------------------------------------------------
(* What a step does to the rows and the results *)

\* How the row of session s may change, and what is known when it does.
RowMoves(s) ==
  \/ db'[s] = db[s]
  \/ /\ db[s].leased
     /\ db'[s].version = db[s].version + 1
     /\ \/ db'[s].state = "READY" /\ ~db'[s].leased
        \/ db'[s].state = "COLLECTING" /\ db'[s].leased
  \/ db[s].state = "READY" /\ NextState(s, "ASSEMBLING")
  \/ db[s].state = "ASSEMBLING" /\ NextState(s, "VALIDATING")
  \/ /\ db[s].state = "VALIDATING" /\ NextState(s, "REPAIRING")
     /\ journal.phase = "validation_failed"
  \/ /\ db[s].state = "VALIDATING" /\ NextState(s, "COMPLETE")
     /\ \E k \in Keys : Own(s, k) /\ ResultStored(s, k, "complete", Doc(s))
  \/ /\ NextState(s, "FAILED")
     /\ \/ db[s].state = "REPAIRING"
        \/ /\ db[s].state # "FAILED" /\ journal.phase = "terminal_failure_pending"
           /\ \E k \in Keys : Own(s, k) /\ Open(s, k) /\ ~Open(s, k)'
  \/ /\ db[s].state = "REPAIRING" /\ ~db[s].leased
     /\ db'[s].state = "COLLECTING" /\ db'[s].leased
     /\ db'[s].version = db[s].version + 1

\* A result that is stored is never replaced.
ResultsStay ==
  \A s \in Sessions, k \in Keys : ~Open(s, k) => verdict'[s][k] = verdict[s][k]

Moves == (\A s \in Sessions : RowMoves(s)) /\ ResultsStay

\* While target.json stays as it was, a finalize fails only in the last check
\* of the swap, or in routing.
Unmoved ==
  changes = 0 =>
    /\ target = "bound"
    /\ \A s \in Sessions : db[s].leased => db[s].state = "COLLECTING"
    /\ \A p \in Procs : At(p, "terminal") => journal.phase = "target_validation_pending"
    /\ journal # Absent =>
         /\ journal.phase # "target_binding_failed"
         /\ journal.phase = "terminal_failure_pending" /\ Open(journal.session, journal.key) =>
              db[journal.session].state = "VALIDATING"

\* With one process, a session in flight has a journal that goes on with it.
InFlight(s) == db[s].state \in {"ASSEMBLING", "VALIDATING", "REPAIRING"}

Carried ==
  /\ \A s \in Sessions : InFlight(s) => journal # Absent /\ journal.session = s
  /\ journal # Absent /\ InFlight(journal.session) =>
       /\ Open(journal.session, journal.key)
       /\ journal.phase = "begin_pending" =>
            Stands(journal.session, journal.key, "ASSEMBLING", 1)
       /\ journal.phase # "target_binding_failed"
       /\ journal.phase = "validation_failed" => db[journal.session].state # "ASSEMBLING"
  /\ \A p \in Procs :
       /\ proc[p].pc \in {"tidy", "drop_journal", "finish"} => ~InFlight(Session(p))
       /\ At(p, "route") =>
            /\ OwnsJournal(p) /\ journal.phase = "validation_failed"
            /\ db[Session(p)].state \notin {"ASSEMBLING", "VALIDATING"}

\* Steps that leave the rows and the results alone.
LEMMA SameRows ==
  ASSUME UNCHANGED <<db, verdict>>
  PROVE Moves
  BY DEF Moves, RowMoves, ResultsStay

\* Steps that give one row another state and store no result.
LEMMA OneRow ==
  ASSUME IInv, NEW s \in Sessions, NEW from \in States, NEW next \in States,
         db[s].state = from,
         \/ from = "READY" /\ next = "ASSEMBLING"
         \/ from = "ASSEMBLING" /\ next = "VALIDATING"
         \/ from = "VALIDATING" /\ next = "REPAIRING" /\ journal.phase = "validation_failed",
         SetState(s, next), UNCHANGED verdict
  PROVE Moves
<1>1. NextState(s, next)
  BY StateIs DEF IInv, TypeOK
<1>2. \A t \in Sessions : t # s => db'[t] = db[t]
  BY <1>1 DEF NextState
<1> QED BY <1>1, <1>2 DEF Moves, RowMoves, ResultsStay

\* _begin.
LEMMA BeginMoves ==
  ASSUME IInv, NEW p \in Procs, Begin(p)
  PROVE Moves
<1>1. Session(p) \in Sessions /\ UNCHANGED verdict
  BY CallHas DEF Begin, Resuming, At
<1>2. CASE MayBegin(p) /\ SetState(Session(p), "ASSEMBLING")
  BY <1>1, <1>2, OneRow DEF MayBegin, States
<1>3. CASE UNCHANGED db
  BY <1>1, <1>3, SameRows
<1> QED BY <1>2, <1>3 DEF Begin

\* _transition to VALIDATING.
LEMMA MarkValidatingMoves ==
  ASSUME IInv, NEW p \in Procs, MarkValidating(p)
  PROVE Moves
<1>1. PICK s \in Sessions, k \in Keys : Held(p, "mark", s, k)
  BY OwnerHas DEF MarkValidating, OwnerPcs
<1>2. db[s].state = "ASSEMBLING"
  BY <1>1 DEF Held, Place, Stands
<1>3. SetState(s, "VALIDATING") /\ UNCHANGED verdict
  BY <1>1 DEF Held, MarkValidating
<1> QED BY <1>2, <1>3, OneRow DEF States

\* _validation_failure_result.
LEMMA RejectCandidateMoves ==
  ASSUME IInv, NEW p \in Procs, RejectCandidate(p)
  PROVE Moves
<1>1. PICK s \in Sessions, k \in Keys : Held(p, "reject", s, k)
  BY OwnerHas DEF RejectCandidate, OwnerPcs
<1>2. db[s].state = "VALIDATING" /\ journal.phase = "validation_failed"
  BY <1>1 DEF Held, Place
<1>3. SetState(s, "REPAIRING") /\ UNCHANGED verdict
  BY <1>1 DEF Held, RejectCandidate
<1> QED BY <1>2, <1>3, OneRow DEF States

\* _complete finds an open call of a VALIDATING session, and its rendering in place.
LEMMA CompleteMoves ==
  ASSUME IInv, NEW p \in Procs, Complete(p)
  PROVE Moves
<1>1. PICK s \in Sessions, k \in Keys : Held(p, "complete", s, k)
  BY OwnerHas DEF Complete, OwnerPcs
<1>2. Open(s, k) /\ Own(s, k) /\ canonical = Doc(s) /\ db[s].state = "VALIDATING"
  BY <1>1
     DEF Held, Place, Filed, Placed, Judged, Stands, OwnerPcs, WorkingPcs, EarlyPhases
<1>3. NextState(s, "COMPLETE")
  BY <1>1, <1>2, StateIs DEF Complete, Held, Open, Data, States
<1>4. ResultStored(s, k, "complete", Doc(s))
  BY <1>1, <1>2, VerdictIs DEF Complete, Held, Open, Data
<1>5. ResultsStay
  BY <1>2, <1>4 DEF ResultsStay, ResultStored, Open
<1>6. \A t \in Sessions : t # s => db'[t] = db[t]
  BY <1>3 DEF NextState
<1> QED BY <1>2, <1>3, <1>4, <1>5, <1>6 DEF Moves, RowMoves

\* _terminal_failure.
LEMMA FailMoves ==
  ASSUME IInv, NEW p \in Procs, Fail(p)
  PROVE Moves
<1>1. PICK s \in Sessions, k \in Keys : Held(p, "fail", s, k)
  BY OwnerHas DEF Fail, OwnerPcs
<1>2. Own(s, k) /\ journal.phase = "terminal_failure_pending"
  BY <1>1 DEF Held, Place, OwnerPcs, WorkingPcs
<1>3. CASE ~Open(s, k)
  BY <1>1, <1>3, SameRows DEF Fail, Held, Open
<1>4. CASE Open(s, k)
  <2>1. ResultStored(s, k, "failed", Absent)
    BY <1>1, <1>4, VerdictIs DEF Fail, Held, Open, Data, Reports
  <2>2. ResultsStay
    BY <1>4, <2>1 DEF ResultsStay, ResultStored, Open
  <2>3. UNCHANGED db \/ (db[s].state # "FAILED" /\ NextState(s, "FAILED"))
    BY <1>1, <1>4, StateIs DEF Fail, Held, Open, Data, States
  <2>4. \A t \in Sessions : t # s => db'[t] = db[t]
    BY <2>3 DEF NextState
  <2>5. RowMoves(s)
    <3>1. ~Open(s, k)'
      BY <2>1 DEF ResultStored, Open
    <3> QED BY <1>2, <1>4, <2>3, <3>1 DEF RowMoves
  <2> QED BY <2>2, <2>4, <2>5 DEF Moves, RowMoves
<1> QED BY <1>3, <1>4

\* route_repair_diagnostics.
LEMMA RouteMoves ==
  ASSUME IInv, NEW p \in Procs, NEW mapped \in BOOLEAN, Route(p, mapped)
  PROVE Moves
<1>1. PICK s \in Sessions, k \in Keys : s = Session(p) /\ k = proc[p].key
  BY CallHas DEF Route, At
<1>2. CASE ~Open(s, k)
  BY <1>1, <1>2, SameRows DEF Route, Open
<1>3. CASE Open(s, k)
  <2>1. UNCHANGED verdict
        \/ ResultStored(s, k, "failed", Absent) \/ ResultStored(s, k, "lease_issued", Absent)
    BY <1>1, VerdictIs DEF Route, RouteVerdict, IInv, TypeOK, Reports
  <2>2. ResultsStay
    BY <1>3, <2>1 DEF ResultsStay, ResultStored, Open
  <2>3. CASE UNCHANGED db
    BY <2>2, <2>3 DEF Moves, RowMoves
  <2>4. CASE db[s].state = "REPAIRING" /\ SetState(s, "FAILED")
    <3>1. NextState(s, "FAILED")
      BY <2>4, StateIs DEF IInv, TypeOK, States
    <3>2. \A t \in Sessions : t # s => db'[t] = db[t]
      BY <3>1 DEF NextState
    <3> QED BY <2>2, <2>4, <3>1, <3>2 DEF Moves, RowMoves
  <2>5. CASE /\ db[s].state = "REPAIRING" /\ ~db[s].leased
             /\ db[s].repairs < MaxRepairRounds /\ SetRow(s, Reopened(db[s]))
    <3>1. db[s] \in Rows /\ db[s].repairs + 1 \in 0 .. MaxRepairRounds
      BY <2>5 DEF IInv, TypeOK, Rows
    <3>2. /\ Reopened(db[s]).state = "COLLECTING" /\ Reopened(db[s]).leased
          /\ Reopened(db[s]).version = db[s].version + 1
      BY <3>1, ReopenedIs
    <3>3. /\ \A t \in Sessions : t # s => db'[t] = db[t]
          /\ db'[s].state = "COLLECTING" /\ db'[s].leased
          /\ db'[s].version = db[s].version + 1
      BY <2>5, <3>2 DEF SetRow, IInv, TypeOK
    <3> QED BY <2>2, <2>5, <3>3 DEF Moves, RowMoves
  <2> QED BY <1>1, <2>3, <2>4, <2>5 DEF Route, IInv, TypeOK, Rows
<1> QED BY <1>2, <1>3

\* An accepted chunk.
LEMMA SubmitMoves ==
  ASSUME IInv, NEW s \in Sessions, Submit(s)
  PROVE Moves
<1>1. PICK complete \in BOOLEAN : db' = [db EXCEPT ![s] = Answered(db[s], complete)]
  BY DEF Submit, SetRow
<1>2. /\ Answered(db[s], complete).state = IF complete THEN "READY" ELSE "COLLECTING"
      /\ Answered(db[s], complete).leased <=> ~complete
      /\ Answered(db[s], complete).version = db[s].version + 1
  BY AnsweredIs DEF IInv, TypeOK
<1>3. /\ \A t \in Sessions : t # s => db'[t] = db[t]
      /\ \/ db'[s].state = "READY" /\ ~db'[s].leased
         \/ db'[s].state = "COLLECTING" /\ db'[s].leased
      /\ db'[s].version = db[s].version + 1
  BY <1>1, <1>2 DEF IInv, TypeOK
<1>4. ResultsStay
  BY DEF Submit, ResultsStay
<1> QED BY <1>3, <1>4 DEF Submit, Moves, RowMoves

\* Every step moves each row in one of these ways and replaces no result.
LEMMA EveryStepMoves == IInv /\ [Next]_vars => Moves
<1> SUFFICES ASSUME IInv, [Next]_vars PROVE Moves
  OBVIOUS
<1>1. ASSUME NEW p \in Procs, Step(p) PROVE Moves
  <2>1. CASE \/ Begin(p) \/ MarkValidating(p) \/ RejectCandidate(p) \/ Complete(p) \/ Fail(p)
             \/ \E mapped \in BOOLEAN : Route(p, mapped)
    BY <2>1, BeginMoves, MarkValidatingMoves, RejectCandidateMoves, CompleteMoves,
       FailMoves,
       RouteMoves
  <2>2. CASE UNCHANGED <<db, verdict>>
    BY <2>2, SameRows
  <2> QED
    BY <1>1, <2>1, <2>2
       DEF Step, Acquire, Lookup, CheckJournal, Begun, RenderRaises, WriteCandidate,
           Rendered, LoadRendered, Validate, DiscardCandidate, LoadRejected, Backup,
           BackedUp, Promote, Promoted, TargetGuard, UnsupportedPhase, ResumeTerminal,
           Tidy, DropJournal, Terminal, Rollback, RolledBack, FinishRouting
<1>2. ASSUME NEW s \in Sessions, Submit(s) PROVE Moves
  BY <1>2, SubmitMoves
<1>3. CASE UNCHANGED <<db, verdict>>
  BY <1>3, SameRows
<1> QED
  BY <1>1, <1>2, <1>3
     DEF Next, ChangeTarget, Crash, CallAny, Repeat, Call, vars

-----------------------------------------------------------------------------
(* Safety *)

\* A finished journal or none: the user finds what was promised.
LEMMA RestsPublished == IInv => AtRestPublished
  BY DEF IInv, AtRest, AtRestPublished

\* In whatever phase the journal is, the promised report is in place or backed up.
LEMMA PromiseSurvives == IInv => PromisedReportSurvives
<1> SUFFICES ASSUME IInv, published # Absent
             PROVE published = canonical \/ \E s \in Sessions : published = previous[s]
  BY DEF PromisedReportSurvives
<1>1. CASE journal = Absent
  BY <1>1 DEF IInv, AtRest
<1>2. CASE journal # Absent
  <2>1. PICK s \in Sessions, k \in Keys : s = journal.session /\ k = journal.key
    BY <1>2 DEF IInv, TypeOK, Journals
  <2>2. Filed(s, k) /\ Judged(s, k) /\ journal.phase \in Phases
    BY <1>2, <2>1 DEF IInv, JournalHolds, TypeOK, Journals
  <2> QED
    BY <2>2 DEF Filed, Judged, Settled, EarlyPhases, Phases
<1> QED BY <1>1, <1>2

\* A row becomes COMPLETE with its rendering promised, and its document stays.
LEMMA RenderedStep ==
  ASSUME IInv, Moves, CompleteMeansRendered
  PROVE CompleteMeansRendered'
<1> SUFFICES ASSUME NEW s \in Sessions, db'[s].state = "COMPLETE"
             PROVE \E k \in Keys :
                     /\ verdict'[s][k] # Absent
                     /\ verdict'[s][k].status = "complete"
                     /\ verdict'[s][k].artifact = Rendering(s, db'[s].doc)
  BY DEF CompleteMeansRendered
<1>1. \/ db'[s] = db[s]
      \/ NextState(s, "COMPLETE") /\ \E k \in Keys : ResultStored(s, k, "complete", Doc(s))
  BY DEF Moves, RowMoves, NextState
<1>2. CASE db'[s] = db[s]
  BY <1>2 DEF CompleteMeansRendered, Moves, ResultsStay, Open
<1>3. CASE NextState(s, "COMPLETE") /\ \E k \in Keys : ResultStored(s, k, "complete", Doc(s))
  BY <1>3 DEF NextState, ResultStored, Doc
<1> QED BY <1>1, <1>2, <1>3

\* No session starts COMPLETE.
LEMMA InitRendered == Init => CompleteMeansRendered
  BY DEF Init, NewSession, CompleteMeansRendered

\* Every variable keeps its type, and exactly the process past the lock holds it.
THEOREM TypeCorrect == Spec => []TypeOK
<1>1. IInv => TypeOK
  BY DEF IInv
<1> QED BY Invariance, <1>1, PTL

\* When no finalize is pending the canonical report is the promised one and no
\* temporary file is left.
THEOREM AtRestPublishedHolds == Spec => []AtRestPublished
  BY Invariance, RestsPublished, PTL

\* The report the last completed finalize promised is never lost, in no state of any
\* number of processes and wherever they crash.
THEOREM PromisedReportSurvivesHolds == Spec => []PromisedReportSurvives
  BY Invariance, PromiseSurvives, PTL

\* A COMPLETE session has a stored result whose artifact is the rendering of the
\* document it holds.
THEOREM CompleteMeansRenderedHolds == Spec => []CompleteMeansRendered
<1>1. IInv /\ CompleteMeansRendered /\ [Next]_vars => CompleteMeansRendered'
  BY EveryStepMoves, RenderedStep
<1> QED BY Invariance, InitRendered, <1>1, PTL DEF Spec

-----------------------------------------------------------------------------
(* The rows follow the protocol *)

\* The rows start where the protocol starts.
LEMMA RowsStart == Init => \A s \in Sessions : Protocol(s)!Init
<1> SUFFICES ASSUME Init, NEW s \in Sessions PROVE Protocol(s)!Init
  OBVIOUS
<1>1. db[s] = NewSession("COLLECTING") \/ db[s] = NewSession("READY")
  BY DEF Init
<1>2. db[s].version = 0 /\ (db[s].leased <=> db[s].state = "COLLECTING")
      /\ db[s].state \in {"COLLECTING", "READY"}
  BY <1>1, NewSessionIs
<1> QED BY <1>2 DEF Protocol!Init, Protocol!Collecting, Protocol!Collected

\* Each way a row moves is a move of the protocol.
LEMMA RowsFollow ==
  ASSUME IInv, Moves, NEW s \in Sessions
  PROVE [Protocol(s)!Next]_(Protocol(s)!vars)
<1>1. db[s].state # "NONE" /\ db[s].state \in States
  BY DEF IInv, TypeOK, Rows, States
<1> QED
  BY <1>1
     DEF Moves, RowMoves, NextState, Protocol!Next, Protocol!vars, Protocol!Collect,
         Protocol!Collecting, Protocol!Collected, Protocol!Move, Protocol!Begin,
         Protocol!Render, Protocol!Reject, Protocol!Complete, Protocol!Fail,
         Protocol!Reopen

\* The rows of every session implement SessionProtocol: the lifecycle, with its
\* crashes and races, moves no session in a way the protocol does not have.
THEOREM SessionsFollowProtocolHolds == Spec => SessionsFollowProtocol
<1>1. IInv /\ [Next]_vars => \A s \in Sessions : [Protocol(s)!Next]_(Protocol(s)!vars)
  BY EveryStepMoves, RowsFollow
<1>2. IInv /\ [Next]_vars =>
        [\A s \in Sessions : [Protocol(s)!Next]_(Protocol(s)!vars)]_vars
  BY <1>1
<1> QED BY Invariance, RowsStart, <1>2, PTL DEF Spec, SessionsFollowProtocol

-----------------------------------------------------------------------------
(* Verdicts stand while the target does *)

\* What a step of process p may do to the journal.
JournalMoves(p) ==
  \/ UNCHANGED journal
  \/ journal' = Absent
  \/ /\ journal = Absent
     /\ \/ journal'.phase = "begin_pending"
        \/ journal'.phase = "target_binding_failed" /\ target = "changed"
  \/ /\ journal # Absent
     /\ journal'.session = journal.session /\ journal'.key = journal.key
     /\ \/ journal'.phase \notin {"target_binding_failed", "terminal_failure_pending"}
        \/ Terminal(p) /\ journal'.phase = "terminal_failure_pending"

\* A journal is opened, moved to a phase other than the two of failure, moved to
\* terminal_failure_pending by Terminal, or removed; by the holder of the lock.
LEMMA JournalStep ==
  ASSUME IInv, NEW p \in Procs, Step(p)
  PROVE JournalMoves(p) /\ (UNCHANGED journal \/ proc[p].pc \in LockedPcs)
<1>1. CASE CheckJournal(p)
  <2>1. UNCHANGED journal
        \/ /\ journal = Absent
           /\ \/ OpenJournal(p, "begin_pending")
              \/ OpenJournal(p, "target_binding_failed") /\ target = "changed"
    BY <1>1 DEF CheckJournal
  <2>2. proc[p].pc \in LockedPcs
    BY <1>1 DEF CheckJournal, At, LockedPcs
  <2> QED BY <2>1, <2>2 DEF OpenJournal, JournalRow, JournalMoves
<1>2. CASE \/ Begun(p) \/ Rendered(p) \/ Validate(p)
            \/ BackedUp(p) \/ Promoted(p) \/ Terminal(p)
  <2>1. proc[p].pc \in LockedPcs /\ proc[p].pc \in OwnerPcs
    BY <1>2
       DEF Begun, Rendered, Validate, BackedUp, Promoted, Terminal, At, LockedPcs, OwnerPcs
  <2>2. journal # Absent /\ journal \in Journals
    <3>1. Place(proc[p].pc, Session(p), proc[p].key)
      BY <2>1, CallHas DEF OwnerPcs
    <3> QED BY <2>1, <3>1 DEF Place, Own, IInv, TypeOK
  <2>3. CASE Terminal(p)
    <3>1. JournalPhase(p, "terminal_failure_pending")
      BY <2>3 DEF Terminal
    <3> QED BY <2>1, <2>2, <2>3, <3>1, PhaseIs DEF Phases, NextPhase, JournalMoves
  <2>4. ASSUME NEW phase \in Phases \ {"target_binding_failed", "terminal_failure_pending"},
               JournalPhase(p, phase)
        PROVE JournalMoves(p)
    BY <2>2, <2>4, PhaseIs DEF NextPhase, JournalMoves
  <2> QED
    BY <1>2, <2>1, <2>3, <2>4 DEF Begun, Rendered, Validate, BackedUp, Promoted, Phases
<1>3. CASE DropJournal(p)
  BY <1>3 DEF DropJournal, JournalMoves, At, LockedPcs
<1>4. CASE UNCHANGED journal
  BY <1>4 DEF JournalMoves
<1> QED
  BY <1>1, <1>2, <1>3, <1>4
     DEF Step, Acquire, Lookup, Begin, RenderRaises, WriteCandidate, LoadRendered,
         MarkValidating, DiscardCandidate, LoadRejected, RejectCandidate, Backup, Promote,
         TargetGuard, Complete, UnsupportedPhase, ResumeTerminal, Tidy, Rollback,
         RolledBack, Fail, Route, FinishRouting

\* Who comes to a terminal failure, and from where.
LEMMA ToTerminal ==
  ASSUME IInv, NEW p \in Procs, Step(p)
  PROVE /\ \A q \in Procs : q # p => proc'[q] = proc[q]
        /\ proc'[p].pc = "terminal" =>
             \/ target = "changed"
             \/ UNCHANGED journal /\ journal.phase = "target_validation_pending"
<1>1. \A q \in Procs : q # p => proc'[q] = proc[q]
  BY DEF IInv, TypeOK, Goto, Return, Step, Acquire, Lookup, CheckJournal, Begin, Begun,
         RenderRaises, WriteCandidate, Rendered, LoadRendered, MarkValidating, Validate,
         DiscardCandidate, LoadRejected, RejectCandidate, Backup, BackedUp, Promote, Promoted, TargetGuard, Complete,
         UnsupportedPhase, ResumeTerminal, Tidy, DropJournal, Terminal, Rollback,
         RolledBack, Fail, Route, FinishRouting
<1>2. ASSUME proc'[p].pc = "terminal"
      PROVE target = "changed"
            \/ (UNCHANGED journal /\ journal.phase = "target_validation_pending")
  <2>1. CASE CheckJournal(p)
    BY <1>2, <2>1 DEF CheckJournal, Goto, Return, Idle, IInv, TypeOK
  <2>2. CASE TargetGuard(p)
    BY <2>2 DEF TargetGuard, Resuming
  <2>3. CASE Promote(p)
    <3>1. PICK s \in Sessions, k \in Keys : Held(p, "resume", s, k)
      BY <2>3, OwnerHas DEF Promote, OwnerPcs, Resuming
    <3>2. candidate[s] = Absent => canonical # Absent
      <4>1. Doc(s) # Absent
        BY <3>1 DEF Held, Data, Doc, Rendering, Renderings, Rows
      <4>2. \/ candidate[s] = Doc(s) \/ canonical = Doc(s)
        BY <2>3, <3>1 DEF Held, Filed, Promote, Resuming
      <4> QED BY <4>1, <4>2
    <3> QED BY <1>2, <2>3, <3>1, <3>2 DEF Promote, Goto, Held, IInv, TypeOK
  <2>4. CASE Tidy(p)
    BY <1>2, <2>4 DEF Tidy, Goto, At, IInv, TypeOK
  <2>5. CASE Rollback(p)
    BY <1>2, <2>5 DEF Rollback, Goto, At, IInv, TypeOK
  <2> QED
    BY <1>2, <2>1, <2>2, <2>3, <2>4, <2>5
       DEF IInv, TypeOK, Goto, Return, Idle, Step, Acquire, Lookup, Begin, Begun,
           RenderRaises, WriteCandidate, Rendered, LoadRendered, MarkValidating, Validate,
           DiscardCandidate, LoadRejected, RejectCandidate, Backup, BackedUp, Promoted, Complete, UnsupportedPhase,
           ResumeTerminal, DropJournal, Terminal, RolledBack, Fail, Route, FinishRouting
<1> QED BY <1>1, <1>2

\* A finalize that comes to a terminal failure with its target as it was has a
\* promoted report that was not yet checked.
LEMMA TerminalFrom ==
  ASSUME IInv, NEW p \in Procs, Terminal(p), journal.phase = "target_validation_pending"
  PROVE db[journal.session].state = "VALIDATING" /\ UNCHANGED db
<1>1. PICK s \in Sessions, k \in Keys : Held(p, "terminal", s, k)
  BY OwnerHas DEF Terminal, OwnerPcs
<1>2. Open(s, k)
  BY <1>1 DEF Held, Place, Judged, OwnerPcs, WorkingPcs, EarlyPhases
<1> QED BY <1>1, <1>2 DEF Held, Placed, Stands, Own, Terminal

\* What the rows may do in such a step.
LEMMA UnmovedRows ==
  ASSUME IInv, Unmoved, changes = 0, Moves
  PROVE /\ \A s \in Sessions : db'[s].leased => db'[s].state = "COLLECTING"
        /\ \A s \in Sessions, k \in Keys :
             /\ Own(s, k) /\ journal.phase = "terminal_failure_pending" /\ Open(s, k)' =>
                  db'[s].state = "VALIDATING"
<1>1. ASSUME NEW s \in Sessions, db'[s].leased PROVE db'[s].state = "COLLECTING"
  <2>1. RowMoves(s)
    BY DEF Moves
  <2>2. db[s].leased => db[s].state = "COLLECTING"
    BY DEF Unmoved
  <2>3. ASSUME NEW k \in Keys, Own(s, k), Open(s, k),
               journal.phase = "terminal_failure_pending"
        PROVE db[s].state = "VALIDATING"
    BY <2>3 DEF Unmoved, Own
  <2> QED BY <1>1, <2>1, <2>2, <2>3 DEF RowMoves, NextState
<1>2. ASSUME NEW s \in Sessions, NEW k \in Keys, Own(s, k), Open(s, k)',
             journal.phase = "terminal_failure_pending"
      PROVE db'[s].state = "VALIDATING"
  <2>1. journal # Absent /\ journal.session = s /\ journal.key = k
    BY <1>2 DEF Own
  <2>2. Open(s, k) /\ RowMoves(s)
    BY <1>2 DEF Moves, ResultsStay, Open
  <2>3. db[s].state = "VALIDATING" /\ ~db[s].leased
    BY <1>2, <2>1, <2>2 DEF Unmoved
  <2>4. \A l \in Keys : Own(s, l) => ~ (~Open(s, l)')
    BY <1>2, <2>1 DEF Own
  <2>5. \A l \in Keys : Own(s, l) => ~ResultStored(s, l, "complete", Doc(s))
    BY <2>4 DEF ResultStored, Open
  <2> QED BY <1>2, <2>1, <2>2, <2>3, <2>4, <2>5 DEF RowMoves
<1> QED BY <1>1, <1>2

\* A step of a process.
LEMMA UnmovedStep ==
  ASSUME IInv, Unmoved, Moves, NEW p \in Procs, Step(p)
  PROVE Unmoved'
<1> SUFFICES ASSUME changes' = 0
             PROVE /\ target' = "bound"
                   /\ \A s \in Sessions : db'[s].leased => db'[s].state = "COLLECTING"
                   /\ \A q \in Procs :
                        proc'[q].pc = "terminal" =>
                          journal'.phase = "target_validation_pending"
                   /\ journal' # Absent =>
                        /\ journal'.phase # "target_binding_failed"
                        /\ journal'.phase = "terminal_failure_pending"
                             /\ Open(journal.session, journal.key)' =>
                             db'[journal'.session].state = "VALIDATING"
  BY DEF Unmoved, At
<1>1. UNCHANGED <<target, changes>>
  BY DEF Step, Acquire, Lookup, CheckJournal, Begin, Begun, RenderRaises, WriteCandidate,
         Rendered, LoadRendered, MarkValidating, Validate, DiscardCandidate, LoadRejected,
         RejectCandidate, Backup, BackedUp,
         Promote, Promoted, TargetGuard, Complete, UnsupportedPhase, ResumeTerminal, Tidy,
         DropJournal, Terminal, Rollback, RolledBack, Fail, Route, FinishRouting, bounds
<1>2. target = "bound" /\ changes = 0
  BY <1>1 DEF Unmoved
<1>3. JournalMoves(p) /\ (UNCHANGED journal \/ proc[p].pc \in LockedPcs)
  BY JournalStep
<1>4. ASSUME NEW q \in Procs, proc'[q].pc = "terminal"
      PROVE journal'.phase = "target_validation_pending"
  <2>1. CASE q = p
    BY <1>2, <1>4, <2>1, ToTerminal
  <2>2. CASE q # p
    <3>1. proc[q].pc = "terminal" /\ proc[q].pc \in LockedPcs
      BY <1>4, <2>2, ToTerminal DEF LockedPcs
    <3>2. proc[p].pc \notin LockedPcs
      BY <2>2, <3>1 DEF IInv, TypeOK
    <3> QED BY <1>2, <1>3, <3>1, <3>2 DEF Unmoved, At
  <2> QED BY <2>1, <2>2
<1>5. ASSUME journal' # Absent PROVE journal'.phase # "target_binding_failed"
  BY <1>2, <1>3, <1>5 DEF JournalMoves, Unmoved
<1>6. ASSUME journal' # Absent, journal'.phase = "terminal_failure_pending",
             Open(journal.session, journal.key)'
      PROVE db'[journal'.session].state = "VALIDATING"
  <2>1. CASE UNCHANGED journal
    <3>1. PICK s \in Sessions, k \in Keys :
            journal # Absent /\ journal.session = s /\ journal.key = k
      BY <1>6, <2>1 DEF IInv, TypeOK, Journals
    <3>2. Own(s, k) /\ Open(s, k)'
      BY <1>6, <2>1, <3>1 DEF Own, Open
    <3> QED BY <1>2, <1>6, <2>1, <3>1, <3>2, UnmovedRows
  <2>2. CASE Terminal(p) /\ journal'.session = journal.session
    <3>1. journal.phase = "target_validation_pending"
      BY <1>2, <2>2 DEF Unmoved, Terminal
    <3> QED BY <2>2, <3>1, TerminalFrom
  <2> QED BY <1>2, <1>3, <1>6, <2>1, <2>2 DEF JournalMoves
<1> QED BY <1>1, <1>2, <1>4, <1>5, <1>6, UnmovedRows

\* Any step.
LEMMA UnmovedKeeps == IInv /\ Unmoved /\ [Next]_vars => Unmoved'
<1> SUFFICES ASSUME IInv, Unmoved, [Next]_vars PROVE Unmoved'
  OBVIOUS
<1>1. Moves
  BY EveryStepMoves
<1>2. ASSUME NEW p \in Procs, Step(p) PROVE Unmoved'
  BY <1>1, <1>2, UnmovedStep
<1>3. CASE ChangeTarget
  BY <1>3 DEF ChangeTarget, Unmoved, IInv, TypeOK
<1>4. ASSUME UNCHANGED <<journal, target, changes>>,
             \A p \in Procs : proc'[p].pc = "terminal" => proc[p].pc = "terminal"
      PROVE Unmoved'
  <2> SUFFICES ASSUME changes = 0 PROVE Unmoved'
    BY <1>4 DEF Unmoved
  <2>1. ASSUME journal # Absent, journal.phase = "terminal_failure_pending",
               Open(journal.session, journal.key)'
        PROVE db'[journal.session].state = "VALIDATING"
    <3>1. PICK s \in Sessions, k \in Keys : journal.session = s /\ journal.key = k
      BY <2>1 DEF IInv, TypeOK, Journals
    <3>2. Own(s, k) /\ Open(s, k)'
      BY <1>4, <2>1, <3>1 DEF Own, Open
    <3> QED BY <1>1, <2>1, <3>1, <3>2, UnmovedRows
  <2>2. \A s \in Sessions : db'[s].leased => db'[s].state = "COLLECTING"
    BY <1>1, UnmovedRows
  <2> QED BY <1>4, <2>1, <2>2 DEF Unmoved, At
<1>5. ASSUME NEW s \in Sessions, Submit(s) PROVE Unmoved'
  BY <1>4, <1>5 DEF Submit, bounds
<1>6. ASSUME NEW p \in Procs, Crash(p) PROVE Unmoved'
  BY <1>4, <1>6 DEF Crash, Idle, IInv, TypeOK
<1>7. ASSUME NEW p \in Procs, NEW k, NEW s, NEW expected, Call(p, k, s, expected)
      PROVE Unmoved'
  BY <1>4, <1>7 DEF Call, IInv, TypeOK, bounds
<1>8. CASE UNCHANGED vars
  BY <1>4, <1>8 DEF vars, bounds
<1> QED
  BY <1>2, <1>3, <1>5, <1>6, <1>7, <1>8 DEF Next, CallAny, Repeat

\* At the start.
LEMMA InitUnmoved == Init => Unmoved
<1> SUFFICES ASSUME Init PROVE Unmoved
  OBVIOUS
<1>1. \A s \in Sessions : db[s].leased => db[s].state = "COLLECTING"
  BY InitHolds DEF IInv, Leases, Init, NewSession
<1> QED BY <1>1 DEF Init, Unmoved, At, Idle

\* Then neither a COMPLETE nor a FAILED row can move.
LEMMA FinalRows ==
  ASSUME IInv, Unmoved, Moves, changes = 0, NEW s \in Sessions,
         db[s].state \in {"COMPLETE", "FAILED"}
  PROVE db'[s].state = db[s].state
<1>1. RowMoves(s) /\ ~db[s].leased
  BY DEF Moves, Unmoved
<1>2. \A k \in Keys : Own(s, k) /\ Open(s, k) => journal.phase # "terminal_failure_pending"
  BY DEF Unmoved, Own
<1> QED BY <1>1, <1>2 DEF RowMoves

\* As long as target.json was never changed, no step takes a session out of COMPLETE
\* or FAILED.
THEOREM VerdictsStandHolds == Spec => VerdictsStand
<1>1. IInv /\ Unmoved /\ [Next]_vars =>
        [changes = 0 => \A s \in Sessions : db[s].state \in {"COMPLETE", "FAILED"} =>
           db'[s].state = db[s].state]_vars
  BY EveryStepMoves, FinalRows
<1> QED BY Invariance, InitUnmoved, UnmovedKeeps, <1>1, PTL DEF Spec, VerdictsStand

-----------------------------------------------------------------------------
(* One process: a session in flight can always be taken further *)

\* Places to which only a finalize that is over, or in routing, leads.
AfterPcs == {"tidy", "drop_journal", "finish", "route"}

\* What Carried says of the rows and the journal, and of a process at pc.
JournalCarries ==
  /\ \A s \in Sessions : InFlight(s) => journal # Absent /\ journal.session = s
  /\ journal # Absent /\ InFlight(journal.session) =>
       /\ Open(journal.session, journal.key)
       /\ journal.phase = "begin_pending" =>
            Stands(journal.session, journal.key, "ASSEMBLING", 1)
       /\ journal.phase # "target_binding_failed"
       /\ journal.phase = "validation_failed" => db[journal.session].state # "ASSEMBLING"

PlaceCarries(pc, s, k) ==
  /\ pc \in {"tidy", "drop_journal", "finish"} => ~InFlight(s)
  /\ pc = "route" =>
       /\ Own(s, k) /\ journal.phase = "validation_failed"
       /\ db[s].state \notin {"ASSEMBLING", "VALIDATING"}

\* Carried, with the part about one process taken out.
LEMMA CarriedIs ==
  Carried <=>
    /\ JournalCarries
    /\ \A p \in Procs : PlaceCarries(proc[p].pc, Session(p), proc[p].key)
  BY DEF Carried, JournalCarries, PlaceCarries, At, OwnsJournal, Own

\* A step of the only process: what is left to show is where it leads.
LEMMA OnlyStep ==
  ASSUME NEW p \in Procs, Procs = {p}, NEW pc, NEW s, NEW k, proc'[p].pc = pc,
         pc \in AfterPcs => proc'[p].key = k /\ request'[k].session = s,
         JournalCarries', PlaceCarries(pc, s, k)'
  PROVE Carried'
<1>1. PlaceCarries(proc[p].pc, Session(p), proc[p].key)'
  <2>1. CASE pc \in AfterPcs
    BY <2>1 DEF Session
  <2>2. CASE pc \notin AfterPcs
    BY <2>2 DEF PlaceCarries, AfterPcs
  <2> QED BY <2>1, <2>2
<1>2. \A q \in Procs : q = p
  OBVIOUS
<1> QED BY <1>1, <1>2 DEF Carried, JournalCarries, PlaceCarries, At, OwnsJournal, Own

\* A step that leads to a place of which nothing is said.
LEMMA ElsewhereStep ==
  ASSUME NEW p \in Procs, Procs = {p}, proc'[p].pc \notin AfterPcs, JournalCarries'
  PROVE Carried'
<1>1. PICK pc : pc = proc'[p].pc
  OBVIOUS
<1>2. PlaceCarries(pc, p, p)'
  BY <1>1 DEF PlaceCarries, AfterPcs
<1> QED BY <1>1, <1>2, OnlyStep

\* Steps that leave the rows, the results and the journal alone.
LEMMA QuietCarries ==
  ASSUME IInv, Carried, NEW p \in Procs, Procs = {p},
         UNCHANGED <<db, verdict, journal>>,
         \A k \in Keys : request[k] \in Requests => request'[k] = request[k],
         proc'[p].pc \notin AfterPcs \/ UNCHANGED <<proc, request>>
  PROVE Carried'
<1>1. JournalCarries'
  <2>1. JournalCarries
    BY CarriedIs
  <2>2. journal # Absent => request'[journal.key] = request[journal.key]
    BY DEF IInv, Calls, TypeOK, Journals
  <2> QED BY <2>1, <2>2 DEF JournalCarries, InFlight, Open, Stands
<1>2. CASE proc'[p].pc \notin AfterPcs
  BY <1>1, <1>2, ElsewhereStep
<1>3. CASE UNCHANGED <<proc, request>>
  <2>1. PlaceCarries(proc[p].pc, Session(p), proc[p].key)'
    BY <1>3, CarriedIs DEF PlaceCarries, Session, InFlight, Own
  <2> QED BY <1>1, <1>3, <2>1, OnlyStep DEF Session
<1> QED BY <1>2, <1>3

\* Steps that move the journal on.
LEMMA PhaseCarries ==
  ASSUME IInv, Carried, NEW p \in Procs, Procs = {p},
         journal \in Journals,
         NEW phase \in Phases \ {"begin_pending", "target_binding_failed"},
         NEW pc, JournalPhase(p, phase), proc'[p].pc = pc, pc \notin AfterPcs,
         UNCHANGED <<db, verdict>>,
         phase = "validation_failed" => db[journal.session].state # "ASSEMBLING"
  PROVE Carried'
<1>1. NextPhase(phase)
  BY PhaseIs
<1>2. journal # Absent /\ journal' # Absent
  BY <1>1 DEF NextPhase
<1>3. JournalCarries'
  BY <1>1, <1>2, CarriedIs DEF NextPhase, JournalCarries, InFlight, Open
<1> QED BY <1>3, ElsewhereStep

\* Where a step that goes to pc leaves the process.
LEMMA GoneTo ==
  ASSUME IInv, NEW p \in Procs, NEW pc \in LockedPcs \cup UnlockedPcs, Goto(p, pc)
  PROVE proc'[p].pc = pc /\ proc'[p].key = proc[p].key
  BY GotoIs DEF IInv

\* A journal is opened when no session is in flight.
LEMMA CheckJournalCarries ==
  ASSUME IInv, Carried, NEW p \in Procs, Procs = {p}, CheckJournal(p)
  PROVE Carried'
<1>1. CASE journal = Absent
  <2>1. UNCHANGED <<db, verdict>> /\ proc'[p].pc \notin AfterPcs
    BY GoneTo DEF CheckJournal, Return, Idle, AfterPcs, LockedPcs, IInv, TypeOK
  <2>2. \A s \in Sessions : ~InFlight(s)
    BY <1>1 DEF Carried
  <2>3. journal' # Absent => journal'.session \in Sessions
    BY <1>1, CallHas DEF CheckJournal, OpenJournal, JournalRow, At
  <2>4. JournalCarries'
    BY <2>1, <2>2, <2>3 DEF JournalCarries, InFlight
  <2> QED BY <2>1, <2>4, ElsewhereStep
<1>2. CASE journal # Absent
  <2>1. UNCHANGED <<db, verdict, journal, request>> /\ proc'[p].pc \notin AfterPcs
    BY <1>2, GoneTo DEF CheckJournal, Return, Idle, AfterPcs, LockedPcs, IInv, TypeOK
  <2> QED BY <2>1, QuietCarries
<1> QED BY <1>1, <1>2

\* A call with a stored result has no session in flight.
LEMMA LookupCarries ==
  ASSUME IInv, Carried, NEW p \in Procs, Procs = {p}, Lookup(p)
  PROVE Carried'
<1>1. PICK s \in Sessions, k \in Keys : s = Session(p) /\ k = proc[p].key
  BY CallHas DEF Lookup, At
<1>2. UNCHANGED <<db, verdict, journal, request>>
  BY DEF Lookup
<1>3. CASE Goto(p, "tidy") /\ ~Open(s, k) /\ OwnsJournal(p)
  <2>1. ~InFlight(s)
    BY <1>1, <1>3 DEF Carried, OwnsJournal
  <2>2. JournalCarries'
    BY <1>2, CarriedIs DEF JournalCarries, InFlight, Open, Stands
  <2>3. PlaceCarries("tidy", s, k)'
    BY <1>2, <2>1 DEF PlaceCarries, InFlight
  <2>4. proc'[p].pc = "tidy" /\ proc'[p].key = k
    BY <1>1, <1>3, GoneTo DEF LockedPcs
  <2> QED BY <1>1, <1>2, <2>2, <2>3, <2>4, OnlyStep DEF Session
<1>4. CASE Goto(p, "check") \/ Return(p)
  <2>1. proc'[p].pc \notin AfterPcs
    BY <1>4, GoneTo DEF Return, Idle, AfterPcs, LockedPcs, IInv, TypeOK
  <2> QED BY <1>2, <2>1, QuietCarries
<1> QED BY <1>1, <1>3, <1>4 DEF Lookup, Open

\* A session in flight whose journal is at begin_pending has begun.
LEMMA BeginCarries ==
  ASSUME IInv, Carried, NEW p \in Procs, Procs = {p}, Begin(p)
  PROVE Carried'
<1>1. PICK s \in Sessions, k \in Keys : Held(p, "resume", s, k)
  BY OwnerHas DEF Begin, OwnerPcs, Resuming
<1>2. /\ journal # Absent /\ journal.session = s /\ journal.key = k
      /\ journal.phase = "begin_pending" /\ UNCHANGED <<verdict, journal, request>>
  BY <1>1 DEF Begin, Resuming, Held, Own
<1>3. CASE UNCHANGED db /\ Goto(p, "begun")
  <2>1. proc'[p].pc \notin AfterPcs
    BY <1>3, GoneTo DEF AfterPcs, LockedPcs
  <2> QED BY <1>2, <1>3, <2>1, QuietCarries
<1>4. CASE MayBegin(p) /\ SetState(s, "ASSEMBLING") /\ Goto(p, "begun")
  <2>1. NextState(s, "ASSEMBLING") /\ Stands(s, k, "READY", 0)
    BY <1>1, <1>4, StateIs DEF Held, Data, States, MayBegin, Stands, Expected, Requests
  <2>2. Stands(s, k, "ASSEMBLING", 1)'
    BY <1>1, <1>2, <2>1 DEF Stands, NextState, Held, Data, Rows, Requests
  <2>3. Open(s, k)
    <3>1. ~Open(s, k) => db[s].version >= request[k].expected + 2
      BY <1>1 DEF Held, Place, Passed, OwnerPcs, WorkingPcs
    <3> QED BY <1>1, <2>1, <3>1 DEF Stands, Held, Data, Rows, Requests
  <2>4. \A t \in Sessions : t # s => db'[t] = db[t]
    BY <2>1 DEF NextState
  <2>5. JournalCarries'
    BY <1>2, <2>2, <2>3, <2>4, CarriedIs DEF JournalCarries, InFlight, Open
  <2>6. proc'[p].pc = "begun"
    BY <1>4, GoneTo DEF LockedPcs
  <2>7. PlaceCarries("begun", s, k)'
    BY DEF PlaceCarries
  <2> QED BY <2>5, <2>6, <2>7, OnlyStep DEF AfterPcs
<1>5. CASE ~HasBegun(p) /\ UNCHANGED db /\ Goto(p, "drop_journal")
  <2>1. ~Stands(s, k, "ASSEMBLING", 1)
    BY <1>1, <1>5 DEF Held, HasBegun, Expected, Stands
  <2>2. ~InFlight(s)
    BY <1>2, <2>1 DEF Carried
  <2>3. JournalCarries'
    BY <1>2, <1>5, CarriedIs DEF JournalCarries, InFlight, Open, Stands
  <2>4. proc'[p].pc = "drop_journal" /\ proc'[p].key = k /\ request[k].session = s
    BY <1>1, <1>5, GoneTo DEF Held, LockedPcs
  <2>5. PlaceCarries("drop_journal", s, k)'
    BY <1>5, <2>2 DEF PlaceCarries, InFlight
  <2> QED BY <1>2, <2>3, <2>4, <2>5, OnlyStep
<1> QED BY <1>1, <1>3, <1>4, <1>5 DEF Begin, Held

\* ASSEMBLING to VALIDATING, under the same journal.
LEMMA MarkValidatingCarries ==
  ASSUME IInv, Carried, NEW p \in Procs, Procs = {p}, MarkValidating(p)
  PROVE Carried'
<1>1. PICK s \in Sessions, k \in Keys : Held(p, "mark", s, k)
  BY OwnerHas DEF MarkValidating, OwnerPcs
<1>2. /\ journal # Absent /\ journal.session = s /\ journal.key = k
      /\ journal.phase = "candidate_written" /\ UNCHANGED <<verdict, journal, request>>
  BY <1>1 DEF MarkValidating, Held, Place, Own
<1>3. proc'[p].pc = "validate"
  BY GoneTo DEF MarkValidating, LockedPcs
<1>4. Open(s, k)
  BY <1>1, <1>2 DEF Held, Judged, EarlyPhases
<1>5. NextState(s, "VALIDATING")
  BY <1>1, StateIs DEF MarkValidating, Held, Data, States
<1>6. \A t \in Sessions : t # s => db'[t] = db[t]
  BY <1>5 DEF NextState
<1>7. JournalCarries'
  BY <1>2, <1>4, <1>6, CarriedIs DEF JournalCarries, InFlight, Open
<1>8. PlaceCarries("validate", s, k)'
  BY DEF PlaceCarries
<1> QED BY <1>3, <1>7, <1>8, OnlyStep DEF AfterPcs

\* A session that a repeated call finds rejected already goes to be routed.
LEMMA LoadRejectedCarries ==
  ASSUME IInv, Carried, NEW p \in Procs, Procs = {p}, LoadRejected(p)
  PROVE Carried'
<1>1. PICK s \in Sessions, k \in Keys : Held(p, "resume", s, k)
  BY OwnerHas DEF LoadRejected, OwnerPcs, Resuming
<1>2. /\ journal # Absent /\ journal.session = s /\ Own(s, k) /\ s = Session(p)
      /\ journal.phase = "validation_failed" /\ UNCHANGED <<db, verdict, journal, request>>
  BY <1>1 DEF LoadRejected, Resuming, Held, Own
<1>3. CASE Goto(p, "reject")
  <2>1. proc'[p].pc \notin AfterPcs
    BY <1>3, GoneTo DEF AfterPcs, LockedPcs
  <2> QED BY <1>2, <2>1, QuietCarries
<1>4. CASE db[s].state # "VALIDATING" /\ Goto(p, "route")
  <2>1. /\ proc'[p].pc = "route" /\ proc'[p].key = k /\ request[k].session = s
    BY <1>1, <1>4, GoneTo DEF Held, UnlockedPcs
  <2>2. db[s].state \notin {"ASSEMBLING", "VALIDATING"}
    BY <1>2, <1>4 DEF Carried, InFlight
  <2>3. JournalCarries'
    BY <1>2, CarriedIs DEF JournalCarries, InFlight, Open, Stands
  <2>4. PlaceCarries("route", s, k)'
    BY <1>2, <2>2 DEF PlaceCarries, Own
  <2> QED BY <1>2, <2>1, <2>3, <2>4, OnlyStep
<1> QED BY <1>2, <1>3, <1>4 DEF LoadRejected

\* VALIDATING to REPAIRING, with the process about to route.
LEMMA RejectCandidateCarries ==
  ASSUME IInv, Carried, NEW p \in Procs, Procs = {p}, RejectCandidate(p)
  PROVE Carried'
<1>1. PICK s \in Sessions, k \in Keys : Held(p, "reject", s, k)
  BY OwnerHas DEF RejectCandidate, OwnerPcs
<1>2. /\ journal # Absent /\ journal.session = s /\ journal.key = k /\ Own(s, k)
      /\ journal.phase = "validation_failed" /\ UNCHANGED <<verdict, journal, request>>
  BY <1>1 DEF RejectCandidate, Held, Place, Own
<1>3. /\ proc'[p].pc = "route" /\ proc'[p].key = k /\ request[k].session = s
  BY <1>1, GoneTo DEF RejectCandidate, Held, UnlockedPcs
<1>4. db[s].state = "VALIDATING" /\ NextState(s, "REPAIRING")
  BY <1>1, StateIs DEF RejectCandidate, Held, Place, Data, States
<1>5. \A t \in Sessions : t # s => db'[t] = db[t]
  BY <1>4 DEF NextState
<1>6. InFlight(s) => Open(s, k) /\ db[s].state # "ASSEMBLING"
  BY <1>2 DEF Carried
<1>7. db'[s].state \notin {"ASSEMBLING", "VALIDATING"}
  BY <1>4, <1>6 DEF NextState, InFlight
<1>8. InFlight(s)' => Open(s, k)
  BY <1>4, <1>6 DEF InFlight
<1>9. JournalCarries'
  BY <1>2, <1>5, <1>7, <1>8, CarriedIs DEF JournalCarries, InFlight, Open
<1>10. PlaceCarries("route", s, k)'
  BY <1>2, <1>7 DEF PlaceCarries, Own
<1> QED BY <1>2, <1>3, <1>9, <1>10, OnlyStep

\* COMPLETE is not in flight.
LEMMA CompleteCarries ==
  ASSUME IInv, Carried, NEW p \in Procs, Procs = {p}, Complete(p)
  PROVE Carried'
<1>1. PICK s \in Sessions, k \in Keys : Held(p, "complete", s, k)
  BY OwnerHas DEF Complete, OwnerPcs
<1>2. /\ journal # Absent /\ journal.session = s /\ journal.key = k
      /\ UNCHANGED <<journal, request>>
  BY <1>1 DEF Complete, Held, Own
<1>3. /\ proc'[p].pc = "tidy" /\ proc'[p].key = k /\ request[k].session = s
  BY <1>1, GoneTo DEF Complete, Held, LockedPcs
<1>4. \A t \in Sessions : t # s => db'[t] = db[t]
  BY <1>1, StateIs DEF Complete, Held, Data, States, NextState
<1>5. ~InFlight(s)'
  <2>1. CASE Open(s, k)
    <3>1. db'[s].state = "COMPLETE"
      BY <1>1, <2>1, StateIs DEF Complete, Held, Data, States, NextState, Open
    <3> QED BY <3>1 DEF InFlight
  <2>2. CASE ~Open(s, k)
    <3>1. UNCHANGED db /\ ~InFlight(s)
      BY <1>1, <1>2, <2>2 DEF Complete, Held, Open, Carried
    <3> QED BY <3>1 DEF InFlight
  <2> QED BY <2>1, <2>2
<1>6. JournalCarries'
  BY <1>2, <1>4, <1>5, CarriedIs DEF JournalCarries, InFlight
<1>7. PlaceCarries("tidy", s, k)'
  BY <1>5 DEF PlaceCarries
<1> QED BY <1>2, <1>3, <1>6, <1>7, OnlyStep

\* Nor is FAILED.
LEMMA FailCarries ==
  ASSUME IInv, Carried, NEW p \in Procs, Procs = {p}, Fail(p)
  PROVE Carried'
<1>1. PICK s \in Sessions, k \in Keys : Held(p, "fail", s, k)
  BY OwnerHas DEF Fail, OwnerPcs
<1>2. /\ journal # Absent /\ journal.session = s /\ journal.key = k
      /\ UNCHANGED <<journal, request>>
  BY <1>1 DEF Fail, Held, Own
<1>3. /\ proc'[p].pc = "drop_journal" /\ proc'[p].key = k /\ request[k].session = s
  BY <1>1, GoneTo DEF Fail, Held, LockedPcs
<1>4. \A t \in Sessions : t # s => db'[t] = db[t]
  BY <1>1, StateIs DEF Fail, Held, Data, States, NextState
<1>5. ~InFlight(s)'
  <2>1. CASE Open(s, k)
    <3>1. db'[s].state = "FAILED"
      BY <1>1, <2>1, StateIs DEF Fail, Held, Data, States, NextState, Open
    <3> QED BY <3>1 DEF InFlight
  <2>2. CASE ~Open(s, k)
    <3>1. UNCHANGED db /\ ~InFlight(s)
      BY <1>1, <1>2, <2>2 DEF Fail, Held, Open, Carried
    <3> QED BY <3>1 DEF InFlight
  <2> QED BY <2>1, <2>2
<1>6. JournalCarries'
  BY <1>2, <1>4, <1>5, CarriedIs DEF JournalCarries, InFlight
<1>7. PlaceCarries("drop_journal", s, k)'
  BY <1>5 DEF PlaceCarries
<1> QED BY <1>2, <1>3, <1>6, <1>7, OnlyStep

\* Tidying is for sessions that are not in flight.
LEMMA TidyCarries ==
  ASSUME IInv, Carried, NEW p \in Procs, Procs = {p}, Tidy(p)
  PROVE Carried'
<1>1. CASE UNCHANGED proc
  BY <1>1, QuietCarries DEF Tidy
<1>2. CASE Goto(p, "drop_journal")
  <2>1. PICK s \in Sessions, k \in Keys :
          s = Session(p) /\ k = proc[p].key /\ request[k].session = s
    BY CallHas DEF Tidy, At
  <2>2. UNCHANGED <<db, verdict, journal, request>> /\ ~InFlight(s)
    BY <2>1 DEF Tidy, At, Carried
  <2>3. JournalCarries'
    BY <2>2, CarriedIs DEF JournalCarries, InFlight, Open, Stands
  <2>4. proc'[p].pc = "drop_journal" /\ proc'[p].key = k
    BY <1>2, <2>1, GoneTo DEF LockedPcs
  <2>5. PlaceCarries("drop_journal", s, k)'
    BY <2>2 DEF PlaceCarries, InFlight
  <2> QED BY <2>1, <2>2, <2>3, <2>4, <2>5, OnlyStep
<1> QED BY <1>1, <1>2 DEF Tidy

\* So is the removal of the journal.
LEMMA DropJournalCarries ==
  ASSUME IInv, Carried, NEW p \in Procs, Procs = {p}, DropJournal(p)
  PROVE Carried'
<1>1. PICK s \in Sessions : s = Session(p) /\ Place("drop_journal", s, proc[p].key)
  BY CallHas DEF DropJournal, At
<1>2. journal.session = s /\ ~InFlight(s)
  BY <1>1 DEF Place, Carried, DropJournal, At
<1>3. \A t \in Sessions : ~InFlight(t)
  BY <1>2 DEF Carried
<1>4. journal' = Absent /\ UNCHANGED db /\ proc'[p].pc = "idle"
  BY DEF DropJournal, Return, Idle, IInv, TypeOK
<1>5. JournalCarries'
  BY <1>3, <1>4 DEF JournalCarries, InFlight
<1>6. PlaceCarries("idle", s, s)'
  BY DEF PlaceCarries
<1> QED BY <1>4, <1>5, <1>6, OnlyStep DEF AfterPcs

\* Routing takes a REPAIRING session out of flight.
LEMMA RouteCarries ==
  ASSUME IInv, Carried, NEW p \in Procs, Procs = {p}, NEW mapped \in BOOLEAN, Route(p, mapped)
  PROVE Carried'
<1>1. PICK s \in Sessions, k \in Keys :
        s = Session(p) /\ k = proc[p].key /\ request[k].session = s
  BY CallHas DEF Route, At
<1>2. /\ journal # Absent /\ journal.session = s /\ journal.key = k
      /\ db[s].state \notin {"ASSEMBLING", "VALIDATING"} /\ UNCHANGED <<journal, request>>
  BY <1>1 DEF Route, At, Carried, OwnsJournal
<1>3. proc'[p].pc = "finish" /\ proc'[p].key = k
  BY <1>1, GoneTo DEF Route, UnlockedPcs
<1>4. db[s].leased => db[s].state # "REPAIRING"
  BY DEF IInv, Leases
<1>5. ~Open(s, k) => ~InFlight(s)
  BY <1>2 DEF Carried
<1>6. \/ UNCHANGED db /\ db[s].state # "REPAIRING"
      \/ SetState(s, "FAILED")
      \/ db[s].repairs < MaxRepairRounds /\ SetRow(s, Reopened(db[s]))
  BY <1>1, <1>4, <1>5 DEF Route, Open, InFlight, IInv, TypeOK, Rows
<1>7. /\ \A t \in Sessions : t # s => db'[t] = db[t]
      /\ ~InFlight(s)'
  <2>1. CASE UNCHANGED db /\ db[s].state # "REPAIRING"
    BY <1>2, <2>1 DEF InFlight
  <2>2. CASE SetState(s, "FAILED")
    <3>1. NextState(s, "FAILED")
      BY <2>2, StateIs DEF IInv, TypeOK, States
    <3> QED BY <3>1 DEF NextState, InFlight
  <2>3. CASE db[s].repairs < MaxRepairRounds /\ SetRow(s, Reopened(db[s]))
    <3>1. db[s] \in Rows /\ db[s].repairs + 1 \in 0 .. MaxRepairRounds
      BY <2>3 DEF IInv, TypeOK, Rows
    <3>2. Reopened(db[s]).state = "COLLECTING"
      BY <3>1, ReopenedIs
    <3>3. db' = [db EXCEPT ![s] = Reopened(db[s])]
      BY <2>3 DEF SetRow
    <3> QED BY <3>2, <3>3 DEF InFlight, IInv, TypeOK
  <2> QED BY <1>6, <2>1, <2>2, <2>3
<1>8. JournalCarries'
  BY <1>2, <1>7, CarriedIs DEF JournalCarries, InFlight
<1>9. PlaceCarries("finish", s, k)'
  BY <1>7 DEF PlaceCarries
<1> QED BY <1>1, <1>2, <1>3, <1>8, <1>9, OnlyStep

\* finish_repair_routing, of a session out of flight.
LEMMA FinishRoutingCarries ==
  ASSUME IInv, Carried, NEW p \in Procs, Procs = {p}, FinishRouting(p)
  PROVE Carried'
<1>1. PICK s \in Sessions, k \in Keys :
        s = Session(p) /\ k = proc[p].key /\ request[k].session = s
  BY CallHas DEF FinishRouting, At
<1>2. UNCHANGED <<db, verdict, journal, request>> /\ ~InFlight(s)
  BY <1>1 DEF FinishRouting, At, Carried
<1>3. CASE Goto(p, "tidy")
  <2>1. JournalCarries'
    BY <1>2, CarriedIs DEF JournalCarries, InFlight, Open, Stands
  <2>2. PlaceCarries("tidy", s, k)'
    BY <1>2 DEF PlaceCarries, InFlight
  <2>3. proc'[p].pc = "tidy" /\ proc'[p].key = k
    BY <1>1, <1>3, GoneTo DEF LockedPcs
  <2> QED BY <1>1, <1>2, <2>1, <2>2, <2>3, OnlyStep
<1>4. CASE Return(p)
  <2>1. proc'[p].pc \notin AfterPcs
    BY <1>4 DEF Return, Idle, AfterPcs, IInv, TypeOK
  <2> QED BY <1>2, <2>1, QuietCarries
<1> QED BY <1>3, <1>4 DEF FinishRouting

\* A chunk is for a session that is not in flight, and leaves it so.
LEMMA SubmitCarries ==
  ASSUME IInv, Carried, NEW p \in Procs, Procs = {p}, NEW s \in Sessions, Submit(s)
  PROVE Carried'
<1>1. PICK complete \in BOOLEAN : db' = [db EXCEPT ![s] = Answered(db[s], complete)]
  BY DEF Submit, SetRow
<1>2. Answered(db[s], complete).state = IF complete THEN "READY" ELSE "COLLECTING"
  BY AnsweredIs DEF IInv, TypeOK
<1>3. /\ \A t \in Sessions : t # s => db'[t] = db[t]
      /\ ~InFlight(s)' /\ UNCHANGED <<verdict, journal, proc, request>>
  BY <1>1, <1>2 DEF InFlight, Submit, IInv, TypeOK
<1>4. \A t \in Sessions : InFlight(t)' => InFlight(t) /\ db'[t] = db[t]
  BY <1>3 DEF InFlight
<1>5. JournalCarries'
  <2>1. JournalCarries
    BY CarriedIs
  <2>2. journal # Absent => journal.session \in Sessions
    BY DEF IInv, TypeOK, Journals
  <2> QED BY <1>3, <1>4, <2>1, <2>2 DEF JournalCarries, Open, Stands
<1>6. PlaceCarries(proc[p].pc, Session(p), proc[p].key)'
  <2>1. PlaceCarries(proc[p].pc, Session(p), proc[p].key)
    BY CarriedIs
  <2>2. CASE proc[p].pc = "idle"
    BY <1>3, <2>2 DEF PlaceCarries
  <2>3. CASE proc[p].pc # "idle"
    <3>1. PICK t \in Sessions : t = Session(p) /\ Session(p)' = t
      BY <1>3, <2>3, CallHas DEF Session
    <3>2. db'[t].state \in {"ASSEMBLING", "VALIDATING"} => InFlight(t)'
      BY DEF InFlight
    <3> QED BY <1>3, <1>4, <2>1, <3>1, <3>2 DEF PlaceCarries, Own
  <2> QED BY <2>2, <2>3
<1> QED BY <1>3, <1>5, <1>6, OnlyStep DEF Session

\* The steps that write the journal, and those that write neither it nor a row.
LEMMA ForwardCarries ==
  ASSUME IInv, Carried, NEW p \in Procs, Procs = {p},
         \/ Begun(p) \/ Rendered(p) \/ Validate(p) \/ BackedUp(p) \/ Promoted(p) \/ Terminal(p)
  PROVE Carried'
<1>1. PICK pc \in OwnerPcs : At(p, pc) /\ UNCHANGED <<db, verdict>>
  BY DEF Begun, Rendered, Validate, BackedUp, Promoted, Terminal, At, OwnerPcs
<1>2. PICK s \in Sessions, k \in Keys : Held(p, pc, s, k)
  BY <1>1, OwnerHas
<1>3. journal \in Journals /\ journal.session = s
  BY <1>2 DEF Held, Own
<1>4. Validate(p) => db[s].state = "VALIDATING"
  BY <1>2 DEF Held, Place, Stands, Validate, At
<1>5. ASSUME NEW phase \in Phases \ {"begin_pending", "target_binding_failed"},
             NEW next \in LockedPcs \ AfterPcs, JournalPhase(p, phase), Goto(p, next),
             phase = "validation_failed" => Validate(p)
      PROVE Carried'
  <2>1. proc'[p].pc = next
    BY <1>5, GoneTo
  <2> QED BY <1>1, <1>3, <1>4, <1>5, <2>1, PhaseCarries
<1>6. /\ {"resume", "discard", "rollback"} \subseteq LockedPcs \ AfterPcs
      /\ {"candidate_write_pending", "candidate_written", "swap_pending", "validation_failed",
          "backup_ready", "target_validation_pending", "terminal_failure_pending"}
           \subseteq Phases \ {"begin_pending", "target_binding_failed"}
  BY DEF LockedPcs, AfterPcs, Phases
<1> QED BY <1>5, <1>6 DEF Begun, Rendered, Validate, BackedUp, Promoted, Terminal

\* The steps that write files only or nothing, and a crash.
LEMMA StillCarries ==
  ASSUME IInv, Carried, NEW p \in Procs, Procs = {p},
         \/ Acquire(p) \/ RenderRaises(p) \/ WriteCandidate(p) \/ LoadRendered(p)
         \/ DiscardCandidate(p) \/ Backup(p) \/ Promote(p) \/ TargetGuard(p)
         \/ UnsupportedPhase(p) \/ ResumeTerminal(p) \/ Rollback(p) \/ RolledBack(p)
         \/ Crash(p)
  PROVE Carried'
<1>1. UNCHANGED <<db, verdict, journal, request>>
  BY DEF Acquire, RenderRaises, WriteCandidate, LoadRendered, DiscardCandidate, Backup,
         Promote, TargetGuard, UnsupportedPhase, ResumeTerminal, Rollback, RolledBack, Crash
<1>2. proc'[p].pc \notin AfterPcs \/ UNCHANGED proc
  BY DEF Acquire, RenderRaises, WriteCandidate, LoadRendered, DiscardCandidate, Backup,
         Promote, TargetGuard, UnsupportedPhase, ResumeTerminal, Rollback, RolledBack, Crash,
         Goto, Return, Idle, AfterPcs, IInv, TypeOK
<1> QED BY <1>1, <1>2, QuietCarries

\* Any step.
LEMMA CarriedKeeps ==
  ASSUME NEW p \in Procs, Procs = {p}
  PROVE IInv /\ Carried /\ [Next]_vars => Carried'
<1> SUFFICES ASSUME IInv, Carried, [Next]_vars PROVE Carried'
  OBVIOUS
<1>1. CASE Step(p)
  <2>1. ASSUME NEW mapped \in BOOLEAN, Route(p, mapped) PROVE Carried'
    BY <2>1, RouteCarries
  <2> QED
    BY <1>1, <2>1, StillCarries, ForwardCarries, CheckJournalCarries, LookupCarries,
       BeginCarries, MarkValidatingCarries, LoadRejectedCarries, RejectCandidateCarries,
       CompleteCarries, FailCarries, TidyCarries, DropJournalCarries, FinishRoutingCarries
       DEF Step
<1>2. CASE Crash(p)
  BY <1>2, StillCarries
<1>3. ASSUME NEW s \in Sessions, Submit(s) PROVE Carried'
  BY <1>3, SubmitCarries
<1>4. CASE ChangeTarget \/ UNCHANGED vars
  BY <1>4, QuietCarries DEF ChangeTarget, vars
<1>5. ASSUME NEW k \in Keys, NEW s, NEW expected, Call(p, k, s, expected) PROVE Carried'
  <2>1. proc'[p].pc \notin AfterPcs
    BY <1>5 DEF Call, AfterPcs, IInv, TypeOK
  <2>2. UNCHANGED <<db, verdict, journal>>
    BY <1>5 DEF Call
  <2>3. \A l \in Keys : request[l] \in Requests => request'[l] = request[l]
    BY <1>5 DEF Call, IInv, TypeOK
  <2> QED BY <2>1, <2>2, <2>3, QuietCarries
<1>6. \A q \in Procs : q = p
  OBVIOUS
<1> QED BY <1>1, <1>2, <1>3, <1>4, <1>5, <1>6 DEF Next, CallAny, Repeat

\* At the start.
LEMMA InitCarried == Init => Carried
<1> SUFFICES ASSUME Init PROVE Carried
  OBVIOUS
<1>1. \A s \in Sessions : ~InFlight(s)
  BY NewSessionIs DEF Init, InFlight
<1> QED BY <1>1 DEF Init, Carried, At, Idle

\* The property follows.
LEMMA CarriedRecovers == Carried => InFlightIsRecoverable
  BY DEF Carried, InFlight, InFlightIsRecoverable

\* With one process, however it crashes, a session in flight always has its journal
\* or a process about to route it.  With two this is false: a process can remove
\* the journal another one is routing.
THEOREM InFlightIsRecoverableHolds ==
  ASSUME NEW p \in Procs, Procs = {p}
  PROVE Spec => []InFlightIsRecoverable
<1>1. IInv /\ Carried /\ [Next]_vars => Carried'
  BY CarriedKeeps
<1> QED BY Invariance, InitCarried, CarriedRecovers, <1>1, PTL DEF Spec

=============================================================================
