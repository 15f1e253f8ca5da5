--------------------------- MODULE ReportLifecycle ---------------------------
(***************************************************************************)
(* report_session_finalize: how a complete document becomes the canonical  *)
(* report, from scripts/report_lifecycle.py and the routing of its         *)
(* diagnostics in scripts/report_session_service.py.                       *)
(*                                                                         *)
(* Several processes serve one workspace.  A finalize runs under a file    *)
(* lock, writes a journal before each irreversible step and swaps the      *)
(* report by renames; the session rows change in transactions of their     *)
(* own.  Each action is one such write, or the read that decides on one,   *)
(* so a process can stop between any two.  A stopped process loses its     *)
(* lock, and so does a call that ends in an error of the disk or the       *)
(* database: Crash stands for both.  A later call with the same key goes   *)
(* on from the journal.  Repair routing happens after the lock is released *)
(* and takes it again to remove the journal.                               *)
(***************************************************************************)
EXTENDS Integers, FiniteSets

CONSTANTS
  Procs,            \* tool server processes
  Sessions,         \* report sessions of the workspace
  Keys,             \* idempotency keys of finalize calls
  OldReport,        \* the canonical report before any finalize, if there is one
  Absent,           \* no such file, no journal, no stored result
  Unrenderable,     \* documents, by number, for which the renderer raises
  MaxRepairRounds,
  MaxCrashes, MaxTargetChanges, MaxEdits   \* bounds of the model

ASSUME LifecycleAssumption ==
  /\ MaxRepairRounds \in Nat /\ MaxCrashes \in Nat
  /\ MaxTargetChanges \in Nat /\ MaxEdits \in Nat

ASSUME UnrenderableAssumption == Unrenderable \subseteq Nat

VARIABLES
  db,           \* the session rows
  verdict,      \* finalize_results, by session and key
  journal,      \* finalize-journal.json
  canonical,    \* the report the user reads
  candidate,    \* .candidate-<session>.tmp
  previous,     \* .previous-<session>.tmp
  target,       \* whether target.json still has the hash the sessions started with
  lock,         \* the process that holds finalize.lock, or Absent
  proc,         \* where each process is, and the call it serves
  request,      \* the call each key stands for
  published,    \* history: the report the last completed finalize promised
  crashes, changes

files == <<canonical, candidate, previous>>
bounds == <<crashes, changes>>
vars == <<db, verdict, journal, files, target, lock, proc, request, published, bounds>>

-----------------------------------------------------------------------------
(* Values *)

Rendering(s, d) == [session |-> s, doc |-> d]

NewSession(st) ==
  [state |-> st, version |-> 0, doc |-> 0, leased |-> st = "COLLECTING", repairs |-> 0]

Idle == [pc |-> "idle", key |-> Absent]

Session(p) == request[proc[p].key].session
Expected(p) == request[proc[p].key].expected

OwnsJournal(p) ==
  /\ journal # Absent
  /\ journal.session = Session(p) /\ journal.key = proc[p].key

At(p, pc) == proc[p].pc = pc
Goto(p, pc) == proc' = [proc EXCEPT ![p].pc = pc]

\* Mutant: the lock is not released.
ReturnLocked(p) == proc' = [proc EXCEPT ![p] = Idle] /\ lock' = lock

\* The call returns, with a result or an exception, and the lock is released.
Return(p) == proc' = [proc EXCEPT ![p] = Idle] /\ lock' = Absent

JournalPhase(p, phase) ==
  journal' = [journal EXCEPT !.phase = phase]

JournalRow(p, phase, had) ==
  [session |-> Session(p), key |-> proc[p].key, phase |-> phase, hadCanonical |-> had]

\* Mutant: the journal never says that there was a report before.
OpenBlindJournal(p, phase) == journal' = JournalRow(p, phase, FALSE)

OpenJournal(p, phase) == journal' = JournalRow(p, phase, canonical # Absent)

\* A session's row: after a transition, an answer to its lease, a new lease.
MovedOn(row, next) == [row EXCEPT !.state = next, !.version = @ + 1]
Answered(row, complete) ==
  [row EXCEPT !.state = IF complete THEN "READY" ELSE "COLLECTING",
              !.version = @ + 1, !.doc = @ + 1, !.leased = ~complete]
Reopened(row) ==
  [row EXCEPT !.state = "COLLECTING", !.version = @ + 1, !.doc = @ + 1,
              !.leased = TRUE, !.repairs = @ + 1]

SetRow(s, row) == db' = [db EXCEPT ![s] = row]
SetState(s, next) == SetRow(s, MovedOn(db[s], next))

Resuming(p, phase) == At(p, "resume") /\ journal.phase = phase

-----------------------------------------------------------------------------
Init ==
  /\ db \in [Sessions -> {NewSession("COLLECTING"), NewSession("READY")}]
  /\ verdict = [s \in Sessions |-> [k \in Keys |-> Absent]]
  /\ journal = Absent
  /\ canonical \in {OldReport, Absent}
  /\ candidate = [s \in Sessions |-> Absent]
  /\ previous = [s \in Sessions |-> Absent]
  /\ target = "bound"
  /\ lock = Absent
  /\ proc = [p \in Procs |-> Idle]
  /\ request = [k \in Keys |-> Absent]
  /\ published = canonical
  /\ crashes = 0 /\ changes = 0

-----------------------------------------------------------------------------
(* What goes on around finalize *)

(* A chunk accepted under the session's lease.  submit looks at the lease   *)
(* and the version, never at the state.                                    *)
Submit(s) ==
  /\ db[s].leased
  /\ db[s].doc < MaxEdits
  /\ \E complete \in BOOLEAN : SetRow(s, Answered(db[s], complete))
  /\ UNCHANGED <<verdict, journal, files, target, lock, proc, request, published, bounds>>

(* target.json is edited, or put back as it was. *)
ChangeTarget ==
  /\ changes < MaxTargetChanges
  /\ changes' = changes + 1
  /\ target' = IF target = "bound" THEN "changed" ELSE "bound"
  /\ UNCHANGED <<db, verdict, journal, files, lock, proc, request, published, crashes>>

(* A client calls finalize with a new key, or repeats the call of a key. *)
Call(p, k, s, expected) ==
  /\ At(p, "idle")
  /\ \/ request[k] = Absent
     \/ request[k] = [session |-> s, expected |-> expected]
  /\ request' = [request EXCEPT ![k] = [session |-> s, expected |-> expected]]
  /\ proc' = [proc EXCEPT ![p] = [pc |-> "lock", key |-> k]]
  /\ UNCHANGED <<db, verdict, journal, files, target, lock, published, bounds>>

(* The process stops and the operating system releases its lock; or a write *)
(* fails, and the exception leaves the call and its lock.                   *)
Crash(p) ==
  /\ ~At(p, "idle")
  /\ crashes < MaxCrashes
  /\ crashes' = crashes + 1
  /\ proc' = [proc EXCEPT ![p] = Idle]
  /\ lock' = IF lock = p THEN Absent ELSE lock
  /\ UNCHANGED <<db, verdict, journal, files, target, request, published, changes>>

-----------------------------------------------------------------------------
(* _finalize, up to the journal *)

Acquire(p) ==
  /\ At(p, "lock")
  /\ lock = Absent
  /\ lock' = p
  /\ Goto(p, "lookup")
  /\ UNCHANGED <<db, verdict, journal, files, target, request, published, bounds>>

\* Mutant: what is left of the journal stays.
LookupOnly(p) ==
  /\ At(p, "lookup")
  /\ IF verdict[Session(p)][proc[p].key] = Absent
     THEN Goto(p, "check") /\ UNCHANGED lock
     ELSE Return(p)
  /\ UNCHANGED <<db, verdict, journal, files, target, request, published, bounds>>

\* A key that already has a result gets it again; what is left of its journal
\* is removed.
Lookup(p) ==
  /\ At(p, "lookup")
  /\ IF verdict[Session(p)][proc[p].key] = Absent
     THEN Goto(p, "check") /\ UNCHANGED lock
     ELSE IF OwnsJournal(p) THEN Goto(p, "tidy") /\ UNCHANGED lock
          ELSE Return(p)
  /\ UNCHANGED <<db, verdict, journal, files, target, request, published, bounds>>

\* A journal of another call is left alone, and so is the session.  Otherwise
\* the target is checked, and only then is a journal opened or resumed.
CheckJournal(p) ==
  /\ At(p, "check")
  /\ IF journal # Absent /\ ~OwnsJournal(p)
     THEN Return(p) /\ UNCHANGED journal
     ELSE /\ UNCHANGED lock
          /\ IF target = "changed"
             THEN /\ Goto(p, "terminal")
                  /\ IF journal = Absent THEN OpenJournal(p, "target_binding_failed")
                     ELSE UNCHANGED journal
             ELSE /\ Goto(p, "resume")
                  /\ IF journal = Absent THEN OpenJournal(p, "begin_pending")
                     ELSE UNCHANGED journal
  /\ UNCHANGED <<db, verdict, files, target, request, published, bounds>>

-----------------------------------------------------------------------------
(* _resume, one action per write *)

\* _begin recognises a session this call has already moved on by its version.
\* Mutant: it does not.
NeverBegun(p) == FALSE
HasBegun(p) ==
  /\ db[Session(p)].state = "ASSEMBLING"
  /\ db[Session(p)].version = Expected(p) + 1

\* Mutant: only the version is compared.
MayBeginUnready(p) == db[Session(p)].version = Expected(p)
MayBegin(p) ==
  /\ db[Session(p)].state = "READY"
  /\ db[Session(p)].version = Expected(p)

\* A call that is stale or finds the session unready abandons its journal.
Begin(p) ==
  /\ Resuming(p, "begin_pending")
  /\ \/ HasBegun(p) /\ UNCHANGED db /\ Goto(p, "begun")
     \/ ~HasBegun(p) /\ MayBegin(p)
        /\ SetState(Session(p), "ASSEMBLING") /\ Goto(p, "begun")
     \/ ~HasBegun(p) /\ ~MayBegin(p) /\ UNCHANGED db /\ Goto(p, "drop_journal")
  /\ UNCHANGED <<verdict, journal, files, target, lock, request, published, bounds>>

Begun(p) ==
  /\ At(p, "begun")
  /\ JournalPhase(p, "candidate_write_pending")
  /\ Goto(p, "resume")
  /\ UNCHANGED <<db, verdict, files, target, lock, request, published, bounds>>

\* The renderer raises: the journal stays, and so does the session.
RenderRaises(p) ==
  /\ Resuming(p, "candidate_write_pending")
  /\ db[Session(p)].doc \in Unrenderable
  /\ Return(p)
  /\ UNCHANGED <<db, verdict, journal, files, target, request, published, bounds>>

WriteCandidate(p) ==
  /\ Resuming(p, "candidate_write_pending")
  /\ db[Session(p)].doc \notin Unrenderable
  /\ candidate' = [candidate EXCEPT
       ![Session(p)] = Rendering(Session(p), db[Session(p)].doc)]
  /\ Goto(p, "rendered")
  /\ UNCHANGED <<db, verdict, journal, canonical, previous, target, lock, request, published, bounds>>

Rendered(p) ==
  /\ At(p, "rendered")
  /\ JournalPhase(p, "candidate_written")
  /\ Goto(p, "resume")
  /\ UNCHANGED <<db, verdict, files, target, lock, request, published, bounds>>

\* The state is read in one transaction and changed in another, which does not
\* look at it again.
LoadRendered(p) ==
  /\ Resuming(p, "candidate_written")
  /\ Goto(p, IF db[Session(p)].state = "ASSEMBLING" THEN "mark" ELSE "validate")
  /\ UNCHANGED <<db, verdict, journal, files, target, lock, request, published, bounds>>

MarkValidating(p) ==
  /\ At(p, "mark")
  /\ SetState(Session(p), "VALIDATING")
  /\ Goto(p, "validate")
  /\ UNCHANGED <<verdict, journal, files, target, lock, request, published, bounds>>

\* The validator's answer depends on the text and the repository; either may be.
Validate(p) ==
  /\ At(p, "validate")
  /\ \/ JournalPhase(p, "swap_pending") /\ Goto(p, "resume")
     \/ JournalPhase(p, "validation_failed") /\ Goto(p, "discard")
  /\ UNCHANGED <<db, verdict, files, target, lock, request, published, bounds>>

DiscardCandidate(p) ==
  /\ At(p, "discard")
  /\ candidate' = [candidate EXCEPT ![Session(p)] = Absent]
  /\ Goto(p, "resume")
  /\ UNCHANGED <<db, verdict, journal, canonical, previous, target, lock, request, published, bounds>>

\* _validation_failure_result, again a read and then a transition; finalize
\* returns and the caller routes.
LoadRejected(p) ==
  /\ Resuming(p, "validation_failed")
  /\ IF db[Session(p)].state = "VALIDATING"
     THEN Goto(p, "reject") /\ UNCHANGED lock
     ELSE Goto(p, "route") /\ lock' = Absent
  /\ UNCHANGED <<db, verdict, journal, files, target, request, published, bounds>>

\* Mutant: the journal goes before the diagnostics are routed.
RejectAndForget(p) ==
  /\ At(p, "reject")
  /\ SetState(Session(p), "REPAIRING")
  /\ Goto(p, "route")
  /\ lock' = Absent
  /\ journal' = Absent
  /\ UNCHANGED <<verdict, files, target, request, published, bounds>>

RejectCandidate(p) ==
  /\ At(p, "reject")
  /\ SetState(Session(p), "REPAIRING")
  /\ Goto(p, "route")
  /\ lock' = Absent
  /\ UNCHANGED <<verdict, journal, files, target, request, published, bounds>>

Backup(p) ==
  /\ Resuming(p, "swap_pending")
  /\ IF canonical # Absent /\ previous[Session(p)] = Absent
     THEN /\ previous' = [previous EXCEPT ![Session(p)] = canonical]
          /\ canonical' = Absent
     ELSE UNCHANGED <<canonical, previous>>
  /\ Goto(p, "backed_up")
  /\ UNCHANGED <<db, verdict, journal, candidate, target, lock, request, published, bounds>>

BackedUp(p) ==
  /\ At(p, "backed_up")
  /\ JournalPhase(p, "backup_ready")
  /\ Goto(p, "resume")
  /\ UNCHANGED <<db, verdict, files, target, lock, request, published, bounds>>

Promote(p) ==
  /\ Resuming(p, "backup_ready")
  /\ IF candidate[Session(p)] # Absent
     THEN /\ canonical' = candidate[Session(p)]
          /\ candidate' = [candidate EXCEPT ![Session(p)] = Absent]
          /\ Goto(p, "promoted")
     ELSE /\ Goto(p, IF canonical = Absent THEN "terminal" ELSE "promoted")
          /\ UNCHANGED <<canonical, candidate>>
  /\ UNCHANGED <<db, verdict, journal, previous, target, lock, request, published, bounds>>

Promoted(p) ==
  /\ At(p, "promoted")
  /\ JournalPhase(p, "target_validation_pending")
  /\ Goto(p, "resume")
  /\ UNCHANGED <<db, verdict, files, target, lock, request, published, bounds>>

\* The guard is an external command: it passes, fails or cannot be run.
TargetGuard(p) ==
  /\ Resuming(p, "target_validation_pending")
  /\ Goto(p, "complete") \/ Goto(p, "terminal")
  /\ UNCHANGED <<db, verdict, journal, files, target, lock, request, published, bounds>>

Complete(p) ==
  /\ At(p, "complete")
  /\ IF verdict[Session(p)][proc[p].key] = Absent
     THEN /\ SetState(Session(p), "COMPLETE")
          /\ verdict' = [verdict EXCEPT ![Session(p)][proc[p].key] =
                           [status |-> "complete", artifact |-> canonical]]
          /\ published' = canonical
     ELSE UNCHANGED <<db, verdict, published>>
  /\ Goto(p, "tidy")
  /\ UNCHANGED <<journal, files, target, lock, request, bounds>>

\* A phase _resume does not know raises RuntimeError.
UnsupportedPhase(p) ==
  /\ Resuming(p, "target_binding_failed")
  /\ Return(p)
  /\ UNCHANGED <<db, verdict, journal, files, target, request, published, bounds>>

ResumeTerminal(p) ==
  /\ Resuming(p, "terminal_failure_pending")
  /\ Goto(p, "rollback")
  /\ UNCHANGED <<db, verdict, journal, files, target, lock, request, published, bounds>>

\* The temporary files go in either order, the journal after both.
Tidy(p) ==
  /\ At(p, "tidy")
  /\ \/ /\ candidate[journal.session] # Absent
        /\ candidate' = [candidate EXCEPT ![journal.session] = Absent]
        /\ UNCHANGED <<proc, previous>>
     \/ /\ previous[journal.session] # Absent
        /\ previous' = [previous EXCEPT ![journal.session] = Absent]
        /\ UNCHANGED <<proc, candidate>>
     \/ /\ candidate[journal.session] = Absent /\ previous[journal.session] = Absent
        /\ Goto(p, "drop_journal")
        /\ UNCHANGED <<candidate, previous>>
  /\ UNCHANGED <<db, verdict, journal, canonical, target, lock, request, published, bounds>>

DropJournal(p) ==
  /\ At(p, "drop_journal")
  /\ journal' = Absent
  /\ Return(p)
  /\ UNCHANGED <<db, verdict, files, target, request, published, bounds>>

-----------------------------------------------------------------------------
(* _terminal_failure *)

Terminal(p) ==
  /\ At(p, "terminal")
  /\ JournalPhase(p, "terminal_failure_pending")
  /\ Goto(p, "rollback")
  /\ UNCHANGED <<db, verdict, files, target, lock, request, published, bounds>>

Rollback(p) ==
  /\ At(p, "rollback")
  /\ \/ /\ previous[Session(p)] # Absent /\ canonical # Absent
        /\ canonical' = Absent
        /\ UNCHANGED <<previous, proc>>
     \/ /\ previous[Session(p)] # Absent /\ canonical = Absent
        /\ canonical' = previous[Session(p)]
        /\ previous' = [previous EXCEPT ![Session(p)] = Absent]
        /\ Goto(p, "rolled_back")
     \/ /\ previous[Session(p)] = Absent
        /\ canonical' = IF journal.hadCanonical THEN canonical ELSE Absent
        /\ Goto(p, "rolled_back")
        /\ UNCHANGED previous
  /\ UNCHANGED <<db, verdict, journal, candidate, target, lock, request, published, bounds>>

\* Mutant: the candidate is left behind.
RolledBackOnly(p) ==
  /\ At(p, "rolled_back")
  /\ Goto(p, "fail")
  /\ UNCHANGED <<db, verdict, journal, files, target, lock, request, published, bounds>>

RolledBack(p) ==
  /\ At(p, "rolled_back")
  /\ candidate' = [candidate EXCEPT ![Session(p)] = Absent]
  /\ Goto(p, "fail")
  /\ UNCHANGED <<db, verdict, journal, canonical, previous, target, lock, request, published, bounds>>

Fail(p) ==
  /\ At(p, "fail")
  /\ IF verdict[Session(p)][proc[p].key] = Absent
     THEN /\ IF db[Session(p)].state # "FAILED"
             THEN SetState(Session(p), "FAILED") ELSE UNCHANGED db
          /\ verdict' = [verdict EXCEPT ![Session(p)][proc[p].key] =
                           [status |-> "failed", artifact |-> Absent]]
     ELSE UNCHANGED <<db, verdict>>
  /\ Goto(p, "drop_journal")
  /\ UNCHANGED <<journal, files, target, lock, request, published, bounds>>

-----------------------------------------------------------------------------
(* route_repair_diagnostics and finish_repair_routing, outside finalize's lock *)

RouteVerdict(p, status) ==
  verdict' = [verdict EXCEPT ![Session(p)][proc[p].key] =
                [status |-> status, artifact |-> Absent]]

\* `mapped' says whether the diagnostics point at any work unit.
Route(p, mapped) ==
  LET s == Session(p) IN
  /\ At(p, "route")
  /\ IF verdict[s][proc[p].key] # Absent THEN UNCHANGED <<db, verdict>>
     ELSE IF db[s].leased THEN RouteVerdict(p, "lease_issued") /\ UNCHANGED db
     ELSE IF db[s].state # "REPAIRING" THEN UNCHANGED <<db, verdict>>
     ELSE IF ~mapped \/ db[s].repairs >= MaxRepairRounds
     THEN SetState(s, "FAILED") /\ RouteVerdict(p, "failed")
     ELSE SetRow(s, Reopened(db[s])) /\ RouteVerdict(p, "lease_issued")
  /\ Goto(p, "finish")
  /\ UNCHANGED <<journal, files, target, lock, request, published, bounds>>

\* Mutant: any journal will do.
AnyJournal(p) == journal # Absent
JournalToFinish(p) ==
  /\ journal # Absent
  /\ journal.session = Session(p) /\ journal.phase = "validation_failed"

\* finish_repair_routing looks at the journal's session and phase, not its key;
\* any other journal makes it raise.
FinishRouting(p) ==
  /\ At(p, "finish")
  /\ lock = Absent
  /\ IF JournalToFinish(p)
     THEN lock' = p /\ Goto(p, "tidy")
     ELSE Return(p)
  /\ UNCHANGED <<db, verdict, journal, files, target, request, published, bounds>>

-----------------------------------------------------------------------------
Step(p) ==
  \/ Acquire(p) \/ Lookup(p) \/ CheckJournal(p)
  \/ Begin(p) \/ Begun(p) \/ RenderRaises(p) \/ WriteCandidate(p) \/ Rendered(p)
  \/ LoadRendered(p) \/ MarkValidating(p) \/ Validate(p) \/ DiscardCandidate(p)
  \/ LoadRejected(p) \/ RejectCandidate(p)
  \/ Backup(p) \/ BackedUp(p) \/ Promote(p) \/ Promoted(p) \/ TargetGuard(p)
  \/ Complete(p) \/ UnsupportedPhase(p) \/ ResumeTerminal(p)
  \/ Tidy(p) \/ DropJournal(p)
  \/ Terminal(p) \/ Rollback(p) \/ RolledBack(p) \/ Fail(p)
  \/ \E mapped \in BOOLEAN : Route(p, mapped)
  \/ FinishRouting(p)

\* Clients quote the version they last saw, which may be one behind.
CallAny(p, k) ==
  \E s \in Sessions : \E expected \in {db[s].version, db[s].version - 1} :
     expected >= 0 /\ Call(p, k, s, expected)

Repeat(p, k) ==
  request[k] # Absent /\ Call(p, k, request[k].session, request[k].expected)

Next ==
  \/ \E s \in Sessions : Submit(s)
  \/ ChangeTarget
  \/ \E p \in Procs : Step(p) \/ Crash(p)
  \/ \E p \in Procs, k \in Keys : CallAny(p, k) \/ Repeat(p, k)

Spec == Init /\ [][Next]_vars

-----------------------------------------------------------------------------
States == {"COLLECTING", "READY", "ASSEMBLING", "VALIDATING", "REPAIRING",
           "COMPLETE", "FAILED"}
Rows == [state : States, version : Nat, doc : Nat, leased : BOOLEAN,
         repairs : 0 .. MaxRepairRounds]

Renderings == [session : Sessions, doc : Nat]
Reports == {OldReport, Absent} \cup Renderings
Results == [status : {"complete", "failed", "lease_issued"}, artifact : Reports]

Phases ==
  {"begin_pending", "candidate_write_pending", "candidate_written",
   "validation_failed", "swap_pending", "backup_ready",
   "target_validation_pending", "terminal_failure_pending", "target_binding_failed"}
Journals == [session : Sessions, key : Keys, phase : Phases, hadCanonical : BOOLEAN]
Requests == [session : Sessions, expected : Nat]

ASSUME SentinelAssumption ==
  Absent \notin Procs \cup Keys \cup Renderings \cup Results \cup Journals \cup Requests

UnlockedPcs == {"idle", "lock", "route", "finish"}

LockedPcs ==
  {"lookup", "check", "resume", "begun", "rendered", "mark", "validate", "discard",
   "reject", "backed_up", "promoted", "complete", "tidy", "drop_journal", "terminal",
   "rollback", "rolled_back", "fail"}

\* Every variable keeps its type, and a process past the lock holds it.
TypeOK ==
  /\ db \in [Sessions -> Rows]
  /\ verdict \in [Sessions -> [Keys -> Results \cup {Absent}]]
  /\ journal \in Journals \cup {Absent}
  /\ canonical \in Reports /\ published \in Reports
  /\ candidate \in [Sessions -> Reports] /\ previous \in [Sessions -> Reports]
  /\ target \in {"bound", "changed"}
  /\ lock \in Procs \cup {Absent}
  /\ proc \in [Procs -> [pc : LockedPcs \cup UnlockedPcs, key : Keys \cup {Absent}]]
  /\ request \in [Keys -> Requests \cup {Absent}]
  /\ crashes \in 0 .. MaxCrashes /\ changes \in 0 .. MaxTargetChanges
  /\ \A p \in Procs : lock = p <=> proc[p].pc \in LockedPcs

-----------------------------------------------------------------------------
(* Safety *)

\* Whenever no finalize is pending the user finds exactly the report the last
\* completed finalize promised, or the one from before any, and none of the
\* temporary files is left for a later swap to trip over: the renames and the
\* rollback lose or mix up nothing, whatever step a crash falls on.
AtRestPublished ==
  journal = Absent =>
    /\ canonical = published
    /\ \A s \in Sessions : candidate[s] = Absent /\ previous[s] = Absent

\* While one is pending the promised report is still on disk, in its place or
\* in the backup; it is given up only for a report that has passed everything.
PromisedReportSurvives ==
  published # Absent =>
    published = canonical \/ \E s \in Sessions : published = previous[s]

\* COMPLETE is never claimed for a report other than the one rendered from the
\* document the session holds, and the bytes promised are those.
CompleteMeansRendered ==
  \A s \in Sessions : db[s].state = "COMPLETE" =>
    \E k \in Keys :
      /\ verdict[s][k] # Absent
      /\ verdict[s][k].status = "complete"
      /\ verdict[s][k].artifact = Rendering(s, db[s].doc)

\* A session on its way through finalize can always be taken further: its
\* journal is there for a repeated call, or a process is about to route it.
InFlightIsRecoverable ==
  \A s \in Sessions : db[s].state \in {"ASSEMBLING", "VALIDATING", "REPAIRING"} =>
    \/ journal # Absent /\ journal.session = s
    \/ \E p \in Procs : At(p, "route") /\ Session(p) = s

(* What a step may never do *)

\* A session that has failed stays failed.
FailedIsTerminal ==
  [][\A s \in Sessions : db[s].state = "FAILED" => db'[s].state = "FAILED"]_vars

\* As long as target.json is what it was, COMPLETE and FAILED are final.
VerdictsStand ==
  [][changes = 0 => \A s \in Sessions : db[s].state \in {"COMPLETE", "FAILED"} =>
       db'[s].state = db[s].state]_vars

Protocol(s) ==
  INSTANCE SessionProtocol WITH
    state <- db[s].state, version <- db[s].version, leased <- db[s].leased

\* Whatever processes, crashes and changed targets do to a finalize, the rows
\* of every session move along the protocol.  None of _transition, _complete
\* and _terminal_failure looks at the state it leaves.
SessionsFollowProtocol ==
  /\ \A s \in Sessions : Protocol(s)!Init
  /\ [][\A s \in Sessions : [Protocol(s)!Next]_(Protocol(s)!vars)]_vars

-----------------------------------------------------------------------------
(* Liveness.  A process that serves a call goes on with it unless it stops.  *)
(* Nothing makes a client call: the tool loop is told to sync, not to        *)
(* finalize again, so what follows is about a call that is being served.     *)

FairSpec == Spec /\ \A p \in Procs : WF_vars(Step(p))

Serves(p, n) == crashes = n /\ lock = p /\ OwnsJournal(p)

\* The call ended in an exception that every repeated call meets again: in the one
\* phase _finalize writes and _resume does not know, or at the renderer.
GaveUp(p) ==
  /\ lock # p
  /\ \/ journal.phase = "target_binding_failed"
     \/ /\ journal.phase = "candidate_write_pending"
        /\ db[journal.session].doc \in Unrenderable

\* A call that takes up a journal, its own first one or one that a stopped call left
\* behind in whatever phase, removes it, so that it does not block the workspace:
\* unless it stops as well, or gives up.
JournalsAreSettled ==
  \A p \in Procs, n \in 0 .. MaxCrashes :
    Serves(p, n) ~> journal = Absent \/ GaveUp(p) \/ crashes # n

\* And the session it found in flight, or took into finalize, comes out of it.
FinalizeSettles ==
  \A p \in Procs, n \in 0 .. MaxCrashes, s \in Sessions :
    /\ Serves(p, n) /\ journal.session = s
    /\ db[s].state \in {"ASSEMBLING", "VALIDATING", "REPAIRING"}
    ~> \/ db[s].state \in {"COLLECTING", "READY", "COMPLETE", "FAILED"}
       \/ journal # Absent /\ GaveUp(p)
       \/ crashes # n

=============================================================================
