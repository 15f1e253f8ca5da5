----------------------- MODULE ReportLifecycleProofs -----------------------
(***************************************************************************)
(* The inductive invariant of ReportLifecycle, for every number of         *)
(* processes, sessions, keys, crashes and target changes.                  *)
(*                                                                         *)
(* What a finalize has done can be read from its journal: each phase says  *)
(* where the candidate, the backup and the canonical report are (Filed),   *)
(* where the session is (Placed) and whether a result is stored (Judged);  *)
(* Place adds what a process has done since the journal was last written.  *)
(* A step of the process that holds the lock is checked against that       *)
(* process's place (OwnerStep, HolderStep); a step outside the lock shows  *)
(* that it touches no file and no row that a place speaks of (OutsideStep). *)
(***************************************************************************)
EXTENDS ReportLifecycle, TLAPS

USE LifecycleAssumption, SentinelAssumption

-----------------------------------------------------------------------------
(* The invariant *)

\* Places at which the process has its own journal, and those before the
\* result is stored.
OwnerPcs ==
  {"resume", "begun", "rendered", "mark", "validate", "discard", "reject", "backed_up",
   "promoted", "complete", "terminal", "rollback", "rolled_back", "fail"}
WorkingPcs == OwnerPcs \cup {"check"}

\* Phases in which nothing has happened yet to the report of before.
EarlyPhases ==
  {"begin_pending", "target_binding_failed", "validation_failed", "terminal_failure_pending"}

Data ==
  /\ db \in [Sessions -> Rows]
  /\ verdict \in [Sessions -> [Keys -> Results \cup {Absent}]]
  /\ journal \in Journals \cup {Absent}
  /\ canonical \in Reports /\ published \in Reports
  /\ candidate \in [Sessions -> Reports] /\ previous \in [Sessions -> Reports]

\* What a key stands for is known wherever the key is used.
Calls ==
  /\ \A p \in Procs : ~At(p, "idle") =>
       proc[p].key \in Keys /\ request[proc[p].key] \in Requests
  /\ journal # Absent =>
       request[journal.key] \in Requests /\ request[journal.key].session = journal.session

Leases == \A s \in Sessions :
  /\ db[s].leased => db[s].state \in {"COLLECTING", "FAILED"}
  /\ db[s].state = "COLLECTING" => db[s].leased

AtRest ==
  /\ journal = Absent => canonical = published
  /\ \A s \in Sessions : journal = Absent \/ s # journal.session =>
       candidate[s] = Absent /\ previous[s] = Absent

Settled(s) == canonical = published /\ previous[s] = Absent
Doc(s) == Rendering(s, db[s].doc)
Open(s, k) == verdict[s][k] = Absent
Own(s, k) == journal # Absent /\ journal.session = s /\ journal.key = k
Stands(s, k, st, n) == db[s].state = st /\ db[s].version = request[k].expected + n
Passed(s, k) == db[s].version >= request[k].expected + 2

\* What each phase of the journal of call k on session s says of the files ...
Filed(s, k) ==
  /\ Open(s, k) \/ verdict[s][k].status # "complete" =>
       (journal.hadCanonical <=> published # Absent)
  /\ journal.phase \in {"begin_pending", "target_binding_failed"} =>
       Settled(s) /\ candidate[s] = Absent
  /\ journal.phase \in {"candidate_write_pending", "candidate_written", "validation_failed"} =>
       Settled(s)
  /\ journal.phase = "candidate_write_pending" => candidate[s] \in {Absent, Doc(s)}
  /\ journal.phase \in {"candidate_written", "swap_pending"} => candidate[s] = Doc(s)
  /\ journal.phase = "swap_pending" =>
       Settled(s) \/ (canonical = Absent /\ previous[s] = published)
  /\ journal.phase = "backup_ready" =>
       /\ previous[s] = published
       /\ \/ canonical = Absent /\ candidate[s] = Doc(s)
          \/ canonical = Doc(s) /\ candidate[s] = Absent
  /\ journal.phase = "target_validation_pending" =>
       /\ candidate[s] = Absent
       /\ Open(s, k) => canonical = Doc(s) /\ previous[s] = published
  /\ journal.phase = "terminal_failure_pending" =>
       /\ previous[s] \in {published, Absent}
       /\ previous[s] = Absent /\ published # Absent => canonical = published

\* ... of the session ...
Placed(s, k) ==
  /\ journal.phase = "candidate_write_pending" => Stands(s, k, "ASSEMBLING", 1)
  /\ journal.phase = "candidate_written" =>
       Stands(s, k, "ASSEMBLING", 1) \/ Stands(s, k, "VALIDATING", 2)
  /\ journal.phase \in {"swap_pending", "backup_ready"} => Stands(s, k, "VALIDATING", 2)
  /\ journal.phase = "target_validation_pending" /\ Open(s, k) =>
       Stands(s, k, "VALIDATING", 2)
  /\ journal.phase = "validation_failed" => Passed(s, k)

\* ... and of a result that is stored already.
Judged(s, k) ==
  ~Open(s, k) =>
    IF verdict[s][k].status = "complete"
    THEN journal.phase = "target_validation_pending" /\ canonical = published
    ELSE journal.phase \in EarlyPhases /\ Settled(s)

JournalHolds ==
  journal # Absent =>
    /\ Filed(journal.session, journal.key)
    /\ Placed(journal.session, journal.key)
    /\ Judged(journal.session, journal.key)

\* What a process has done by the place it is at.
Place(pc, s, k) ==
  /\ pc \in OwnerPcs => Own(s, k)
  /\ pc \in WorkingPcs /\ ~Open(s, k) => verdict[s][k].status # "complete" /\ Passed(s, k)
  /\ pc = "begun" => journal.phase = "begin_pending" /\ Stands(s, k, "ASSEMBLING", 1)
  /\ pc = "rendered" => journal.phase = "candidate_write_pending" /\ candidate[s] = Doc(s)
  /\ pc = "mark" => journal.phase = "candidate_written" /\ Stands(s, k, "ASSEMBLING", 1)
  /\ pc = "validate" => journal.phase = "candidate_written" /\ Stands(s, k, "VALIDATING", 2)
  /\ pc = "discard" => journal.phase = "validation_failed"
  /\ pc = "reject" => journal.phase = "validation_failed" /\ db[s].state = "VALIDATING"
  /\ pc = "backed_up" =>
       journal.phase = "swap_pending" /\ canonical = Absent /\ previous[s] = published
  /\ pc = "promoted" =>
       journal.phase = "backup_ready" /\ canonical = Doc(s) /\ candidate[s] = Absent
  /\ pc = "complete" => journal.phase = "target_validation_pending"
  /\ pc \in {"rollback", "rolled_back", "fail"} => journal.phase = "terminal_failure_pending"
  /\ pc \in {"rolled_back", "fail"} => Settled(s)
  /\ pc = "fail" => candidate[s] = Absent
  /\ pc \in {"tidy", "drop_journal"} =>
       journal # Absent /\ journal.session = s /\ canonical = published
  /\ pc = "tidy" => journal.phase \in EarlyPhases \/ ~Open(s, journal.key)
  /\ pc = "drop_journal" => candidate[s] = Absent /\ previous[s] = Absent
  /\ pc \in {"route", "finish"} =>
       /\ Passed(s, k)
       /\ Own(s, k) => journal.phase \in EarlyPhases /\ Settled(s)

Places == \A p \in Procs : ~At(p, "idle") => Place(proc[p].pc, Session(p), proc[p].key)

IInv == TypeOK /\ Calls /\ Leases /\ AtRest /\ JournalHolds /\ Places

-----------------------------------------------------------------------------
(* Lemmas about the steps *)

\* The types of what the journal, the files and the rows hold; the rest of
\* TypeOK is about who is where.
LEMMA DataOfTypes == TypeOK => Data
  BY DEF TypeOK, Data

\* One process goes to another place, with the call it has.
LEMMA GotoIs ==
  ASSUME TypeOK, NEW p \in Procs, NEW pc \in LockedPcs \cup UnlockedPcs, Goto(p, pc)
  PROVE /\ proc' \in [Procs -> [pc : LockedPcs \cup UnlockedPcs, key : Keys \cup {Absent}]]
        /\ proc'[p].pc = pc /\ proc'[p].key = proc[p].key
        /\ \A q \in Procs \ {p} : proc'[q] = proc[q]
  BY DEF TypeOK, Goto

\* The journal is rewritten with another phase, and nothing else in it changes.
NextPhase(phase) ==
  /\ journal' \in Journals /\ journal'.phase = phase
  /\ journal'.session = journal.session /\ journal'.key = journal.key
  /\ journal'.hadCanonical = journal.hadCanonical

\* Writing a phase keeps the rest of the journal.
LEMMA PhaseIs ==
  ASSUME journal \in Journals, NEW p, NEW phase \in Phases, JournalPhase(p, phase)
  PROVE NextPhase(phase)
  BY DEF JournalPhase, Journals, NextPhase

(* Rows are rewritten a few columns at a time. *)

\* Any one column of a row may be replaced by a value of its type.
LEMMA Columns ==
  ASSUME NEW row \in Rows
  PROVE /\ \A x \in States : [row EXCEPT !.state = x] \in Rows
        /\ \A x \in Nat : [row EXCEPT !.version = x] \in Rows
        /\ \A x \in Nat : [row EXCEPT !.doc = x] \in Rows
        /\ \A x \in BOOLEAN : [row EXCEPT !.leased = x] \in Rows
        /\ \A x \in 0 .. MaxRepairRounds : [row EXCEPT !.repairs = x] \in Rows
  BY DEF Rows

\* A transition gives a row: the next state, the next version, the rest as it was.
LEMMA MovedOnIs ==
  ASSUME NEW row \in Rows, NEW st \in States
  PROVE /\ MovedOn(row, st) \in Rows
        /\ MovedOn(row, st).state = st /\ MovedOn(row, st).version = row.version + 1
        /\ MovedOn(row, st).doc = row.doc /\ MovedOn(row, st).leased = row.leased
        /\ MovedOn(row, st).repairs = row.repairs
<1>1. MovedOn(row, st) = [[row EXCEPT !.state = st] EXCEPT !.version = row.version + 1]
  BY Zenon DEF MovedOn
<1>2. MovedOn(row, st) \in Rows
  <2>1. row.version + 1 \in Nat
    BY DEF Rows
  <2>2. [row EXCEPT !.state = st] \in Rows
    BY Columns
  <2> QED BY <1>1, <2>1, <2>2, Columns
<1>3. /\ MovedOn(row, st).state = st /\ MovedOn(row, st).version = row.version + 1
      /\ MovedOn(row, st).doc = row.doc /\ MovedOn(row, st).leased = row.leased
      /\ MovedOn(row, st).repairs = row.repairs
  BY DEF MovedOn, Rows
<1> QED BY <1>2, <1>3

\* An answer leaves the lease with the session exactly when the document is not complete.
LEMMA AnsweredIs ==
  ASSUME NEW row \in Rows, NEW complete \in BOOLEAN
  PROVE /\ Answered(row, complete) \in Rows
        /\ Answered(row, complete).state = IF complete THEN "READY" ELSE "COLLECTING"
        /\ Answered(row, complete).leased <=> ~complete
        /\ Answered(row, complete).version = row.version + 1
<1> DEFINE st == IF complete THEN "READY" ELSE "COLLECTING"
           a == [row EXCEPT !.state = st]
           b == [a EXCEPT !.version = row.version + 1]
           c == [b EXCEPT !.doc = row.doc + 1]
           d == [c EXCEPT !.leased = ~complete]
<1>1. Answered(row, complete) = d
  BY Zenon DEF Answered
<1>2. Answered(row, complete) \in Rows
  <2>1. row.version + 1 \in Nat /\ row.doc + 1 \in Nat /\ st \in States
    BY DEF Rows, States
  <2>2. a \in Rows
    BY <2>1, Columns
  <2>3. b \in Rows
    BY <2>1, <2>2, Columns
  <2>4. c \in Rows
    BY <2>1, <2>3, Columns
  <2>5. \A x \in BOOLEAN : [c EXCEPT !.leased = x] \in Rows
    BY <2>4, Columns
  <2>6. d \in Rows
    <3> HIDE DEF c
    <3> QED BY Zenon, <2>5
  <2> QED BY <1>1, <2>6
<1>3. /\ Answered(row, complete).state = st
      /\ Answered(row, complete).leased <=> ~complete
      /\ Answered(row, complete).version = row.version + 1
  BY DEF Answered, Rows
<1> QED BY <1>2, <1>3

\* A repair round that is still left gives a collecting row with a lease.
LEMMA ReopenedIs ==
  ASSUME NEW row \in Rows, row.repairs + 1 \in 0 .. MaxRepairRounds
  PROVE /\ Reopened(row) \in Rows
        /\ Reopened(row).state = "COLLECTING" /\ Reopened(row).leased
        /\ Reopened(row).version = row.version + 1
<1> DEFINE a == [row EXCEPT !.state = "COLLECTING"]
           b == [a EXCEPT !.version = row.version + 1]
           c == [b EXCEPT !.doc = row.doc + 1]
           d == [c EXCEPT !.leased = TRUE]
           e == [d EXCEPT !.repairs = row.repairs + 1]
<1>1. Reopened(row) = e
  BY Zenon DEF Reopened
<1>2. Reopened(row) \in Rows
  <2>1. row.version + 1 \in Nat /\ row.doc + 1 \in Nat /\ "COLLECTING" \in States
    BY DEF Rows, States
  <2>2. a \in Rows
    BY <2>1, Columns
  <2>3. b \in Rows
    BY <2>1, <2>2, Columns
  <2>4. c \in Rows
    BY <2>1, <2>3, Columns
  <2>5. d \in Rows
    BY <2>4, Columns
  <2>6. e \in Rows
    BY <2>5, Columns
  <2> QED BY <1>1, <2>6
<1>3. /\ Reopened(row).state = "COLLECTING" /\ Reopened(row).leased
      /\ Reopened(row).version = row.version + 1
  BY DEF Reopened, Rows
<1> QED BY <1>2, <1>3

\* The row of session s gets another state and the next version.
NextState(s, next) ==
  /\ db' \in [Sessions -> Rows]
  /\ \A t \in Sessions \ {s} : db'[t] = db[t]
  /\ db'[s].state = next /\ db'[s].version = db[s].version + 1
  /\ db'[s].doc = db[s].doc /\ db'[s].leased = db[s].leased
  /\ db'[s].repairs = db[s].repairs

\* What _transition does to the rows.
LEMMA StateIs ==
  ASSUME db \in [Sessions -> Rows], NEW s \in Sessions, NEW next \in States, SetState(s, next)
  PROVE NextState(s, next)
<1>1. db' = [db EXCEPT ![s] = MovedOn(db[s], next)]
  BY DEF SetState, SetRow
<1>2. /\ MovedOn(db[s], next) \in Rows
      /\ MovedOn(db[s], next).state = next
      /\ MovedOn(db[s], next).version = db[s].version + 1
      /\ MovedOn(db[s], next).doc = db[s].doc
      /\ MovedOn(db[s], next).leased = db[s].leased
      /\ MovedOn(db[s], next).repairs = db[s].repairs
  BY MovedOnIs
<1> QED BY <1>1, <1>2 DEF NextState

\* No session is taken back by that.
LEMMA NoneGoesBack ==
  ASSUME db \in [Sessions -> Rows], NEW s \in Sessions, NEW next, NextState(s, next)
  PROVE \A t \in Sessions : /\ db[t].version \in Nat /\ db'[t].version \in Nat
                            /\ db'[t].version >= db[t].version
<1> SUFFICES ASSUME NEW t \in Sessions
             PROVE /\ db[t].version \in Nat /\ db'[t].version \in Nat
                   /\ db'[t].version >= db[t].version
  OBVIOUS
<1>1. db[t] \in Rows /\ db'[t] \in Rows
  BY DEF NextState
<1>2. db[t].version \in Nat /\ db'[t].version \in Nat
  BY <1>1 DEF Rows
<1>3. CASE t = s
  BY <1>2, <1>3 DEF NextState
<1>4. CASE t # s
  <2>1. db'[t] = db[t]
    BY <1>4 DEF NextState
  <2> QED BY <1>2, <2>1
<1> QED BY <1>2, <1>3, <1>4

\* Call k of session s gets a result; the other calls keep theirs.
ResultStored(s, k, status, artifact) ==
  /\ verdict' \in [Sessions -> [Keys -> Results \cup {Absent}]]
  /\ verdict'[s][k] # Absent
  /\ verdict'[s][k].status = status /\ verdict'[s][k].artifact = artifact
  /\ \A t \in Sessions, l \in Keys : t # s \/ l # k => verdict'[t][l] = verdict[t][l]

\* Storing a result touches one call.
LEMMA VerdictIs ==
  ASSUME verdict \in [Sessions -> [Keys -> Results \cup {Absent}]],
         NEW s \in Sessions, NEW k \in Keys,
         NEW status \in {"complete", "failed", "lease_issued"}, NEW artifact \in Reports,
         verdict' = [verdict EXCEPT ![s][k] = [status |-> status, artifact |-> artifact]]
  PROVE ResultStored(s, k, status, artifact)
<1> DEFINE result == [status |-> status, artifact |-> artifact]
<1>1. result \in Results /\ result # Absent
  BY DEF Results
<1>2. verdict' = [verdict EXCEPT ![s][k] = result]
  OBVIOUS
<1> HIDE DEF result
<1>3. /\ verdict' \in [Sessions -> [Keys -> Results \cup {Absent}]]
      /\ verdict'[s][k] = result
      /\ \A t \in Sessions, l \in Keys : t # s \/ l # k => verdict'[t][l] = verdict[t][l]
  BY <1>1, <1>2
<1> QED BY <1>1, <1>3 DEF result, ResultStored

\* What process p knows at a place where the journal is its own.
Held(p, pc, s, k) ==
  /\ s = Session(p) /\ k = proc[p].key
  /\ request[k] \in Requests /\ request[k].session = s
  /\ journal \in Journals /\ Own(s, k)
  /\ Filed(s, k) /\ Placed(s, k) /\ Judged(s, k)
  /\ At(p, pc) /\ Place(pc, s, k)
  /\ Data /\ Leases

\* At each of its places the process finds its own journal and what that says.
LEMMA OwnerHas ==
  ASSUME IInv, NEW p \in Procs, NEW pc \in OwnerPcs, At(p, pc)
  PROVE \E s \in Sessions, k \in Keys : Held(p, pc, s, k)
<1>1. pc \in LockedPcs /\ pc # "idle"
  BY DEF OwnerPcs, LockedPcs
<1>2. /\ proc[p].key \in Keys /\ request[proc[p].key] \in Requests
      /\ Place(pc, Session(p), proc[p].key)
  BY <1>1 DEF IInv, Calls, Places, At
<1>3. Session(p) \in Sessions
  BY <1>2 DEF Session, Requests
<1>4. Own(Session(p), proc[p].key) /\ journal \in Journals
  BY <1>2 DEF Place, IInv, TypeOK, Own
<1>5. /\ Filed(Session(p), proc[p].key) /\ Placed(Session(p), proc[p].key)
      /\ Judged(Session(p), proc[p].key)
  BY <1>4 DEF IInv, JournalHolds, Own
<1> QED BY <1>1, <1>2, <1>3, <1>4, <1>5, DataOfTypes DEF Session, IInv, Held

\* A step of session s's call k leaves the files of the others alone, takes no
\* session back, and what the call has settled stays settled for whoever is
\* still routing it.
Confined(s, k) ==
  /\ \A t \in Sessions : t # s =>
       candidate'[t] = candidate[t] /\ previous'[t] = previous[t]
  /\ \A t \in Sessions : db'[t].version >= db[t].version
  /\ journal.phase \in EarlyPhases /\ Settled(s) /\ Passed(s, k) =>
       journal'.phase \in EarlyPhases /\ Settled(s)'

\* A step of the process that holds the lock, and keeps it: what is left to show
\* is what it does to the journal, the files and the rows.
LEMMA HolderStep ==
  ASSUME IInv, NEW p \in Procs, proc[p].pc \in LockedPcs,
         NEW pc \in LockedPcs, Goto(p, pc),
         UNCHANGED <<lock, request, target, bounds>>,
         NEW s \in Sessions, s = Session(p), NEW k \in Keys,
         journal \in Journals, Own(s, k),
         journal' \in Journals, Own(s, k)',
         Data', Leases', Filed(s, k)', Placed(s, k)', Judged(s, k)',
         Place(pc, s, proc[p].key)',
         Confined(s, k)
  PROVE IInv'
<1>1. /\ proc' \in [Procs -> [pc : LockedPcs \cup UnlockedPcs, key : Keys \cup {Absent}]]
      /\ proc'[p].pc = pc /\ proc'[p].key = proc[p].key
      /\ \A q \in Procs \ {p} : proc'[q] = proc[q]
  BY GotoIs DEF IInv
<1>2. lock = p /\ \A q \in Procs \ {p} : proc[q].pc \notin LockedPcs
  BY DEF IInv, TypeOK
<1>3. TypeOK'
  BY <1>1, <1>2 DEF IInv, TypeOK, Data, bounds
<1>4. Calls'
  <2>1. p # Absent /\ proc[p].pc # "idle"
    BY DEF LockedPcs
  <2>2. /\ \A q \in Procs : proc'[q].key = proc[q].key
        /\ \A q \in Procs : proc'[q].pc # "idle" => proc[q].pc # "idle"
    BY <1>1, <2>1
  <2> QED BY <2>2 DEF IInv, Calls, At, Own
<1>5. AtRest'
  BY DEF IInv, AtRest, Own, Confined
<1>6. JournalHolds'
  BY DEF JournalHolds, Own
<1>7. Places'
  <2> SUFFICES ASSUME NEW q \in Procs, proc'[q].pc # "idle"
               PROVE Place(proc[q].pc, Session(q), proc[q].key)'
    BY DEF Places, At
  <2>1. CASE q = p
    <3>1. Session(q)' = s
      BY <2>1, <1>1 DEF Session
    <3> QED BY <3>1, <2>1, <1>1
  <2>2. CASE q # p
    <3>1. /\ proc'[q] = proc[q] /\ proc[q].pc \notin LockedPcs /\ Session(q)' = Session(q)
          /\ proc[q].key \in Keys /\ request[proc[q].key] \in Requests
          /\ Place(proc[q].pc, Session(q), proc[q].key)
      BY <2>2, <1>1, <1>2 DEF Session, IInv, Places, Calls, At
    <3>2. Session(q) \in Sessions
      BY <3>1 DEF Session, Requests
    <3>3. CASE proc[q].pc \in {"route", "finish"}
      <4>1. Passed(Session(q), proc[q].key)'
        BY <3>1, <3>2, <3>3 DEF Place, Passed, Data, IInv, TypeOK, Rows, Requests, Confined
      <4>2. ASSUME Own(Session(q), proc[q].key)'
            PROVE journal'.phase \in EarlyPhases /\ Settled(Session(q))'
        <5>1. Session(q) = s /\ proc[q].key = k
          BY <3>1, <4>2 DEF Own
        <5> QED BY <5>1, <3>1, <3>3 DEF Place, Own, Confined
      <4> QED BY <3>1, <3>3, <4>1, <4>2 DEF Place, OwnerPcs, WorkingPcs
    <3>4. CASE proc[q].pc \notin {"route", "finish"}
      BY <3>1, <3>4 DEF Place, OwnerPcs, WorkingPcs, LockedPcs
    <3> QED BY <3>3, <3>4
  <2> QED BY <2>1, <2>2
<1> QED BY <1>3, <1>4, <1>5, <1>6, <1>7 DEF IInv

\* The same for a call that has its own journal, before and after.
LEMMA OwnerStep ==
  ASSUME IInv, NEW p \in Procs, NEW from \in OwnerPcs,
         NEW s \in Sessions, NEW k \in Keys, Held(p, from, s, k),
         NEW pc \in LockedPcs, Goto(p, pc),
         UNCHANGED <<lock, request, target, bounds>>,
         journal' \in Journals, Own(s, k)', Data', Leases',
         Filed(s, k)', Placed(s, k)', Judged(s, k)', Place(pc, s, k)',
         Confined(s, k)
  PROVE IInv'
<1>1. proc[p].pc \in LockedPcs
  BY DEF Held, At, OwnerPcs, LockedPcs
<1>2. s = Session(p) /\ k = proc[p].key /\ journal \in Journals /\ Own(s, k)
  BY DEF Held
<1>3. proc'[p].key = k
  BY <1>2, GotoIs DEF IInv
<1>4. Place(pc, s, proc[p].key)'
  BY <1>3
<1> QED BY <1>1, <1>2, <1>4, HolderStep

-----------------------------------------------------------------------------
(* Every step keeps the invariant: the steps under the journal *)

\* The session is ASSEMBLING before the journal says that a candidate is written.
LEMMA BegunKeeps ==
  ASSUME IInv, NEW p \in Procs, Begun(p)
  PROVE IInv'
<1>1. PICK s \in Sessions, k \in Keys : Held(p, "begun", s, k)
  BY OwnerHas DEF Begun, OwnerPcs
<1>2. NextPhase("candidate_write_pending")
  BY <1>1, PhaseIs DEF Begun, Phases, Held
<1>3. UNCHANGED <<db, verdict, canonical, candidate, previous, published, request>>
  BY DEF Begun, files
<1>4. Data' /\ Leases' /\ Own(s, k)'
  BY <1>1, <1>2, <1>3 DEF Held, NextPhase, Data, Leases, Own
<1>5. Filed(s, k)'
  BY <1>1, <1>2, <1>3 DEF Held, NextPhase, Filed, Place, Settled, Open, Doc
<1>6. Placed(s, k)' /\ Judged(s, k)'
  BY <1>1, <1>2, <1>3
     DEF Held, NextPhase, Data, Rows, Requests, Placed, Judged, Place, Settled, Open,
         Stands, Passed, EarlyPhases, OwnerPcs, WorkingPcs
<1>7. Place("resume", s, k)'
  BY <1>1, <1>2, <1>3, <1>4
     DEF Held, NextPhase, Placed, Place, Settled, Open, Doc, Stands, Passed, OwnerPcs,
         WorkingPcs
<1>8. Confined(s, k)
  BY <1>1, <1>2, <1>3
     DEF Held, NextPhase, Data, Rows, Requests, Place, Settled, Stands, Passed, EarlyPhases,
         Confined
<1> QED
  BY <1>1, <1>2, <1>4, <1>5, <1>6, <1>7, <1>8, OwnerStep
     DEF Begun, OwnerPcs, LockedPcs, NextPhase

\* The candidate is on disk before the journal says so.
LEMMA RenderedKeeps ==
  ASSUME IInv, NEW p \in Procs, Rendered(p)
  PROVE IInv'
<1>1. PICK s \in Sessions, k \in Keys : Held(p, "rendered", s, k)
  BY OwnerHas DEF Rendered, OwnerPcs
<1>2. NextPhase("candidate_written")
  BY <1>1, PhaseIs DEF Rendered, Phases, Held
<1>3. UNCHANGED <<db, verdict, canonical, candidate, previous, published, request>>
  BY DEF Rendered, files
<1>4. Data' /\ Leases' /\ Own(s, k)'
  BY <1>1, <1>2, <1>3 DEF Held, NextPhase, Data, Leases, Own
<1>5. Filed(s, k)'
  BY <1>1, <1>2, <1>3 DEF Held, NextPhase, Filed, Place, Settled, Open, Doc
<1>6. Placed(s, k)' /\ Judged(s, k)'
  BY <1>1, <1>2, <1>3
     DEF Held, NextPhase, Data, Rows, Requests, Placed, Judged, Place, Settled, Open,
         Stands, Passed, EarlyPhases, OwnerPcs, WorkingPcs
<1>7. Place("resume", s, k)'
  BY <1>1, <1>2, <1>3, <1>4
     DEF Held, NextPhase, Placed, Place, Settled, Open, Doc, Stands, Passed, OwnerPcs,
         WorkingPcs
<1>8. Confined(s, k)
  BY <1>1, <1>2, <1>3
     DEF Held, NextPhase, Data, Rows, Requests, Place, Settled, Stands, Passed, EarlyPhases,
         Confined
<1> QED
  BY <1>1, <1>2, <1>4, <1>5, <1>6, <1>7, <1>8, OwnerStep
     DEF Rendered, OwnerPcs, LockedPcs, NextPhase

\* The backup is taken before the journal says so.
LEMMA BackedUpKeeps ==
  ASSUME IInv, NEW p \in Procs, BackedUp(p)
  PROVE IInv'
<1>1. PICK s \in Sessions, k \in Keys : Held(p, "backed_up", s, k)
  BY OwnerHas DEF BackedUp, OwnerPcs
<1>2. NextPhase("backup_ready")
  BY <1>1, PhaseIs DEF BackedUp, Phases, Held
<1>3. UNCHANGED <<db, verdict, canonical, candidate, previous, published, request>>
  BY DEF BackedUp, files
<1>4. Data' /\ Leases' /\ Own(s, k)'
  BY <1>1, <1>2, <1>3 DEF Held, NextPhase, Data, Leases, Own
<1>5. Filed(s, k)'
  BY <1>1, <1>2, <1>3 DEF Held, NextPhase, Filed, Place, Settled, Open, Doc
<1>6. Placed(s, k)' /\ Judged(s, k)'
  BY <1>1, <1>2, <1>3
     DEF Held, NextPhase, Data, Rows, Requests, Placed, Judged, Place, Settled, Open,
         Stands, Passed, EarlyPhases, OwnerPcs, WorkingPcs
<1>7. Place("resume", s, k)'
  BY <1>1, <1>2, <1>3, <1>4
     DEF Held, NextPhase, Placed, Place, Settled, Open, Doc, Stands, Passed, OwnerPcs,
         WorkingPcs
<1>8. Confined(s, k)
  BY <1>1, <1>2, <1>3
     DEF Held, NextPhase, Data, Rows, Requests, Place, Settled, Stands, Passed, EarlyPhases,
         Confined
<1> QED
  BY <1>1, <1>2, <1>4, <1>5, <1>6, <1>7, <1>8, OwnerStep
     DEF BackedUp, OwnerPcs, LockedPcs, NextPhase

\* The report is in its place before the journal says that the target is checked.
LEMMA PromotedKeeps ==
  ASSUME IInv, NEW p \in Procs, Promoted(p)
  PROVE IInv'
<1>1. PICK s \in Sessions, k \in Keys : Held(p, "promoted", s, k)
  BY OwnerHas DEF Promoted, OwnerPcs
<1>2. NextPhase("target_validation_pending")
  BY <1>1, PhaseIs DEF Promoted, Phases, Held
<1>3. UNCHANGED <<db, verdict, canonical, candidate, previous, published, request>>
  BY DEF Promoted, files
<1>4. Data' /\ Leases' /\ Own(s, k)'
  BY <1>1, <1>2, <1>3 DEF Held, NextPhase, Data, Leases, Own
<1>5. Filed(s, k)'
  BY <1>1, <1>2, <1>3 DEF Held, NextPhase, Filed, Place, Settled, Open, Doc
<1>6. Placed(s, k)' /\ Judged(s, k)'
  BY <1>1, <1>2, <1>3
     DEF Held, NextPhase, Data, Rows, Requests, Placed, Judged, Place, Settled, Open,
         Stands, Passed, EarlyPhases, OwnerPcs, WorkingPcs
<1>7. Place("resume", s, k)'
  BY <1>1, <1>2, <1>3, <1>4
     DEF Held, NextPhase, Placed, Place, Settled, Open, Doc, Stands, Passed, OwnerPcs,
         WorkingPcs
<1>8. Confined(s, k)
  BY <1>1, <1>2, <1>3
     DEF Held, NextPhase, Data, Rows, Requests, Place, Settled, Stands, Passed, EarlyPhases,
         Confined
<1> QED
  BY <1>1, <1>2, <1>4, <1>5, <1>6, <1>7, <1>8, OwnerStep
     DEF Promoted, OwnerPcs, LockedPcs, NextPhase

\* The journal of a failure is written before anything is rolled back.
LEMMA TerminalKeeps ==
  ASSUME IInv, NEW p \in Procs, Terminal(p)
  PROVE IInv'
<1>1. PICK s \in Sessions, k \in Keys : Held(p, "terminal", s, k)
  BY OwnerHas DEF Terminal, OwnerPcs
<1>2. NextPhase("terminal_failure_pending")
  BY <1>1, PhaseIs DEF Terminal, Phases, Held
<1>3. UNCHANGED <<db, verdict, canonical, candidate, previous, published, request>>
  BY DEF Terminal, files
<1>4. Data' /\ Leases' /\ Own(s, k)'
  BY <1>1, <1>2, <1>3 DEF Held, NextPhase, Data, Leases, Own
<1>5. Filed(s, k)'
  BY <1>1, <1>2, <1>3
     DEF Held, NextPhase, Filed, Place, Settled, Open, Doc, Judged, EarlyPhases, OwnerPcs,
         WorkingPcs, Journals, Phases
<1>6. Placed(s, k)' /\ Judged(s, k)'
  BY <1>1, <1>2, <1>3
     DEF Held, NextPhase, Data, Rows, Requests, Placed, Judged, Place, Settled, Open,
         Stands, Passed, EarlyPhases, OwnerPcs, WorkingPcs
<1>7. Place("rollback", s, k)'
  BY <1>1, <1>2, <1>3, <1>4
     DEF Held, NextPhase, Placed, Place, Settled, Open, Doc, Stands, Passed, OwnerPcs,
         WorkingPcs
<1>8. Confined(s, k)
  BY <1>1, <1>2, <1>3
     DEF Held, NextPhase, Data, Rows, Requests, Place, Settled, Stands, Passed, EarlyPhases,
         Confined
<1> QED
  BY <1>1, <1>2, <1>4, <1>5, <1>6, <1>7, <1>8, OwnerStep
     DEF Terminal, OwnerPcs, LockedPcs, NextPhase

\* Writing the candidate again gives the same candidate: the document stands still.
LEMMA WriteCandidateKeeps ==
  ASSUME IInv, NEW p \in Procs, WriteCandidate(p)
  PROVE IInv'
<1>1. PICK s \in Sessions, k \in Keys : Held(p, "resume", s, k)
  BY OwnerHas DEF WriteCandidate, OwnerPcs, Resuming
<1>2. /\ journal.phase = "candidate_write_pending"
      /\ UNCHANGED <<db, verdict, journal, canonical, previous, published, request>>
  BY DEF WriteCandidate, Resuming
<1>3. candidate' = [candidate EXCEPT ![s] = Doc(s)] /\ Doc(s) \in Renderings
  BY <1>1 DEF WriteCandidate, Held, Data, Rows, Doc, Rendering, Renderings
<1>4. Data' /\ Leases' /\ Own(s, k)'
  BY <1>1, <1>2, <1>3 DEF Held, Data, Leases, Own, Reports
<1>5. Filed(s, k)'
  BY <1>1, <1>2, <1>3 DEF Held, Data, Rows, Filed, Place, Settled, Open, Doc, Own, Reports
<1>6. Placed(s, k)' /\ Judged(s, k)'
  BY <1>1, <1>2, <1>3
     DEF Held, Data, Rows, Requests, Filed, Placed, Judged, Place, Settled, Open, Stands,
         Passed, EarlyPhases, OwnerPcs, WorkingPcs, Reports
<1>7. Place("rendered", s, k)'
  BY <1>1, <1>2, <1>3
     DEF Held, Data, Rows, Requests, Filed, Placed, Judged, Place, Settled, Open, Doc, Own,
         Stands, Passed, EarlyPhases, OwnerPcs, WorkingPcs, Reports
<1>8. Confined(s, k)
  BY <1>1, <1>2, <1>3
     DEF Held, Data, Rows, Requests, Filed, Placed, Place, Settled, Open, Stands, Passed,
         EarlyPhases, Confined, Reports
<1> QED
  BY <1>1, <1>2, <1>3, <1>4, <1>5, <1>6, <1>7, <1>8, OwnerStep
     DEF WriteCandidate, Held, OwnerPcs, LockedPcs, Reports

\* Nobody else takes the session from ASSEMBLING to VALIDATING in between.
LEMMA MarkValidatingKeeps ==
  ASSUME IInv, NEW p \in Procs, MarkValidating(p)
  PROVE IInv'
<1>1. PICK s \in Sessions, k \in Keys : Held(p, "mark", s, k)
  BY OwnerHas DEF MarkValidating, OwnerPcs
<1>2. /\ journal.phase = "candidate_written"
      /\ UNCHANGED <<verdict, journal, canonical, candidate, previous, published, request>>
  BY <1>1 DEF MarkValidating, Held, Place, files
<1>3. /\ db[s].state = "ASSEMBLING" /\ db[s].version = request[k].expected + 1
      /\ NextState(s, "VALIDATING")
  BY <1>1, StateIs DEF MarkValidating, Held, Place, Stands, Data, States
<1>4. Data' /\ Leases' /\ Own(s, k)'
  BY <1>1, <1>2, <1>3 DEF Held, Data, Leases, Own, NextState, Rows
<1>5. Filed(s, k)'
  BY <1>1, <1>2, <1>3
     DEF Held, Data, Rows, Filed, Place, Settled, Open, Doc, Own, NextState, Rows
<1>6. Placed(s, k)' /\ Judged(s, k)'
  BY <1>1, <1>2, <1>3
     DEF Held, Data, Rows, Requests, Filed, Placed, Judged, Place, Settled, Open, Stands,
         Passed, EarlyPhases, OwnerPcs, WorkingPcs, NextState, Rows
<1>7. Place("validate", s, k)'
  BY <1>1, <1>2, <1>3
     DEF Held, Data, Rows, Requests, Filed, Placed, Judged, Place, Settled, Open, Doc, Own,
         Stands, Passed, EarlyPhases, OwnerPcs, WorkingPcs, NextState, Rows
<1>8. Confined(s, k)
  <2>1. \A t \in Sessions : db'[t].version >= db[t].version
    BY <1>1, <1>3, NoneGoesBack DEF Held, Data
  <2>2. Settled(s) => Settled(s)'
    BY <1>2 DEF Settled
  <2> QED BY <1>2, <2>1, <2>2 DEF Confined
<1>9. Goto(p, "validate") /\ UNCHANGED <<lock, request, target, bounds>>
  BY DEF MarkValidating
<1>10. journal' \in Journals /\ "mark" \in OwnerPcs /\ "validate" \in LockedPcs
  BY <1>1, <1>2 DEF Held, OwnerPcs, LockedPcs
<1> QED BY <1>1, <1>4, <1>5, <1>6, <1>7, <1>8, <1>9, <1>10, OwnerStep

\* A rejected candidate goes; the report of before was never touched.
LEMMA DiscardCandidateKeeps ==
  ASSUME IInv, NEW p \in Procs, DiscardCandidate(p)
  PROVE IInv'
<1>1. PICK s \in Sessions, k \in Keys : Held(p, "discard", s, k)
  BY OwnerHas DEF DiscardCandidate, OwnerPcs
<1>2. UNCHANGED <<db, verdict, journal, canonical, previous, published, request>>
  BY DEF DiscardCandidate
<1>3. candidate' = [candidate EXCEPT ![s] = Absent]
  BY <1>1 DEF DiscardCandidate, Held
<1>4. Data' /\ Leases' /\ Own(s, k)'
  BY <1>1, <1>2, <1>3 DEF Held, Data, Leases, Own, Reports
<1>5. Filed(s, k)'
  BY <1>1, <1>2, <1>3 DEF Held, Data, Rows, Filed, Place, Settled, Open, Doc, Own, Reports
<1>6. Placed(s, k)' /\ Judged(s, k)'
  BY <1>1, <1>2, <1>3
     DEF Held, Data, Rows, Requests, Filed, Placed, Judged, Place, Settled, Open, Stands,
         Passed, EarlyPhases, OwnerPcs, WorkingPcs, Reports
<1>7. Place("resume", s, k)'
  BY <1>1, <1>2, <1>3
     DEF Held, Data, Rows, Requests, Filed, Placed, Judged, Place, Settled, Open, Doc, Own,
         Stands, Passed, EarlyPhases, OwnerPcs, WorkingPcs, Reports
<1>8. Confined(s, k)
  BY <1>1, <1>2, <1>3
     DEF Held, Data, Rows, Requests, Filed, Placed, Place, Settled, Open, Stands, Passed,
         EarlyPhases, Confined, Reports
<1> QED
  BY <1>1, <1>2, <1>3, <1>4, <1>5, <1>6, <1>7, <1>8, OwnerStep
     DEF DiscardCandidate, Held, OwnerPcs, LockedPcs, Reports

\* The report of before moves to the backup, unless it is there already.
LEMMA BackupKeeps ==
  ASSUME IInv, NEW p \in Procs, Backup(p)
  PROVE IInv'
<1>1. PICK s \in Sessions, k \in Keys : Held(p, "resume", s, k)
  BY OwnerHas DEF Backup, OwnerPcs, Resuming
<1>2. /\ journal.phase = "swap_pending"
      /\ UNCHANGED <<db, verdict, journal, candidate, published, request>>
  BY DEF Backup, Resuming
<1>3. \/ /\ canonical # Absent /\ previous[s] = Absent
         /\ previous' = [previous EXCEPT ![s] = canonical] /\ canonical' = Absent
      \/ ~(canonical # Absent /\ previous[s] = Absent) /\ UNCHANGED <<canonical, previous>>
  BY <1>1 DEF Backup, Held
<1>4. Data' /\ Leases' /\ Own(s, k)'
  BY <1>1, <1>2, <1>3 DEF Held, Data, Leases, Own, Reports
<1>5. Filed(s, k)'
  BY <1>1, <1>2, <1>3 DEF Held, Data, Rows, Filed, Place, Settled, Open, Doc, Own, Reports
<1>6. Placed(s, k)' /\ Judged(s, k)'
  BY <1>1, <1>2, <1>3
     DEF Held, Data, Rows, Requests, Filed, Placed, Judged, Place, Settled, Open, Stands,
         Passed, EarlyPhases, OwnerPcs, WorkingPcs, Reports
<1>7. Place("backed_up", s, k)'
  BY <1>1, <1>2, <1>3
     DEF Held, Data, Rows, Requests, Filed, Placed, Judged, Place, Settled, Open, Doc, Own,
         Stands, Passed, EarlyPhases, OwnerPcs, WorkingPcs, Reports
<1>8. Confined(s, k)
  BY <1>1, <1>2, <1>3
     DEF Held, Data, Rows, Requests, Filed, Placed, Place, Settled, Open, Stands, Passed,
         EarlyPhases, Confined, Reports
<1> QED
  BY <1>1, <1>2, <1>3, <1>4, <1>5, <1>6, <1>7, <1>8, OwnerStep
     DEF Backup, Held, OwnerPcs, LockedPcs, Reports

\* The candidate takes the empty place, unless a crash came after that.
LEMMA PromoteKeeps ==
  ASSUME IInv, NEW p \in Procs, Promote(p)
  PROVE IInv'
<1>1. PICK s \in Sessions, k \in Keys : Held(p, "resume", s, k)
  BY OwnerHas DEF Promote, OwnerPcs, Resuming
<1>2. /\ journal.phase = "backup_ready"
      /\ UNCHANGED <<db, verdict, journal, previous, published, request>>
  BY DEF Promote, Resuming
<1>3. \/ /\ candidate[s] # Absent /\ canonical' = candidate[s]
         /\ candidate' = [candidate EXCEPT ![s] = Absent] /\ Goto(p, "promoted")
      \/ /\ candidate[s] = Absent /\ UNCHANGED <<canonical, candidate>>
         /\ Goto(p, IF canonical = Absent THEN "terminal" ELSE "promoted")
  BY <1>1 DEF Promote, Held
<1>4. Goto(p, "promoted")
  BY <1>1, <1>2, <1>3 DEF Held, Filed, Doc, Rendering, Renderings, Data, Rows
<1>5. Data' /\ Leases' /\ Own(s, k)'
  BY <1>1, <1>2, <1>3, <1>4 DEF Held, Data, Leases, Own, Reports
<1>6. Filed(s, k)'
  BY <1>1, <1>2, <1>3, <1>4
     DEF Held, Data, Rows, Filed, Place, Settled, Open, Doc, Own, Reports
<1>7. Placed(s, k)' /\ Judged(s, k)'
  BY <1>1, <1>2, <1>3, <1>4
     DEF Held, Data, Rows, Requests, Filed, Placed, Judged, Place, Settled, Open, Stands,
         Passed, EarlyPhases, OwnerPcs, WorkingPcs, Reports
<1>8. Place("promoted", s, k)'
  BY <1>1, <1>2, <1>3, <1>4
     DEF Held, Data, Rows, Requests, Filed, Placed, Judged, Place, Settled, Open, Doc, Own,
         Stands, Passed, EarlyPhases, OwnerPcs, WorkingPcs, Reports
<1>9. Confined(s, k)
  BY <1>1, <1>2, <1>3, <1>4
     DEF Held, Data, Rows, Requests, Filed, Placed, Place, Settled, Open, Stands, Passed,
         EarlyPhases, Confined, Reports
<1> QED
  BY <1>1, <1>2, <1>3, <1>4, <1>5, <1>6, <1>7, <1>8, <1>9, OwnerStep
     DEF Promote, Held, OwnerPcs, LockedPcs, Reports

\* Whatever the guard says, nothing has moved yet.
LEMMA TargetGuardKeeps ==
  ASSUME IInv, NEW p \in Procs, TargetGuard(p)
  PROVE IInv'
<1>1. PICK s \in Sessions, k \in Keys : Held(p, "resume", s, k)
  BY OwnerHas DEF TargetGuard, OwnerPcs, Resuming
<1>2. /\ journal.phase = "target_validation_pending"
      /\ UNCHANGED <<db, verdict, journal, files, published, request>>
  BY DEF TargetGuard, Resuming
<1>3. Data' /\ Leases' /\ Own(s, k)'
  BY <1>1, <1>2 DEF Held, Data, Leases, Own, files
<1>4. Filed(s, k)'
  BY <1>1, <1>2 DEF Held, Data, Rows, Filed, Place, Settled, Open, Doc, Own, files
<1>5. Placed(s, k)' /\ Judged(s, k)'
  BY <1>1, <1>2
     DEF Held, Data, Rows, Requests, Filed, Placed, Judged, Place, Settled, Open, Stands,
         Passed, EarlyPhases, OwnerPcs, WorkingPcs, files
<1>6. Place("complete", s, k)'
  BY <1>1, <1>2
     DEF Held, Data, Rows, Requests, Filed, Placed, Judged, Place, Settled, Open, Doc, Own,
         Stands, Passed, EarlyPhases, OwnerPcs, WorkingPcs, files
<1>7. Place("terminal", s, k)'
  BY <1>1, <1>2
     DEF Held, Data, Rows, Requests, Filed, Placed, Judged, Place, Settled, Open, Doc, Own,
         Stands, Passed, EarlyPhases, OwnerPcs, WorkingPcs, files
<1>8. Confined(s, k)
  BY <1>1, <1>2
     DEF Held, Data, Rows, Requests, Filed, Placed, Place, Settled, Open, Stands, Passed,
         EarlyPhases, Confined, files
<1> QED
  BY <1>1, <1>2, <1>3, <1>4, <1>5, <1>6, <1>7, <1>8, OwnerStep
     DEF TargetGuard, Held, OwnerPcs, LockedPcs, files

\* The result is stored with the report that is in place.
LEMMA CompleteKeeps ==
  ASSUME IInv, NEW p \in Procs, Complete(p)
  PROVE IInv'
<1>1. PICK s \in Sessions, k \in Keys : Held(p, "complete", s, k)
  BY OwnerHas DEF Complete, OwnerPcs
<1>2. UNCHANGED <<journal, files, request>>
  BY DEF Complete
<1>3. /\ journal.phase = "target_validation_pending"
      /\ Open(s, k) /\ Stands(s, k, "VALIDATING", 2)
  BY <1>1 DEF Held, Place, Placed, Judged, OwnerPcs, WorkingPcs, EarlyPhases
<1>4. NextState(s, "COMPLETE") /\ published' = canonical
  BY <1>1, <1>3, StateIs DEF Complete, Held, Open, Data, States
<1>5. ResultStored(s, k, "complete", canonical)
  BY <1>1, <1>3, VerdictIs DEF Complete, Held, Open, Data
<1>6. Data' /\ Leases' /\ Own(s, k)'
  BY <1>1, <1>2, <1>3, <1>4, <1>5
     DEF Held, Data, Leases, Own, files, NextState, Rows, ResultStored, Stands
<1>7. Filed(s, k)'
  BY <1>1, <1>2, <1>3, <1>4, <1>5
     DEF Held, Data, Rows, Filed, Place, Settled, Open, Doc, Own, files, NextState, Rows,
         ResultStored, Stands
<1>8. Placed(s, k)' /\ Judged(s, k)'
  BY <1>1, <1>2, <1>3, <1>4, <1>5
     DEF Held, Data, Rows, Requests, Filed, Placed, Judged, Place, Settled, Open, Stands,
         Passed, EarlyPhases, OwnerPcs, WorkingPcs, files, NextState, Rows, ResultStored,
         Stands
<1>9. Place("tidy", s, k)'
  BY <1>1, <1>2, <1>3, <1>4, <1>5
     DEF Held, Data, Rows, Requests, Filed, Placed, Judged, Place, Settled, Open, Doc, Own,
         Stands, Passed, EarlyPhases, OwnerPcs, WorkingPcs, files, NextState, Rows,
         ResultStored, Stands
<1>10. Confined(s, k)
  BY <1>1, <1>2, <1>3, <1>4, <1>5
     DEF Held, Data, Rows, EarlyPhases, Confined, NextState, files
<1>11. Goto(p, "tidy") /\ UNCHANGED <<lock, request, target, bounds>>
  BY DEF Complete
<1>12. journal' \in Journals /\ "complete" \in OwnerPcs /\ "tidy" \in LockedPcs
  BY <1>1, <1>2 DEF Held, OwnerPcs, LockedPcs
<1> QED BY <1>1, <1>6, <1>7, <1>8, <1>9, <1>10, <1>11, <1>12, OwnerStep

\* A rollback that was cut short is taken up again.
LEMMA ResumeTerminalKeeps ==
  ASSUME IInv, NEW p \in Procs, ResumeTerminal(p)
  PROVE IInv'
<1>1. PICK s \in Sessions, k \in Keys : Held(p, "resume", s, k)
  BY OwnerHas DEF ResumeTerminal, OwnerPcs, Resuming
<1>2. /\ journal.phase = "terminal_failure_pending"
      /\ UNCHANGED <<db, verdict, journal, files, published, request>>
  BY DEF ResumeTerminal, Resuming
<1>3. Data' /\ Leases' /\ Own(s, k)'
  BY <1>1, <1>2 DEF Held, Data, Leases, Own, files
<1>4. Filed(s, k)'
  BY <1>1, <1>2 DEF Held, Data, Rows, Filed, Place, Settled, Open, Doc, Own, files
<1>5. Placed(s, k)' /\ Judged(s, k)'
  BY <1>1, <1>2
     DEF Held, Data, Rows, Requests, Filed, Placed, Judged, Place, Settled, Open, Stands,
         Passed, EarlyPhases, OwnerPcs, WorkingPcs, files
<1>6. Place("rollback", s, k)'
  BY <1>1, <1>2
     DEF Held, Data, Rows, Requests, Filed, Placed, Judged, Place, Settled, Open, Doc, Own,
         Stands, Passed, EarlyPhases, OwnerPcs, WorkingPcs, files
<1>7. Confined(s, k)
  BY <1>1, <1>2
     DEF Held, Data, Rows, Requests, Filed, Placed, Place, Settled, Open, Stands, Passed,
         EarlyPhases, Confined, files
<1> QED
  BY <1>1, <1>2, <1>3, <1>4, <1>5, <1>6, <1>7, OwnerStep
     DEF ResumeTerminal, Held, OwnerPcs, LockedPcs, files

\* The candidate of a failed finalize goes.
LEMMA RolledBackKeeps ==
  ASSUME IInv, NEW p \in Procs, RolledBack(p)
  PROVE IInv'
<1>1. PICK s \in Sessions, k \in Keys : Held(p, "rolled_back", s, k)
  BY OwnerHas DEF RolledBack, OwnerPcs
<1>2. UNCHANGED <<db, verdict, journal, canonical, previous, published, request>>
  BY DEF RolledBack
<1>3. candidate' = [candidate EXCEPT ![s] = Absent]
  BY <1>1 DEF RolledBack, Held
<1>4. Data' /\ Leases' /\ Own(s, k)'
  BY <1>1, <1>2, <1>3 DEF Held, Data, Leases, Own, Reports
<1>5. Filed(s, k)'
  BY <1>1, <1>2, <1>3 DEF Held, Data, Rows, Filed, Place, Settled, Open, Doc, Own, Reports
<1>6. Placed(s, k)' /\ Judged(s, k)'
  BY <1>1, <1>2, <1>3
     DEF Held, Data, Rows, Requests, Filed, Placed, Judged, Place, Settled, Open, Stands,
         Passed, EarlyPhases, OwnerPcs, WorkingPcs, Reports
<1>7. Place("fail", s, k)'
  BY <1>1, <1>2, <1>3
     DEF Held, Data, Rows, Requests, Filed, Placed, Judged, Place, Settled, Open, Doc, Own,
         Stands, Passed, EarlyPhases, OwnerPcs, WorkingPcs, Reports
<1>8. Confined(s, k)
  BY <1>1, <1>2, <1>3
     DEF Held, Data, Rows, Requests, Filed, Placed, Place, Settled, Open, Stands, Passed,
         EarlyPhases, Confined, Reports
<1> QED
  BY <1>1, <1>2, <1>3, <1>4, <1>5, <1>6, <1>7, <1>8, OwnerStep
     DEF RolledBack, Held, OwnerPcs, LockedPcs, Reports

\* A call begins a READY session once, recognises its own work, or gives up.
LEMMA BeginKeeps ==
  ASSUME IInv, NEW p \in Procs, Begin(p)
  PROVE IInv'
<1>1. PICK s \in Sessions, k \in Keys : Held(p, "resume", s, k)
  BY OwnerHas DEF Begin, OwnerPcs, Resuming
<1>2. /\ journal.phase = "begin_pending"
      /\ UNCHANGED <<verdict, journal, canonical, candidate, previous, published, request>>
  BY DEF Begin, Resuming, files
<1>3. \/ Stands(s, k, "ASSEMBLING", 1) /\ UNCHANGED db /\ Goto(p, "begun")
      \/ Stands(s, k, "READY", 0) /\ NextState(s, "ASSEMBLING") /\ Goto(p, "begun")
      \/ UNCHANGED db /\ Goto(p, "drop_journal")
  BY <1>1, StateIs
     DEF Begin, HasBegun, MayBegin, Expected, Stands, Held, Data, Rows, Requests, States
<1>4. Data' /\ Leases' /\ Own(s, k)'
  BY <1>1, <1>2, <1>3 DEF Held, Data, Leases, Own, NextState, Stands, Rows
<1>5. Filed(s, k)' /\ Placed(s, k)'
  BY <1>1, <1>2, <1>3 DEF Held, Filed, Placed, Settled, Open
<1>6. Judged(s, k)'
  BY <1>1, <1>2, <1>3 DEF Held, Judged, Settled, Open
<1>7. Confined(s, k)
  BY <1>1, <1>2, <1>3 DEF Held, Data, Rows, Settled, NextState, Confined
<1>8. CASE Goto(p, "drop_journal")
  <2>1. Place("drop_journal", s, k)'
    BY <1>1, <1>2 DEF Held, Filed, Place, Settled, Own, OwnerPcs, WorkingPcs
  <2> QED
    BY <1>1, <1>2, <1>4, <1>5, <1>6, <1>7, <1>8, <2>1, OwnerStep
       DEF Begin, Held, OwnerPcs, LockedPcs
<1>9. CASE Stands(s, k, "ASSEMBLING", 1)' /\ Goto(p, "begun")
  <2>1. Open(s, k) \/ db[s].version >= request[k].expected + 2
    BY <1>1 DEF Held, Place, Passed, OwnerPcs, WorkingPcs
  <2>2. Place("begun", s, k)'
    <3>1. Open(s, k)'
      BY <1>1, <1>2, <1>3, <2>1, <1>9
         DEF Held, Stands, NextState, Data, Rows, Requests, Open
    <3> QED BY <1>1, <1>2, <1>4, <1>9, <3>1 DEF Place, OwnerPcs, WorkingPcs
  <2> QED
    BY <1>1, <1>2, <1>4, <1>5, <1>6, <1>7, <1>9, <2>2, OwnerStep
       DEF Begin, Held, OwnerPcs, LockedPcs
<1>10. Stands(s, k, "ASSEMBLING", 1)' \/ Goto(p, "drop_journal")
  BY <1>1, <1>2, <1>3 DEF Stands, NextState, Held, Data, Rows, Requests
<1> QED BY <1>3, <1>8, <1>9, <1>10

\* Either answer of the validator is written to the journal.
LEMMA ValidateKeeps ==
  ASSUME IInv, NEW p \in Procs, Validate(p)
  PROVE IInv'
<1>1. PICK s \in Sessions, k \in Keys : Held(p, "validate", s, k)
  BY OwnerHas DEF Validate, OwnerPcs
<1>2. UNCHANGED <<db, verdict, canonical, candidate, previous, published, request>>
  BY DEF Validate, files
<1>3. ASSUME NEW phase \in {"swap_pending", "validation_failed"},
             NEW pc \in {"resume", "discard"},
             JournalPhase(p, phase), Goto(p, pc), pc = "discard" => phase = "validation_failed"
      PROVE IInv'
  <2>1. NextPhase(phase)
    BY <1>1, <1>3, PhaseIs DEF Phases, Held
  <2>2. Open(s, k) /\ Data' /\ Leases' /\ Own(s, k)'
    BY <1>1, <1>2, <2>1
       DEF Held, NextPhase, Data, Leases, Own, Place, Open, Stands, Passed, Judged, EarlyPhases
  <2>3. Filed(s, k)'
    BY <1>1, <1>2, <2>1 DEF Held, NextPhase, Filed, Place, Settled, Open, Doc
  <2>4. Placed(s, k)' /\ Judged(s, k)'
    BY <1>1, <1>2, <2>1, <2>2
       DEF Held, NextPhase, Data, Rows, Requests, Placed, Judged, Place, Stands, Passed, Open
  <2>5. Place(pc, s, k)'
    BY <1>1, <1>2, <1>3, <2>1, <2>2 DEF NextPhase, Place, Open, OwnerPcs, WorkingPcs
  <2>6. Confined(s, k)
    BY <1>1, <1>2, <2>1 DEF Held, Data, Rows, Place, EarlyPhases, Confined
  <2> QED
    BY <1>1, <1>2, <1>3, <2>1, <2>2, <2>3, <2>4, <2>5, <2>6, OwnerStep
       DEF Validate, OwnerPcs, LockedPcs, NextPhase
<1> QED BY <1>3 DEF Validate

\* However often it is cut short, a rollback puts the promised report back.
LEMMA RollbackKeeps ==
  ASSUME IInv, NEW p \in Procs, Rollback(p)
  PROVE IInv'
<1>1. PICK s \in Sessions, k \in Keys : Held(p, "rollback", s, k)
  BY OwnerHas DEF Rollback, OwnerPcs
<1>2. UNCHANGED <<db, verdict, journal, candidate, published, request, lock, target, bounds>>
  BY DEF Rollback
<1>3. /\ journal.phase = "terminal_failure_pending"
      /\ journal.hadCanonical <=> published # Absent
      /\ previous[s] \in {published, Absent}
      /\ previous[s] = Absent /\ published # Absent => canonical = published
      /\ previous[s] # Absent => Open(s, k)
      /\ ~Open(s, k) => Settled(s)
  BY <1>1 DEF Held, Place, Filed, Judged, EarlyPhases, OwnerPcs, WorkingPcs, Settled
<1>4. ASSUME NEW pc \in {"rollback", "rolled_back"}, Goto(p, pc),
             canonical' \in Reports, previous' \in [Sessions -> Reports],
             \A t \in Sessions : t # s => previous'[t] = previous[t],
             /\ previous'[s] \in {published, Absent}
             /\ previous'[s] = Absent /\ published # Absent => canonical' = published,
             pc = "rolled_back" \/ ~Open(s, k) => Settled(s)',
             Settled(s) => Settled(s)'
      PROVE IInv'
  <2>1. Data' /\ Leases' /\ Own(s, k)'
    BY <1>1, <1>2, <1>4 DEF Held, Data, Leases, Own
  <2>2. Filed(s, k)' /\ Placed(s, k)' /\ Judged(s, k)'
    BY <1>1, <1>2, <1>3, <1>4 DEF Held, Filed, Placed, Judged, EarlyPhases, Open
  <2>3. Place(pc, s, k)'
    BY <1>1, <1>2, <1>3, <1>4, <2>1
       DEF Held, Place, Open, Passed, OwnerPcs, WorkingPcs
  <2>4. Confined(s, k)
    BY <1>1, <1>2, <1>4 DEF Held, Data, Rows, Confined
  <2>5. journal' \in Journals /\ "rollback" \in OwnerPcs /\ pc \in LockedPcs
    BY <1>1, <1>2, <1>4 DEF Held, OwnerPcs, LockedPcs
  <2> QED BY <1>1, <1>2, <1>4, <2>1, <2>2, <2>3, <2>4, <2>5, OwnerStep
<1>5. CASE previous[s] # Absent /\ canonical # Absent
  <2>1. canonical' = Absent /\ UNCHANGED <<previous, proc>>
    BY <1>1, <1>5 DEF Rollback, Held
  <2>2. Goto(p, "rollback")
    BY <1>1, <2>1 DEF IInv, TypeOK, Held, At, Goto
  <2> QED BY <1>1, <1>3, <1>4, <1>5, <2>1, <2>2 DEF Held, Data, Reports, Settled
<1>6. CASE previous[s] # Absent /\ canonical = Absent
  <2>1. /\ canonical' = previous[s]
        /\ previous' = [previous EXCEPT ![s] = Absent] /\ Goto(p, "rolled_back")
    BY <1>1, <1>6 DEF Rollback, Held
  <2> QED BY <1>1, <1>2, <1>3, <1>4, <1>6, <2>1 DEF Held, Data, Reports, Settled
<1>7. CASE previous[s] = Absent
  <2>1. /\ canonical' = IF journal.hadCanonical THEN canonical ELSE Absent
        /\ Goto(p, "rolled_back") /\ UNCHANGED previous
    BY <1>1, <1>7 DEF Rollback, Held
  <2> QED BY <1>1, <1>2, <1>3, <1>4, <1>7, <2>1 DEF Held, Data, Reports, Settled
<1> QED BY <1>5, <1>6, <1>7

\* A failure is stored only after the report of before is back.
LEMMA FailKeeps ==
  ASSUME IInv, NEW p \in Procs, Fail(p)
  PROVE IInv'
<1>1. PICK s \in Sessions, k \in Keys : Held(p, "fail", s, k)
  BY OwnerHas DEF Fail, OwnerPcs
<1>2. UNCHANGED <<journal, canonical, candidate, previous, published, request>>
  BY DEF Fail, files
<1>3. /\ journal.phase = "terminal_failure_pending" /\ Settled(s) /\ candidate[s] = Absent
      /\ journal.hadCanonical <=> published # Absent
  BY <1>1 DEF Held, Place, Filed, OwnerPcs, WorkingPcs
<1>4. UNCHANGED db \/ NextState(s, "FAILED")
  BY <1>1, StateIs DEF Fail, Held, Data, States
<1>5. UNCHANGED verdict \/ ResultStored(s, k, "failed", Absent)
  BY <1>1, VerdictIs DEF Fail, Held, Data, Reports
<1>6. Data' /\ Leases' /\ Own(s, k)'
  BY <1>1, <1>2, <1>4, <1>5 DEF Held, Data, Leases, Own, NextState, ResultStored
<1>7. Filed(s, k)' /\ Placed(s, k)' /\ Judged(s, k)'
  BY <1>1, <1>2, <1>3, <1>5
     DEF Held, Filed, Placed, Judged, Settled, EarlyPhases, Open, ResultStored
<1>8. Place("drop_journal", s, k)'
  BY <1>1, <1>2, <1>3 DEF Held, Place, Settled, Own, OwnerPcs, WorkingPcs
<1>9. Confined(s, k)
  BY <1>1, <1>2, <1>3, <1>4 DEF Held, Data, Rows, NextState, Confined, Settled
<1> QED
  BY <1>1, <1>2, <1>6, <1>7, <1>8, <1>9, OwnerStep DEF Fail, Held, OwnerPcs, LockedPcs

\* Removing the temporary files: the process holds the lock, and the journal is
\* of its session but perhaps of another of its calls.
LEMMA TidyKeeps ==
  ASSUME IInv, NEW p \in Procs, Tidy(p)
  PROVE IInv'
<1>1. PICK s \in Sessions, k \in Keys :
        /\ s = Session(p) /\ journal \in Journals /\ Own(s, k)
        /\ Filed(s, k) /\ Placed(s, k) /\ Judged(s, k)
        /\ Place("tidy", s, proc[p].key) /\ Data /\ Leases
  <2>1. Place("tidy", Session(p), proc[p].key)
    BY DEF IInv, Places, Tidy, At
  <2>2. journal \in Journals /\ journal.session = Session(p)
    BY <2>1 DEF Place, IInv, TypeOK
  <2>3. journal.session \in Sessions /\ journal.key \in Keys /\ Own(Session(p), journal.key)
    BY <2>2, <2>1 DEF Own, Journals, Place
  <2> QED BY <2>1, <2>2, <2>3, DataOfTypes DEF IInv, JournalHolds, Own, Place
<1>2. /\ UNCHANGED <<db, verdict, journal, canonical, lock, request, target, published, bounds>>
      /\ canonical = published /\ proc[p].pc = "tidy"
      /\ journal.phase \in EarlyPhases \/ ~Open(s, k)
  BY <1>1 DEF Tidy, Place, At, Own
<1>3. ASSUME NEW pc \in {"tidy", "drop_journal"}, Goto(p, pc),
             candidate' \in [Sessions -> Reports], previous' \in [Sessions -> Reports],
             \A t \in Sessions : t # s =>
               candidate'[t] = candidate[t] /\ previous'[t] = previous[t],
             pc = "drop_journal" => candidate'[s] = Absent /\ previous'[s] = Absent,
             \/ previous'[s] = previous[s]
                /\ (candidate'[s] = candidate[s] \/ candidate'[s] = Absent)
             \/ previous'[s] = Absent /\ candidate'[s] = candidate[s]
      PROVE IInv'
  <2>1. Data' /\ Leases' /\ Own(s, k)'
    BY <1>1, <1>2, <1>3 DEF Data, Leases, Own
  <2>2. Filed(s, k)'
    BY <1>1, <1>2, <1>3 DEF Filed, Judged, Open, Settled, EarlyPhases
  <2>3. Placed(s, k)' /\ Judged(s, k)'
    BY <1>1, <1>2, <1>3 DEF Placed, Judged, Stands, Passed, Open, Settled
  <2>4. proc'[p].key = proc[p].key
    BY <1>3, GotoIs DEF IInv, LockedPcs
  <2>5. Place(pc, s, proc[p].key)'
    BY <1>1, <1>2, <1>3, <2>1, <2>4 DEF Place, Open, Own, OwnerPcs, WorkingPcs
  <2>6. Confined(s, k)
    BY <1>1, <1>2, <1>3 DEF Data, Rows, Confined, Settled
  <2> QED
    BY <1>1, <1>2, <1>3, <2>1, <2>2, <2>3, <2>5, <2>6, HolderStep
       DEF LockedPcs
<1>4. \/ /\ candidate' = [candidate EXCEPT ![s] = Absent] /\ UNCHANGED <<proc, previous>>
      \/ /\ previous' = [previous EXCEPT ![s] = Absent] /\ UNCHANGED <<proc, candidate>>
      \/ /\ candidate[s] = Absent /\ previous[s] = Absent
         /\ Goto(p, "drop_journal") /\ UNCHANGED <<candidate, previous>>
  BY <1>1 DEF Tidy, Own
<1>5. UNCHANGED proc => Goto(p, "tidy")
  BY <1>2 DEF IInv, TypeOK, Goto
<1> QED BY <1>1, <1>3, <1>4, <1>5 DEF Data, Reports

-----------------------------------------------------------------------------
(* Calls, returns and crashes *)

\* A step that leaves the rows, the results, the journal and the files alone and
\* takes one process elsewhere.
LEMMA QuietStep ==
  ASSUME IInv, NEW p \in Procs,
         NEW pc \in LockedPcs \cup UnlockedPcs, NEW key \in Keys \cup {Absent},
         proc' = [proc EXCEPT ![p] = [pc |-> pc, key |-> key]],
         UNCHANGED <<db, verdict, journal, files, published, target, changes>>,
         crashes' \in 0 .. MaxCrashes,
         request' \in [Keys -> Requests \cup {Absent}],
         \A k \in Keys : request[k] \in Requests => request'[k] = request[k],
         pc \in LockedPcs => lock \in {p, Absent},
         lock' = IF pc \in LockedPcs THEN p ELSE IF lock = p THEN Absent ELSE lock,
         pc # "idle" =>
           /\ key \in Keys /\ request'[key] \in Requests
           /\ Place(pc, request[key].session, key)'
  PROVE IInv'
<1>1. /\ proc' \in [Procs -> [pc : LockedPcs \cup UnlockedPcs, key : Keys \cup {Absent}]]
      /\ proc'[p].pc = pc /\ proc'[p].key = key
      /\ \A q \in Procs \ {p} : proc'[q] = proc[q]
  BY DEF IInv, TypeOK
<1>2. UNCHANGED <<canonical, candidate, previous>>
  BY DEF files
<1>3. TypeOK'
  <2>1. \A q \in Procs : lock' = q <=> proc'[q].pc \in LockedPcs
    BY <1>1 DEF IInv, TypeOK
  <2> QED BY <1>1, <1>2, <2>1 DEF IInv, TypeOK
<1>4. Calls'
  BY <1>1 DEF IInv, Calls, At, TypeOK, Journals
<1>5. Leases' /\ AtRest'
  BY <1>2 DEF IInv, Leases, AtRest
<1>6. JournalHolds'
  <2> SUFFICES ASSUME journal # Absent
               PROVE /\ Filed(journal.session, journal.key)'
                     /\ Placed(journal.session, journal.key)'
                     /\ Judged(journal.session, journal.key)'
    BY DEF JournalHolds
  <2>1. journal.key \in Keys /\ request'[journal.key] = request[journal.key]
    BY DEF IInv, Calls, TypeOK, Journals
  <2> QED
    BY <1>2, <2>1
       DEF IInv, JournalHolds, Filed, Placed, Judged, Open, Settled, Doc, Stands, Passed
<1>7. Places'
  <2> SUFFICES ASSUME NEW q \in Procs, proc'[q].pc # "idle"
               PROVE Place(proc[q].pc, Session(q), proc[q].key)'
    BY DEF Places, At
  <2>1. CASE q = p
    BY <1>1, <2>1 DEF Session
  <2>2. CASE q # p
    <3>1. /\ proc'[q] = proc[q] /\ request'[proc[q].key] = request[proc[q].key]
          /\ Session(q)' = Session(q)
          /\ Place(proc[q].pc, Session(q), proc[q].key)
      BY <1>1, <2>2 DEF IInv, Calls, At, Places, Session
    <3> QED
      BY <1>2, <3>1 DEF Place, Own, Open, Settled, Doc, Stands, Passed
  <2> QED BY <2>1, <2>2
<1> QED BY <1>3, <1>4, <1>5, <1>6, <1>7 DEF IInv

\* Where the call of a process leads, wherever it is not idle.
LEMMA CallHas ==
  ASSUME IInv, NEW p \in Procs, proc[p].pc # "idle"
  PROVE /\ proc[p].key \in Keys /\ request[proc[p].key] \in Requests
        /\ Session(p) = request[proc[p].key].session /\ Session(p) \in Sessions
        /\ Place(proc[p].pc, Session(p), proc[p].key)
  BY DEF IInv, Calls, Places, At, Session, Requests

\* A new call takes up nothing; a key keeps the request it stands for.
LEMMA CallKeeps ==
  ASSUME IInv, NEW p \in Procs, NEW k \in Keys, NEW s \in Sessions, NEW expected \in Nat,
         Call(p, k, s, expected)
  PROVE IInv'
<1> DEFINE call == [session |-> s, expected |-> expected]
<1>1. call \in Requests
  BY DEF Requests
<1>2. request' = [request EXCEPT ![k] = call] /\ (request[k] = Absent \/ request[k] = call)
  BY DEF Call
<1> HIDE DEF call
<1>3. /\ request' \in [Keys -> Requests \cup {Absent}] /\ request'[k] \in Requests
      /\ \A l \in Keys : request[l] \in Requests => request'[l] = request[l]
  BY <1>1, <1>2 DEF IInv, TypeOK
<1>4. Place("lock", request[k].session, k)'
  BY DEF Place, OwnerPcs, WorkingPcs
<1>5. lock # p
  BY DEF IInv, TypeOK, Call, At, LockedPcs
<1> QED
  BY <1>3, <1>4, <1>5, QuietStep DEF Call, LockedPcs, UnlockedPcs, IInv, TypeOK, bounds

\* A process that stops leaves the journal and the files for the next one.
LEMMA CrashKeeps ==
  ASSUME IInv, NEW p \in Procs, Crash(p)
  PROVE IInv'
<1>1. crashes' \in 0 .. MaxCrashes
  BY DEF Crash, IInv, TypeOK
<1> QED
  BY <1>1, QuietStep DEF Crash, Idle, LockedPcs, UnlockedPcs, IInv, TypeOK

\* A step that only takes one process elsewhere.
LEMMA MoveStep ==
  ASSUME IInv, NEW p \in Procs, proc[p].pc # "idle", NEW pc \in LockedPcs, Goto(p, pc),
         UNCHANGED <<db, verdict, journal, files, target, request, published, bounds>>,
         lock \in {p, Absent}, lock' = p,
         Place(pc, Session(p), proc[p].key)
  PROVE IInv'
<1>1. proc' = [proc EXCEPT ![p] = [pc |-> pc, key |-> proc[p].key]]
  <2>1. proc[p] \in [pc : LockedPcs \cup UnlockedPcs, key : Keys \cup {Absent}]
    BY DEF IInv, TypeOK
  <2>2. [proc[p] EXCEPT !.pc = pc] = [pc |-> pc, key |-> proc[p].key]
    BY <2>1
  <2> QED BY <2>2 DEF Goto
<1>2. proc[p].key \in Keys /\ request[proc[p].key] \in Requests
  BY CallHas
<1>3. Place(pc, request[proc[p].key].session, proc[p].key)
  BY DEF Session
<1>4. \A k \in Keys : Place(pc, request[k].session, k) => Place(pc, request[k].session, k)'
  BY DEF Place, Own, Open, Settled, Doc, Stands, Passed, files
<1> QED
  BY <1>1, <1>2, <1>3, <1>4, QuietStep DEF IInv, TypeOK, bounds

\* The call returns.
LEMMA ReturnStep ==
  ASSUME IInv, NEW p \in Procs, Return(p), lock \in {p, Absent},
         UNCHANGED <<db, verdict, journal, files, target, request, published, bounds>>
  PROVE IInv'
<1>1. proc' = [proc EXCEPT ![p] = [pc |-> "idle", key |-> Absent]] /\ lock' = Absent
  BY DEF Return, Idle
<1>2. "idle" \in UnlockedPcs /\ "idle" \notin LockedPcs
  BY DEF UnlockedPcs, LockedPcs
<1>3. lock' = IF lock = p THEN Absent ELSE lock
  BY <1>1
<1> QED BY <1>1, <1>2, <1>3, QuietStep DEF IInv, TypeOK, bounds

\* Taking the lock.
LEMMA AcquireKeeps ==
  ASSUME IInv, NEW p \in Procs, Acquire(p)
  PROVE IInv'
<1>1. Place("lookup", Session(p), proc[p].key)
  BY DEF Place, OwnerPcs, WorkingPcs
<1> QED BY <1>1, MoveStep DEF Acquire, At, LockedPcs

\* A stored result sends the call to tidy its own journal, or back.
LEMMA LookupKeeps ==
  ASSUME IInv, NEW p \in Procs, Lookup(p)
  PROVE IInv'
<1>1. proc[p].pc = "lookup" /\ lock = p
  BY DEF Lookup, At, IInv, TypeOK, LockedPcs
<1>2. UNCHANGED <<db, verdict, journal, files, target, request, published, bounds>>
  BY DEF Lookup
<1>3. CASE Open(Session(p), proc[p].key)
  <2>1. Goto(p, "check") /\ lock' = p
    BY <1>1, <1>3 DEF Lookup, Open
  <2>2. Place("check", Session(p), proc[p].key)
    BY <1>3 DEF Place, OwnerPcs, WorkingPcs
  <2> QED BY <1>1, <1>2, <2>1, <2>2, MoveStep DEF LockedPcs
<1>4. CASE ~Open(Session(p), proc[p].key) /\ OwnsJournal(p)
  <2>1. Goto(p, "tidy") /\ lock' = p
    BY <1>1, <1>4 DEF Lookup, Open
  <2>2. Judged(Session(p), proc[p].key)
    BY <1>4 DEF OwnsJournal, IInv, JournalHolds
  <2>3. Place("tidy", Session(p), proc[p].key)
    BY <1>4, <2>2 DEF OwnsJournal, Place, Judged, Settled, OwnerPcs, WorkingPcs
  <2> QED BY <1>1, <1>2, <2>1, <2>3, MoveStep DEF LockedPcs
<1>5. CASE ~Open(Session(p), proc[p].key) /\ ~OwnsJournal(p)
  BY <1>1, <1>2, <1>5, ReturnStep DEF Lookup, Open
<1> QED BY <1>3, <1>4, <1>5

\* The phase _resume does not know changes nothing.
LEMMA UnsupportedPhaseKeeps ==
  ASSUME IInv, NEW p \in Procs, UnsupportedPhase(p)
  PROVE IInv'
<1>1. lock = p
  BY DEF UnsupportedPhase, Resuming, At, IInv, TypeOK, LockedPcs
<1> QED BY <1>1, ReturnStep DEF UnsupportedPhase

\* A renderer that raises changes nothing either.
LEMMA RenderRaisesKeeps ==
  ASSUME IInv, NEW p \in Procs, RenderRaises(p)
  PROVE IInv'
<1>1. lock = p
  BY DEF RenderRaises, Resuming, At, IInv, TypeOK, LockedPcs
<1> QED BY <1>1, ReturnStep DEF RenderRaises

\* A resumed call finds the session ASSEMBLING, or VALIDATING already.
LEMMA LoadRenderedKeeps ==
  ASSUME IInv, NEW p \in Procs, LoadRendered(p)
  PROVE IInv'
<1>1. PICK s \in Sessions, k \in Keys : Held(p, "resume", s, k)
  BY OwnerHas DEF LoadRendered, OwnerPcs, Resuming
<1>2. s = Session(p) /\ k = proc[p].key /\ Own(s, k) /\ Place("resume", s, k)
  BY <1>1 DEF Held
<1>3. Stands(s, k, "ASSEMBLING", 1) \/ Stands(s, k, "VALIDATING", 2)
  BY <1>1 DEF LoadRendered, Resuming, Held, Placed
<1>4. proc[p].pc = "resume" /\ lock = p /\ journal.phase = "candidate_written"
  BY DEF LoadRendered, Resuming, At, IInv, TypeOK, LockedPcs
<1>5. CASE db[s].state = "ASSEMBLING"
  <2>1. Place("mark", s, k)
    BY <1>2, <1>3, <1>4, <1>5 DEF Place, Stands, OwnerPcs, WorkingPcs
  <2> QED BY <1>2, <1>4, <1>5, <2>1, MoveStep DEF LoadRendered, LockedPcs
<1>6. CASE db[s].state # "ASSEMBLING"
  <2>1. Place("validate", s, k)
    BY <1>2, <1>3, <1>4, <1>6 DEF Place, Stands, OwnerPcs, WorkingPcs
  <2> QED BY <1>2, <1>4, <1>6, <2>1, MoveStep DEF LoadRendered, LockedPcs
<1> QED BY <1>5, <1>6

\* A rejected session is marked, or finalize returns to route.
LEMMA LoadRejectedKeeps ==
  ASSUME IInv, NEW p \in Procs, LoadRejected(p)
  PROVE IInv'
<1>1. PICK s \in Sessions, k \in Keys : Held(p, "resume", s, k)
  BY OwnerHas DEF LoadRejected, OwnerPcs, Resuming
<1>2. s = Session(p) /\ k = proc[p].key /\ Own(s, k) /\ Place("resume", s, k)
      /\ request[k] \in Requests /\ request[k].session = s
  BY <1>1 DEF Held
<1>3. Passed(s, k) /\ Settled(s)
  BY <1>1 DEF LoadRejected, Resuming, Held, Filed, Placed
<1>4. proc[p].pc = "resume" /\ lock = p /\ journal.phase = "validation_failed"
  BY DEF LoadRejected, Resuming, At, IInv, TypeOK, LockedPcs
<1>5. CASE db[s].state = "VALIDATING"
  <2>1. Place("reject", s, k)
    BY <1>2, <1>4, <1>5 DEF Place, OwnerPcs, WorkingPcs
  <2> QED BY <1>2, <1>4, <1>5, <2>1, MoveStep DEF LoadRejected, LockedPcs
<1>6. CASE db[s].state # "VALIDATING"
  <2>1. Place("route", s, k)
    BY <1>2, <1>3, <1>4 DEF Place, EarlyPhases, OwnerPcs, WorkingPcs
  <2>2. proc' = [proc EXCEPT ![p] = [pc |-> "route", key |-> k]] /\ lock' = Absent
    <3>1. proc[p] \in [pc : LockedPcs \cup UnlockedPcs, key : Keys \cup {Absent}]
      BY DEF IInv, TypeOK
    <3>2. [proc[p] EXCEPT !.pc = "route"] = [pc |-> "route", key |-> proc[p].key]
      BY <3>1
    <3> QED BY <1>2, <1>6, <3>2 DEF LoadRejected, Goto
  <2>3. UNCHANGED <<db, verdict, journal, files, target, request, published, bounds>>
    BY DEF LoadRejected
  <2>4. Place("route", s, k)'
    BY <2>1, <2>3 DEF Place, Own, Settled, Passed, OwnerPcs, WorkingPcs, files
  <2>5. "route" \in UnlockedPcs /\ "route" \notin LockedPcs
    BY DEF UnlockedPcs, LockedPcs
  <2> QED
    BY <1>2, <1>4, <2>2, <2>3, <2>4, <2>5, QuietStep DEF IInv, TypeOK, bounds
<1> QED BY <1>5, <1>6

\* finish_repair_routing tidies a rejected journal of its session, whoever wrote it.
LEMMA FinishRoutingKeeps ==
  ASSUME IInv, NEW p \in Procs, FinishRouting(p)
  PROVE IInv'
<1>1. proc[p].pc = "finish" /\ lock = Absent
  BY DEF FinishRouting, At
<1>2. UNCHANGED <<db, verdict, journal, files, target, request, published, bounds>>
  BY DEF FinishRouting
<1>3. CASE JournalToFinish(p)
  <2>1. Filed(journal.session, journal.key)
    BY <1>3 DEF JournalToFinish, IInv, JournalHolds
  <2>2. Place("tidy", Session(p), proc[p].key)
    BY <1>3, <2>1
       DEF JournalToFinish, Place, Filed, Settled, EarlyPhases, OwnerPcs, WorkingPcs
  <2> QED
    BY <1>1, <1>2, <1>3, <2>2, MoveStep DEF FinishRouting, LockedPcs
<1>4. CASE ~JournalToFinish(p)
  BY <1>1, <1>2, <1>4, ReturnStep DEF FinishRouting
<1> QED BY <1>3, <1>4

\* An abandoned or finished journal goes, and the lock with it.
LEMMA DropJournalKeeps ==
  ASSUME IInv, NEW p \in Procs, DropJournal(p)
  PROVE IInv'
<1>1. /\ proc[p].pc = "drop_journal" /\ lock = p
      /\ proc' = [proc EXCEPT ![p] = Idle] /\ lock' = Absent /\ journal' = Absent
  BY DEF DropJournal, Return, At, IInv, TypeOK, LockedPcs
<1>2. UNCHANGED <<db, verdict, canonical, candidate, previous, target, request, published, bounds>>
  BY DEF DropJournal, files
<1>3. /\ proc'[p] = Idle
      /\ \A q \in Procs \ {p} : proc'[q] = proc[q] /\ proc[q].pc \notin LockedPcs
  BY <1>1 DEF IInv, TypeOK
<1>4. TypeOK'
  BY <1>1, <1>2, <1>3 DEF IInv, TypeOK, Idle, LockedPcs, UnlockedPcs, bounds
<1>5. Calls' /\ Leases' /\ JournalHolds'
  BY <1>1, <1>2, <1>3 DEF IInv, Calls, Leases, JournalHolds, At, Idle
<1>6. AtRest'
  <2>1. Place("drop_journal", Session(p), proc[p].key)
    BY <1>1, CallHas
  <2> QED BY <1>1, <1>2, <2>1 DEF AtRest, IInv, Place
<1>7. Places'
  <2> SUFFICES ASSUME NEW q \in Procs, proc'[q].pc # "idle"
               PROVE Place(proc[q].pc, Session(q), proc[q].key)'
    BY DEF Places, At
  <2>1. q # p /\ proc'[q] = proc[q] /\ proc[q].pc \notin LockedPcs
    BY <1>3 DEF Idle
  <2>2. Place(proc[q].pc, Session(q), proc[q].key) /\ Session(q)' = Session(q)
    BY <1>2, <2>1, CallHas DEF Session
  <2> QED
    BY <1>1, <1>2, <2>1, <2>2 DEF Place, Own, Passed, OwnerPcs, WorkingPcs, LockedPcs
<1> QED BY <1>4, <1>5, <1>6, <1>7 DEF IInv

\* A journal is opened only where there is none: the files are at rest.
LEMMA CheckJournalKeeps ==
  ASSUME IInv, NEW p \in Procs, CheckJournal(p)
  PROVE IInv'
<1>1. proc[p].pc = "check" /\ lock = p
  BY DEF CheckJournal, At, IInv, TypeOK, LockedPcs
<1>2. UNCHANGED <<db, verdict, files, target, request, published, bounds>>
  BY DEF CheckJournal
<1>3. PICK s \in Sessions, k \in Keys :
        /\ s = Session(p) /\ k = proc[p].key /\ Place("check", s, k)
        /\ request[k] \in Requests /\ request[k].session = s
  BY <1>1, CallHas
<1>4. CASE journal # Absent /\ ~OwnsJournal(p)
  BY <1>1, <1>2, <1>4, ReturnStep DEF CheckJournal
<1>5. CASE journal # Absent /\ OwnsJournal(p)
  <2>1. PICK pc \in {"terminal", "resume"} : Goto(p, pc) /\ UNCHANGED <<journal, lock>>
    BY <1>5 DEF CheckJournal
  <2>2. Place(pc, s, k)
    BY <1>3, <1>5, <2>1 DEF Place, Own, OwnsJournal, OwnerPcs, WorkingPcs
  <2> QED BY <1>1, <1>2, <1>3, <2>1, <2>2, MoveStep DEF LockedPcs
<1>6. CASE journal = Absent
  <2>1. PICK pc \in {"terminal", "resume"}, phase \in {"target_binding_failed", "begin_pending"} :
          Goto(p, pc) /\ UNCHANGED lock /\ OpenJournal(p, phase)
    BY <1>6 DEF CheckJournal
  <2>2. /\ journal' \in Journals /\ journal' # Absent /\ journal'.session = s /\ journal'.key = k
        /\ journal'.phase = phase /\ (journal'.hadCanonical <=> canonical # Absent)
    <3>1. journal' = [session |-> s, key |-> k, phase |-> phase,
                      hadCanonical |-> canonical # Absent]
      BY <1>3, <2>1 DEF OpenJournal, JournalRow
    <3>2. journal' \in Journals
      BY <1>3, <3>1 DEF Journals, Phases
    <3> QED BY <3>1, <3>2
  <2>3. /\ canonical = published /\ previous[s] = Absent /\ candidate[s] = Absent
        /\ UNCHANGED <<canonical, candidate, previous>>
    BY <1>2, <1>3, <1>6 DEF IInv, AtRest, files
  <2>4. /\ proc' \in [Procs -> [pc : LockedPcs \cup UnlockedPcs, key : Keys \cup {Absent}]]
        /\ proc'[p].pc = pc /\ proc'[p].key = k
        /\ \A q \in Procs \ {p} : proc'[q] = proc[q] /\ proc[q].pc \notin LockedPcs
    BY <1>1, <1>3, <2>1, GotoIs DEF IInv, TypeOK, LockedPcs
  <2>5. TypeOK'
    BY <1>1, <1>2, <2>1, <2>2, <2>4 DEF IInv, TypeOK, LockedPcs, files, bounds
  <2>6. Calls' /\ Leases' /\ AtRest'
    BY <1>1, <1>2, <1>3, <1>6, <2>2, <2>3, <2>4 DEF IInv, Calls, Leases, AtRest, At
  <2>7. verdict[s][k] # Absent => verdict[s][k].status # "complete"
    BY <1>3 DEF Place, Open, WorkingPcs
  <2>8. JournalHolds'
    BY <1>2, <2>2, <2>3, <2>7
       DEF JournalHolds, Filed, Placed, Judged, Open, Settled, EarlyPhases
  <2>9. Places'
    <3> SUFFICES ASSUME NEW q \in Procs, proc'[q].pc # "idle"
                 PROVE Place(proc[q].pc, Session(q), proc[q].key)'
      BY DEF Places, At
    <3>1. CASE q = p
      <4>1. Place(pc, s, k)'
        BY <1>2, <1>3, <2>1, <2>2, <2>4 DEF Place, Own, Open, Passed, OwnerPcs, WorkingPcs
      <4>2. Session(p)' = s
        BY <1>2, <1>3, <2>4 DEF Session
      <4> QED BY <2>4, <3>1, <4>1, <4>2
    <3>2. CASE q # p
      <4>1. proc'[q] = proc[q] /\ proc[q].pc \notin LockedPcs
        BY <2>4, <3>2
      <4>2. Place(proc[q].pc, Session(q), proc[q].key) /\ Session(q)' = Session(q)
            /\ Session(q) \in Sessions
        BY <1>2, <4>1, CallHas DEF Session
      <4>3. Settled(Session(q))' \/ Session(q) # s
        BY <1>2, <2>3, <4>2 DEF Settled
      <4> QED
        BY <1>2, <2>1, <2>2, <4>1, <4>2, <4>3
           DEF Place, Own, Passed, EarlyPhases, OwnerPcs, WorkingPcs, LockedPcs
    <3> QED BY <3>1, <3>2
  <2> QED BY <2>5, <2>6, <2>8, <2>9 DEF IInv
<1> QED BY <1>4, <1>5, <1>6

\* finalize returns to route; its journal stays behind, without the lock.
LEMMA RejectCandidateKeeps ==
  ASSUME IInv, NEW p \in Procs, RejectCandidate(p)
  PROVE IInv'
<1>1. PICK s \in Sessions, k \in Keys : Held(p, "reject", s, k)
  BY OwnerHas DEF RejectCandidate, OwnerPcs
<1>2. /\ journal.phase = "validation_failed" /\ Goto(p, "route") /\ lock' = Absent /\ lock = p
      /\ UNCHANGED <<verdict, journal, canonical, candidate, previous, target, request,
                     published, bounds>>
  BY <1>1 DEF RejectCandidate, Held, Place, At, IInv, TypeOK, LockedPcs, files
<1>3. db[s].state = "VALIDATING" /\ NextState(s, "REPAIRING")
  BY <1>1, StateIs DEF RejectCandidate, Held, Place, Data, States
<1>4. /\ proc' \in [Procs -> [pc : LockedPcs \cup UnlockedPcs, key : Keys \cup {Absent}]]
      /\ proc'[p].pc = "route" /\ proc'[p].key = k
      /\ \A q \in Procs \ {p} : proc'[q] = proc[q] /\ proc[q].pc \notin LockedPcs
  BY <1>1, <1>2, GotoIs DEF Held, IInv, TypeOK, UnlockedPcs
<1>5. /\ \A t \in Sessions : db[t].version \in Nat /\ db'[t].version \in Nat
                             /\ db'[t].version >= db[t].version
      /\ db' \in [Sessions -> Rows]
  BY <1>1, <1>3, NoneGoesBack DEF Held, Data, NextState
<1>6. TypeOK'
  BY <1>2, <1>4, <1>5 DEF IInv, TypeOK, UnlockedPcs, LockedPcs, bounds
<1>7. Calls' /\ Leases' /\ AtRest'
  BY <1>1, <1>2, <1>3, <1>4 DEF IInv, Held, Calls, Leases, AtRest, At, NextState
<1>8. JournalHolds'
  <2>1. Filed(s, k)' /\ Judged(s, k)'
    BY <1>1, <1>2 DEF Held, Filed, Judged, Open, Settled
  <2>2. Placed(s, k)'
    BY <1>1, <1>2, <1>5 DEF Held, Placed, Passed, Requests
  <2> QED BY <1>1, <1>2, <2>1, <2>2 DEF JournalHolds, Held, Own
<1>9. Places'
  <2> SUFFICES ASSUME NEW q \in Procs, proc'[q].pc # "idle"
               PROVE Place(proc[q].pc, Session(q), proc[q].key)'
    BY DEF Places, At
  <2>1. CASE q = p
    <3>1. Place("route", s, k)'
      BY <1>1, <1>2, <1>5
         DEF Held, Filed, Placed, Place, Own, Passed, Settled, Requests, EarlyPhases,
             OwnerPcs, WorkingPcs
    <3>2. Session(p)' = s
      BY <1>1, <1>2, <1>4 DEF Held, Session
    <3> QED BY <1>4, <2>1, <3>1, <3>2
  <2>2. CASE q # p
    <3>1. proc'[q] = proc[q] /\ proc[q].pc \notin LockedPcs
      BY <1>4, <2>2
    <3>2. Place(proc[q].pc, Session(q), proc[q].key) /\ Session(q)' = Session(q)
          /\ Session(q) \in Sessions /\ request[proc[q].key] \in Requests
      BY <1>2, <3>1, CallHas DEF Session
    <3> QED
      BY <1>2, <1>5, <3>1, <3>2
         DEF Place, Own, Passed, Settled, Requests, OwnerPcs, WorkingPcs, LockedPcs
  <2> QED BY <2>1, <2>2
<1> QED BY <1>6, <1>7, <1>8, <1>9 DEF IInv

\* Whoever changes a session from outside finalize's lock does so while no
\* finalize stands on its state; what it stores for a call is no report.
LEMMA OutsideStep ==
  ASSUME IInv, NEW s \in Sessions, NEW k,
         db' \in [Sessions -> Rows],
         \A t \in Sessions \ {s} : db'[t] = db[t],
         db'[s] = db[s] \/ db[s].state \notin {"ASSEMBLING", "VALIDATING"},
         db'[s].version >= db[s].version,
         Leases',
         \/ UNCHANGED verdict
         \/ /\ ResultStored(s, k, "failed", Absent) \/ ResultStored(s, k, "lease_issued", Absent)
            /\ Passed(s, k)
            /\ Own(s, k) => journal.phase \in EarlyPhases /\ Settled(s),
         proc' \in [Procs -> [pc : LockedPcs \cup UnlockedPcs, key : Keys \cup {Absent}]],
         \A q \in Procs :
           /\ proc'[q].key = proc[q].key
           /\ \/ proc'[q].pc = proc[q].pc
              \/ proc[q].pc = "route" /\ proc'[q].pc = "finish",
         UNCHANGED <<journal, files, target, lock, request, published, bounds>>
  PROVE IInv'
<1>1. UNCHANGED <<canonical, candidate, previous>>
  BY DEF files
<1>2. verdict' \in [Sessions -> [Keys -> Results \cup {Absent}]]
  BY DEF ResultStored, IInv, TypeOK
<1>3. TypeOK'
  BY <1>1, <1>2 DEF IInv, TypeOK, LockedPcs, bounds
<1>4. Calls' /\ AtRest'
  BY <1>1 DEF IInv, Calls, AtRest, At
<1>5. \A t \in Sessions, l \in Keys :
        /\ request[l] \in Requests /\ Passed(t, l) => Passed(t, l)'
        /\ Stands(t, l, "ASSEMBLING", 1) => db'[t] = db[t]
        /\ Stands(t, l, "VALIDATING", 2) => db'[t] = db[t]
        /\ db[t].state = "VALIDATING" => db'[t] = db[t]
  BY DEF Passed, Stands, IInv, TypeOK, Rows, Requests
<1>6. \A t \in Sessions, l \in Keys :
        \/ verdict'[t][l] = verdict[t][l]
        \/ t = s /\ l = k /\ ~Open(t, l)' /\ verdict'[t][l].status # "complete"
           /\ Passed(t, l)
           /\ (Own(t, l) => journal.phase \in EarlyPhases /\ Settled(t))
  BY DEF ResultStored, Open
<1>7. JournalHolds'
  <2> SUFFICES ASSUME journal # Absent, NEW t \in Sessions, NEW l \in Keys, Own(t, l),
                      Filed(t, l), Placed(t, l), Judged(t, l), request[l] \in Requests
               PROVE Filed(t, l)' /\ Placed(t, l)' /\ Judged(t, l)'
    BY <1>1 DEF IInv, TypeOK, Journals, JournalHolds, Own, Calls
  <2>1. CASE verdict'[t][l] = verdict[t][l]
    <3>1. Placed(t, l)' /\ Judged(t, l)'
      BY <1>1, <1>5, <2>1 DEF Placed, Judged, Open, Settled, Stands
    <3>2. Filed(t, l)'
      BY <1>1, <1>5, <2>1 DEF Filed, Placed, Open, Settled, Doc
    <3> QED BY <3>1, <3>2
  <2>2. CASE verdict'[t][l] # verdict[t][l]
    <3>1. /\ ~Open(t, l)' /\ verdict'[t][l].status # "complete"
          /\ journal.phase \in EarlyPhases /\ Settled(t)
      BY <1>6, <2>2
    <3>2. Open(t, l) \/ verdict[t][l].status # "complete"
      BY <3>1 DEF Judged, EarlyPhases
    <3> QED
      BY <1>1, <1>5, <3>1, <3>2
         DEF Filed, Placed, Judged, Settled, Open, EarlyPhases
  <2> QED BY <2>1, <2>2
<1>8. Places'
  <2> SUFFICES ASSUME NEW q \in Procs, proc'[q].pc # "idle"
               PROVE Place(proc[q].pc, Session(q), proc[q].key)'
    BY DEF Places, At
  <2>1. PICK t \in Sessions, l \in Keys :
          /\ t = Session(q) /\ l = proc[q].key /\ request[l] \in Requests
          /\ Place(proc[q].pc, t, l)
    BY CallHas
  <2>4. Session(q)' = t /\ (proc[q].key)' = l
    BY <2>1 DEF Session
  <2>2. CASE proc'[q].pc \in {"route", "finish"}
    <3>1. proc[q].pc \in {"route", "finish"}
      BY <2>2
    <3>2. Passed(t, l)' /\ (Own(t, l)' => journal'.phase \in EarlyPhases /\ Settled(t)')
      BY <1>1, <1>5, <2>1, <3>1 DEF Place, Own, Settled
    <3> QED BY <2>2, <2>4, <3>2 DEF Place, OwnerPcs, WorkingPcs
  <2>3. CASE proc'[q].pc \notin {"route", "finish"}
    <3>1. proc'[q].pc = proc[q].pc
      BY <2>3
    <3>2. proc[q].pc \in WorkingPcs /\ ~Open(t, l)' =>
            (verdict[t][l].status # "complete" /\ Passed(t, l))'
      BY <1>5, <1>6, <2>1 DEF Place, Open
    <3>3. journal # Absent => journal.key \in Keys
      BY DEF IInv, TypeOK, Journals
    <3>4. proc[q].pc = "tidy" => journal'.phase \in EarlyPhases \/ ~Open(t, journal.key)'
      BY <1>6, <2>1, <3>3 DEF Place, Open
    <3>5. /\ proc[q].pc \in {"begun", "mark"} => Stands(t, l, "ASSEMBLING", 1)'
          /\ proc[q].pc = "reject" => db'[t].state = "VALIDATING"
          /\ proc[q].pc = "validate" => Stands(t, l, "VALIDATING", 2)'
      BY <1>5, <2>1 DEF Place, Stands
    <3>6. /\ proc[q].pc = "rendered" => candidate[t] = Doc(t)'
          /\ proc[q].pc = "promoted" => canonical = Doc(t)'
      <4>1. proc[q].pc \in {"rendered", "promoted"} => Placed(t, l) /\ Own(t, l)
        BY <2>1 DEF Place, Own, OwnerPcs, IInv, JournalHolds
      <4> QED BY <1>5, <2>1, <4>1 DEF Place, Placed, Doc
    <3> QED
      BY <1>1, <2>1, <2>3, <2>4, <3>1, <3>2, <3>4, <3>5, <3>6 DEF Place, Own, Settled
  <2> QED BY <2>2, <2>3
<1> QED BY <1>3, <1>4, <1>7, <1>8 DEF IInv

\* A chunk needs a lease, so no finalize is working on its session.
LEMMA SubmitKeeps ==
  ASSUME IInv, NEW s \in Sessions, Submit(s)
  PROVE IInv'
<1>1. PICK complete \in BOOLEAN : db' = [db EXCEPT ![s] = Answered(db[s], complete)]
  BY DEF Submit, SetRow
<1>2. /\ Answered(db[s], complete) \in Rows
      /\ Answered(db[s], complete).state = IF complete THEN "READY" ELSE "COLLECTING"
      /\ Answered(db[s], complete).leased <=> ~complete
      /\ Answered(db[s], complete).version = db[s].version + 1
  BY AnsweredIs DEF IInv, TypeOK
<1>3. /\ db' \in [Sessions -> Rows]
      /\ \A t \in Sessions \ {s} : db'[t] = db[t]
      /\ db'[s].leased <=> db'[s].state = "COLLECTING"
      /\ db'[s].version >= db[s].version
  BY <1>1, <1>2 DEF IInv, TypeOK, Rows
<1>4. Leases' /\ db[s].state \notin {"ASSEMBLING", "VALIDATING"}
  BY <1>3 DEF IInv, Leases, Submit
<1> QED
  BY <1>3, <1>4, OutsideStep DEF Submit, IInv, TypeOK

\* Routing stores a result only for a call whose files are settled.
LEMMA RouteKeeps ==
  ASSUME IInv, NEW p \in Procs, NEW mapped \in BOOLEAN, Route(p, mapped)
  PROVE IInv'
<1>1. PICK s \in Sessions, k \in Keys :
        /\ s = Session(p) /\ k = proc[p].key /\ Place("route", s, k)
  BY CallHas DEF Route, At
<1>2. Passed(s, k) /\ (Own(s, k) => journal.phase \in EarlyPhases /\ Settled(s))
  BY <1>1 DEF Place
<1>3. /\ proc' \in [Procs -> [pc : LockedPcs \cup UnlockedPcs, key : Keys \cup {Absent}]]
      /\ \A q \in Procs :
           /\ proc'[q].key = proc[q].key
           /\ \/ proc'[q].pc = proc[q].pc
              \/ proc[q].pc = "route" /\ proc'[q].pc = "finish"
  BY GotoIs DEF Route, At, IInv, UnlockedPcs
<1>4. UNCHANGED <<journal, files, target, lock, request, published, bounds>>
  BY DEF Route
<1>5. \/ UNCHANGED verdict
      \/ ResultStored(s, k, "failed", Absent) \/ ResultStored(s, k, "lease_issued", Absent)
  BY <1>1, VerdictIs DEF Route, RouteVerdict, IInv, TypeOK, Reports
<1>6. CASE UNCHANGED db
  <2>1. Leases' /\ db' \in [Sessions -> Rows] /\ db[s].version \in Nat
    BY <1>6 DEF IInv, TypeOK, Leases, Rows
  <2>2. db'[s].version >= db[s].version
    BY <1>6, <2>1
  <2> QED BY <1>1, <1>2, <1>3, <1>4, <1>5, <1>6, <2>1, <2>2, OutsideStep
<1>7. CASE db[s].state = "REPAIRING" /\ SetState(s, "FAILED")
  <2>1. NextState(s, "FAILED")
    BY <1>7, StateIs DEF IInv, TypeOK, States
  <2>2. Leases' /\ db'[s].version >= db[s].version
    BY <2>1 DEF IInv, Leases, NextState, TypeOK, Rows
  <2> QED BY <1>1, <1>2, <1>3, <1>4, <1>5, <1>7, <2>1, <2>2, OutsideStep DEF NextState
<1>8. CASE /\ db[s].state = "REPAIRING" /\ db[s].repairs < MaxRepairRounds
           /\ SetRow(s, Reopened(db[s]))
  <2>1. db[s] \in Rows /\ db[s].repairs + 1 \in 0 .. MaxRepairRounds
    BY <1>8 DEF IInv, TypeOK, Rows
  <2>2. /\ Reopened(db[s]) \in Rows
        /\ Reopened(db[s]).state = "COLLECTING" /\ Reopened(db[s]).leased
        /\ Reopened(db[s]).version = db[s].version + 1
    BY <2>1, ReopenedIs
  <2>3. /\ db' \in [Sessions -> Rows]
        /\ \A t \in Sessions \ {s} : db'[t] = db[t]
        /\ db'[s].state = "COLLECTING" /\ db'[s].leased
        /\ db'[s].version >= db[s].version
    BY <1>8, <2>1, <2>2 DEF SetRow, IInv, TypeOK, Rows
  <2>4. Leases'
    BY <2>3 DEF IInv, Leases
  <2> QED BY <1>1, <1>2, <1>3, <1>4, <1>5, <1>8, <2>3, <2>4, OutsideStep
<1> QED BY <1>1, <1>6, <1>7, <1>8 DEF Route, IInv, TypeOK, Rows

\* Only TypeOK speaks of the target and of the counters of the bounds.
LEMMA SameStep ==
  ASSUME IInv, TypeOK',
         UNCHANGED <<db, verdict, journal, files, lock, proc, request, published>>
  PROVE IInv'
<1>1. UNCHANGED <<canonical, candidate, previous>>
  BY DEF files
<1>2. Calls' /\ Leases' /\ AtRest'
  BY <1>1 DEF IInv, Calls, Leases, AtRest, At
<1>3. JournalHolds'
  BY <1>1
     DEF IInv, JournalHolds, Filed, Placed, Judged, Open, Settled, Doc, Stands, Passed
<1>4. Places'
  <2> SUFFICES ASSUME NEW q \in Procs, proc'[q].pc # "idle"
               PROVE Place(proc[q].pc, Session(q), proc[q].key)'
    BY DEF Places, At
  <2>1. PICK pc, s, k :
          /\ pc = proc[q].pc /\ s = Session(q) /\ k = proc[q].key
          /\ proc'[q] = proc[q] /\ Session(q)' = s
    BY DEF Session
  <2>2. Place(pc, s, k)
    BY <2>1, CallHas
  <2>3. Place(pc, s, k)'
    BY <1>1, <2>2 DEF Place, Own, Open, Settled, Doc, Stands, Passed
  <2> QED BY <2>1, <2>3
<1> QED BY <1>2, <1>3, <1>4 DEF IInv

\* target.json is no part of the invariant.
LEMMA ChangeTargetKeeps ==
  ASSUME IInv, ChangeTarget
  PROVE IInv'
<1>1. TypeOK'
  BY DEF IInv, TypeOK, ChangeTarget, files
<1> QED BY <1>1, SameStep DEF ChangeTarget

-----------------------------------------------------------------------------
(* All together *)

\* The rows of the initial state.
LEMMA NewSessionIs ==
  ASSUME NEW st \in {"COLLECTING", "READY"}
  PROVE /\ NewSession(st) \in Rows
        /\ NewSession(st).state = st /\ NewSession(st).version = 0
        /\ NewSession(st).leased <=> st = "COLLECTING"
<1> DEFINE leased == st = "COLLECTING"
<1>1. leased \in BOOLEAN /\ (leased <=> st = "COLLECTING")
  OBVIOUS
<1>2. NewSession(st) =
        [state |-> st, version |-> 0, doc |-> 0, leased |-> leased, repairs |-> 0]
  BY Zenon DEF NewSession
<1> HIDE DEF leased
<1> QED BY <1>1, <1>2 DEF Rows, States

\* The invariant holds at the start.
LEMMA InitHolds == Init => IInv
<1> SUFFICES ASSUME Init PROVE IInv
  OBVIOUS
<1>1. \A st \in {"COLLECTING", "READY"} :
        /\ NewSession(st) \in Rows
        /\ NewSession(st).state = st
        /\ NewSession(st).leased <=> st = "COLLECTING"
  BY NewSessionIs
<1>2. db \in [Sessions -> Rows] /\ Leases
  BY <1>1 DEF Init, Leases
<1>3. proc \in [Procs -> [pc : LockedPcs \cup UnlockedPcs, key : Keys \cup {Absent}]]
  BY DEF Init, Idle, UnlockedPcs
<1>4. \A p \in Procs : proc[p].pc = "idle"
  BY DEF Init, Idle
<1>5. TypeOK
  BY <1>2, <1>3, <1>4 DEF Init, TypeOK, Reports, LockedPcs
<1>6. Calls /\ AtRest /\ JournalHolds /\ Places
  BY <1>4 DEF Init, Calls, AtRest, JournalHolds, Places, At
<1> QED BY <1>2, <1>5, <1>6 DEF IInv

\* Every step of a process keeps it.
LEMMA StepKeeps ==
  ASSUME IInv, NEW p \in Procs, Step(p)
  PROVE IInv'
<1>1. ASSUME NEW mapped \in BOOLEAN, Route(p, mapped) PROVE IInv'
  BY <1>1, RouteKeeps
<1> QED
  BY <1>1, AcquireKeeps, LookupKeeps, CheckJournalKeeps, BeginKeeps, BegunKeeps,
     RenderRaisesKeeps, WriteCandidateKeeps, RenderedKeeps, LoadRenderedKeeps,
     MarkValidatingKeeps, ValidateKeeps, DiscardCandidateKeeps, LoadRejectedKeeps,
     RejectCandidateKeeps, BackupKeeps, BackedUpKeeps, PromoteKeeps,
     PromotedKeeps, TargetGuardKeeps, CompleteKeeps, UnsupportedPhaseKeeps,
     ResumeTerminalKeeps, TidyKeeps, DropJournalKeeps, TerminalKeeps, RollbackKeeps,
     RolledBackKeeps, FailKeeps, FinishRoutingKeeps
     DEF Step

\* Every step keeps it.
LEMMA NextKeeps ==
  ASSUME IInv, [Next]_vars
  PROVE IInv'
<1>1. ASSUME NEW s \in Sessions, Submit(s) PROVE IInv'
  BY <1>1, SubmitKeeps
<1>2. ASSUME NEW p \in Procs, Step(p) \/ Crash(p) PROVE IInv'
  BY <1>2, StepKeeps, CrashKeeps
<1>3. ASSUME NEW p \in Procs, NEW k \in Keys, CallAny(p, k) \/ Repeat(p, k) PROVE IInv'
  <2>1. CASE CallAny(p, k)
    <3>1. PICK s \in Sessions : \E expected \in {db[s].version, db[s].version - 1} :
            expected >= 0 /\ Call(p, k, s, expected)
      BY <2>1 DEF CallAny
    <3>2. PICK expected \in {db[s].version, db[s].version - 1} :
            expected >= 0 /\ Call(p, k, s, expected)
      BY <3>1
    <3>3. expected \in Nat
      BY <3>2 DEF IInv, TypeOK, Rows
    <3> QED BY <3>2, <3>3, CallKeeps
  <2>2. CASE Repeat(p, k)
    <3>1. request[k].session \in Sessions /\ request[k].expected \in Nat
      BY <2>2 DEF Repeat, IInv, TypeOK, Requests
    <3> QED BY <2>2, <3>1, CallKeeps DEF Repeat
  <2> QED BY <1>3, <2>1, <2>2
<1>4. CASE UNCHANGED vars
  <2>1. UNCHANGED <<db, verdict, journal, files, lock, proc, request, published>>
    BY <1>4 DEF vars
  <2>2. TypeOK'
    BY <1>4 DEF IInv, TypeOK, vars, files, bounds
  <2> QED BY <2>1, <2>2, SameStep
<1> QED BY <1>1, <1>2, <1>3, <1>4, ChangeTargetKeeps DEF Next

\* The invariant holds in every reachable state, whatever the number of processes,
\* sessions and keys, and wherever the crashes fall.
THEOREM Invariance == Spec => []IInv
<1>1. IInv /\ [Next]_vars => IInv'
  BY NextKeeps
<1> QED BY InitHolds, <1>1, PTL DEF Spec

=============================================================================
