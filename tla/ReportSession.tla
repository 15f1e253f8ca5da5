---------------------------- MODULE ReportSession ----------------------------
(***************************************************************************)
(* One report session as the SQLite store holds it and the service drives  *)
(* it: scripts/report_session_service.py over report_session_store.py,     *)
(* with the lease planner (report_lease_planner.py) and the coverage rules *)
(* (report_work_units.py) it calls.                                        *)
(*                                                                         *)
(* Every operation of the service is one BEGIN IMMEDIATE transaction       *)
(* (store.transact), so it is one action here.  A refused command rolls    *)
(* back or writes nothing and is a stuttering step.  Commands carry any    *)
(* key, lease, version and payload a client can put in them, which covers  *)
(* duplicated, delayed and reordered calls.                                *)
(*                                                                         *)
(* The transactions that report_lifecycle.py runs on the session are here  *)
(* too, one action each; module ReportLifecycle models when it runs them.  *)
(***************************************************************************)
EXTENDS Integers, FiniteSets

CONSTANTS
  Items,            \* required entries of all work units, numbered in planner order
  Units,            \* work-unit ids
  UnitOf,           \* the work unit an item belongs to
  Slots,            \* (subject, field) pairs, and relationship edges
  SlotOf,           \* what a record must fill to cover the item
  Edges,            \* the slots that are relationship edges
  FieldOf,          \* the field name of a slot, its subject left out
  GlobalUnits,      \* units without a subject (global:scope, global:readiness)
  ClaimIds,         \* ids a client can give its claims
  Keys,             \* idempotency keys of chunk submissions
  Capacities,       \* field capacities a token budget can yield
  MaxClaims, MaxRelationships, MaxRetries, MaxRepairRounds

FieldSlots == Slots \ Edges
FieldItems == {i \in Items : SlotOf[i] \notin Edges}

ASSUME SessionAssumption ==
  /\ Items \subseteq Nat /\ Items # {} /\ IsFiniteSet(Items)
  /\ UnitOf \in [Items -> Units]
  /\ Edges \subseteq Slots /\ SlotOf \in [Items -> Slots]
  /\ DOMAIN FieldOf = Slots
  /\ GlobalUnits \subseteq Units
  /\ Capacities \subseteq Nat \ {0} /\ Capacities # {}
  /\ MaxClaims \in Nat /\ MaxRelationships \in Nat \ {0}
  /\ MaxRetries \in Nat /\ MaxRepairRounds \in Nat

VARIABLES
  state,        \* sessions.state, or "NONE" before the row exists
  version,      \* sessions.state_version
  doc,          \* rows of claims and relationships
  unitStatus,   \* work_units.status
  leases,       \* rows of leases
  results,      \* rows of chunk_results
  repairs       \* number of REPAIR_LEASE_ISSUED audit events

vars == <<state, version, doc, unitStatus, leases, results, repairs>>

-----------------------------------------------------------------------------
(* Documents and coverage *)

Records ==
  [id : ClaimIds, slot : FieldSlots] \cup {[id |-> e, slot |-> e] : e \in Edges}

\* parse_report_document refuses a payload that uses a claim or edge id twice.
UniqueIds(d) == \A r, s \in d : r.id = s.id => r = s
Payloads == {p \in SUBSET Records : UniqueIds(p)}

Filled(d) == {r.slot : r \in d}
Missing(d) == {i \in Items : SlotOf[i] \notin Filled(d)}
MissingUnits(d) == {UnitOf[i] : i \in Missing(d)}
Covered(d) == Missing(d) = {}

\* Mutant: a claim that two units ask for counts for the first alone.
StatusUnshared(d) ==
  [u \in Units |->
     IF \E i \in Items : /\ UnitOf[i] = u
                         /\ \/ SlotOf[i] \notin Filled(d)
                            \/ \E j \in Items : j < i /\ SlotOf[j] = SlotOf[i]
     THEN "PENDING" ELSE "COMPLETE"]

StatusFrom(d) ==
  [u \in Units |-> IF u \in MissingUnits(d) THEN "PENDING" ELSE "COMPLETE"]

\* Mutant: relationships are forgotten when the session is declared ready.
StateOfFields(d) ==
  IF \A i \in FieldItems : SlotOf[i] \in Filled(d) THEN "READY" ELSE "COLLECTING"

StateFrom(d) == IF Covered(d) THEN "READY" ELSE "COLLECTING"

-----------------------------------------------------------------------------
(* Leases.  The planner walks the pending units in order of their id and   *)
(* takes fields until the capacity is used up; the first unit it reaches   *)
(* with no capacity left ends the walk.  Relationships past their cap are  *)
(* passed over.                                                            *)

FieldsBefore(pending, i) == {j \in pending \cap FieldItems : j < i}
EdgesBefore(pending, i) == {j \in pending \ FieldItems : j < i}
OpensUnit(pending, i) ==
  \A j \in FieldsBefore(pending, i) : UnitOf[j] # UnitOf[i]

WalkEndsAt(pending, cap, i) ==
  /\ i \in pending \cap FieldItems
  /\ OpensUnit(pending, i)
  /\ Cardinality(FieldsBefore(pending, i)) >= cap

Selected(pending, cap, i) ==
  IF i \in FieldItems
  THEN Cardinality(FieldsBefore(pending, i)) < cap
  ELSE /\ ~ \E j \in pending : j < i /\ WalkEndsAt(pending, cap, j)
       /\ Cardinality(EdgesBefore(pending, i)) < MaxRelationships

PlannedItems(pending, cap) == {i \in pending : Selected(pending, cap, i)}

\* issue_or_resume names the lease after the version it is given, plus one.
PlannedLease(pending, cap, stateVersion) ==
  [id |-> stateVersion + 1, items |-> PlannedItems(pending, cap),
   retry |-> 0, status |-> "ACTIVE"]

\* A failed transport keeps the first half of the fields, at least one, and
\* drops the relationships; a lease of relationships alone is kept whole.
ShrunkItems(items) ==
  LET fields == items \cap FieldItems
      keep == IF Cardinality(fields) \div 2 = 0
              THEN 1 ELSE Cardinality(fields) \div 2
  IN  IF fields = {} THEN items
      ELSE {i \in fields : Cardinality(FieldsBefore(items, i)) < keep}

ActiveLeases == {l \in leases : l.status = "ACTIVE"}
\* Mutant: the used lease stays open.
LeftOpen(l) == l
\* Nothing reads what a COMPLETE lease allowed, so the row keeps only its id.
Completed(l) == [id |-> l.id, items |-> {}, retry |-> 0, status |-> "COMPLETE"]

-----------------------------------------------------------------------------
Init ==
  /\ state = "NONE" /\ version = 0 /\ doc = {}
  /\ unitStatus = [u \in Units |-> "PENDING"]
  /\ leases = {} /\ results = {} /\ repairs = 0

(* report_session_start with the records the initial payload carries. *)
Start(initial, cap) ==
  /\ state = "NONE"
  /\ doc' = initial
  /\ unitStatus' = StatusFrom(initial)
  /\ state' = StateFrom(initial)
  /\ leases' = IF Covered(initial) THEN {}
               ELSE {PlannedLease(Missing(initial), cap, 0)}
  /\ UNCHANGED <<version, results, repairs>>

-----------------------------------------------------------------------------
(* report_chunk_submit *)

AllowedFields(l) == {FieldOf[SlotOf[i]] : i \in l.items \cap FieldItems}
AllowedEdges(l) == {SlotOf[i] : i \in l.items \ FieldItems}

\* The lease's limits: its record caps, its field names (whatever the subject
\* of the claim) and its edges.  The command also lists units of the lease,
\* and only their fields and edges count; a command that lists them all is
\* accepted whenever one that lists fewer is, with the same effect.
WithinLease(l, payload) ==
  LET edges == {r \in payload : r.slot \in Edges}
      claims == payload \ edges
  IN  /\ Cardinality(claims) <= MaxClaims
      /\ Cardinality(edges) <= MaxRelationships
      /\ \A r \in claims : FieldOf[r.slot] \in AllowedFields(l)
      /\ \A r \in edges : r.slot \in AllowedEdges(l)

\* Mutant: ids of earlier chunks are not looked at.
InsertableAnyway(payload) == UniqueIds(payload)
\* The primary keys of claims and relationships.
Insertable(payload) == \A r \in payload, s \in doc : r.id # s.id

\* Mutant: a lease that has been used up is taken again.
HoldsAnyLease(l, leaseId) == l.id = leaseId
IsNewKey(key) == \A r \in results : r.key # key
HoldsLease(l, leaseId) == l.status = "ACTIVE" /\ l.id = leaseId

\* The document grows, every unit's status is computed anew, the lease is
\* closed and, while entries are missing, the next one is issued.
Accept(l, payload, cap) ==
  LET updated == doc \cup payload
      closed == (leases \ {l}) \cup {Completed(l)}
  IN  /\ doc' = updated
      /\ unitStatus' = StatusFrom(updated)
      /\ state' = StateFrom(updated)
      /\ version' = version + 1
      /\ leases' = IF Covered(updated) THEN closed
                   ELSE closed \cup
                        {PlannedLease(Missing(updated), cap, version + 1)}

Submit(key, leaseId, expected) ==
  /\ state # "NONE"
  /\ IsNewKey(key)
  /\ expected = version
  /\ \E l \in leases :
       /\ HoldsLease(l, leaseId)
       /\ \E payload \in Payloads :
            /\ WithinLease(l, payload)
            /\ Insertable(payload)
            /\ \E cap \in Capacities : Accept(l, payload, cap)
  /\ results' = results \cup
       {[key |-> key, lease |-> leaseId, version |-> version + 1]}
  /\ UNCHANGED repairs

(* A timed out or malformed model answer: the orchestrator shrinks the lease. *)
RecordTransportFailure(leaseId) ==
  /\ \E l \in leases :
       /\ HoldsLease(l, leaseId)
       /\ l.retry < MaxRetries
       /\ leases' = (leases \ {l}) \cup
            {[l EXCEPT !.items = ShrunkItems(l.items), !.retry = @ + 1]}
  /\ UNCHANGED <<state, version, doc, unitStatus, results, repairs>>

-----------------------------------------------------------------------------
(* The transactions of report_session_finalize *)

\* Mutant: the version is not raised.
MoveSilently(next) ==
  /\ state' = next
  /\ UNCHANGED <<version, doc, unitStatus, leases, results, repairs>>

MoveTo(next) ==
  /\ state' = next
  /\ version' = version + 1
  /\ UNCHANGED <<doc, unitStatus, leases, results, repairs>>

\* Mutant: only the version is compared.
FinalizeBeginUnready(expected) == state # "NONE" /\ expected = version /\ MoveTo("ASSEMBLING")

FinalizeBegin(expected) ==
  /\ expected = version
  /\ state = "READY"
  /\ MoveTo("ASSEMBLING")

CandidateRendered ==
  /\ state = "ASSEMBLING"
  /\ MoveTo("VALIDATING")

CandidateRejected ==
  /\ state = "VALIDATING"
  /\ MoveTo("REPAIRING")

FinalizeCompleted ==
  /\ state = "VALIDATING"
  /\ MoveTo("COMPLETE")

\* _terminal_failure has no condition on the state: a finalize call that
\* finds target.json changed fails the session wherever it is.
FinalizeFailed ==
  /\ state \notin {"NONE", "FAILED"}
  /\ MoveTo("FAILED")

-----------------------------------------------------------------------------
(* Routing of validation diagnostics to repair items *)

\* Mutant: the repaired entries stay in the store.
DiscardedNothing(repair) == {}

\* Records of the repaired entries are deleted; a unit without a subject
\* deletes its field from every subject.
Discarded(repair) ==
  {r \in doc : \E i \in repair :
     \/ r.slot = SlotOf[i]
     \/ /\ i \in FieldItems /\ UnitOf[i] \in GlobalUnits
        /\ FieldOf[r.slot] = FieldOf[SlotOf[i]]}

RepairBudgetSpent(repair) == repair = {} \/ repairs >= MaxRepairRounds

RouteRepair(repair, cap) ==
  /\ ActiveLeases = {}
  /\ state = "REPAIRING"
  /\ ~RepairBudgetSpent(repair)
  /\ doc' = doc \ Discarded(repair)
  /\ unitStatus' = [u \in Units |->
       IF \E i \in repair : UnitOf[i] = u THEN "PENDING" ELSE unitStatus[u]]
  /\ leases' = leases \cup {PlannedLease(repair, cap, version)}
  /\ state' = "COLLECTING"
  /\ version' = version + 1
  /\ repairs' = repairs + 1
  /\ UNCHANGED results

RouteRepairFailed(repair) ==
  /\ ActiveLeases = {}
  /\ state = "REPAIRING"
  /\ RepairBudgetSpent(repair)
  /\ MoveTo("FAILED")

-----------------------------------------------------------------------------
LeaseIds == {l.id : l \in leases}

Next ==
  \/ \E initial \in Payloads, cap \in Capacities : Start(initial, cap)
  \/ \E key \in Keys, leaseId \in LeaseIds, expected \in 0 .. version :
       Submit(key, leaseId, expected)
  \/ \E leaseId \in LeaseIds : RecordTransportFailure(leaseId)
  \/ \E expected \in 0 .. version : FinalizeBegin(expected)
  \/ CandidateRendered
  \/ CandidateRejected
  \/ FinalizeCompleted
  \/ FinalizeFailed
  \/ \E repair \in SUBSET Items, cap \in Capacities : RouteRepair(repair, cap)
  \/ \E repair \in SUBSET Items : RouteRepairFailed(repair)

Spec == Init /\ [][Next]_vars

-----------------------------------------------------------------------------
States ==
  {"NONE", "COLLECTING", "READY", "ASSEMBLING", "VALIDATING", "REPAIRING",
   "COMPLETE", "FAILED"}

LeaseRows ==
  [id : Nat, items : SUBSET Items, retry : 0 .. MaxRetries,
   status : {"ACTIVE", "COMPLETE"}]

\* Every variable keeps its type; in particular a lease never holds an entry
\* that is not required and no claim or edge id occurs twice in the store.
TypeOK ==
  /\ state \in States
  /\ version \in Nat
  /\ doc \subseteq Records /\ UniqueIds(doc)
  /\ unitStatus \in [Units -> {"PENDING", "COMPLETE"}]
  /\ leases \subseteq LeaseRows
  /\ results \subseteq [key : Keys, lease : Nat, version : Nat]
  /\ repairs \in 0 .. MaxRepairRounds

-----------------------------------------------------------------------------
(* Safety *)

\* The lease table's constraints are never what stops a command: no two rows
\* share an id (the primary key) and at most one is ACTIVE (the partial unique
\* index).  Ids come from the version, and submit and repair routing derive
\* them differently, so an id could come round again.
LeaseTableKeys ==
  /\ \A l, m \in leases : l.id = m.id => l = m
  /\ \A l, m \in ActiveLeases : l = m

\* A session that is collecting always has the lease its client needs to go
\* on, and outside collection no lease is open, so nothing can be submitted
\* under a report being assembled, validated or repaired.  (A failed session
\* may keep the lease it had.)
LeaseMatchesState ==
  /\ state = "COLLECTING" => ActiveLeases # {}
  /\ ActiveLeases # {} => state \in {"COLLECTING", "FAILED"}

\* From READY on, every required entry is recorded: a report is rendered only
\* from a complete document, whatever mix of chunks and repairs led there.
FinalizedStates == {"READY", "ASSEMBLING", "VALIDATING", "REPAIRING", "COMPLETE"}
FinalizedIsCovered == state \in FinalizedStates => Covered(doc)

\* An open lease asks only for entries that are still missing, after a partial
\* answer, a shrink or a repair alike: the model is never sent to redo an
\* entry, which it could only answer with a refused duplicate.
LeaseAsksForMissing ==
  \A l \in ActiveLeases : l.items # {} /\ l.items \subseteq Missing(doc)

\* Each lease is used up by at most one accepted chunk and each accepted chunk
\* used up exactly one lease, at the version it produced.
ChunksMatchLeases ==
  /\ {l.id : l \in leases \ ActiveLeases} = {r.lease : r \in results}
  /\ \A r, s \in results : r.lease = s.lease \/ r.version = s.version => r = s

\* The stored status of a unit never lags behind the document: a unit listed
\* PENDING lacks an entry, and once collection is over no unit is PENDING.
\* (The converse fails while a repair is collected: see the README.)
UnitStatusNotBehind ==
  /\ state # "NONE" =>
       \A u \in Units : unitStatus[u] = "PENDING" => u \in MissingUnits(doc)
  /\ state \in FinalizedStates => \A u \in Units : unitStatus[u] = "COMPLETE"

(* What a step may never do *)

\* state_version is the token clients compare: a step that changes the state,
\* the document or the set of leases raises it by one, and nothing else does.
VersionCountsChanges ==
  [][state # "NONE" =>
       version' = IF <<state, doc, LeaseIds, results>>' = <<state, doc, LeaseIds, results>>
                  THEN version ELSE version + 1]_vars

\* A recorded entry is removed only by a repair, and only from a session whose
\* candidate was rejected; while a report is being finalized the document it
\* was rendered from stays as it is.
DocumentGuarded ==
  [][/\ state \in FinalizedStates \ {"REPAIRING"} => doc' = doc
     /\ ~(doc \subseteq doc') => state = "REPAIRING" /\ state' = "COLLECTING"]_vars

-----------------------------------------------------------------------------
(* The protocol this session follows *)

Protocol == INSTANCE SessionProtocol WITH leased <- ActiveLeases # {}

\* The tables and transactions implement the protocol: states move only along
\* its edges, with the version, and there is a lease exactly when it says so.
FollowsProtocol == Protocol!Spec

=============================================================================
