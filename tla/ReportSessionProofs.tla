------------------------- MODULE ReportSessionProofs -------------------------
(***************************************************************************)
(* Theorems about ReportSession for every value of its constants.          *)
(*                                                                         *)
(* The invariants are proved in layers, each layer using those below it:   *)
(* types, then the lease table, then the document and its coverage, then   *)
(* the accepted chunks.  The action properties and the refinement follow.  *)
(***************************************************************************)
EXTENDS ReportSession, FiniteSetTheorems, WellFoundedInduction, TLAPS

USE SessionAssumption

-----------------------------------------------------------------------------
(* Lemmas about the operators *)

\* A nonempty set of naturals has a least element.
LEMMA SmallestExists ==
  ASSUME NEW S \in SUBSET Nat, S # {}
  PROVE  \E m \in S : \A k \in S : m <= k
<1>1. PICK m \in S : \A k \in S : <<k, m>> \notin OpToRel(<, Nat)
  BY WFMin, NatLessThanWellFounded, Zenon
<1>2. \A k \in S : ~ (k < m)
  BY <1>1, Zenon DEF OpToRel
<1>. QED  BY <1>2

\* The planner leases entries of the units it is given, and at least one: the
\* first pending entry is taken whatever the capacity.
LEMMA PlannedItemsLemma ==
  ASSUME NEW pending \in SUBSET Items, NEW cap \in Capacities
  PROVE  /\ PlannedItems(pending, cap) \subseteq pending
         /\ pending # {} => PlannedItems(pending, cap) # {}
<1>1. PlannedItems(pending, cap) \subseteq pending
  BY DEF PlannedItems
<1>2. ASSUME pending # {} PROVE PlannedItems(pending, cap) # {}
  <2>1. PICK m \in pending : \A k \in pending : m <= k
    BY <1>2, SmallestExists
  <2>2. FieldsBefore(pending, m) = {} /\ EdgesBefore(pending, m) = {}
    <3>1. \A k \in pending : ~ (k < m)
      BY <2>1
    <3>. QED  BY <3>1 DEF FieldsBefore, EdgesBefore
  <2>3. Cardinality({}) = 0
    BY FS_EmptySet
  <2>4. Selected(pending, cap, m)
    BY <2>1, <2>2, <2>3 DEF Selected
  <2>. QED  BY <2>4 DEF PlannedItems
<1>. QED  BY <1>1, <1>2

\* Planning a lease gives a row of the lease table.
LEMMA PlannedLeaseLemma ==
  ASSUME NEW pending \in SUBSET Items, NEW cap \in Capacities, NEW v \in Nat
  PROVE  /\ PlannedLease(pending, cap, v) \in LeaseRows
         /\ PlannedLease(pending, cap, v).id = v + 1
         /\ PlannedLease(pending, cap, v).status = "ACTIVE"
         /\ PlannedLease(pending, cap, v).items = PlannedItems(pending, cap)
<1>1. PlannedItems(pending, cap) \in SUBSET Items
  BY PlannedItemsLemma
<1>2. 0 \in 0 .. MaxRetries /\ v + 1 \in Nat
  OBVIOUS
<1>. QED  BY <1>1, <1>2 DEF PlannedLease, LeaseRows

\* Shrinking a lease leaves some of its entries and adds none.
LEMMA ShrunkItemsLemma ==
  ASSUME NEW items \in SUBSET Items
  PROVE  /\ ShrunkItems(items) \subseteq items
         /\ items # {} => ShrunkItems(items) # {}
<1> DEFINE fields == items \cap FieldItems
           keep == IF Cardinality(fields) \div 2 = 0
                   THEN 1 ELSE Cardinality(fields) \div 2
<1>1. CASE fields = {}
  BY <1>1 DEF ShrunkItems
<1>2. CASE fields # {}
  <2>1. Cardinality(fields) \in Nat
    BY FS_Subset, FS_CardinalityType
  <2>2. keep \in Nat /\ keep > 0
    BY <2>1
  <2>3. PICK m \in fields : \A k \in fields : m <= k
    BY <1>2, SmallestExists
  <2>4. FieldsBefore(items, m) = {}
    <3>1. \A k \in fields : ~ (k < m)
      BY <2>3
    <3>. QED  BY <3>1 DEF FieldsBefore
  <2>5. Cardinality(FieldsBefore(items, m)) < keep
    BY <2>2, <2>4, FS_EmptySet
  <2>6. ShrunkItems(items) = {i \in fields : Cardinality(FieldsBefore(items, i)) < keep}
    BY <1>2 DEF ShrunkItems
  <2>. QED  BY <2>3, <2>5, <2>6
<1>. QED  BY <1>1, <1>2

\* Entries that are missing are entries; more records leave fewer missing.
LEMMA MissingLemma ==
  ASSUME NEW d, NEW e
  PROVE  /\ Missing(d) \subseteq Items
         /\ d \subseteq e => Missing(e) \subseteq Missing(d)
BY DEF Missing, Filled

\* A status is computed for every unit, and it is PENDING exactly for those
\* that lack an entry.
LEMMA StatusLemma ==
  ASSUME NEW d
  PROVE  /\ StatusFrom(d) \in [Units -> {"PENDING", "COMPLETE"}]
         /\ \A u \in Units : StatusFrom(d)[u] = "PENDING" <=> u \in MissingUnits(d)
BY DEF StatusFrom

\* Deleting the records of the repaired entries makes each of them missing.
LEMMA DiscardedLemma ==
  ASSUME NEW repair \in SUBSET Items
  PROVE  repair \subseteq Missing(doc \ Discarded(repair))
BY DEF Missing, Filled, Discarded

\* Closing a lease gives a row of the lease table.
LEMMA CompletedLemma ==
  ASSUME NEW l \in LeaseRows
  PROVE  /\ Completed(l) \in LeaseRows
         /\ Completed(l).id = l.id
         /\ Completed(l).status = "COMPLETE"
BY DEF Completed, LeaseRows
-----------------------------------------------------------------------------
(* Types *)

\* A chunk that passes the id checks leaves every id in the store unique.
LEMMA InsertableLemma ==
  ASSUME NEW payload \in Payloads, TypeOK, Insertable(payload)
  PROVE  doc \cup payload \subseteq Records /\ UniqueIds(doc \cup payload)
BY DEF Payloads, TypeOK, Insertable, UniqueIds

\* The transactions that only move the session on keep the types.
LEMMA MoveToTyped ==
  ASSUME TypeOK, NEW s \in States, MoveTo(s)
  PROVE  TypeOK'
BY DEF TypeOK, MoveTo

\* Accepting a chunk keeps the types.
LEMMA AcceptTyped ==
  ASSUME TypeOK, NEW l \in leases, NEW payload \in Payloads, Insertable(payload),
         NEW cap \in Capacities, Accept(l, payload, cap)
  PROVE  /\ state' \in States /\ version' \in Nat
         /\ doc' \subseteq Records /\ UniqueIds(doc')
         /\ unitStatus' \in [Units -> {"PENDING", "COMPLETE"}]
         /\ leases' \subseteq LeaseRows
<1> DEFINE updated == doc \cup payload
           next == PlannedLease(Missing(updated), cap, version + 1)
<1>1. updated \subseteq Records /\ UniqueIds(updated)
  BY InsertableLemma
<1>2. unitStatus' \in [Units -> {"PENDING", "COMPLETE"}]
  BY StatusLemma DEF Accept
<1>3. l \in LeaseRows /\ Completed(l) \in LeaseRows
  BY CompletedLemma DEF TypeOK
<1>4. version + 1 \in Nat /\ Missing(updated) \in SUBSET Items
  BY MissingLemma DEF TypeOK
<1>5. next \in LeaseRows
  BY <1>4, PlannedLeaseLemma
<1>6. leases' \subseteq LeaseRows
  BY <1>3, <1>5 DEF Accept, TypeOK
<1>. QED  BY <1>1, <1>2, <1>4, <1>6 DEF Accept, StateFrom, States

\* Every variable keeps its type, whatever commands arrive in whatever order.
THEOREM TypeCorrect == Spec => []TypeOK
<1>1. Init => TypeOK
  BY DEF Init, TypeOK, States, UniqueIds
<1>2. TypeOK /\ [Next]_vars => TypeOK'
  <2> SUFFICES ASSUME TypeOK, [Next]_vars PROVE TypeOK'
    OBVIOUS
  <2>1. ASSUME NEW initial \in Payloads, NEW cap \in Capacities, Start(initial, cap)
        PROVE  TypeOK'
    <3>1. initial \subseteq Records /\ UniqueIds(initial)
      BY DEF Payloads
    <3>2. PlannedLease(Missing(initial), cap, 0) \in LeaseRows
      BY MissingLemma, PlannedLeaseLemma
    <3>3. unitStatus' \in [Units -> {"PENDING", "COMPLETE"}]
      BY <2>1, StatusLemma DEF Start
    <3>. QED  BY <2>1, <3>1, <3>2, <3>3 DEF TypeOK, Start, StateFrom, States
  <2>2. ASSUME NEW key \in Keys, NEW leaseId \in LeaseIds, NEW expected \in 0 .. version,
               Submit(key, leaseId, expected)
        PROVE  TypeOK'
    <3>1. PICK l \in leases, payload \in Payloads, cap \in Capacities :
            Insertable(payload) /\ Accept(l, payload, cap)
      BY <2>2 DEF Submit
    <3>2. leaseId \in Nat /\ version + 1 \in Nat
      BY DEF LeaseIds, TypeOK, LeaseRows
    <3>3. results' \subseteq [key : Keys, lease : Nat, version : Nat]
      BY <2>2, <3>2 DEF Submit, TypeOK
    <3>. QED  BY <2>2, <3>1, <3>3, AcceptTyped DEF TypeOK, Submit
  <2>3. ASSUME NEW leaseId \in LeaseIds, RecordTransportFailure(leaseId)
        PROVE  TypeOK'
    <3>1. PICK l \in leases :
            /\ l.retry < MaxRetries
            /\ leases' = (leases \ {l}) \cup
                 {[l EXCEPT !.items = ShrunkItems(l.items), !.retry = @ + 1]}
      BY <2>3 DEF RecordTransportFailure
    <3>2. l \in LeaseRows /\ ShrunkItems(l.items) \in SUBSET Items
      BY ShrunkItemsLemma DEF TypeOK, LeaseRows
    <3>3. l.retry + 1 \in 0 .. MaxRetries
      BY <3>1, <3>2 DEF LeaseRows
    <3>4. [l EXCEPT !.items = ShrunkItems(l.items), !.retry = @ + 1] \in LeaseRows
      BY <3>2, <3>3 DEF LeaseRows
    <3>. QED  BY <2>3, <3>1, <3>4 DEF TypeOK, RecordTransportFailure
  <2>4. ASSUME NEW expected \in 0 .. version, FinalizeBegin(expected)
        PROVE  TypeOK'
    BY <2>4, MoveToTyped DEF FinalizeBegin, States
  <2>5. CASE CandidateRendered
    BY <2>5, MoveToTyped DEF CandidateRendered, States
  <2>6. CASE CandidateRejected
    BY <2>6, MoveToTyped DEF CandidateRejected, States
  <2>7. CASE FinalizeCompleted
    BY <2>7, MoveToTyped DEF FinalizeCompleted, States
  <2>8. CASE FinalizeFailed
    BY <2>8, MoveToTyped DEF FinalizeFailed, States
  <2>9. ASSUME NEW repair \in SUBSET Items, NEW cap \in Capacities, RouteRepair(repair, cap)
        PROVE  TypeOK'
    <3>1. PlannedLease(repair, cap, version) \in LeaseRows
      BY PlannedLeaseLemma DEF TypeOK
    <3>2. repairs + 1 \in 0 .. MaxRepairRounds /\ version + 1 \in Nat
      BY <2>9 DEF RouteRepair, RepairBudgetSpent, TypeOK
    <3>3. doc' \subseteq Records /\ UniqueIds(doc')
      BY <2>9 DEF RouteRepair, TypeOK, UniqueIds
    <3>4. unitStatus' \in [Units -> {"PENDING", "COMPLETE"}]
      BY <2>9 DEF RouteRepair, TypeOK
    <3>. QED  BY <2>9, <3>1, <3>2, <3>3, <3>4 DEF TypeOK, RouteRepair, States
  <2>10. ASSUME NEW repair \in SUBSET Items, RouteRepairFailed(repair)
         PROVE  TypeOK'
    BY <2>10, MoveToTyped DEF RouteRepairFailed, States
  <2>11. CASE UNCHANGED vars
    BY <2>11 DEF TypeOK, vars
  <2>. QED
    BY <2>1, <2>2, <2>3, <2>4, <2>5, <2>6, <2>7, <2>8, <2>9, <2>10, <2>11 DEF Next
<1>. QED  BY <1>1, <1>2, PTL DEF Spec

-----------------------------------------------------------------------------
(* The lease table *)

\* Ids stay close to the version: the next lease's id is new whether a chunk
\* issues it (version + 2, some lease open) or a repair (version + 1, none open).
LeaseIdsBounded ==
  /\ \A l \in leases : l.id <= version + 1
  /\ ActiveLeases = {} => \A l \in leases : l.id <= version

FreshWhenNone ==
  state = "NONE" => version = 0 /\ doc = {} /\ leases = {} /\ results = {}

LeaseInv == LeaseTableKeys /\ LeaseMatchesState /\ LeaseIdsBounded /\ FreshWhenNone

\* What accepting a chunk does to the table: the only open lease is closed, and
\* the only open one after that is the one just issued, if any.
LEMMA AcceptLeases ==
  ASSUME TypeOK, LeaseTableKeys, NEW l \in ActiveLeases, NEW payload, NEW cap \in Capacities,
         Accept(l, payload, cap)
  PROVE  LET closed == (leases \ {l}) \cup {Completed(l)}
             next == PlannedLease(Missing(doc'), cap, version + 1)
         IN  /\ doc' = doc \cup payload
             /\ \A m \in closed : m.status = "COMPLETE"
             /\ Covered(doc') => leases' = closed /\ ActiveLeases' = {}
             /\ ~Covered(doc') => leases' = closed \cup {next} /\ ActiveLeases' = {next}
<1> DEFINE closed == (leases \ {l}) \cup {Completed(l)}
           next == PlannedLease(Missing(doc'), cap, version + 1)
<1>1. doc' = doc \cup payload
  BY DEF Accept
<1>2. \A m \in closed : m.status = "COMPLETE"
  BY DEF TypeOK, LeaseRows, LeaseTableKeys, ActiveLeases, Completed
<1>3. next.status = "ACTIVE"
  BY DEF PlannedLease
<1>4. /\ Covered(doc') => leases' = closed
      /\ ~Covered(doc') => leases' = closed \cup {next}
  BY <1>1 DEF Accept
<1>. QED  BY <1>1, <1>2, <1>3, <1>4 DEF ActiveLeases

\* Submit, as its accepted part.
LEMMA SubmitAccepts ==
  ASSUME NEW key, NEW leaseId, NEW expected, Submit(key, leaseId, expected)
  PROVE  \E l \in ActiveLeases, payload \in Payloads, cap \in Capacities :
           l.id = leaseId /\ Insertable(payload) /\ Accept(l, payload, cap)
BY DEF Submit, HoldsLease, ActiveLeases

\* A failed transport changes no id and no status.
LEMMA FailureKeepsRows ==
  ASSUME TypeOK, LeaseTableKeys, NEW leaseId, RecordTransportFailure(leaseId)
  PROVE  \E l \in ActiveLeases, m \in LeaseRows :
           /\ m.id = l.id /\ m.status = "ACTIVE" /\ m.items = ShrunkItems(l.items)
           /\ leases' = (leases \ {l}) \cup {m}
           /\ ActiveLeases = {l} /\ ActiveLeases' = {m}
<1>1. PICK l \in leases :
        /\ HoldsLease(l, leaseId) /\ l.retry < MaxRetries
        /\ leases' = (leases \ {l}) \cup
             {[l EXCEPT !.items = ShrunkItems(l.items), !.retry = @ + 1]}
  BY DEF RecordTransportFailure
<1> DEFINE m == [l EXCEPT !.items = ShrunkItems(l.items), !.retry = @ + 1]
<1>2. l \in LeaseRows /\ l.status = "ACTIVE" /\ l \in ActiveLeases
  BY <1>1 DEF TypeOK, HoldsLease, ActiveLeases
<1>3. m \in LeaseRows
  <2>1. ShrunkItems(l.items) \in SUBSET Items
    BY <1>2, ShrunkItemsLemma DEF LeaseRows
  <2>2. l.retry + 1 \in 0 .. MaxRetries
    BY <1>1, <1>2 DEF LeaseRows
  <2>. QED  BY <1>2, <2>1, <2>2 DEF LeaseRows
<1>4. m.id = l.id /\ m.status = "ACTIVE" /\ m.items = ShrunkItems(l.items)
  BY <1>2 DEF LeaseRows
<1>5. ActiveLeases = {l}
  BY <1>2 DEF LeaseTableKeys
<1>6. ActiveLeases' = {m}
  BY <1>1, <1>4, <1>5 DEF ActiveLeases
<1>. QED  BY <1>1, <1>2, <1>3, <1>4, <1>5, <1>6

\* A transaction that only moves the session on keeps the lease table, as long
\* as no lease is left open under a state that must have none.
LEMMA MoveToKeepsLeases ==
  ASSUME TypeOK, LeaseInv, NEW s, MoveTo(s), s \notin {"NONE", "COLLECTING"},
         state # "NONE",
         ActiveLeases # {} => s = "FAILED"
  PROVE  LeaseInv'
<1>1. ActiveLeases' = ActiveLeases /\ leases' = leases /\ version' = version + 1
  BY DEF MoveTo, ActiveLeases
<1>2. LeaseIdsBounded'
  BY <1>1 DEF LeaseInv, LeaseIdsBounded, TypeOK, LeaseRows
<1>. QED  BY <1>1, <1>2 DEF LeaseInv, LeaseTableKeys, LeaseMatchesState, FreshWhenNone, MoveTo

\* Every step keeps the lease table in order.
LEMMA LeaseInvStep == TypeOK /\ LeaseInv /\ [Next]_vars => LeaseInv'
<1> SUFFICES ASSUME TypeOK, LeaseInv, [Next]_vars PROVE LeaseInv'
  OBVIOUS
<1>1. ASSUME NEW initial \in Payloads, NEW cap \in Capacities, Start(initial, cap)
      PROVE  LeaseInv'
  <2> DEFINE first == PlannedLease(Missing(initial), cap, 0)
  <2>1. first.id = 1 /\ first.status = "ACTIVE"
    BY DEF PlannedLease
  <2>2. leases' = {} \/ (leases' = {first} /\ state' = "COLLECTING")
    BY <1>1 DEF Start, StateFrom
  <2>3. leases' = {} => state' = "READY"
    BY <1>1 DEF Start, StateFrom
  <2>4. version' = 0
    BY <1>1 DEF Start, LeaseInv, FreshWhenNone
  <2>5. CASE leases' = {}
    BY <2>3, <2>4, <2>5
       DEF LeaseInv, LeaseTableKeys, LeaseMatchesState, LeaseIdsBounded, FreshWhenNone, ActiveLeases
  <2>6. CASE leases' = {first} /\ state' = "COLLECTING"
    <3>1. ActiveLeases' = {first}
      BY <2>1, <2>6 DEF ActiveLeases
    <3>. QED
      BY <3>1, <2>1, <2>4, <2>6
         DEF LeaseInv, LeaseTableKeys, LeaseMatchesState, LeaseIdsBounded, FreshWhenNone
  <2>. QED  BY <2>2, <2>5, <2>6
<1>2. ASSUME NEW key \in Keys, NEW leaseId \in LeaseIds, NEW expected \in 0 .. version,
             Submit(key, leaseId, expected)
      PROVE  LeaseInv'
  <2>1. PICK l \in ActiveLeases, payload \in Payloads, cap \in Capacities :
          Accept(l, payload, cap)
    BY <1>2, SubmitAccepts
  <2> DEFINE closed == (leases \ {l}) \cup {Completed(l)}
             next == PlannedLease(Missing(doc'), cap, version + 1)
  <2>2. /\ \A m \in closed : m.status = "COMPLETE"
        /\ Covered(doc') => leases' = closed /\ ActiveLeases' = {}
        /\ ~Covered(doc') => leases' = closed \cup {next} /\ ActiveLeases' = {next}
    BY <2>1, AcceptLeases DEF LeaseInv
  <2>3. l \in leases /\ l.id \in Nat /\ Completed(l).id = l.id
    BY DEF ActiveLeases, TypeOK, LeaseRows, Completed
  <2>4. \A m \in closed : m.id \in Nat /\ m.id <= version + 1
    BY <2>3 DEF LeaseInv, LeaseIdsBounded, TypeOK, LeaseRows
  <2>5. \A m, n \in closed : m.id = n.id => m = n
    BY <2>3 DEF LeaseInv, LeaseTableKeys
  <2>6. next.id = version + 1 + 1 /\ version \in Nat /\ version' = version + 1
    BY <2>1 DEF PlannedLease, TypeOK, Accept
  <2>7. /\ Covered(doc') => state' = "READY"
        /\ ~Covered(doc') => state' = "COLLECTING"
    BY <2>1 DEF Accept, StateFrom
  <2>8. LeaseTableKeys'
    BY <2>2, <2>4, <2>5, <2>6 DEF LeaseTableKeys
  <2>9. LeaseMatchesState' /\ FreshWhenNone'
    BY <2>2, <2>7 DEF LeaseMatchesState, FreshWhenNone
  <2>10. LeaseIdsBounded'
    BY <2>2, <2>4, <2>6 DEF LeaseIdsBounded
  <2>. QED  BY <2>8, <2>9, <2>10 DEF LeaseInv
<1>3. ASSUME NEW leaseId \in LeaseIds, RecordTransportFailure(leaseId)
      PROVE  LeaseInv'
  <2>1. PICK l \in ActiveLeases, m \in LeaseRows :
          /\ m.id = l.id
          /\ leases' = (leases \ {l}) \cup {m}
          /\ ActiveLeases = {l} /\ ActiveLeases' = {m}
    BY <1>3, FailureKeepsRows DEF LeaseInv
  <2>2. l \in leases
    BY DEF ActiveLeases
  <2>3. state' = state /\ version' = version /\ doc' = doc /\ results' = results
    BY <1>3 DEF RecordTransportFailure
  <2>4. LeaseTableKeys'
    BY <2>1, <2>2 DEF LeaseInv, LeaseTableKeys
  <2>5. LeaseIdsBounded'
    BY <2>1, <2>2, <2>3 DEF LeaseInv, LeaseIdsBounded
  <2>6. LeaseMatchesState' /\ FreshWhenNone'
    BY <2>1, <2>2, <2>3 DEF LeaseInv, LeaseMatchesState, FreshWhenNone
  <2>. QED  BY <2>4, <2>5, <2>6 DEF LeaseInv
<1>4. ASSUME NEW expected \in 0 .. version, FinalizeBegin(expected)
      PROVE  LeaseInv'
  BY <1>4, MoveToKeepsLeases DEF FinalizeBegin, LeaseInv, LeaseMatchesState
<1>5. CASE CandidateRendered
  BY <1>5, MoveToKeepsLeases DEF CandidateRendered, LeaseInv, LeaseMatchesState
<1>6. CASE CandidateRejected
  BY <1>6, MoveToKeepsLeases DEF CandidateRejected, LeaseInv, LeaseMatchesState
<1>7. CASE FinalizeCompleted
  BY <1>7, MoveToKeepsLeases DEF FinalizeCompleted, LeaseInv, LeaseMatchesState
<1>8. CASE FinalizeFailed
  BY <1>8, MoveToKeepsLeases DEF FinalizeFailed
<1>9. ASSUME NEW repair \in SUBSET Items, NEW cap \in Capacities, RouteRepair(repair, cap)
      PROVE  LeaseInv'
  <2> DEFINE next == PlannedLease(repair, cap, version)
  <2>1. next.id = version + 1 /\ next.status = "ACTIVE"
    BY DEF PlannedLease
  <2>2. /\ ActiveLeases = {} /\ leases' = leases \cup {next}
        /\ state' = "COLLECTING" /\ version' = version + 1
    BY <1>9 DEF RouteRepair
  <2>3. ActiveLeases' = {next}
    BY <2>1, <2>2 DEF ActiveLeases
  <2>4. version \in Nat /\ \A l \in leases : l.id \in Nat /\ l.id <= version
    BY <2>2 DEF LeaseInv, LeaseIdsBounded, TypeOK, LeaseRows
  <2>5. LeaseTableKeys'
    BY <2>1, <2>2, <2>3, <2>4 DEF LeaseInv, LeaseTableKeys
  <2>6. LeaseIdsBounded'
    BY <2>1, <2>2, <2>3, <2>4 DEF LeaseIdsBounded
  <2>. QED
    BY <2>2, <2>3, <2>5, <2>6 DEF LeaseInv, LeaseMatchesState, FreshWhenNone
<1>10. ASSUME NEW repair \in SUBSET Items, RouteRepairFailed(repair)
       PROVE  LeaseInv'
  BY <1>10, MoveToKeepsLeases DEF RouteRepairFailed
<1>11. CASE UNCHANGED vars
  BY <1>11 DEF vars, LeaseInv, LeaseTableKeys, LeaseMatchesState, LeaseIdsBounded,
               FreshWhenNone, ActiveLeases
<1>. QED
  BY <1>1, <1>2, <1>3, <1>4, <1>5, <1>6, <1>7, <1>8, <1>9, <1>10, <1>11 DEF Next

\* The lease table is always in order.
THEOREM LeasesCorrect == Spec => []LeaseInv
<1>1. Init => LeaseInv
  BY DEF Init, LeaseInv, LeaseTableKeys, LeaseMatchesState, LeaseIdsBounded,
         FreshWhenNone, ActiveLeases
<1>. QED  BY <1>1, LeaseInvStep, TypeCorrect, PTL DEF Spec

\* Lease ids never come round again and at most one lease is open.
THEOREM LeaseKeysHold == Spec => []LeaseTableKeys
BY LeasesCorrect, PTL DEF LeaseInv

\* There is an open lease whenever the session collects, and none while its
\* report is assembled, validated, repaired or complete.
THEOREM LeaseMatchesStateHolds == Spec => []LeaseMatchesState
BY LeasesCorrect, PTL DEF LeaseInv

-----------------------------------------------------------------------------
(* The document and its coverage *)

CoverageInv == FinalizedIsCovered /\ LeaseAsksForMissing /\ UnitStatusNotBehind

\* A transaction that moves the session between states after collection, or
\* fails it, keeps everything said about the document.
LEMMA MoveToKeepsCoverage ==
  ASSUME CoverageInv, NEW s, MoveTo(s), state # "NONE",
         s \in FinalizedStates => state \in FinalizedStates
  PROVE  CoverageInv'
BY DEF CoverageInv, MoveTo, FinalizedIsCovered, LeaseAsksForMissing, UnitStatusNotBehind,
       ActiveLeases

\* No unit lacks an entry of a document that covers everything.
LEMMA CoveredUnits ==
  ASSUME NEW d, Covered(d)
  PROVE  MissingUnits(d) = {}
BY DEF Covered, MissingUnits

\* Every step keeps the document, the statuses and the open lease in step.
LEMMA CoverageInvStep == TypeOK /\ LeaseInv /\ CoverageInv /\ [Next]_vars => CoverageInv'
<1> SUFFICES ASSUME TypeOK, LeaseInv, CoverageInv, [Next]_vars PROVE CoverageInv'
  OBVIOUS
<1>1. ASSUME NEW initial \in Payloads, NEW cap \in Capacities, Start(initial, cap)
      PROVE  CoverageInv'
  <2> DEFINE first == PlannedLease(Missing(initial), cap, 0)
  <2>1. doc' = initial /\ unitStatus' = StatusFrom(initial)
    BY <1>1 DEF Start
  <2>2. CASE Covered(initial)
    <3>1. leases' = {} /\ state' = "READY"
      BY <1>1, <2>2 DEF Start, StateFrom
    <3>2. \A u \in Units : unitStatus'[u] = "COMPLETE"
      BY <2>1, <2>2, CoveredUnits DEF StatusFrom
    <3>. QED
      BY <2>1, <2>2, <3>1, <3>2
         DEF CoverageInv, FinalizedIsCovered, LeaseAsksForMissing, UnitStatusNotBehind,
             ActiveLeases
  <2>3. CASE ~Covered(initial)
    <3>1. leases' = {first} /\ state' = "COLLECTING"
      BY <1>1, <2>3 DEF Start, StateFrom
    <3>2. first.items # {} /\ first.items \subseteq Missing(doc')
      BY <2>1, <2>3, MissingLemma, PlannedLeaseLemma, PlannedItemsLemma DEF Covered
    <3>3. LeaseAsksForMissing'
      BY <3>1, <3>2 DEF LeaseAsksForMissing, ActiveLeases
    <3>. QED
      BY <2>1, <3>1, <3>3, StatusLemma
         DEF CoverageInv, FinalizedIsCovered, UnitStatusNotBehind, FinalizedStates
  <2>. QED  BY <2>2, <2>3
<1>2. ASSUME NEW key \in Keys, NEW leaseId \in LeaseIds, NEW expected \in 0 .. version,
             Submit(key, leaseId, expected)
      PROVE  CoverageInv'
  <2>1. PICK l \in ActiveLeases, payload \in Payloads, cap \in Capacities :
          Accept(l, payload, cap)
    BY <1>2, SubmitAccepts
  <2> DEFINE next == PlannedLease(Missing(doc'), cap, version + 1)
  <2>2. /\ Covered(doc') => ActiveLeases' = {}
        /\ ~Covered(doc') => ActiveLeases' = {next}
    BY <2>1, AcceptLeases DEF LeaseInv
  <2>3. /\ Covered(doc') => state' = "READY"
        /\ ~Covered(doc') => state' = "COLLECTING"
    BY <2>1 DEF Accept, StateFrom
  <2>4. unitStatus' = StatusFrom(doc')
    BY <2>1 DEF Accept
  <2>5. FinalizedIsCovered'
    BY <2>3 DEF FinalizedIsCovered, FinalizedStates
  <2>6. LeaseAsksForMissing'
    <3>1. ~Covered(doc') => next.items # {} /\ next.items \subseteq Missing(doc')
      BY MissingLemma, PlannedLeaseLemma, PlannedItemsLemma DEF Covered, TypeOK
    <3>. QED  BY <2>2, <3>1 DEF LeaseAsksForMissing
  <2>7. UnitStatusNotBehind'
    <3>1. \A u \in Units : unitStatus'[u] = "PENDING" => u \in MissingUnits(doc')
      BY <2>4, StatusLemma
    <3>2. Covered(doc') => \A u \in Units : unitStatus'[u] = "COMPLETE"
      BY <2>4, CoveredUnits DEF StatusFrom
    <3>. QED  BY <2>3, <3>1, <3>2 DEF UnitStatusNotBehind, FinalizedStates
  <2>. QED  BY <2>5, <2>6, <2>7 DEF CoverageInv
<1>3. ASSUME NEW leaseId \in LeaseIds, RecordTransportFailure(leaseId)
      PROVE  CoverageInv'
  <2>1. PICK l \in ActiveLeases, m \in LeaseRows :
          m.items = ShrunkItems(l.items) /\ ActiveLeases' = {m}
    BY <1>3, FailureKeepsRows DEF LeaseInv
  <2>2. l.items # {} /\ l.items \subseteq Missing(doc) /\ l.items \in SUBSET Items
    BY MissingLemma DEF CoverageInv, LeaseAsksForMissing
  <2>3. LeaseAsksForMissing'
    BY <1>3, <2>1, <2>2, ShrunkItemsLemma DEF LeaseAsksForMissing, RecordTransportFailure
  <2>. QED
    BY <1>3, <2>3
       DEF CoverageInv, FinalizedIsCovered, UnitStatusNotBehind, RecordTransportFailure
<1>4. ASSUME NEW expected \in 0 .. version, FinalizeBegin(expected)
      PROVE  CoverageInv'
  BY <1>4, MoveToKeepsCoverage DEF FinalizeBegin, FinalizedStates
<1>5. CASE CandidateRendered
  BY <1>5, MoveToKeepsCoverage DEF CandidateRendered, FinalizedStates
<1>6. CASE CandidateRejected
  BY <1>6, MoveToKeepsCoverage DEF CandidateRejected, FinalizedStates
<1>7. CASE FinalizeCompleted
  BY <1>7, MoveToKeepsCoverage DEF FinalizeCompleted, FinalizedStates
<1>8. CASE FinalizeFailed
  BY <1>8, MoveToKeepsCoverage DEF FinalizeFailed, FinalizedStates
<1>9. ASSUME NEW repair \in SUBSET Items, NEW cap \in Capacities, RouteRepair(repair, cap)
      PROVE  CoverageInv'
  <2> DEFINE next == PlannedLease(repair, cap, version)
  <2>1. /\ ActiveLeases = {} /\ leases' = leases \cup {next} /\ repair # {}
        /\ state = "REPAIRING" /\ state' = "COLLECTING"
        /\ doc' = doc \ Discarded(repair)
    BY <1>9 DEF RouteRepair, RepairBudgetSpent
  <2>2. repair \subseteq Missing(doc')
    BY <2>1, DiscardedLemma
  <2>3. next.items # {} /\ next.items \subseteq Missing(doc')
    <3>1. next.items = PlannedItems(repair, cap)
      BY DEF PlannedLease
    <3>2. PlannedItems(repair, cap) # {} /\ PlannedItems(repair, cap) \subseteq repair
      BY <2>1, PlannedItemsLemma
    <3>. QED  BY <2>2, <3>1, <3>2
  <2>4. ActiveLeases' \subseteq {next}
    BY <2>1 DEF ActiveLeases
  <2>5. LeaseAsksForMissing'
    BY <2>3, <2>4 DEF LeaseAsksForMissing
  <2>6. ASSUME NEW u \in Units, unitStatus'[u] = "PENDING"
        PROVE  u \in MissingUnits(doc')
    <3>1. unitStatus[u] = "COMPLETE"
      BY <2>1 DEF CoverageInv, UnitStatusNotBehind, FinalizedStates
    <3>2. \E i \in repair : UnitOf[i] = u
      BY <1>9, <2>6, <3>1 DEF RouteRepair
    <3>. QED  BY <2>2, <3>2 DEF MissingUnits
  <2>. QED
    BY <2>1, <2>5, <2>6
       DEF CoverageInv, FinalizedIsCovered, UnitStatusNotBehind, FinalizedStates
<1>10. ASSUME NEW repair \in SUBSET Items, RouteRepairFailed(repair)
       PROVE  CoverageInv'
  BY <1>10, MoveToKeepsCoverage DEF RouteRepairFailed, FinalizedStates
<1>11. CASE UNCHANGED vars
  BY <1>11 DEF vars, CoverageInv, FinalizedIsCovered, LeaseAsksForMissing,
               UnitStatusNotBehind, ActiveLeases
<1>. QED
  BY <1>1, <1>2, <1>3, <1>4, <1>5, <1>6, <1>7, <1>8, <1>9, <1>10, <1>11 DEF Next

\* The document, the unit statuses and the open lease always agree.
THEOREM CoverageCorrect == Spec => []CoverageInv
<1>1. Init => CoverageInv
  BY DEF Init, CoverageInv, FinalizedIsCovered, LeaseAsksForMissing, UnitStatusNotBehind,
         ActiveLeases, FinalizedStates
<1>. QED  BY <1>1, CoverageInvStep, TypeCorrect, LeasesCorrect, PTL DEF Spec

\* Nothing is rendered before every required entry is recorded.
THEOREM FinalizedIsCoveredHolds == Spec => []FinalizedIsCovered
BY CoverageCorrect, PTL DEF CoverageInv

\* An open lease always asks for something, and only for what is missing.
THEOREM LeaseAsksForMissingHolds == Spec => []LeaseAsksForMissing
BY CoverageCorrect, PTL DEF CoverageInv

\* A unit listed as pending lacks an entry.
THEOREM UnitStatusHolds == Spec => []UnitStatusNotBehind
BY CoverageCorrect, PTL DEF CoverageInv

-----------------------------------------------------------------------------
(* Accepted chunks *)

\* Results carry versions the session has already reached.
ResultsBounded == \A r \in results : r.version <= version

ChunkInv == ChunksMatchLeases /\ ResultsBounded

UsedUp == leases \ ActiveLeases

\* Steps that close no lease and accept no chunk.
LEMMA NoChunk ==
  ASSUME TypeOK, ChunkInv, UNCHANGED results, version' \in Nat, version <= version',
         {l.id : l \in UsedUp'} = {l.id : l \in UsedUp}
  PROVE  ChunkInv'
<1>1. ResultsBounded'
  BY DEF ChunkInv, ResultsBounded, TypeOK
<1>. QED  BY <1>1 DEF ChunkInv, ChunksMatchLeases, UsedUp

\* A transaction that only moves the session on.
LEMMA MoveToKeepsChunks ==
  ASSUME TypeOK, ChunkInv, NEW s, MoveTo(s)
  PROVE  ChunkInv'
<1>1. UsedUp' = UsedUp /\ UNCHANGED results
  BY DEF MoveTo, UsedUp, ActiveLeases
<1>2. version' \in Nat /\ version <= version'
  BY DEF MoveTo, TypeOK
<1>. QED  BY <1>1, <1>2, NoChunk

\* Every step keeps the correspondence of chunks and used leases.
LEMMA ChunkInvStep == TypeOK /\ LeaseInv /\ ChunkInv /\ [Next]_vars => ChunkInv'
<1> SUFFICES ASSUME TypeOK, LeaseInv, ChunkInv, [Next]_vars PROVE ChunkInv'
  OBVIOUS
<1>1. ASSUME NEW initial \in Payloads, NEW cap \in Capacities, Start(initial, cap)
      PROVE  ChunkInv'
  <2>1. UsedUp = {}
    BY <1>1 DEF Start, LeaseInv, FreshWhenNone, UsedUp
  <2>2. UsedUp' = {}
    BY <1>1 DEF Start, UsedUp, ActiveLeases, PlannedLease
  <2>3. UNCHANGED results /\ version' \in Nat /\ version <= version'
    BY <1>1 DEF Start, TypeOK
  <2>. QED  BY <2>1, <2>2, <2>3, NoChunk
<1>2. ASSUME NEW key \in Keys, NEW leaseId \in LeaseIds, NEW expected \in 0 .. version,
             Submit(key, leaseId, expected)
      PROVE  ChunkInv'
  <2>1. PICK l \in ActiveLeases, payload \in Payloads, cap \in Capacities :
          l.id = leaseId /\ Accept(l, payload, cap)
    BY <1>2, SubmitAccepts
  <2> DEFINE closed == (leases \ {l}) \cup {Completed(l)}
             row == [key |-> key, lease |-> l.id, version |-> version + 1]
  <2>2. /\ \A m \in closed : m.status = "COMPLETE"
        /\ ActiveLeases' = leases' \ closed
        /\ closed \subseteq leases'
    <3> DEFINE next == PlannedLease(Missing(doc'), cap, version + 1)
    <3>1. /\ \A m \in closed : m.status = "COMPLETE"
          /\ Covered(doc') => leases' = closed /\ ActiveLeases' = {}
          /\ ~Covered(doc') => leases' = closed \cup {next} /\ ActiveLeases' = {next}
      BY <2>1, AcceptLeases DEF LeaseInv
    <3>2. next.status = "ACTIVE"
      BY DEF PlannedLease
    <3>. QED  BY <3>1, <3>2
  <2>3. UsedUp' = closed
    BY <2>2 DEF UsedUp
  <2>4. UsedUp = leases \ {l}
    BY DEF LeaseInv, LeaseTableKeys, UsedUp, ActiveLeases
  <2>5. Completed(l).id = l.id
    BY DEF Completed
  <2>6. {m.id : m \in UsedUp'} = {m.id : m \in UsedUp} \cup {l.id}
    BY <2>3, <2>4, <2>5
  <2>7. results' = results \cup {row} /\ version' = version + 1
    BY <1>2, <2>1 DEF Submit, Accept
  <2>8. l.id \notin {m.id : m \in UsedUp}
    BY <2>4 DEF LeaseInv, LeaseTableKeys, ActiveLeases
  <2>9. /\ {m.id : m \in UsedUp} = {r.lease : r \in results}
        /\ \A r, s \in results : r.lease = s.lease \/ r.version = s.version => r = s
        /\ \A r \in results : r.version <= version
    BY DEF ChunkInv, ChunksMatchLeases, ResultsBounded, UsedUp
  <2>10. {m.id : m \in UsedUp'} = {r.lease : r \in results'}
    <3>1. {r.lease : r \in results'} = {r.lease : r \in results} \cup {row.lease}
      BY <2>7
    <3>2. row.lease = l.id
      OBVIOUS
    <3>. QED  BY <2>6, <2>9, <3>1, <3>2
  <2>11. \A r \in results : r.lease # row.lease /\ r.version # row.version
    <3>1. \A r \in results : r.lease # row.lease
      BY <2>8, <2>9
    <3>2. version \in Nat /\ \A r \in results : r.version \in Nat
      BY DEF TypeOK
    <3>. QED  BY <2>9, <3>1, <3>2
  <2>12. \A r, s \in results' : r.lease = s.lease \/ r.version = s.version => r = s
    BY <2>7, <2>9, <2>11
  <2>13. ResultsBounded'
    <3>1. version \in Nat /\ \A r \in results : r.version \in Nat
      BY DEF TypeOK
    <3>. QED  BY <2>7, <2>9, <3>1 DEF ResultsBounded
  <2>. QED  BY <2>10, <2>12, <2>13 DEF ChunkInv, ChunksMatchLeases, UsedUp
<1>3. ASSUME NEW leaseId \in LeaseIds, RecordTransportFailure(leaseId)
      PROVE  ChunkInv'
  <2>1. PICK l \in ActiveLeases, m \in LeaseRows :
          /\ leases' = (leases \ {l}) \cup {m}
          /\ ActiveLeases = {l} /\ ActiveLeases' = {m}
    BY <1>3, FailureKeepsRows DEF LeaseInv
  <2>2. \A n \in leases \ {l} : n # m
    <3>1. m \notin leases \ ActiveLeases
      BY <2>1 DEF ActiveLeases
    <3>. QED  BY <2>1, <3>1
  <2>3. UsedUp' = UsedUp
    BY <2>1, <2>2 DEF UsedUp
  <2>4. UNCHANGED results /\ version' \in Nat /\ version <= version'
    BY <1>3 DEF RecordTransportFailure, TypeOK
  <2>. QED  BY <2>3, <2>4, NoChunk
<1>4. ASSUME NEW expected \in 0 .. version, FinalizeBegin(expected)
      PROVE  ChunkInv'
  BY <1>4, MoveToKeepsChunks DEF FinalizeBegin
<1>5. CASE CandidateRendered
  BY <1>5, MoveToKeepsChunks DEF CandidateRendered
<1>6. CASE CandidateRejected
  BY <1>6, MoveToKeepsChunks DEF CandidateRejected
<1>7. CASE FinalizeCompleted
  BY <1>7, MoveToKeepsChunks DEF FinalizeCompleted
<1>8. CASE FinalizeFailed
  BY <1>8, MoveToKeepsChunks DEF FinalizeFailed
<1>9. ASSUME NEW repair \in SUBSET Items, NEW cap \in Capacities, RouteRepair(repair, cap)
      PROVE  ChunkInv'
  <2> DEFINE next == PlannedLease(repair, cap, version)
  <2>1. leases' = leases \cup {next} /\ ActiveLeases = {} /\ next.status = "ACTIVE"
    BY <1>9 DEF RouteRepair, PlannedLease
  <2>2. UsedUp' = UsedUp
    BY <2>1 DEF UsedUp, ActiveLeases
  <2>3. UNCHANGED results /\ version' \in Nat /\ version <= version'
    BY <1>9 DEF RouteRepair, TypeOK
  <2>. QED  BY <2>2, <2>3, NoChunk
<1>10. ASSUME NEW repair \in SUBSET Items, RouteRepairFailed(repair)
       PROVE  ChunkInv'
  BY <1>10, MoveToKeepsChunks DEF RouteRepairFailed
<1>11. CASE UNCHANGED vars
  BY <1>11 DEF vars, ChunkInv, ChunksMatchLeases, ResultsBounded, ActiveLeases
<1>. QED
  BY <1>1, <1>2, <1>3, <1>4, <1>5, <1>6, <1>7, <1>8, <1>9, <1>10, <1>11 DEF Next

\* Every accepted chunk used up one lease, and every used lease had one chunk.
THEOREM ChunksMatchLeasesHolds == Spec => []ChunksMatchLeases
<1>1. Init => ChunkInv
  BY DEF Init, ChunkInv, ChunksMatchLeases, ResultsBounded, ActiveLeases
<1>2. ChunkInv => ChunksMatchLeases
  BY DEF ChunkInv
<1>. QED  BY <1>1, <1>2, ChunkInvStep, TypeCorrect, LeasesCorrect, PTL DEF Spec

-----------------------------------------------------------------------------
(* What a step may never do *)

Counted ==
  state # "NONE" =>
    version' = IF <<state, doc, LeaseIds, results>>' = <<state, doc, LeaseIds, results>>
               THEN version ELSE version + 1

\* Every step that changes something a client can see raises the version by one.
THEOREM VersionCounts == Spec => VersionCountsChanges
<1>1. TypeOK /\ LeaseInv /\ [Next]_vars => [Counted]_vars
  <2> SUFFICES ASSUME TypeOK, LeaseInv, Next PROVE Counted
    BY DEF vars
  <2>1. ASSUME NEW s, MoveTo(s), s # state PROVE Counted
    BY <2>1 DEF MoveTo, Counted
  <2>2. ASSUME NEW key \in Keys, NEW leaseId \in LeaseIds, NEW expected \in 0 .. version,
               Submit(key, leaseId, expected)
        PROVE  Counted
    <3> DEFINE row == [key |-> key, lease |-> leaseId, version |-> version + 1]
    <3>1. version' = version + 1
      BY <2>2, SubmitAccepts DEF Accept
    <3>2. row \notin results /\ results' = results \cup {row}
      BY <2>2 DEF Submit, IsNewKey
    <3>. QED  BY <3>1, <3>2 DEF Counted
  <2>3. ASSUME NEW leaseId \in LeaseIds, RecordTransportFailure(leaseId)
        PROVE  Counted
    <3>1. PICK l \in ActiveLeases, m \in LeaseRows :
            m.id = l.id /\ leases' = (leases \ {l}) \cup {m}
      BY <2>3, FailureKeepsRows DEF LeaseInv
    <3>2. LeaseIds' = LeaseIds
      BY <3>1 DEF LeaseIds, ActiveLeases
    <3>. QED  BY <2>3, <3>2 DEF Counted, RecordTransportFailure
  <2>4. ASSUME NEW expected \in 0 .. version, FinalizeBegin(expected) PROVE Counted
    BY <2>1, <2>4 DEF FinalizeBegin
  <2>5. CASE CandidateRendered  BY <2>1, <2>5 DEF CandidateRendered
  <2>6. CASE CandidateRejected  BY <2>1, <2>6 DEF CandidateRejected
  <2>7. CASE FinalizeCompleted  BY <2>1, <2>7 DEF FinalizeCompleted
  <2>8. CASE FinalizeFailed  BY <2>1, <2>8 DEF FinalizeFailed
  <2>9. ASSUME NEW repair \in SUBSET Items, NEW cap \in Capacities, RouteRepair(repair, cap)
        PROVE  Counted
    BY <2>9 DEF RouteRepair, Counted
  <2>10. ASSUME NEW repair \in SUBSET Items, RouteRepairFailed(repair) PROVE Counted
    BY <2>1, <2>10 DEF RouteRepairFailed
  <2>11. ASSUME NEW initial \in Payloads, NEW cap \in Capacities, Start(initial, cap)
         PROVE  Counted
    BY <2>11 DEF Start, Counted
  <2>. QED
    BY <2>2, <2>3, <2>4, <2>5, <2>6, <2>7, <2>8, <2>9, <2>10, <2>11 DEF Next
<1>. QED
  BY <1>1, TypeCorrect, LeasesCorrect, PTL DEF Spec, VersionCountsChanges, Counted

Guarded ==
  /\ state \in FinalizedStates \ {"REPAIRING"} => doc' = doc
  /\ ~(doc \subseteq doc') => state = "REPAIRING" /\ state' = "COLLECTING"

\* Entries are removed only by a repair of a rejected candidate, and a document
\* being finalized stays as it was rendered.
THEOREM DocumentIsGuarded == Spec => DocumentGuarded
<1>1. TypeOK /\ LeaseInv /\ [Next]_vars => [Guarded]_vars
  <2> SUFFICES ASSUME TypeOK, LeaseInv, Next PROVE Guarded
    BY DEF vars
  <2>1. ASSUME doc' = doc PROVE Guarded
    BY <2>1 DEF Guarded
  <2>2. ASSUME NEW key \in Keys, NEW leaseId \in LeaseIds, NEW expected \in 0 .. version,
               Submit(key, leaseId, expected)
        PROVE  Guarded
    <3>1. ActiveLeases # {} /\ doc \subseteq doc'
      BY <2>2, SubmitAccepts DEF Accept
    <3>. QED  BY <3>1 DEF Guarded, LeaseInv, LeaseMatchesState, FinalizedStates
  <2>3. ASSUME NEW repair \in SUBSET Items, NEW cap \in Capacities, RouteRepair(repair, cap)
        PROVE  Guarded
    BY <2>3 DEF RouteRepair, Guarded
  <2>4. ASSUME NEW initial \in Payloads, NEW cap \in Capacities, Start(initial, cap)
        PROVE  Guarded
    BY <2>4 DEF Start, Guarded, LeaseInv, FreshWhenNone, FinalizedStates
  <2>. QED
    BY <2>1, <2>2, <2>3, <2>4
       DEF Next, RecordTransportFailure, FinalizeBegin, CandidateRendered, CandidateRejected,
           FinalizeCompleted, FinalizeFailed, RouteRepairFailed, MoveTo
<1>. QED
  BY <1>1, TypeCorrect, LeasesCorrect, PTL DEF Spec, DocumentGuarded, Guarded

-----------------------------------------------------------------------------
(* The session implements the protocol *)

\* Each transaction is a move of the protocol or leaves its view as it is.
THEOREM Implements == Spec => FollowsProtocol
<1>1. Init => Protocol!Init
  BY DEF Init, Protocol!Init, ActiveLeases
<1>2. TypeOK /\ LeaseInv /\ [Next]_vars => [Protocol!Next]_Protocol!vars
  <2> SUFFICES ASSUME TypeOK, LeaseInv, [Next]_vars
               PROVE  Protocol!Next \/ UNCHANGED Protocol!vars
    OBVIOUS
  <2> USE DEF Protocol!Collecting, Protocol!Collected
  <2>1. ASSUME NEW initial \in Payloads, NEW cap \in Capacities, Start(initial, cap)
        PROVE  Protocol!Create
    <3> DEFINE first == PlannedLease(Missing(initial), cap, 0)
    <3>1. /\ Covered(initial) => leases' = {} /\ state' = "READY"
          /\ ~Covered(initial) => leases' = {first} /\ state' = "COLLECTING"
      BY <2>1 DEF Start, StateFrom
    <3>2. first.status = "ACTIVE"
      BY DEF PlannedLease
    <3>3. ActiveLeases' # {} <=> ~Covered(initial)
      BY <3>1, <3>2 DEF ActiveLeases
    <3>. QED  BY <2>1, <3>1, <3>3 DEF Start, Protocol!Create
  <2>2. ASSUME NEW key \in Keys, NEW leaseId \in LeaseIds, NEW expected \in 0 .. version,
               Submit(key, leaseId, expected)
        PROVE  Protocol!Collect
    <3>1. PICK l \in ActiveLeases, payload \in Payloads, cap \in Capacities :
            Accept(l, payload, cap)
      BY <2>2, SubmitAccepts
    <3>2. /\ Covered(doc') => ActiveLeases' = {} /\ state' = "READY"
          /\ ~Covered(doc') => ActiveLeases' # {} /\ state' = "COLLECTING"
      <4>1. /\ Covered(doc') => ActiveLeases' = {}
            /\ ~Covered(doc') => ActiveLeases' # {}
        BY <3>1, AcceptLeases DEF LeaseInv
      <4>. QED  BY <3>1, <4>1 DEF Accept, StateFrom
    <3>. QED  BY <3>1, <3>2 DEF Accept, Protocol!Collect
  <2>3. ASSUME NEW leaseId \in LeaseIds, RecordTransportFailure(leaseId)
        PROVE  UNCHANGED Protocol!vars
    BY <2>3, FailureKeepsRows DEF RecordTransportFailure, Protocol!vars, LeaseInv
  <2>4. ASSUME NEW s, MoveTo(s)
        PROVE  UNCHANGED ActiveLeases /\ state' = s /\ version' = version + 1
    BY <2>4 DEF MoveTo, ActiveLeases
  <2> USE DEF Protocol!Move
  <2>5. ASSUME NEW expected \in 0 .. version, FinalizeBegin(expected) PROVE Protocol!Begin
    BY <2>4, <2>5 DEF FinalizeBegin, Protocol!Begin
  <2>6. CandidateRendered => Protocol!Render
    BY <2>4 DEF CandidateRendered, Protocol!Render
  <2>7. CandidateRejected => Protocol!Reject
    BY <2>4 DEF CandidateRejected, Protocol!Reject
  <2>8. FinalizeCompleted => Protocol!Complete
    BY <2>4 DEF FinalizeCompleted, Protocol!Complete
  <2>9. FinalizeFailed => Protocol!Fail
    BY <2>4 DEF FinalizeFailed, Protocol!Fail
  <2>10. ASSUME NEW repair \in SUBSET Items, NEW cap \in Capacities, RouteRepair(repair, cap)
         PROVE  Protocol!Reopen
    <3> DEFINE next == PlannedLease(repair, cap, version)
    <3>1. next.status = "ACTIVE" /\ next \in leases'
      BY <2>10 DEF RouteRepair, PlannedLease
    <3>2. ActiveLeases' # {}
      BY <3>1 DEF ActiveLeases
    <3>. QED  BY <2>10, <3>2 DEF RouteRepair, Protocol!Reopen
  <2>11. ASSUME NEW repair \in SUBSET Items, RouteRepairFailed(repair) PROVE Protocol!Fail
    BY <2>4, <2>11 DEF RouteRepairFailed, Protocol!Fail
  <2>12. CASE UNCHANGED vars
    BY <2>12 DEF vars, Protocol!vars, ActiveLeases
  <2>. QED
    BY <2>1, <2>2, <2>3, <2>5, <2>6, <2>7, <2>8, <2>9, <2>10, <2>11, <2>12
       DEF Next, Protocol!Next
<1>. QED
  BY <1>1, <1>2, TypeCorrect, LeasesCorrect, PTL DEF Spec, FollowsProtocol, Protocol!Spec
=============================================================================
