---------------------------- MODULE ReportRepair ----------------------------
(***************************************************************************)
(* From the records of a session to an accepted report: which documents    *)
(* coverage calls ready (report_work_units.py), which of them render       *)
(* (report_renderer.py), what the validator finds in the text              *)
(* (validate_report.py), which records a finding is traced to              *)
(* (report_diagnostics.py), and what the service then removes and asks for *)
(* again (report_session_service.py, route_repair_diagnostics).            *)
(*                                                                         *)
(* ReportSession and ReportLifecycle hold the tables, the journal and the  *)
(* crash points; here finalize is one action and a record is what the      *)
(* renderer and the validator can tell of it.  A text is a class: whether  *)
(* a reference can be checked and passes, whether a value is a verdict.    *)
(***************************************************************************)
EXTENDS Integers, FiniteSets, Sequences

CONSTANTS
  Deployables,      \* snapshot.deployable_subject_ids
  SnapshotEdges,    \* snapshot.relationship_edge_ids
  GroupOf,          \* contract field -> its group
  Detailed,         \* the session's mode is "detailed"
  SubjectOffers,    \* subjects a chunk can declare
  ClaimOffers,      \* claims a chunk can carry
  EdgeOffers,       \* relationships a chunk can carry
  InitialDocs,      \* documents the start command can bring
  MaxChunkClaims,   \* bound: claims of one chunk
  RefKind,          \* evidence reference -> what a check of it finds
  HasRoot,          \* target.json names the analysis root
  Verdicts, Forbidden, \* values: a legal verdict; text no report may hold
  Escape,           \* first word of a name -> that word in a heading
  MaxRepairRounds

CardGroups == {"component_runtime", "component_config_state", "component_k8s_input"}
ComponentGroups == CardGroups \cup {"deployment_evidence"}
GlobalGroups == {"scope", "readiness"}
Fields == DOMAIN GroupOf
GroupFields(g) == {f \in Fields : GroupOf[f] = g}

Nobody == ""        \* the subject of a global unit, and of an untraced finding

Subjects == SubjectOffers \cup UNION {d.subjects : d \in InitialDocs}
Claims == ClaimOffers \cup UNION {d.claims : d \in InitialDocs}
Edges == EdgeOffers \cup UNION {d.edges : d \in InitialDocs}
Documents == [subjects : SUBSET Subjects, claims : SUBSET Claims, edges : SUBSET Edges]

ASSUME RepairAssumption ==
  /\ \A f \in Fields : GroupOf[f] \in ComponentGroups \cup GlobalGroups
  /\ "verdict" \in Fields /\ GroupOf["verdict"] = "readiness"
  /\ Nobody \notin Deployables
  /\ Detailed \in BOOLEAN /\ HasRoot \in BOOLEAN
  /\ MaxRepairRounds \in Nat

\* The parser takes no empty id and no field but those of the contract, whose
\* ids are not empty; a payload is finite.
ASSUME RecordAssumption ==
  /\ "" \notin Fields /\ \A c \in Claims : c.field \in Fields
  /\ \A s \in Subjects : s.id # Nobody
  /\ InitialDocs \subseteq Documents
  /\ IsFiniteSet(ClaimOffers) /\ \A d \in InitialDocs : IsFiniteSet(d.claims)

VARIABLES
  state,        \* sessions.state
  doc,          \* rows of subjects, claims and relationships
  lease,        \* what the active lease asks for; empty when there is none
  rounds,       \* REPAIR_LEASE_ISSUED audit events
  checked       \* whether this session's client checks what it answers

vars == <<state, doc, lease, rounds, checked>>

-----------------------------------------------------------------------------
(* Work units.  A unit is its subject and its group; an item is one field  *)
(* of a unit.  The inventory unit and the minimum-input-gap unit ask for   *)
(* fields of the runtime and kubernetes-input units of their subject, so   *)
(* they add no item.                                                       *)

Items ==
  [subject : Deployables, field : {f \in Fields : GroupOf[f] \in ComponentGroups}]
  \cup [subject : {Nobody}, field : {f \in Fields : GroupOf[f] \in GlobalGroups}]

KindIn(d, id) == {s.kind : s \in {t \in d.subjects : t.id = id}}

\* Mutant: readiness fields are looked for on the scope subject.
PresentOnScope(d, i) ==
  \E c \in d.claims :
    /\ c.field = i.field
    /\ CASE GroupOf[i.field] \in GlobalGroups -> "scope" \in KindIn(d, c.subject)
         [] OTHER -> c.subject = i.subject

Present(d, i) ==
  \E c \in d.claims :
    /\ c.field = i.field
    /\ CASE GroupOf[i.field] = "scope" -> "scope" \in KindIn(d, c.subject)
         [] GroupOf[i.field] = "readiness" -> TRUE
         [] OTHER -> c.subject = i.subject

MissingItems(d) == {i \in Items : ~Present(d, i)}
MissingEdges(d) == SnapshotEdges \ {e.id : e \in d.edges}
\* What is left to ask for; coverage is complete when nothing is.
Missing(d) == MissingItems(d) \cup {[edge |-> e] : e \in MissingEdges(d)}

StateFrom(d) == IF Missing(d) = {} THEN "READY" ELSE "COLLECTING"

\* Which entries of the pending units a lease takes is the planner's choice
\* (ReportSession); it always takes some.
LeaseFor(pending, l) == l \in SUBSET pending /\ l # {}

-----------------------------------------------------------------------------
(* Rendering.  render_report raises unless all of this holds.               *)

OfKind(d, kind) == {s \in d.subjects : s.kind = kind}
ClaimsOn(d, id, groups) ==
  {c \in d.claims : c.subject = id /\ GroupOf[c.field] \in groups}
HasGroup(d, id, g) == GroupFields(g) \subseteq {c.field : c \in ClaimsOn(d, id, {g})}

Renderable(d) ==
  /\ Cardinality(OfKind(d, "scope")) = 1
  /\ \A s \in OfKind(d, "scope") : HasGroup(d, s.id, "scope")
  /\ OfKind(d, "deployable") # {}
  /\ \A s \in OfKind(d, "deployable") :
       \A g \in ComponentGroups : HasGroup(d, s.id, g)
  /\ d.edges # {}
  /\ \A f \in GroupFields("readiness") :
       Cardinality({c \in d.claims : c.field = f}) = 1

\* The claims whose value, and those whose evidence, reach the text.
CardClaims(d) == UNION {ClaimsOn(d, s.id, CardGroups) : s \in OfKind(d, "deployable")}
DeployedClaims(d) ==
  UNION {ClaimsOn(d, s.id, ComponentGroups) : s \in OfKind(d, "deployable")}
ClaimsOf(d, f) == {c \in d.claims : c.field = f}
ValueClaims(d) ==
  (UNION {ClaimsOn(d, s.id, {"scope"}) : s \in OfKind(d, "scope")})
  \cup DeployedClaims(d) \cup ClaimsOf(d, "verdict") \cup ClaimsOf(d, "reason")
\* A card line carries the claim's reason after its evidence; the readiness
\* line carries its evidence alone.
CitedBy(c) == IF GroupOf[c.field] = "readiness" THEN c.evidence
              ELSE c.evidence \cup c.reason
EvidenceClaims(d) == DeployedClaims(d) \cup ClaimsOf(d, "supporting_evidence")

-----------------------------------------------------------------------------
(* Validation.  A reference is of one of these kinds:                       *)
(*   "cited"     a line that exists            "endpoint"  host:port, never *)
(*   "missing"   no such file                              looked up        *)
(*   "outside"   a line past the end, or a     "absence"   a full search    *)
(*               path that leaves the root     "vague"     any other search *)
(*   "misread"   a path the validator reads as another, missing one        *)
(* Values are taken to mention no reference.                               *)

Faulty(r) == RefKind[r] \in {"missing", "outside", "misread"}
ValidEvidence(refs) == \E r \in refs : RefKind[r] # "vague"

Untraced == [section |-> "", subject |-> Nobody, field |-> ""]

\* The references that read as file:line; one that is misread is cited by none
\* the way it was read.
FileLines(refs) ==
  {r \in refs : RefKind[r] \in {"cited", "endpoint", "missing", "outside"}}

\* A finding that quotes references belongs to every record that cites one,
\* whatever record the text came from.
TracedByReference(d, refs) ==
  LET named == FileLines(refs)
      found ==
        {[section |-> GroupOf[c.field], subject |-> c.subject, field |-> c.field] :
           c \in {c \in d.claims : c.evidence \cap named # {}}}
        \cup {[section |-> "relationships", subject |-> e.id, field |-> ""] :
                e \in {e \in d.edges : e.evidence \cap named # {}}}
  IN  IF found = {} THEN {Untraced} ELSE found

\* A finding on the evidence of a card line quotes the heading, which the
\* validator reads up to its first blank, and is given to the subject of
\* exactly that name.
HeadingName(s) == <<Escape[Head(s.name)]>>
TracedByName(d, c) ==
  LET owner == CHOOSE s \in d.subjects : s.id = c.subject
      named == {s \in d.subjects : s.name = HeadingName(owner)}
  IN  IF Cardinality(named) = 1
      THEN {[section |-> GroupOf[c.field], subject |-> s.id, field |-> c.field] :
              s \in named}
      ELSE TracedByReference(d, c.evidence \cup c.reason)

\* A card line needs a status the pattern knows and evidence it accepts.
Unprintable(c) == c.status = "not_applicable"
BadLine(c) == Unprintable(c) \/ ~ValidEvidence(c.evidence \cup c.reason)

\* A finding on the form of the line is worded "의 속성이", which the pattern for
\* headings ("의 속성 이") does not match: it is traced by what the line quotes.
LineFinding(d, c) ==
  IF Unprintable(c) THEN TracedByReference(d, c.evidence \cup c.reason)
  ELSE TracedByName(d, c)
LineFindings(d) == UNION {LineFinding(d, c) : c \in {c \in CardClaims(d) : BadLine(c)}}

\* Mutant: the lines of relationships are not looked at.
CitedByClaims(d) == UNION {CitedBy(c) : c \in EvidenceClaims(d)}
\* Repository references are checked on every line that says where its
\* evidence is, which a row of the detailed matrix does not.
CitedRefs(d) ==
  (UNION {CitedBy(c) : c \in EvidenceClaims(d)})
  \cup (IF Detailed THEN {} ELSE UNION {e.evidence : e \in d.edges})
\* Without the analysis root no reference is looked up.
LookedUp(d) == IF HasRoot THEN CitedRefs(d) ELSE {}
ReferenceFindings(d) ==
  UNION {TracedByReference(d, {r}) : r \in {r \in LookedUp(d) : Faulty(r)}}

VerdictFindings(d) ==
  IF \A c \in ClaimsOf(d, "verdict") : c.value \in Verdicts THEN {}
  ELSE {[section |-> "readiness", subject |-> Nobody, field |-> "verdict"]}

\* Findings that name neither a field nor a reference.
UntracedFindings(d) ==
  IF \/ Detailed /\ \E e \in d.edges : ~ValidEvidence(e.evidence)
     \/ \E c \in ValueClaims(d) : c.value \in Forbidden
  THEN {Untraced} ELSE {}

\* Mutant: references are looked up for card lines alone.
CardReferenceFindings(d) ==
  UNION {TracedByReference(d, {r}) :
           r \in {r \in UNION {CitedBy(c) : c \in CardClaims(d)} : Faulty(r)}}
FindingsOfCards(d) ==
  LineFindings(d) \cup CardReferenceFindings(d)
  \cup VerdictFindings(d) \cup UntracedFindings(d)

Findings(d) ==
  LineFindings(d) \cup ReferenceFindings(d)
  \cup VerdictFindings(d) \cup UntracedFindings(d)

-----------------------------------------------------------------------------
(* Routing.  A finding asks for its field, or for the whole unit when the   *)
(* unit does not have that field; a finding with a subject reaches only the *)
(* units of that subject, and a global unit has none.                       *)

RepairItems(findings) ==
  {i \in Items : \E f \in findings :
     /\ f.section = GroupOf[i.field]
     /\ f.subject \in {Nobody, i.subject}
     /\ (f.field \in GroupFields(f.section) => f.field = i.field)}

FoundEdges(findings) == {f.subject : f \in {f \in findings : f.section = "relationships"}}
RepairWork(findings) ==
  RepairItems(findings)
  \cup {[edge |-> e] : e \in FoundEdges(findings) \cap SnapshotEdges}

\* Mutants: the field of the finding is dropped; a global item removes only
\* claims without a subject.
RepairedUnits(d, findings) ==
  [d EXCEPT
     !.edges = {e \in @ : e.id \notin FoundEdges(findings)},
     !.claims = {c \in @ : \A i \in RepairItems(findings) :
                   ~(GroupOf[i.field] = GroupOf[c.field] /\ i.subject \in {Nobody, c.subject})}]
RepairedNamed(d, findings) ==
  [d EXCEPT
     !.edges = {e \in @ : e.id \notin FoundEdges(findings)},
     !.claims = {c \in @ : [subject |-> c.subject, field |-> c.field]
                           \notin RepairItems(findings)}]

\* The records removed: the edges found, and the claims of the repaired
\* items, which for a global unit are those of any subject.
Repaired(d, findings) ==
  LET items == RepairItems(findings)
  IN  [d EXCEPT
        !.edges = {e \in @ : e.id \notin FoundEdges(findings)},
        !.claims = {c \in @ :
                      /\ [subject |-> c.subject, field |-> c.field] \notin items
                      /\ [subject |-> Nobody, field |-> c.field] \notin items}]

-----------------------------------------------------------------------------
Init ==
  /\ state = "NONE" /\ doc = [subjects |-> {}, claims |-> {}, edges |-> {}]
  /\ lease = {} /\ rounds = 0
  /\ checked \in BOOLEAN

\* What parse_report_document demands of a payload.
UniqueIds(records) == \A r, s \in records : r.id = s.id => r = s
WellFormed(d) ==
  /\ UniqueIds(d.subjects) /\ UniqueIds(d.claims) /\ UniqueIds(d.edges)
  /\ \A c \in d.claims : \E s \in d.subjects : s.id = c.subject
  /\ \A e \in d.edges : \A id \in e.ends : \E s \in d.subjects : s.id = id

(* service.start with the records the initial payload carries. *)
Start(d) ==
  /\ state = "NONE"
  /\ WellFormed(d)
  /\ doc' = d /\ state' = StateFrom(d)
  /\ IF Missing(d) = {} THEN lease' = {} ELSE LeaseFor(Missing(d), lease')
  /\ UNCHANGED <<rounds, checked>>

LeaseFields == {i.field : i \in lease \cap Items}
\* A claim is held to the names of the leased fields and an edge to its id;
\* the subject of a claim, and whether the entry is missing, are not looked at.
WithinLease(p) ==
  /\ \A c \in p.claims : c.field \in LeaseFields
  /\ \A e \in p.edges : [edge |-> e.id] \in lease

\* Mutant: ids of earlier chunks are not looked at.
InsertableAnyway(p) == UniqueIds(doc.subjects \cup p.subjects)
\* The keys of the tables: an id is used once, a subject keeps its definition.
Insertable(p) ==
  /\ UniqueIds(doc.subjects \cup p.subjects)
  /\ \A c \in p.claims, k \in doc.claims : c.id # k.id
  /\ \A e \in p.edges, k \in doc.edges : e.id # k.id

Merged(p) ==
  [subjects |-> doc.subjects \cup p.subjects,
   claims |-> doc.claims \cup p.claims, edges |-> doc.edges \cup p.edges]

(* service.submit: the lease closes and the next one asks for what is left. *)
Submit(p) ==
  /\ lease # {}
  /\ WithinLease(p) /\ WellFormed(p) /\ Insertable(p)
  /\ doc' = Merged(p) /\ state' = StateFrom(Merged(p))
  /\ IF Missing(Merged(p)) = {} THEN lease' = {}
     ELSE LeaseFor(Missing(Merged(p)), lease')
  /\ UNCHANGED <<rounds, checked>>

\* A finalize whose rendering raises leaves the session assembling and the
\* journal at candidate_write_pending; every later finalize raises again.
FinalizeRaises ==
  /\ state = "READY" /\ ~Renderable(doc)
  /\ state' = "ASSEMBLING" /\ UNCHANGED <<doc, lease, rounds, checked>>

FinalizeAccepts ==
  /\ state = "READY" /\ Renderable(doc) /\ Findings(doc) = {}
  /\ state' = "COMPLETE" /\ UNCHANGED <<doc, lease, rounds, checked>>

Rejected == state = "READY" /\ Renderable(doc) /\ Findings(doc) # {}

FinalizeFails ==
  /\ Rejected
  /\ RepairWork(Findings(doc)) = {} \/ rounds >= MaxRepairRounds
  /\ state' = "FAILED" /\ UNCHANGED <<doc, lease, rounds, checked>>

FinalizeRepairs ==
  /\ Rejected
  /\ RepairWork(Findings(doc)) # {} /\ rounds < MaxRepairRounds
  /\ doc' = Repaired(doc, Findings(doc))
  /\ LeaseFor(RepairWork(Findings(doc)), lease')
  /\ state' = "COLLECTING" /\ rounds' = rounds + 1
  /\ UNCHANGED checked

Finalize == FinalizeRaises \/ FinalizeAccepts \/ FinalizeFails \/ FinalizeRepairs

Chunks ==
  [subjects : SUBSET SubjectOffers,
   claims : {s \in SUBSET ClaimOffers : UniqueIds(s) /\ Cardinality(s) <= MaxChunkClaims},
   edges : {s \in SUBSET EdgeOffers : UniqueIds(s)}]

-----------------------------------------------------------------------------
(* Clients.  Some answer a lease with anything it allows, others only with *)
(* claims and edges they have checked: each carries a status the report    *)
(* can show, evidence that holds and a legal value, and it offers each     *)
(* missing entry once.                                                     *)

SoundClaim(c) ==
  /\ c.status # "not_applicable" /\ ValidEvidence(c.evidence)
  /\ \A r \in c.evidence \cup c.reason : ~Faulty(r)
  /\ c.field = "verdict" => c.value \in Verdicts
  /\ c.value \notin Forbidden
SoundEdge(e) == ValidEvidence(e.evidence) /\ \A r \in e.evidence : ~Faulty(r)

Fills(c, i) ==
  /\ c.field = i.field
  /\ GroupOf[i.field] \in ComponentGroups => c.subject = i.subject

SoundAnswer(p) ==
  /\ p.claims \cup p.edges # {}
  /\ \A c \in p.claims : SoundClaim(c) /\ \E i \in lease \cap MissingItems(doc) : Fills(c, i)
  /\ \A e \in p.edges : SoundEdge(e)
  /\ \A c, k \in p.claims :
       c.field = k.field /\ (c.subject = k.subject \/ GroupOf[c.field] \in GlobalGroups)
         => c = k

Next ==
  \/ \E d \in InitialDocs : Start(d)
  \/ \E p \in Chunks : (checked => SoundAnswer(p)) /\ Submit(p)
  \/ Finalize

\* The loop of a client that checks takes the step the last reply names for as
\* long as the session moves; any other client may stop.
Spec == Init /\ [][Next]_vars /\ WF_vars(checked /\ Next)

-----------------------------------------------------------------------------
States == {"NONE", "COLLECTING", "READY", "ASSEMBLING", "COMPLETE", "FAILED"}

\* The variables keep their types, and a lease is open exactly while records
\* are collected.
TypeOK ==
  /\ state \in States
  /\ doc \in Documents /\ WellFormed(doc)
  /\ rounds \in 0 .. MaxRepairRounds
  /\ (lease # {}) <=> (state = "COLLECTING")

\* An accepted report shows what it claims: exactly one verdict, a legal one,
\* and for every component of the snapshot that has a card, each required
\* field with a status the report can print, and, when the analysis root is
\* known, no reference in it that the repository contradicts.
CompleteIsBacked ==
  state = "COMPLETE" =>
    /\ \E c \in doc.claims : c.value \in Verdicts /\ ClaimsOf(doc, "verdict") = {c}
    /\ \A s \in OfKind(doc, "deployable") :
         \A f \in Fields : GroupOf[f] \in CardGroups =>
           \E c \in doc.claims : /\ c.subject = s.id /\ c.field = f
                                 /\ c.status # "not_applicable"
                                 /\ ValidEvidence(c.evidence \cup c.reason)
    /\ HasRoot =>
         /\ \A s \in OfKind(doc, "deployable") :
              \A c \in ClaimsOn(doc, s.id, ComponentGroups) :
                \A r \in c.evidence \cup c.reason : ~Faulty(r)
         /\ \A c \in ClaimsOf(doc, "supporting_evidence") :
              \A r \in c.evidence : ~Faulty(r)

\* When the analysis root is known, an accepted report has no relationship
\* whose evidence the repository contradicts.
EdgesAreBacked ==
  state = "COMPLETE" /\ HasRoot =>
    \A e \in doc.edges : \A r \in e.evidence : ~Faulty(r)

\* A record is at fault when a check of its own text fails.
AtFault(c) ==
  \/ BadLine(c)
  \/ \E r \in c.evidence \cup c.reason : Faulty(r)
  \/ c.field = "verdict" /\ c.value \notin Verdicts

\* Every name is one word that a heading shows as it is, and of one subject.
PlainNames ==
  /\ \A s \in Subjects : s.name = HeadingName(s)
  /\ \A s, t \in Subjects : s.name = t.name => s.id = t.id

\* A claim cites a file:line that a card line with no printable status quotes.
CitesUnprintable(d, c) ==
  \E k \in CardClaims(d) :
    Unprintable(k) /\ c.evidence \cap FileLines(k.evidence \cup k.reason) # {}

\* A repair removes only claims that share their subject and field with one
\* that is at fault, or with one that cites a file:line which an unprintable
\* card line quotes: the rest of what was collected survives.
RepairIsLocal ==
  [][rounds' > rounds =>
       \A c \in doc.claims \ doc'.claims :
         \E k \in doc.claims :
           /\ k.field = c.field /\ k.subject = c.subject
           /\ AtFault(k) \/ CitesUnprintable(doc, k)]_vars

\* A repair leaves no fault behind that it had routed: what is found again in
\* the next round was written in between, or had no unit from the start.
RepairRemovesFaults ==
  [][rounds' > rounds =>
       \A f \in Findings(doc) :
         RepairWork({f}) # {} =>
           \A c \in doc'.claims :
             ~(c.field = f.field /\ f.subject \in {Nobody, c.subject})]_vars

\* With a client that answers every lease with checked records, a document
\* whose faults can be traced is repaired and its report is accepted.
EndsComplete == checked ~> (state = "COMPLETE")

-----------------------------------------------------------------------------
(* What the sources say and the code does not do (run ReadyUnrenderable).  *)

\* A document that coverage calls rendering_ready can be rendered.
ReadyIsRenderable == state = "READY" => Renderable(doc)

=============================================================================
