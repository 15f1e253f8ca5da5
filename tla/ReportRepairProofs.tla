------------------------- MODULE ReportRepairProofs -------------------------
(***************************************************************************)
(* What an accepted report is worth and what a repair removes, for every   *)
(* document, contract and repository.                                      *)
(*                                                                         *)
(* The argument follows a finding: what it can be traced to, which items   *)
(* it asks for, and which claims these remove.  An accepted document has   *)
(* no findings, so each check that could have made one has passed; the     *)
(* invariant adds that COMPLETE keeps the document that was accepted.      *)
(***************************************************************************)
EXTENDS ReportRepair, FiniteSetTheorems, TLAPS

USE DEF CardGroups, ComponentGroups, GlobalGroups

\* The findings a claim, an edge and an illegal verdict are traced to.
Of(c) == [section |-> GroupOf[c.field], subject |-> c.subject, field |-> c.field]
OfEdge(e) == [section |-> "relationships", subject |-> e.id, field |-> ""]
OfVerdict == [section |-> "readiness", subject |-> Nobody, field |-> "verdict"]

\* A finding of one field of one subject.
OfField(f) ==
  /\ f.field \in Fields /\ f.subject # Nobody
  /\ f.section = GroupOf[f.field]

\* What each kind of finding says.
LEMMA FindingFields ==
  /\ Untraced.section = "" /\ Untraced.subject = Nobody /\ Untraced.field = ""
  /\ OfVerdict.section = "readiness" /\ OfVerdict.subject = Nobody
  /\ OfVerdict.field = "verdict"
  /\ \A e : OfEdge(e).section = "relationships" /\ OfEdge(e).field = ""
  /\ \A c : /\ Of(c).section = GroupOf[c.field] /\ Of(c).subject = c.subject
           /\ Of(c).field = c.field
BY DEF Untraced, OfVerdict, OfEdge, Of

-----------------------------------------------------------------------------
(* What the operators give *)

\* A finding that names references always goes somewhere: to records that cite one,
\* or to none by name.
LEMMA TracedByReferenceGives ==
  ASSUME NEW d, NEW refs
  PROVE /\ TracedByReference(d, refs) # {}
        /\ \A f \in TracedByReference(d, refs) :
             \/ f = Untraced
             \/ \E c \in d.claims :
                  c.evidence \cap FileLines(refs) # {} /\ f = Of(c)
             \/ \E e \in d.edges : f = OfEdge(e)
<1> DEFINE named == FileLines(refs)
           ofClaims == {Of(c) : c \in {c \in d.claims : c.evidence \cap named # {}}}
           ofEdges == {OfEdge(e) : e \in {e \in d.edges : e.evidence \cap named # {}}}
<1>1. TracedByReference(d, refs) =
        IF ofClaims \cup ofEdges = {} THEN {Untraced} ELSE ofClaims \cup ofEdges
  BY DEF TracedByReference, Of, OfEdge
<1>2. \A f \in ofClaims :
        \E c \in d.claims : c.evidence \cap FileLines(refs) # {} /\ f = Of(c)
  OBVIOUS
<1>3. \A f \in ofEdges : \E e \in d.edges : f = OfEdge(e)
  OBVIOUS
<1> HIDE DEF ofClaims, ofEdges
<1>4. CASE ofClaims \cup ofEdges = {}
  <2>1. TracedByReference(d, refs) = {Untraced}
    BY <1>1, <1>4
  <2> QED BY <2>1
<1>5. CASE ofClaims \cup ofEdges # {}
  <2>1. TracedByReference(d, refs) = ofClaims \cup ofEdges
    BY <1>1, <1>5
  <2> QED BY <1>2, <1>3, <1>5, <2>1
<1> QED BY <1>4, <1>5

\* So does one that quotes a heading: to the one subject of that name, or by its
\* references.
LEMMA TracedByNameGives ==
  ASSUME NEW d, NEW c
  PROVE /\ TracedByName(d, c) # {}
        /\ \/ TracedByName(d, c) = TracedByReference(d, c.evidence \cup c.reason)
           \/ \A f \in TracedByName(d, c) : \E s \in d.subjects :
                f = [section |-> GroupOf[c.field], subject |-> s.id, field |-> c.field]
<1> DEFINE owner == CHOOSE s \in d.subjects : s.id = c.subject
           named == {s \in d.subjects : s.name = HeadingName(owner)}
           byName == {[section |-> GroupOf[c.field], subject |-> s.id,
                       field |-> c.field] : s \in named}
<1>1. TracedByName(d, c) =
        IF Cardinality(named) = 1 THEN byName
        ELSE TracedByReference(d, c.evidence \cup c.reason)
  BY DEF TracedByName
<1>2. Cardinality(named) = 1 => named # {}
  <2> HIDE DEF named
  <2> QED BY FS_EmptySet
<1>3. byName # {} <=> named # {}
  <2> HIDE DEF named
  <2> QED OBVIOUS
<1>4. \A f \in byName : \E s \in d.subjects :
        f = [section |-> GroupOf[c.field], subject |-> s.id, field |-> c.field]
  OBVIOUS
<1> HIDE DEF byName, named
<1> QED BY <1>1, <1>2, <1>3, <1>4, TracedByReferenceGives

\* A claim of a document has a field of the contract and a subject that exists.
LEMMA OwnerIs ==
  ASSUME NEW d \in Documents, WellFormed(d), NEW c \in d.claims
  PROVE /\ c \in Claims /\ c.field \in Fields
        /\ c.subject # Nobody /\ \E s \in d.subjects : s \in Subjects /\ s.id = c.subject
<1>1. d.claims \subseteq Claims /\ d.subjects \subseteq Subjects
  BY DEF Documents
<1>2. \E s \in d.subjects : s.id = c.subject
  BY DEF WellFormed
<1> QED BY <1>1, <1>2, RecordAssumption

\* With plain names a finding on a card line goes to the claim the line was made of.
LEMMA PlainlyNamed ==
  ASSUME PlainNames, NEW d \in Documents, WellFormed(d), NEW c \in d.claims
  PROVE TracedByName(d, c) = {Of(c)}
<1> DEFINE owner == CHOOSE s \in d.subjects : s.id = c.subject
           named == {s \in d.subjects : s.name = HeadingName(owner)}
<1>1. owner \in d.subjects /\ owner.id = c.subject
  BY OwnerIs
<1>2. d.subjects \subseteq Subjects /\ UniqueIds(d.subjects)
  BY DEF Documents, WellFormed
<1>3. ASSUME NEW s \in d.subjects
      PROVE s.name = HeadingName(owner) <=> s = owner
  <2> HIDE DEF owner
  <2> QED BY <1>1, <1>2 DEF PlainNames, UniqueIds
<1>4. named = {owner}
  <2> HIDE DEF owner
  <2> QED BY <1>1, <1>3
<1>5. Cardinality(named) = 1
  BY <1>4, FS_Singleton
<1>6. TracedByName(d, c) =
        {[section |-> GroupOf[c.field], subject |-> s.id, field |-> c.field] : s \in named}
  BY <1>5 DEF TracedByName
<1> QED
  <2> HIDE DEF owner, named
  <2> QED BY <1>1, <1>4, <1>6 DEF Of

\* A finding on a card line goes somewhere as well, by what it quotes or by the
\* heading.
LEMMA LineFindingGives ==
  ASSUME NEW d, NEW c
  PROVE /\ LineFinding(d, c) # {}
        /\ Unprintable(c) =>
             LineFinding(d, c) = TracedByReference(d, c.evidence \cup c.reason)
        /\ ~Unprintable(c) => LineFinding(d, c) = TracedByName(d, c)
BY TracedByReferenceGives, TracedByNameGives DEF LineFinding

\* Every finding is of one of four kinds.  One of a field has a subject, and with
\* plain names the claim it names is at fault or cites what an unprintable card
\* line quotes.
LEMMA FindingGives ==
  ASSUME NEW d \in Documents, WellFormed(d), NEW f \in Findings(d)
  PROVE \/ f = Untraced
        \/ f = OfVerdict /\ \E c \in ClaimsOf(d, "verdict") : c.value \notin Verdicts
        \/ \E e \in d.edges : f = OfEdge(e)
        \/ /\ OfField(f)
           /\ PlainNames => \E c \in d.claims :
                              (AtFault(c) \/ CitesUnprintable(d, c)) /\ f = Of(c)
<1>1. CASE f \in LineFindings(d)
  <2>1. PICK c \in CardClaims(d) : BadLine(c) /\ f \in LineFinding(d, c)
    BY <1>1 DEF LineFindings
  <2>2. c \in d.claims
    BY DEF CardClaims, ClaimsOn
  <2>3. \A s \in d.subjects : s.id # Nobody
    BY RecordAssumption DEF Documents
  <2>4. CASE ~Unprintable(c) /\ PlainNames
    <3>1. f = Of(c) /\ AtFault(c)
      BY <2>1, <2>2, <2>4, PlainlyNamed, LineFindingGives DEF AtFault
    <3> QED BY <2>2, <3>1, OwnerIs DEF Of, OfField
  <2>5. CASE ~PlainNames /\ \E s \in d.subjects :
               f = [section |-> GroupOf[c.field], subject |-> s.id, field |-> c.field]
    <3>1. PICK s \in d.subjects :
            f = [section |-> GroupOf[c.field], subject |-> s.id, field |-> c.field]
      BY <2>5
    <3>2. f.section = GroupOf[c.field] /\ f.subject = s.id /\ f.field = c.field
      BY <3>1
    <3>3. c.field \in Fields
      BY <2>2, OwnerIs
    <3> QED BY <2>3, <2>5, <3>2, <3>3 DEF OfField
  <2>6. CASE /\ Unprintable(c) \/ ~PlainNames
             /\ f \in TracedByReference(d, c.evidence \cup c.reason)
    <3>1. ASSUME NEW k \in d.claims, f = Of(k),
                 k.evidence \cap FileLines(c.evidence \cup c.reason) # {}
          PROVE OfField(f) /\ (Unprintable(c) => CitesUnprintable(d, k))
      BY <2>1, <3>1, OwnerIs DEF Of, OfField, CitesUnprintable
    <3>2. \/ f = Untraced \/ \E e \in d.edges : f = OfEdge(e)
          \/ \E k \in d.claims :
               /\ k.evidence \cap FileLines(c.evidence \cup c.reason) # {}
               /\ f = Of(k)
      BY <2>6, TracedByReferenceGives
    <3>3. ASSUME NEW k \in d.claims, f = Of(k),
                 k.evidence \cap FileLines(c.evidence \cup c.reason) # {}
          PROVE /\ OfField(f)
                /\ PlainNames => \E h \in d.claims :
                                   (AtFault(h) \/ CitesUnprintable(d, h)) /\ f = Of(h)
      BY <2>6, <3>1, <3>3
    <3> QED BY <3>2, <3>3
  <2> QED BY <2>1, <2>4, <2>5, <2>6, LineFindingGives, TracedByNameGives
<1>2. CASE f \in ReferenceFindings(d)
  <2>1. PICK r \in LookedUp(d) : Faulty(r) /\ f \in TracedByReference(d, {r})
    BY <1>2 DEF ReferenceFindings
  <2>2. CASE \E c \in d.claims : c.evidence \cap FileLines({r}) # {} /\ f = Of(c)
    <3>1. PICK c \in d.claims : c.evidence \cap FileLines({r}) # {} /\ f = Of(c)
      BY <2>2
    <3>2. AtFault(c)
      BY <2>1, <3>1 DEF AtFault, FileLines
    <3>3. OfField(f)
      BY <3>1, OwnerIs DEF Of, OfField
    <3> QED BY <3>1, <3>2, <3>3
  <2>3. \/ f = Untraced \/ \E e \in d.edges : f = OfEdge(e)
        \/ \E c \in d.claims : c.evidence \cap FileLines({r}) # {} /\ f = Of(c)
    BY <2>1, TracedByReferenceGives
  <2> QED BY <2>2, <2>3
<1>3. CASE f \in VerdictFindings(d)
  BY <1>3 DEF VerdictFindings, OfVerdict
<1>4. CASE f \in UntracedFindings(d)
  BY <1>4 DEF UntracedFindings
<1> QED BY <1>1, <1>2, <1>3, <1>4 DEF Findings

-----------------------------------------------------------------------------
(* What a repair removes *)

\* An item is a subject and a field.
LEMMA ItemsAre ==
  ASSUME NEW i \in Items
  PROVE /\ i = [subject |-> i.subject, field |-> i.field]
        /\ i.field \in Fields
        /\ GroupOf[i.field] \in ComponentGroups \cup GlobalGroups
BY RepairAssumption DEF Items

\* What a repair asks for was named by a finding: the verdict of any subject, or
\* the field of exactly that subject.
LEMMA NamedBy ==
  ASSUME NEW d \in Documents, WellFormed(d), NEW id, NEW fl \in Fields,
         [subject |-> id, field |-> fl] \in RepairItems(Findings(d))
  PROVE \E f \in Findings(d) :
          \/ f = OfVerdict /\ fl = "verdict"
          \/ OfField(f) /\ f.subject = id /\ f.field = fl
<1>1. PICK f \in Findings(d) :
        /\ f.section = GroupOf[fl] /\ f.subject \in {Nobody, id}
        /\ f.field \in GroupFields(f.section) => f.field = fl
  <2> DEFINE i == [subject |-> id, field |-> fl]
  <2>1. i.subject = id /\ i.field = fl /\ i \in RepairItems(Findings(d))
    OBVIOUS
  <2> HIDE DEF i
  <2> QED BY <2>1 DEF RepairItems
<1>2. GroupOf[fl] \in ComponentGroups \cup GlobalGroups
  BY RepairAssumption
<1>3. f # Untraced /\ \A e \in d.edges : f # OfEdge(e)
  BY <1>1, <1>2, FindingFields
<1>4. CASE f = OfVerdict
  <2>1. f.section = "readiness" /\ f.field = "verdict"
    BY <1>4 DEF OfVerdict
  <2> QED BY <1>1, <1>4, <2>1, RepairAssumption DEF GroupFields
<1>5. CASE OfField(f)
  BY <1>1, <1>5 DEF OfField, GroupFields
<1> QED BY <1>3, <1>4, <1>5, FindingGives

\* A document that renders has one verdict.
LEMMA OneClaim ==
  ASSUME NEW d, IsFiniteSet(d.claims), Renderable(d)
  PROVE \E c \in d.claims : ClaimsOf(d, "verdict") = {c}
<1>1. "verdict" \in GroupFields("readiness")
  BY RepairAssumption DEF GroupFields
<1>2. Cardinality(ClaimsOf(d, "verdict")) = 1
  BY <1>1 DEF Renderable, ClaimsOf
<1>3. IsFiniteSet(ClaimsOf(d, "verdict"))
  BY FS_Subset DEF ClaimsOf
<1>4. PICK c : ClaimsOf(d, "verdict") = {c}
  BY <1>2, <1>3, FS_Singleton
<1> QED BY <1>4 DEF ClaimsOf

\* A claim that a repair removes shares its subject and field with one at fault, or
\* with one that cites what an unprintable card line quotes.
LEMMA RemovedIsAtFault ==
  ASSUME PlainNames, NEW d \in Documents, WellFormed(d), IsFiniteSet(d.claims),
         Renderable(d), NEW c \in d.claims, c \notin Repaired(d, Findings(d)).claims
  PROVE \E k \in d.claims :
          /\ k.field = c.field /\ k.subject = c.subject
          /\ AtFault(k) \/ CitesUnprintable(d, k)
<1>1. \/ [subject |-> c.subject, field |-> c.field] \in RepairItems(Findings(d))
      \/ [subject |-> Nobody, field |-> c.field] \in RepairItems(Findings(d))
  BY DEF Repaired, Documents
<1>2. PICK f \in Findings(d) :
        \/ f = OfVerdict /\ c.field = "verdict"
        \/ OfField(f) /\ f.subject = c.subject /\ f.field = c.field
  <2>1. c.field \in Fields
    BY OwnerIs
  <2>2. CASE [subject |-> c.subject, field |-> c.field] \in RepairItems(Findings(d))
    BY <2>1, <2>2, NamedBy
  <2>3. CASE [subject |-> Nobody, field |-> c.field] \in RepairItems(Findings(d))
    <3>1. PICK f \in Findings(d) :
            \/ f = OfVerdict /\ c.field = "verdict"
            \/ OfField(f) /\ f.subject = Nobody /\ f.field = c.field
      BY <2>1, <2>3, NamedBy
    <3> QED BY <3>1 DEF OfField
  <2> QED BY <1>1, <2>2, <2>3
<1>3. CASE OfField(f) /\ f.subject = c.subject /\ f.field = c.field
  <2>1. c.field \in Fields /\ c.field # ""
    BY OwnerIs, RecordAssumption
  <2>2. f # Untraced /\ f # OfVerdict /\ \A e \in d.edges : f # OfEdge(e)
    BY <1>3, <2>1, FindingFields DEF OfField
  <2>3. PICK k \in d.claims : (AtFault(k) \/ CitesUnprintable(d, k)) /\ f = Of(k)
    BY <2>2, FindingGives
  <2> QED BY <1>3, <2>3 DEF Of
<1>4. CASE f = OfVerdict /\ c.field = "verdict"
  <2>1. f.subject = Nobody /\ f.field = "verdict"
    BY <1>4 DEF OfVerdict
  <2>2. PICK k \in ClaimsOf(d, "verdict") : k.value \notin Verdicts
    <3>1. f # Untraced /\ ~OfField(f) /\ \A e \in d.edges : f # OfEdge(e)
      BY <2>1, FindingFields DEF OfField
    <3> QED BY <3>1, FindingGives
  <2>3. ClaimsOf(d, "verdict") = {c}
    BY <1>4, OneClaim DEF ClaimsOf
  <2> QED BY <2>2, <2>3 DEF ClaimsOf, AtFault
<1> QED BY <1>2, <1>3, <1>4

\* Of a finding that was routed no claim is left.
LEMMA RoutedIsRemoved ==
  ASSUME NEW d \in Documents, WellFormed(d), NEW f \in Findings(d),
         RepairWork({f}) # {}, NEW c \in Repaired(d, Findings(d)).claims,
         c.field = f.field, f.subject \in {Nobody, c.subject}
  PROVE FALSE
<1>1. /\ c \in d.claims
      /\ [subject |-> c.subject, field |-> c.field] \notin RepairItems(Findings(d))
      /\ [subject |-> Nobody, field |-> c.field] \notin RepairItems(Findings(d))
  BY DEF Repaired, Documents
<1>2. c.field \in Fields /\ c.field # ""
  BY <1>1, OwnerIs, RecordAssumption
<1>3. f # Untraced /\ \A e \in d.edges : f # OfEdge(e)
  BY <1>2, FindingFields
<1>4. CASE f = OfVerdict
  <2> DEFINE i == [subject |-> Nobody, field |-> "verdict"]
  <2>1. f.section = "readiness" /\ f.subject = Nobody /\ f.field = "verdict"
    BY <1>4 DEF OfVerdict
  <2>2. i \in Items /\ i.subject = Nobody /\ i.field = "verdict"
    BY RepairAssumption DEF Items
  <2>3. i \in RepairItems(Findings(d))
    <3> HIDE DEF i
    <3> QED BY <2>1, <2>2, RepairAssumption DEF RepairItems
  <2> QED BY <1>1, <2>1, <2>3
<1>5. CASE OfField(f)
  <2>1. FoundEdges({f}) = {}
    BY <1>5, RepairAssumption DEF OfField, FoundEdges
  <2>2. PICK i \in RepairItems({f}) : TRUE
    BY <2>1 DEF RepairWork
  <2>3. i \in Items /\ f.section = GroupOf[i.field]
        /\ f.subject \in {Nobody, i.subject}
        /\ (f.field \in GroupFields(f.section) => f.field = i.field)
    BY DEF RepairItems
  <2>4. i.field = c.field /\ i.subject = c.subject
    BY <1>5, <2>3 DEF OfField, GroupFields
  <2>5. i = [subject |-> c.subject, field |-> c.field]
    BY <2>3, <2>4, ItemsAre
  <2>6. i \in RepairItems(Findings(d))
    BY <2>3 DEF RepairItems
  <2> QED BY <1>1, <2>5, <2>6
<1> QED BY <1>3, <1>4, <1>5, FindingGives

-----------------------------------------------------------------------------
(* What an accepted document shows *)

\* What finalize demands before it completes a session.
Accepted(d) == Renderable(d) /\ Findings(d) = {}

\* The verdict of an accepted document is legal.
LEMMA AcceptedVerdict ==
  ASSUME NEW d, IsFiniteSet(d.claims), Accepted(d)
  PROVE \E c \in d.claims : c.value \in Verdicts /\ ClaimsOf(d, "verdict") = {c}
<1>1. PICK c \in d.claims : ClaimsOf(d, "verdict") = {c}
  BY OneClaim DEF Accepted
<1>2. \A k \in ClaimsOf(d, "verdict") : k.value \in Verdicts
  BY DEF Accepted, Findings, VerdictFindings
<1> QED BY <1>1, <1>2

\* Each card of an accepted document has every field, with a status that can be
\* printed and evidence.
LEMMA AcceptedCards ==
  ASSUME NEW d, Accepted(d), NEW s \in OfKind(d, "deployable"),
         NEW f \in Fields, GroupOf[f] \in CardGroups
  PROVE \E c \in d.claims :
          /\ c.subject = s.id /\ c.field = f
          /\ c.status # "not_applicable" /\ ValidEvidence(c.evidence \cup c.reason)
<1>1. HasGroup(d, s.id, GroupOf[f])
  BY DEF Accepted, Renderable
<1>2. PICK c \in ClaimsOn(d, s.id, {GroupOf[f]}) : c.field = f
  BY <1>1 DEF HasGroup, GroupFields
<1>3. c \in CardClaims(d)
  BY <1>2 DEF CardClaims, ClaimsOn
<1>4. ~BadLine(c)
  <2>1. LineFindings(d) = {}
    BY DEF Accepted, Findings
  <2>2. PICK g : g \in LineFinding(d, c)
    BY LineFindingGives
  <2>3. BadLine(c) => g \in LineFindings(d)
    BY <1>3, <2>2 DEF LineFindings
  <2> QED BY <2>1, <2>3
<1> QED BY <1>2, <1>4 DEF ClaimsOn, BadLine, Unprintable

\* When the analysis root is known, no reference on the lines of an accepted
\* document that say where their evidence is is faulty.
LEMMA AcceptedReferences ==
  ASSUME HasRoot, NEW d, Accepted(d), NEW r \in CitedRefs(d)
  PROVE ~Faulty(r)
<1>1. ReferenceFindings(d) = {}
  BY DEF Accepted, Findings
<1>2. PICK g : g \in TracedByReference(d, {r})
  BY TracedByReferenceGives
<1>3. Faulty(r) => g \in ReferenceFindings(d)
  BY <1>2 DEF ReferenceFindings, LookedUp
<1> QED BY <1>1, <1>3

\* These are the references of the cards, of the verdict and, unless the report is
\* detailed, of the relationships.
LEMMA AcceptedIsBacked ==
  ASSUME HasRoot, NEW d, IsFiniteSet(d.claims), Accepted(d)
  PROVE /\ \A s \in OfKind(d, "deployable") :
             \A c \in ClaimsOn(d, s.id, ComponentGroups) :
               \A r \in c.evidence \cup c.reason : ~Faulty(r)
        /\ \A c \in ClaimsOf(d, "supporting_evidence") : \A r \in c.evidence : ~Faulty(r)
        /\ ~Detailed => \A e \in d.edges : \A r \in e.evidence : ~Faulty(r)
<1>1. ASSUME NEW s \in OfKind(d, "deployable"),
             NEW c \in ClaimsOn(d, s.id, ComponentGroups),
             NEW r \in c.evidence \cup c.reason
      PROVE ~Faulty(r)
  <2>1. c \in EvidenceClaims(d) /\ r \in CitedBy(c)
    BY DEF EvidenceClaims, DeployedClaims, ClaimsOn, CitedBy
  <2> QED BY <2>1, AcceptedReferences DEF CitedRefs
<1>2. ASSUME NEW c \in ClaimsOf(d, "supporting_evidence"), NEW r \in c.evidence
      PROVE ~Faulty(r)
  <2>1. c \in EvidenceClaims(d) /\ r \in CitedBy(c)
    BY DEF EvidenceClaims, CitedBy
  <2> QED BY <2>1, AcceptedReferences DEF CitedRefs
<1>3. ASSUME ~Detailed, NEW e \in d.edges, NEW r \in e.evidence
      PROVE ~Faulty(r)
  <2>1. r \in UNION {k.evidence : k \in d.edges}
    OBVIOUS
  <2>2. r \in CitedRefs(d)
    BY <1>3, <2>1 DEF CitedRefs
  <2> QED BY <2>2, AcceptedReferences
<1> QED BY <1>1, <1>2, <1>3

-----------------------------------------------------------------------------
(* The invariant *)

\* A document is finite, and that of a COMPLETE session is the accepted one.
IInv ==
  /\ TypeOK
  /\ IsFiniteSet(doc.claims)
  /\ state = "COMPLETE" => Accepted(doc)

\* A document is READY when nothing is missing and collected otherwise.
LEMMA StateFromGives ==
  ASSUME NEW d
  PROVE /\ StateFrom(d) \in {"READY", "COLLECTING"}
        /\ StateFrom(d) = "COLLECTING" <=> Missing(d) # {}
BY DEF StateFrom

\* The invariant holds at the start.
LEMMA InitInv == Init => IInv
<1> SUFFICES ASSUME Init PROVE IInv
  OBVIOUS
<1>1. doc = [subjects |-> {}, claims |-> {}, edges |-> {}]
  BY DEF Init
<1>2. doc \in Documents /\ WellFormed(doc)
  BY <1>1 DEF Documents, WellFormed, UniqueIds
<1>3. IsFiniteSet(doc.claims)
  BY <1>1, FS_EmptySet
<1> QED BY <1>2, <1>3, RepairAssumption DEF Init, IInv, TypeOK, States

\* A chunk that can be inserted leaves a well-formed document.
LEMMA MergedGives ==
  ASSUME IInv, NEW p \in Chunks, WellFormed(p), Insertable(p)
  PROVE Merged(p) \in Documents /\ WellFormed(Merged(p)) /\ IsFiniteSet(Merged(p).claims)
<1> DEFINE m == Merged(p)
<1>1. /\ m.subjects = doc.subjects \cup p.subjects
      /\ m.claims = doc.claims \cup p.claims /\ m.edges = doc.edges \cup p.edges
  BY DEF Merged
<1>2. /\ p.subjects \subseteq SubjectOffers /\ p.claims \subseteq ClaimOffers
      /\ p.edges \subseteq EdgeOffers
  BY DEF Chunks
<1>3. m \in Documents
  BY <1>2 DEF IInv, TypeOK, Merged, Documents, Subjects, Claims, Edges
<1>4. UniqueIds(m.subjects) /\ UniqueIds(m.claims) /\ UniqueIds(m.edges)
  BY <1>1 DEF IInv, TypeOK, WellFormed, Insertable, UniqueIds
<1>5. /\ \A c \in m.claims : \E s \in m.subjects : s.id = c.subject
      /\ \A e \in m.edges : \A id \in e.ends : \E s \in m.subjects : s.id = id
  BY <1>1 DEF IInv, TypeOK, WellFormed
<1>6. IsFiniteSet(m.claims)
  <2>1. IsFiniteSet(p.claims)
    BY <1>2, RecordAssumption, FS_Subset
  <2>2. IsFiniteSet(doc.claims \cup p.claims)
    BY <2>1, FS_Union DEF IInv
  <2> QED BY <1>1, <2>2
<1> QED BY <1>3, <1>4, <1>5, <1>6 DEF WellFormed

\* So does a repair: it keeps the subjects.
LEMMA RepairedGives ==
  ASSUME NEW d \in Documents, WellFormed(d), IsFiniteSet(d.claims), NEW F
  PROVE /\ Repaired(d, F) \in Documents /\ WellFormed(Repaired(d, F))
        /\ IsFiniteSet(Repaired(d, F).claims)
<1> DEFINE m == Repaired(d, F)
<1>1. /\ m.subjects = d.subjects /\ m.claims \subseteq d.claims
      /\ m.edges \subseteq d.edges /\ m \in Documents
  BY DEF Repaired, Documents
<1>2. IsFiniteSet(m.claims)
  BY <1>1, FS_Subset
<1> HIDE DEF m
<1>3. WellFormed(m)
  BY <1>1 DEF WellFormed, UniqueIds
<1> QED BY <1>1, <1>2, <1>3 DEF m

\* Every step keeps the invariant.
LEMMA StepInv == IInv /\ [Next]_vars => IInv'
<1> SUFFICES ASSUME IInv, [Next]_vars PROVE IInv'
  OBVIOUS
<1> USE DEF States
<1>1. ASSUME NEW d \in InitialDocs, Start(d) PROVE IInv'
  <2>1. d \in Documents /\ IsFiniteSet(d.claims)
    BY RecordAssumption
  <2> QED BY <1>1, <2>1, StateFromGives DEF IInv, TypeOK, Start, LeaseFor
<1>2. ASSUME NEW p \in Chunks, Submit(p) PROVE IInv'
  <2>1. doc' \in Documents /\ WellFormed(doc') /\ IsFiniteSet(doc'.claims)
    BY <1>2, MergedGives DEF Submit
  <2> QED BY <1>2, <2>1, StateFromGives DEF IInv, TypeOK, Submit, LeaseFor
<1>3. CASE FinalizeRaises
  BY <1>3 DEF IInv, TypeOK, FinalizeRaises
<1>4. CASE FinalizeAccepts
  BY <1>4 DEF IInv, TypeOK, FinalizeAccepts, Accepted
<1>5. CASE FinalizeFails
  BY <1>5 DEF IInv, TypeOK, FinalizeFails, Rejected
<1>6. CASE FinalizeRepairs
  <2>1. doc' \in Documents /\ WellFormed(doc') /\ IsFiniteSet(doc'.claims)
    BY <1>6, RepairedGives DEF FinalizeRepairs, IInv, TypeOK
  <2> QED BY <1>6, <2>1, RepairAssumption
          DEF IInv, TypeOK, FinalizeRepairs, LeaseFor
<1>7. CASE UNCHANGED vars
  BY <1>7 DEF IInv, TypeOK, vars
<1> QED BY <1>1, <1>2, <1>3, <1>4, <1>5, <1>6, <1>7 DEF Next, Finalize

\* In every reachable state a COMPLETE session holds the document that was accepted,
\* because no command touches it after finalize.
THEOREM Invariance == Spec => []IInv
BY InitInv, StepInv, PTL DEF Spec

\* The rows keep their types and the keys of their tables, and a lease is open
\* exactly while records are collected.
THEOREM TypeCorrect == Spec => []TypeOK
<1>1. IInv => TypeOK
  BY DEF IInv
<1> QED BY <1>1, Invariance, PTL

\* An accepted report has one legal verdict, and every card in it what it claims.
THEOREM CompleteIsBackedHolds == Spec => []CompleteIsBacked
<1>1. IInv => CompleteIsBacked
  BY AcceptedVerdict, AcceptedCards, AcceptedIsBacked DEF IInv, CompleteIsBacked
<1> QED BY <1>1, Invariance, PTL

\* An accepted report that is not detailed has no relationship whose evidence the
\* repository, when its root is known, contradicts.  A row of the detailed matrix is not looked up, so
\* there it does not hold.
THEOREM EdgesAreBackedHolds ==
  ASSUME ~Detailed
  PROVE Spec => []EdgesAreBacked
<1>1. IInv => EdgesAreBacked
  BY AcceptedIsBacked DEF IInv, EdgesAreBacked
<1> QED BY <1>1, Invariance, PTL

-----------------------------------------------------------------------------
(* What a repair does *)

\* The round is counted by a repair and by nothing else.
LEMMA OnlyRepairsCount ==
  ASSUME IInv, [Next]_vars, rounds' > rounds
  PROVE FinalizeRepairs
BY DEF IInv, TypeOK, Next, Start, Submit, Finalize, FinalizeRaises, FinalizeAccepts,
       FinalizeFails, vars

\* With plain names a repair removes only claims that share their subject and field
\* with one at fault, or with one that cites a file:line which a card line without a
\* printable status quotes: the finding on the form of that line is traced by the
\* quoted text alone.  Without plain names a finding on the evidence of one card can
\* be given to another subject, whose sound claim then goes.
THEOREM RepairIsLocalHolds ==
  ASSUME PlainNames
  PROVE Spec => RepairIsLocal
<1>1. ASSUME IInv, [Next]_vars, rounds' > rounds, NEW c \in doc.claims \ doc'.claims
      PROVE \E k \in doc.claims :
              /\ k.field = c.field /\ k.subject = c.subject
              /\ AtFault(k) \/ CitesUnprintable(doc, k)
  BY <1>1, OnlyRepairsCount, RemovedIsAtFault DEF FinalizeRepairs, Rejected, IInv, TypeOK
<1>2. IInv /\ [Next]_vars =>
        [rounds' > rounds =>
           \A c \in doc.claims \ doc'.claims :
             \E k \in doc.claims :
               /\ k.field = c.field /\ k.subject = c.subject
               /\ AtFault(k) \/ CitesUnprintable(doc, k)]_vars
  BY <1>1
<1> QED BY <1>2, Invariance, PTL DEF Spec, RepairIsLocal

\* A repair leaves no claim behind that a routed finding names, whatever the names.
THEOREM RepairRemovesFaultsHolds == Spec => RepairRemovesFaults
<1>1. ASSUME IInv, [Next]_vars, rounds' > rounds, NEW f \in Findings(doc),
             RepairWork({f}) # {}, NEW c \in doc'.claims
      PROVE ~(c.field = f.field /\ f.subject \in {Nobody, c.subject})
  BY <1>1, OnlyRepairsCount, RoutedIsRemoved DEF FinalizeRepairs, IInv, TypeOK
<1>2. IInv /\ [Next]_vars =>
        [rounds' > rounds =>
           \A f \in Findings(doc) :
             RepairWork({f}) # {} =>
               \A c \in doc'.claims :
                 ~(c.field = f.field /\ f.subject \in {Nobody, c.subject})]_vars
  BY <1>1
<1> QED BY <1>2, Invariance, PTL DEF Spec, RepairRemovesFaults

=============================================================================
