--------------------------- MODULE MCReportRepair ---------------------------
(***************************************************************************)
(* Values for ReportRepair: one component with a runtime field and one of  *)
(* its deployment evidence, the scope, the verdict with its evidence, and  *)
(* one relationship.                                                       *)
(***************************************************************************)
EXTENDS ReportRepair, TLC

MCGroupOf ==
  "revision" :> "scope" @@ "form" :> "component_runtime" @@
  "declared" :> "deployment_evidence" @@
  "verdict" :> "readiness" @@ "supporting_evidence" :> "readiness"

MCRefKind ==
  "a.py:1" :> "cited" @@ "gone.py:1" :> "missing" @@ "a.py:99" :> "outside" @@
  "my file.py:1" :> "misread" @@ "search" :> "absence" @@ "look" :> "vague"

MCEscape == "api" :> "api" @@ "db" :> "db" @@ "repo" :> "repo"

Subj(id, kind, name) == [id |-> id, kind |-> kind, name |-> name]
Repo == Subj("repo", "scope", <<"repo">>)
Api == Subj("api", "deployable", <<"api">>)
Db == Subj("db", "dependency", <<"db">>)

Claim(id, subject, field, value, status, evidence) ==
  [id |-> id, subject |-> subject, field |-> field, value |-> value,
   status |-> status, evidence |-> evidence, reason |-> {}]
Good(id, subject, field) == Claim(id, subject, field, "text", "confirmed", {"a.py:1"})
Cites(id, subject, field, ref) == Claim(id, subject, field, "text", "confirmed", {ref})
Verdict(id, value) == Claim(id, "api", "verdict", value, "confirmed", {"a.py:1"})
Edge(refs) == [id |-> "e", ends |-> {"api", "db"}, evidence |-> refs]

Doc(claims, edges) == [subjects |-> {Repo, Api, Db}, claims |-> claims, edges |-> edges]
ScopeClaim == Good("s", "repo", "revision")

\* Nothing but the scope, which a chunk cannot bring.
Fresh == Doc({ScopeClaim}, {})
\* All but the verdict.
Nearly == Doc({ScopeClaim, Good("f", "api", "form"), Good("d", "api", "declared"),
               Good("v2", "api", "supporting_evidence")}, {Edge({"a.py:1"})})

\* Claims of a client that may write anything, twice as well.
AnyClaims ==
  {Good("f1", "api", "form"), Cites("f1", "api", "form", "gone.py:1"),
   Cites("f3", "api", "form", "look"), Good("d1", "api", "declared"),
   Cites("d2", "api", "declared", "gone.py:1"),
   Verdict("v1", "ready"), Verdict("v2", "perhaps"),
   Good("e1", "api", "supporting_evidence"),
   Cites("e2", "api", "supporting_evidence", "a.py:99"),
   Cites("f6", "api", "form", "my file.py:1"),
   Claim("n1", "api", "form", "text", "not_applicable", {"a.py:1"}),
   Claim("d1", "api", "declared", "next task", "confirmed", {"search"})}
AnyEdges == {Edge({"a.py:1"}), Edge({"gone.py:1"}), Edge({"look"})}

\* A document at fault in every way that can be traced, and its repair.
FaultyDoc ==
  Doc({ScopeClaim, Cites("f", "api", "form", "look"),
       Cites("d", "api", "declared", "gone.py:1"), Verdict("v", "perhaps"),
       Good("e", "api", "supporting_evidence")}, {Edge({"gone.py:1"})})
Faulty1 == Doc(FaultyDoc.claims \ {Cites("f", "api", "form", "look")}, {})

\* Sound but for one claim whose status no card line can print.
UnprintableDoc ==
  Doc({ScopeClaim, Claim("n", "api", "form", "text", "not_applicable", {"a.py:1"}),
       Good("d", "api", "declared"), Verdict("v", "ready"),
       Cites("e", "api", "supporting_evidence", "search")}, {Edge({"a.py:1"})})

\* Everything but a relationship.
NoEdgeDoc == [Nearly EXCEPT !.edges = {}]

\* A name is cut by no heading here, and shared by none.
ASSUME NamesArePlain == PlainNames

MCAnyInits == {Fresh, Nearly, FaultyDoc, Faulty1, UnprintableDoc}
MCSubjects == {Api, Db}
MCSoundEdges == {Edge({"a.py:1"})}
MCNoEdgeInits == {NoEdgeDoc}
MCVerdictOffers == {Verdict("v1", "ready")}
=============================================================================
