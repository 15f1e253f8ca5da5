--------------------------- MODULE PrepareTarget ---------------------------
(***************************************************************************)
(* Preparing an analysis workspace (scripts/prepare_analysis_target.py,    *)
(* plain_remote_git_clone.py, source_intake.py, source_archive.py): resolve*)
(* a source, scan it, and leave evidence, digest, report template and, last*)
(* of all, the checkpoint target.json that `--resume' accepts later.       *)
(*                                                                         *)
(* Several calls may name one workspace.  A clone or an extraction is a    *)
(* private copy; a local checkout is read where it is.  The source may move*)
(* at any time, and any step may be the last of its process.               *)
(***************************************************************************)
EXTENDS Integers

CONSTANTS
  Procs,
  Requests,         \* what calls ask for: method, revision (or 0), subdirectory
  Layout,           \* per revision of a source, what an archive of it holds
  Subdirectories,   \* per revision, the directories below the analysis root
  None,
  MaxMoves,         \* bound: new revisions of a source
  MaxRemovals       \* bound: artifacts, or whole workspaces, that a user removes

Methods == {"remote_git", "local_checkout", "source_archive"}
Revisions == 1..(MaxMoves + 1)
Layouts == {"files", "one_directory", "directories", "empty", "unsafe"}
Artifacts == {"evidence", "digest", "report"}

ASSUME PrepareAssumption ==
  /\ MaxMoves \in Nat /\ MaxRemovals \in Nat
  /\ \A r \in Requests : r.method \in Methods /\ r.revision \in Nat
  /\ Layout \in [Revisions -> Layouts]
  /\ DOMAIN Subdirectories = Revisions

VARIABLES
  source,     \* the current revision of each method's source
  moves,
  workspace,  \* the directory: None, or the files in it
  call,       \* where each call is, and what it holds
  removed,    \* history: artifacts removed since target.json was written
  removals

vars == <<source, moves, workspace, call, removed, removals>>

\* A clone or an extraction that was not finished.
Partial == 0

Evidence == [content : Revisions, subdirectory : {r.subdirectory : r \in Requests}]
Targets == [request : Requests, revision : Revisions, moved : BOOLEAN]
Workspaces ==
  [repository : Revisions \cup {None, Partial},
   evidence : Evidence \cup {None}, digest : Evidence \cup {None},
   report : {None, "opened", "template"}, target : Targets \cup {None}]

ASSUME SentinelAssumption ==
  /\ None \notin Workspaces \cup Targets \cup Evidence
  /\ None \notin {"opened", "template", "failed", "prepared", "reused"}

Empty == [repository |-> None, evidence |-> None, digest |-> None,
          report |-> None, target |-> None]
Idle == [pc |-> "idle", request |-> None, revision |-> 0,
         evidence |-> None, moved |-> FALSE, answer |-> None]

At(p, pc) == call[p].pc = pc
Request(p) == call[p].request
Method(p) == call[p].request.method
Active(p) == ~At(p, "idle") /\ ~At(p, "returned")
Go(p, pc) == call' = [call EXCEPT ![p].pc = pc]
Answer(p, answer) ==
  call' = [call EXCEPT ![p] = [call[p] EXCEPT !.pc = "returned", !.answer = answer]]
Fail(p) == Answer(p, "failed")
Put(file, value) == workspace' = [workspace EXCEPT ![file] = value]
Elsewhere == UNCHANGED <<source, moves, removed, removals>>

-----------------------------------------------------------------------------
(* Calls *)

Begin(p) ==
  /\ ~Active(p)
  /\ \E r \in Requests, pc \in {"create", "resume"} :
       call' = [call EXCEPT ![p] = [Idle EXCEPT !.pc = pc, !.request = r]]
  /\ UNCHANGED workspace /\ Elsewhere

\* Mutant: the subdirectory is not part of what makes a request the same.
SameSource(r, q) == [r EXCEPT !.subdirectory = q.subdirectory] = q
SameRequest(r, q) == r = q

\* load_checkpoint: target.json, then the files it names.
ReadCheckpoint(p) ==
  /\ At(p, "resume")
  /\ IF /\ workspace # None
        /\ workspace.target # None
        /\ SameRequest(workspace.target.request, Request(p))
     THEN Go(p, "look") ELSE Fail(p)
  /\ UNCHANGED workspace /\ Elsewhere

LookForArtifacts(p) ==
  /\ At(p, "look")
  /\ IF workspace # None /\ \A a \in Artifacts : workspace[a] # None
     THEN Answer(p, "reused") ELSE Fail(p)
  /\ UNCHANGED workspace /\ Elsewhere

\* create_workspace: the path must not exist; mkdir has the last word.
CreateWorkspace(p) ==
  /\ At(p, "create")
  /\ IF workspace = None THEN Go(p, "mkdir") ELSE Fail(p)
  /\ UNCHANGED workspace /\ Elsewhere

\* Mutant: mkdir(exist_ok=True).
MkdirAgain(p) ==
  /\ At(p, "mkdir")
  /\ Go(p, "resolve")
  /\ workspace' = IF workspace = None THEN Empty ELSE workspace
  /\ Elsewhere

Mkdir(p) ==
  /\ At(p, "mkdir")
  /\ IF workspace = None THEN Go(p, "resolve") /\ workspace' = Empty
     ELSE Fail(p) /\ UNCHANGED workspace
  /\ Elsewhere

\* The revision that target.json will name.
Resolved(p, pc, revision) ==
  call' = [call EXCEPT ![p] = [call[p] EXCEPT !.pc = pc, !.revision = revision]]

\* clone_plain starts git clone: a copy of one's own, Partial until git is done.
StartClone(p) ==
  /\ At(p, "resolve") /\ Method(p) = "remote_git"
  /\ IF workspace.repository = None THEN Put("repository", Partial) /\ Go(p, "clone")
     ELSE Fail(p) /\ UNCHANGED workspace
  /\ Elsewhere

Clone(p) ==
  /\ At(p, "clone")
  /\ Put("repository", source["remote_git"])
  /\ Go(p, "checkout") /\ Elsewhere

\* The checkout of the revision asked for, if the clone has it; then its HEAD.
Checkout(p) ==
  LET head == workspace.repository
      asked == IF Request(p).revision = 0 THEN head ELSE Request(p).revision
  IN
  /\ At(p, "checkout")
  /\ IF asked <= head THEN Put("repository", asked) /\ Resolved(p, "subdirectory", asked)
     ELSE Fail(p) /\ UNCHANGED workspace
  /\ Elsewhere

\* resolve_local_checkout reads the HEAD of the checkout; the scan, its files.
ResolveCheckout(p) ==
  /\ At(p, "resolve") /\ Method(p) = "local_checkout"
  /\ Resolved(p, "subdirectory", source["local_checkout"])
  /\ UNCHANGED workspace /\ Elsewhere

\* extract_source_archive.  A refused member, or an error halfway, leaves the
\* directory with less than the archive: Partial.
Extract(p) ==
  /\ At(p, "resolve") /\ Method(p) = "source_archive"
  /\ \/ workspace.repository # None /\ Fail(p) /\ UNCHANGED workspace
     \/ workspace.repository = None /\ Fail(p) /\ Put("repository", Partial)
     \/ /\ workspace.repository = None
        /\ Layout[source["source_archive"]] # "unsafe"
        /\ Put("repository", source["source_archive"])
        /\ Go(p, "hash")
  /\ Elsewhere

\* resolve_extracted_root, then the hash of the archive as it is by now; an
\* archive of several directories needs a subdirectory to be chosen.
HashArchive(p) ==
  LET layout == Layout[workspace.repository] IN
  /\ At(p, "hash")
  /\ IF layout = "empty" \/ (layout = "directories" /\ Request(p).subdirectory = ".")
     THEN Fail(p)
     ELSE Resolved(p, "subdirectory", source["source_archive"])
  /\ UNCHANGED workspace /\ Elsewhere

\* What the analysis root holds now: the private copy, or the checkout.
AtRoot(p) ==
  IF Method(p) = "local_checkout" THEN source["local_checkout"] ELSE workspace.repository

\* resolve_analysis_subdirectory.
ResolveSubdirectory(p) ==
  /\ At(p, "subdirectory")
  /\ IF Request(p).subdirectory \in Subdirectories[AtRoot(p)] \cup {"."}
     THEN Go(p, "scan") ELSE Fail(p)
  /\ UNCHANGED workspace /\ Elsewhere

Scan(p) ==
  /\ At(p, "scan")
  /\ call' = [call EXCEPT ![p] = [call[p] EXCEPT !.pc = "evidence",
       !.evidence = [content |-> AtRoot(p), subdirectory |-> Request(p).subdirectory]]]
  /\ UNCHANGED workspace /\ Elsewhere

WriteEvidence(p) ==
  /\ At(p, "evidence")
  /\ Put("evidence", call[p].evidence)
  /\ Go(p, "digest") /\ Elsewhere

\* Mutant: target.json before the report.
AfterDigestTarget == "target"
AfterDigest == "copy"

WriteDigest(p) ==
  /\ At(p, "digest")
  /\ Put("digest", call[p].evidence)
  /\ Go(p, AfterDigest) /\ Elsewhere

\* shutil.copyfile opens the report and then fills it.
OpenReport(p) ==
  /\ At(p, "copy")
  /\ Put("report", "opened")
  /\ Go(p, "fill") /\ Elsewhere

FillReport(p) ==
  /\ At(p, "fill")
  /\ Put("report", "template")
  /\ Go(p, "target") /\ Elsewhere

WriteTarget(p) ==
  /\ At(p, "target")
  /\ Put("target", [request |-> Request(p), revision |-> call[p].revision,
                    moved |-> call[p].moved])
  /\ Answer(p, "prepared")
  /\ removed' = {}
  /\ UNCHANGED <<source, moves, removals>>

\* An error of git, of the file system or of the archive: a message and exit 1,
\* with whatever is in the workspace by then.  A crash leaves the same.
Stop(p) ==
  /\ Active(p)
  /\ Fail(p)
  /\ UNCHANGED workspace /\ Elsewhere

-----------------------------------------------------------------------------
(* The environment *)

\* A push, a commit or checkout, another archive under the same path.
Move(m) ==
  /\ moves < MaxMoves
  /\ moves' = moves + 1
  /\ source' = [source EXCEPT ![m] = @ + 1]
  /\ call' = [p \in Procs |->
       IF Active(p) /\ Method(p) = m THEN [call[p] EXCEPT !.moved = TRUE] ELSE call[p]]
  /\ UNCHANGED <<workspace, removed, removals>>

RemoveArtifact(a) ==
  /\ removals < MaxRemovals
  /\ workspace # None /\ workspace.target # None /\ workspace[a] # None
  /\ Put(a, None)
  /\ removed' = removed \cup {a}
  /\ removals' = removals + 1
  /\ UNCHANGED <<source, moves, call>>

\* The workspace is disposable; nobody removes it under a call that uses it.
RemoveWorkspace ==
  /\ removals < MaxRemovals
  /\ workspace # None
  /\ \A p \in Procs : At(p, "create") \/ At(p, "mkdir") \/ ~Active(p)
  /\ workspace' = None
  /\ call' = [p \in Procs |-> IF At(p, "returned") THEN Idle ELSE call[p]]
  /\ removed' = {}
  /\ removals' = removals + 1
  /\ UNCHANGED <<source, moves>>

-----------------------------------------------------------------------------
Init ==
  /\ source = [m \in Methods |-> 1] /\ moves = 0
  /\ workspace = None
  /\ call = [p \in Procs |-> Idle]
  /\ removed = {} /\ removals = 0

Prepare(p) ==
  \/ ReadCheckpoint(p) \/ LookForArtifacts(p)
  \/ CreateWorkspace(p) \/ Mkdir(p)
  \/ StartClone(p) \/ Clone(p) \/ Checkout(p)
  \/ ResolveCheckout(p) \/ Extract(p) \/ HashArchive(p)
  \/ ResolveSubdirectory(p) \/ Scan(p)
  \/ WriteEvidence(p) \/ WriteDigest(p) \/ OpenReport(p) \/ FillReport(p)
  \/ WriteTarget(p)

Next ==
  \/ \E p \in Procs : Begin(p) \/ Prepare(p) \/ Stop(p)
  \/ \E m \in Methods : Move(m)
  \/ \E a \in Artifacts : RemoveArtifact(a)
  \/ RemoveWorkspace

Spec == Init /\ [][Next]_vars

-----------------------------------------------------------------------------
(* Properties *)

Preparing == {"resolve", "clone", "checkout", "hash", "subdirectory", "scan", "evidence", "digest",
              "copy", "fill", "target"}

TypeOK ==
  /\ source \in [Methods -> Revisions] /\ moves \in 0..MaxMoves
  /\ workspace \in Workspaces \cup {None}
  /\ call \in [Procs ->
       [pc : {"idle", "resume", "look", "create", "mkdir", "returned"} \cup Preparing,
        request : Requests \cup {None}, revision : Revisions \cup {0},
        evidence : Evidence \cup {None}, moved : BOOLEAN,
        answer : {None, "failed", "prepared", "reused"}]]
  /\ removed \subseteq Artifacts /\ removals \in 0..MaxRemovals
  \* Behind mkdir there is one call at most, and its directory.
  /\ \A p \in Procs : call[p].pc \in Preparing =>
       /\ workspace # None /\ workspace.target = None
       /\ \A q \in Procs \ {p} : call[q].pc \notin Preparing

\* A workspace with a target.json is whole: evidence, digest and report come from
\* one preparation, and the revision it names is the one the evidence was
\* collected from, unless the source moved during the preparation.  (A clone
\* names its own commit: for it a move makes no difference.)
CheckpointIsWhole ==
  workspace # None /\ workspace.target # None =>
    LET target == workspace.target IN
    /\ \A a \in Artifacts : workspace[a] = None => a \in removed
    /\ workspace.report # "opened"
    /\ workspace.evidence # None /\ workspace.digest # None =>
         workspace.digest = workspace.evidence
    /\ workspace.evidence # None /\ (~target.moved \/ target.request.method = "remote_git") =>
         workspace.evidence.content = target.revision

\* Whoever is told that a workspace is prepared, or can be reused, finds the
\* evidence of what it asked for: its method and subdirectory and, of a remote
\* repository, its revision, whoever else asked for what in the meantime.
AnswersItsRequest ==
  \A p \in Procs :
    call[p].answer \in {"prepared", "reused"} =>
      /\ workspace # None /\ workspace.target # None
      /\ workspace.target.request = Request(p)
      /\ workspace.evidence # None =>
           /\ workspace.evidence.subdirectory = Request(p).subdirectory
           /\ Method(p) = "remote_git" /\ Request(p).revision # 0 =>
                workspace.evidence.content = Request(p).revision
=============================================================================
