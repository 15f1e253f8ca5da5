------------------------- MODULE PrepareTargetProofs -------------------------
(***************************************************************************)
(* Theorems about PrepareTarget for any number of calls, any requests, any *)
(* sources and bounds: a workspace with a checkpoint is whole, and a call  *)
(* that is answered finds what it asked for.                               *)
(*                                                                         *)
(* The invariant says, for each place a call can be at, what it has left   *)
(* in the workspace by then; that nobody else is behind mkdir is what makes*)
(* it inductive.                                                           *)
(***************************************************************************)
EXTENDS PrepareTarget, TLAPS

USE PrepareAssumption, SentinelAssumption

Behind(p) == call[p].pc \in Preparing

Answered(p) == At(p, "look") \/ call[p].answer \in {"prepared", "reused"}

Calls ==
  [pc : {"idle", "resume", "look", "create", "mkdir", "returned"} \cup Preparing,
   request : Requests \cup {None}, revision : Revisions \cup {0},
   evidence : Evidence \cup {None}, moved : BOOLEAN,
   answer : {None, "failed", "prepared", "reused"}]

Types ==
  /\ source \in [Methods -> Revisions] /\ moves \in 0..MaxMoves
  /\ \A m \in Methods : source[m] <= moves + 1
  /\ workspace \in Workspaces \cup {None}
  /\ call \in [Procs -> Calls]
  /\ removed \subseteq Artifacts /\ removals \in 0..MaxRemovals

\* The source as resolved: the private copy is of the revision the call will
\* name, or the checkout is still at it, unless it moved.
HasResolved(p) ==
  /\ call[p].revision \in Revisions
  /\ Method(p) # "local_checkout" => workspace.repository \in Revisions
  /\ AtRoot(p) = call[p].revision \/ (call[p].moved /\ Method(p) # "remote_git")
  /\ Method(p) = "remote_git" /\ Request(p).revision # 0 =>
       call[p].revision = Request(p).revision

\* The scan, as the call holds it.
HasScanned(p) ==
  /\ call[p].revision \in Revisions
  /\ call[p].evidence \in Evidence
  /\ call[p].evidence.subdirectory = Request(p).subdirectory
  /\ call[p].evidence.content = call[p].revision
       \/ (call[p].moved /\ Method(p) # "remote_git")
  /\ Method(p) = "remote_git" /\ Request(p).revision # 0 =>
       call[p].revision = Request(p).revision

FindsItsCheckpoint(p) ==
  /\ workspace \in Workspaces /\ workspace.target \in Targets
  /\ workspace.target.request = Request(p)

\* What is true of a call at each place it can be at.
Holds(p) ==
  /\ call[p].pc # "idle" => Request(p) \in Requests
  /\ call[p].pc # "returned" => call[p].answer = None
  /\ Behind(p) => workspace \in Workspaces /\ workspace.target = None
  /\ call[p].pc \in {"clone", "checkout"} => Method(p) = "remote_git"
  /\ At(p, "checkout") => workspace.repository \in Revisions
  /\ At(p, "hash") =>
       /\ Method(p) = "source_archive" /\ workspace.repository \in Revisions
       /\ workspace.repository = source["source_archive"] \/ call[p].moved
  /\ call[p].pc \in {"subdirectory", "scan"} => HasResolved(p)
  /\ call[p].pc \in {"evidence", "digest", "copy", "fill", "target"} => HasScanned(p)
  /\ call[p].pc \in {"digest", "copy", "fill", "target"} =>
       workspace.evidence = call[p].evidence
  /\ call[p].pc \in {"copy", "fill", "target"} => workspace.digest = call[p].evidence
  /\ At(p, "target") => workspace.report = "template"
  /\ Answered(p) => FindsItsCheckpoint(p)

Sole == \A p, q \in Procs : Behind(p) /\ Behind(q) => p = q

\* A checkpoint and the files beside it.
Whole ==
  workspace \in Workspaces /\ workspace.target # None =>
    LET target == workspace.target IN
    /\ \A a \in Artifacts : workspace[a] = None => a \in removed
    /\ workspace.report # "opened"
    /\ workspace.evidence # None /\ workspace.digest # None =>
         workspace.digest = workspace.evidence
    /\ workspace.evidence # None =>
         /\ workspace.evidence.subdirectory = target.request.subdirectory
         /\ ~target.moved \/ target.request.method = "remote_git" =>
              workspace.evidence.content = target.revision
         /\ target.request.method = "remote_git" /\ target.request.revision # 0 =>
              target.revision = target.request.revision

IInv == Types /\ Sole /\ (\A p \in Procs : Holds(p)) /\ Whole

-----------------------------------------------------------------------------
(* What a step of one call leaves to the others *)

\* Nobody but p works in the workspace or has been promised what is in it.
Alone(p) == \A q \in Procs \ {p} : ~Behind(q) /\ ~Answered(q)

\* What a workspace that exists may hold.
LEMMA WorkspaceFields ==
  ASSUME NEW w \in Workspaces
  PROVE  /\ w # None
         /\ w.target \in Targets \cup {None}
         /\ w.evidence \in Evidence \cup {None} /\ w.digest \in Evidence \cup {None}
         /\ w.report \in {None, "opened", "template"}
         /\ w.repository \in Revisions \cup {None, Partial}
BY DEF Workspaces

\* A call past mkdir is alone: nobody else is, and there is no checkpoint to promise.
\* Neither is there without a workspace.
LEMMA BehindIsAlone ==
  ASSUME IInv, NEW p \in Procs, Behind(p) \/ workspace = None
  PROVE  Alone(p)
<1>1. CASE Behind(p)
  <2>1. workspace.target = None
    BY <1>1 DEF IInv, Holds
  <2>2. ASSUME NEW q \in Procs \ {p} PROVE ~Behind(q) /\ ~Answered(q)
    BY <1>1, <2>1 DEF IInv, Holds, Sole, FindsItsCheckpoint, Targets
  <2> QED BY <2>2 DEF Alone
<1>2. CASE workspace = None
  BY <1>2 DEF IInv, Holds, FindsItsCheckpoint, Alone
<1> QED BY <1>1, <1>2

\* A step of p that changes the workspace only when p is alone keeps what holds of
\* the others, and that at most one is behind mkdir.
LEMMA OthersKept ==
  ASSUME IInv, NEW p \in Procs, UNCHANGED source,
         NEW rec \in Calls, call' = [call EXCEPT ![p] = rec],
         UNCHANGED workspace \/ Alone(p),
         rec.pc \in Preparing => Behind(p) \/ Alone(p)
  PROVE  /\ \A q \in Procs \ {p} : Holds(q)'
         /\ Sole'
         /\ call' \in [Procs -> Calls]
<1>1. call'[p] = rec /\ \A q \in Procs \ {p} : call'[q] = call[q]
  BY DEF IInv, Types
<1>2. ASSUME NEW q \in Procs \ {p} PROVE Holds(q)'
  <2>1. call'[q] = call[q] /\ Holds(q)
    BY <1>1 DEF IInv
  <2>2. CASE UNCHANGED workspace
    BY <2>1, <2>2 DEF Holds, Behind, Answered, At, Request, Method, AtRoot, HasResolved,
                      HasScanned, FindsItsCheckpoint
  <2>3. CASE Alone(p)
    BY <2>1, <2>3 DEF Alone, Holds, Behind, Answered, At, Request, Preparing
  <2> QED BY <2>2, <2>3
<1>3. Sole'
  BY <1>1 DEF IInv, Sole, Behind, Alone
<1>4. call' \in [Procs -> Calls]
  BY DEF IInv, Types
<1> QED BY <1>2, <1>3, <1>4

\* Whole speaks of the workspace only, and of one with a checkpoint.
LEMMA WholeKept ==
  ASSUME IInv, UNCHANGED <<workspace, removed>> \/ workspace'.target = None
  PROVE  Whole'
BY DEF IInv, Whole

\* What is left to show of a step of p.
LEMMA StepSuffices ==
  ASSUME IInv, NEW p \in Procs, UNCHANGED <<source, moves, removals>>,
         NEW rec \in Calls, call' = [call EXCEPT ![p] = rec],
         UNCHANGED workspace \/ (Alone(p) /\ workspace' \in Workspaces),
         rec.pc \in Preparing => Behind(p) \/ Alone(p),
         removed' \subseteq Artifacts, Whole', Holds(p)'
  PROVE  IInv'
<1>1. (\A q \in Procs \ {p} : Holds(q)') /\ Sole' /\ call' \in [Procs -> Calls]
  BY OthersKept
<1>2. Types'
  BY <1>1 DEF IInv, Types
<1>3. \A q \in Procs : Holds(q)'
  BY <1>1
<1> QED BY <1>1, <1>2, <1>3 DEF IInv

\* A call may end anywhere, with whatever it has written by then.
LEMMA FailKeeps ==
  ASSUME IInv, NEW p \in Procs, Active(p), Fail(p), Elsewhere,
         \/ UNCHANGED workspace
         \/ Alone(p) /\ workspace' \in Workspaces /\ workspace'.target = None
  PROVE  IInv'
<1> DEFINE rec == [call[p] EXCEPT !.pc = "returned", !.answer = "failed"]
<1>1. call[p] \in Calls /\ Request(p) \in Requests
  BY DEF IInv, Types, Active, At, Holds
<1>2. rec \in Calls /\ rec.pc = "returned" /\ rec.request = Request(p) /\ rec.answer = "failed"
  BY <1>1 DEF Calls, Request
<1>3. call' = [call EXCEPT ![p] = rec] /\ call'[p] = rec
  BY DEF Fail, Answer, IInv, Types
<1>4. Holds(p)'
  BY <1>1, <1>2, <1>3 DEF Holds, Behind, Answered, At, Request, Preparing
<1>5. Whole'
  BY WholeKept DEF Elsewhere
<1>6. UNCHANGED <<source, moves, removals>> /\ removed' \subseteq Artifacts
  BY DEF Elsewhere, IInv, Types
<1> QED BY <1>2, <1>3, <1>4, <1>5, <1>6, StepSuffices DEF Preparing

\* A step behind mkdir that leaves no checkpoint yet.
LEMMA PreparingKeeps ==
  ASSUME IInv, NEW p \in Procs, Behind(p), Elsewhere,
         NEW rec \in Calls, call' = [call EXCEPT ![p] = rec],
         workspace' \in Workspaces, workspace'.target = None, Holds(p)'
  PROVE  IInv'
<1>1. Alone(p)
  BY BehindIsAlone
<1>2. Whole'
  BY WholeKept
<1>3. UNCHANGED <<source, moves, removals>> /\ removed' \subseteq Artifacts
  BY DEF Elsewhere, IInv, Types
<1> QED BY <1>1, <1>2, <1>3, StepSuffices

-----------------------------------------------------------------------------
(* The steps *)

\* A request is new: nothing is known of it.
LEMMA BeginKeeps == ASSUME IInv, NEW p \in Procs, Begin(p) PROVE IInv'
<1>1. PICK r \in Requests, pc \in {"create", "resume"} :
        call' = [call EXCEPT ![p] = [Idle EXCEPT !.pc = pc, !.request = r]]
  BY DEF Begin
<1> DEFINE rec == [Idle EXCEPT !.pc = pc, !.request = r]
<1>2. rec \in Calls /\ rec.pc = pc /\ rec.request = r /\ rec.answer = None
  BY DEF Idle, Calls
<1>3. call'[p] = rec
  BY <1>1 DEF IInv, Types
<1>4. Holds(p)'
  BY <1>2, <1>3 DEF Holds, Behind, Answered, At, Request, Preparing
<1>5. Whole' /\ UNCHANGED <<source, moves, removals, workspace>> /\ removed' \subseteq Artifacts
  BY WholeKept DEF Begin, Elsewhere, IInv, Types
<1> QED BY <1>1, <1>2, <1>4, <1>5, StepSuffices DEF Preparing

\* A resumed call reads the checkpoint, and then looks for the files.
LEMMA ResumeKeeps ==
  ASSUME IInv, NEW p \in Procs, ReadCheckpoint(p) \/ LookForArtifacts(p) PROVE IInv'
<1>1. Active(p) /\ Elsewhere /\ UNCHANGED workspace
  BY DEF ReadCheckpoint, LookForArtifacts, Active, At
<1>2. CASE Fail(p)
  BY <1>1, <1>2, FailKeeps
<1>3. CASE ~Fail(p)
  <2>1. call[p] \in Calls /\ Holds(p)
    BY DEF IInv, Types
  <2>2. PICK rec \in Calls :
          /\ call' = [call EXCEPT ![p] = rec] /\ rec.request = Request(p)
          /\ \/ At(p, "resume") /\ rec.pc = "look" /\ rec.answer = call[p].answer
             \/ At(p, "look") /\ rec.pc = "returned" /\ rec.answer = "reused"
    <3>1. CASE ReadCheckpoint(p)
      <4>1. call' = [call EXCEPT ![p] = [call[p] EXCEPT !.pc = "look"]]
        BY <1>3, <3>1 DEF ReadCheckpoint, Go
      <4>2. [call[p] EXCEPT !.pc = "look"] \in Calls
            /\ [call[p] EXCEPT !.pc = "look"].request = Request(p)
            /\ [call[p] EXCEPT !.pc = "look"].answer = call[p].answer
            /\ [call[p] EXCEPT !.pc = "look"].pc = "look"
        BY <2>1 DEF Calls, Request
      <4> QED BY <3>1, <4>1, <4>2 DEF ReadCheckpoint
    <3>2. CASE LookForArtifacts(p)
      <4> DEFINE new == [call[p] EXCEPT !.pc = "returned", !.answer = "reused"]
      <4>1. call' = [call EXCEPT ![p] = new]
        BY <1>3, <3>2 DEF LookForArtifacts, Answer
      <4>2. new \in Calls /\ new.request = Request(p) /\ new.answer = "reused"
            /\ new.pc = "returned"
        BY <2>1 DEF Calls, Request
      <4> QED BY <3>2, <4>1, <4>2 DEF LookForArtifacts
    <3> QED BY <3>1, <3>2
  <2>3. FindsItsCheckpoint(p)
    <3>1. CASE ReadCheckpoint(p)
      <4>1. workspace \in Workspaces /\ workspace.target # None
            /\ workspace.target.request = Request(p)
        BY <1>3, <3>1 DEF ReadCheckpoint, SameRequest, IInv, Types
      <4> QED BY <4>1, WorkspaceFields DEF FindsItsCheckpoint
    <3>2. CASE LookForArtifacts(p)
      BY <2>1, <3>2 DEF LookForArtifacts, Holds, Answered
    <3> QED BY <3>1, <3>2
  <2>4. call'[p] = rec
    BY <2>2 DEF IInv, Types
  <2>5. FindsItsCheckpoint(p)'
    BY <1>1, <2>2, <2>3, <2>4 DEF FindsItsCheckpoint, Request
  <2>6. Holds(p)'
    BY <2>1, <2>2, <2>4, <2>5 DEF Holds, Behind, Answered, At, Request, Preparing
  <2>7. Whole' /\ UNCHANGED <<source, moves, removals>> /\ removed' \subseteq Artifacts
    BY <1>1, WholeKept DEF Elsewhere, IInv, Types
  <2> QED BY <1>1, <2>2, <2>6, <2>7, StepSuffices DEF Preparing
<1> QED BY <1>2, <1>3

\* A fresh call makes the directory, which must not be there.
LEMMA CreateKeeps ==
  ASSUME IInv, NEW p \in Procs, CreateWorkspace(p) \/ Mkdir(p) PROVE IInv'
<1>1. Active(p) /\ Elsewhere /\ call[p] \in Calls /\ Request(p) \in Requests
      /\ call[p].answer = None
  BY DEF CreateWorkspace, Mkdir, Active, At, IInv, Types, Holds
<1>2. CASE Fail(p) /\ UNCHANGED workspace
  BY <1>1, <1>2, FailKeeps
<1>3. CASE CreateWorkspace(p) /\ Go(p, "mkdir")
  <2> DEFINE rec == [call[p] EXCEPT !.pc = "mkdir"]
  <2>1. rec \in Calls /\ rec.pc = "mkdir" /\ rec.request = Request(p) /\ rec.answer = None
    BY <1>1 DEF Calls, Request
  <2>2. call' = [call EXCEPT ![p] = rec] /\ call'[p] = rec
    BY <1>3 DEF Go, IInv, Types
  <2>3. Holds(p)'
    BY <1>1, <2>1, <2>2 DEF Holds, Behind, Answered, At, Request, Preparing
  <2>4. Whole' /\ UNCHANGED <<source, moves, removals, workspace>> /\ removed' \subseteq Artifacts
    BY <1>3, WholeKept DEF CreateWorkspace, Elsewhere, IInv, Types
  <2> QED BY <2>1, <2>2, <2>3, <2>4, StepSuffices DEF Preparing
<1>4. CASE Mkdir(p) /\ workspace = None
  <2> DEFINE rec == [call[p] EXCEPT !.pc = "resolve"]
  <2>1. rec \in Calls /\ rec.pc = "resolve" /\ rec.request = Request(p) /\ rec.answer = None
    BY <1>1 DEF Calls, Request, Preparing
  <2>2. call' = [call EXCEPT ![p] = rec] /\ call'[p] = rec
    BY <1>4 DEF Mkdir, Go, IInv, Types
  <2>3. workspace' \in Workspaces /\ workspace'.target = None
    BY <1>4 DEF Mkdir, Empty, Workspaces
  <2>4. Holds(p)'
    BY <1>1, <2>1, <2>2, <2>3 DEF Holds, Behind, Answered, At, Request, Preparing
  <2>5. Whole' /\ UNCHANGED <<source, moves, removals>> /\ removed' \subseteq Artifacts
    BY <1>1, <2>3, WholeKept DEF Elsewhere, IInv, Types
  <2>6. Alone(p)
    BY <1>4, BehindIsAlone
  <2> QED BY <2>1, <2>2, <2>3, <2>4, <2>5, <2>6, StepSuffices
<1> QED BY <1>2, <1>3, <1>4 DEF CreateWorkspace, Mkdir

\* Behind mkdir: the call's own record, and the directory it fills.
LEMMA PreparingFacts ==
  ASSUME IInv, NEW p \in Procs, Behind(p)
  PROVE  /\ Active(p) /\ Alone(p)
         /\ call[p] \in Calls /\ Request(p) \in Requests /\ call[p].answer = None
         /\ Method(p) \in Methods /\ Request(p).revision \in Nat
         /\ workspace \in Workspaces /\ workspace.target = None
<1>1. call[p] \in Calls /\ Holds(p)
  BY DEF IInv, Types
<1>2. Active(p) /\ Request(p) \in Requests
  BY <1>1 DEF Holds, Behind, Active, At, Preparing
<1> QED BY <1>1, <1>2, BehindIsAlone DEF Holds, Behind, Method, Request, Preparing

\* The clone is begun in a directory of its own, and is of the head.
LEMMA CloneKeeps ==
  ASSUME IInv, NEW p \in Procs, StartClone(p) \/ Clone(p) PROVE IInv'
<1>1. Behind(p) /\ Elsewhere /\ Method(p) = "remote_git"
  BY DEF StartClone, Clone, Behind, At, Preparing, IInv, Holds
<1>2. /\ Active(p) /\ Alone(p) /\ call[p] \in Calls /\ Request(p) \in Requests
      /\ call[p].answer = None /\ workspace \in Workspaces /\ workspace.target = None
  BY <1>1, PreparingFacts
<1>3. CASE Fail(p) /\ UNCHANGED workspace
  BY <1>1, <1>2, <1>3, FailKeeps
<1>4. ASSUME NEW pc \in {"clone", "checkout"}, NEW copy \in Revisions \cup {Partial},
             Go(p, pc), Put("repository", copy), pc = "checkout" => copy \in Revisions
      PROVE  IInv'
  <2> DEFINE rec == [call[p] EXCEPT !.pc = pc]
  <2>1. rec \in Calls /\ rec.pc = pc /\ rec.request = Request(p) /\ rec.answer = None
    BY <1>2 DEF Calls, Request, Preparing
  <2>2. call' = [call EXCEPT ![p] = rec] /\ call'[p] = rec
    BY <1>4 DEF Go, IInv, Types
  <2>3. workspace' \in Workspaces /\ workspace'.target = None
        /\ workspace'.repository = copy
    BY <1>2, <1>4 DEF Workspaces, Put
  <2>4. Holds(p)'
    BY <1>1, <1>2, <1>4, <2>1, <2>2, <2>3
       DEF Holds, Behind, Answered, At, Method, Request, Preparing
  <2> QED BY <1>1, <2>1, <2>2, <2>3, <2>4, PreparingKeeps DEF Preparing
<1>5. CASE StartClone(p) /\ ~(Fail(p) /\ UNCHANGED workspace)
  BY <1>4, <1>5 DEF StartClone
<1>6. CASE Clone(p)
  <2>1. source["remote_git"] \in Revisions
    BY DEF IInv, Types, Methods
  <2> QED BY <1>4, <1>6, <2>1 DEF Clone
<1> QED BY <1>3, <1>5, <1>6 DEF StartClone

\* What is checked out is the revision asked for, and the head if none was.
LEMMA CheckoutKeeps == ASSUME IInv, NEW p \in Procs, Checkout(p) PROVE IInv'
<1> DEFINE head == workspace.repository
           asked == IF Request(p).revision = 0 THEN head ELSE Request(p).revision
           rec == [call[p] EXCEPT !.pc = "subdirectory", !.revision = asked]
<1>1. Behind(p) /\ Elsewhere /\ Method(p) = "remote_git"
  BY DEF Checkout, Behind, At, Preparing, IInv, Holds
<1>2. /\ Active(p) /\ Alone(p) /\ call[p] \in Calls /\ Request(p) \in Requests
      /\ call[p].answer = None /\ Request(p).revision \in Nat
      /\ workspace \in Workspaces /\ workspace.target = None
  BY <1>1, PreparingFacts
<1>3. head \in Revisions /\ (asked <= head => asked \in Revisions)
  BY <1>2, PrepareAssumption DEF Checkout, IInv, Holds, Revisions
<1>4. CASE Fail(p) /\ UNCHANGED workspace
  BY <1>1, <1>2, <1>4, FailKeeps
<1>6. CASE /\ asked <= head /\ call' = [call EXCEPT ![p] = rec]
           /\ workspace' = [workspace EXCEPT !.repository = asked]
  <2>1. rec \in Calls /\ rec.pc = "subdirectory" /\ rec.request = Request(p)
        /\ rec.answer = None /\ rec.revision = asked /\ rec.moved = call[p].moved
    BY <1>2, <1>3, <1>6 DEF Calls, Request, Preparing
  <2>2. call'[p] = rec
    BY <1>6 DEF IInv, Types
  <2>3. workspace' \in Workspaces /\ workspace'.target = None /\ workspace'.repository = asked
    BY <1>2, <1>3, <1>6 DEF Workspaces
  <2>4. HasResolved(p)'
    BY <1>1, <1>3, <1>6, <2>1, <2>2, <2>3 DEF HasResolved, AtRoot, Method, Request
  <2>5. Holds(p)'
    BY <1>2, <2>1, <2>2, <2>3, <2>4 DEF Holds, Behind, Answered, At, Request, Preparing
  <2> QED BY <1>1, <1>6, <2>1, <2>3, <2>5, PreparingKeeps
<1> QED BY <1>3, <1>4, <1>6 DEF Checkout, Put, Resolved

\* A checkout is used where it is, at the revision it has now.
LEMMA ResolveCheckoutKeeps == ASSUME IInv, NEW p \in Procs, ResolveCheckout(p) PROVE IInv'
<1> DEFINE head == source["local_checkout"]
           rec == [call[p] EXCEPT !.pc = "subdirectory", !.revision = head]
<1>1. Behind(p) /\ Elsewhere /\ Method(p) = "local_checkout"
      /\ UNCHANGED <<workspace, source>>
  BY DEF ResolveCheckout, Behind, At, Preparing, Elsewhere
<1>2. /\ call[p] \in Calls /\ Request(p) \in Requests /\ call[p].answer = None
      /\ workspace \in Workspaces /\ workspace.target = None
  BY <1>1, PreparingFacts
<1>3. head \in Revisions
  BY DEF IInv, Types, Methods
<1>4. rec \in Calls /\ rec.pc = "subdirectory" /\ rec.request = Request(p)
      /\ rec.answer = None /\ rec.revision = head
  BY <1>2, <1>3 DEF Calls, Request, Preparing
<1>5. call' = [call EXCEPT ![p] = rec] /\ call'[p] = rec
  BY DEF ResolveCheckout, Resolved, IInv, Types
<1>6. HasResolved(p)'
  BY <1>1, <1>3, <1>4, <1>5 DEF HasResolved, AtRoot, Method, Request
<1>7. Holds(p)'
  BY <1>1, <1>2, <1>4, <1>5, <1>6 DEF Holds, Behind, Answered, At, Request, Preparing
<1> QED BY <1>1, <1>2, <1>4, <1>5, <1>7, PreparingKeeps

\* What is unpacked is the archive as it is now, or less if it fails.
LEMMA ExtractKeeps == ASSUME IInv, NEW p \in Procs, Extract(p) PROVE IInv'
<1> DEFINE content == source["source_archive"]
           rec == [call[p] EXCEPT !.pc = "hash"]
<1>1. Behind(p) /\ Elsewhere /\ Method(p) = "source_archive" /\ UNCHANGED source
  BY DEF Extract, Behind, At, Preparing, Elsewhere
<1>2. /\ Active(p) /\ Alone(p) /\ call[p] \in Calls /\ Request(p) \in Requests
      /\ call[p].answer = None /\ workspace \in Workspaces /\ workspace.target = None
  BY <1>1, PreparingFacts
<1>3. content \in Revisions
  BY DEF IInv, Types, Methods
<1>4. CASE Fail(p) /\ UNCHANGED workspace
  BY <1>1, <1>2, <1>4, FailKeeps
<1>5. CASE Fail(p) /\ workspace' = [workspace EXCEPT !.repository = Partial]
  <2>1. workspace' \in Workspaces /\ workspace'.target = None
    BY <1>2, <1>5 DEF Workspaces
  <2> QED BY <1>1, <1>2, <1>5, <2>1, FailKeeps
<1>6. CASE /\ call' = [call EXCEPT ![p] = rec]
           /\ workspace' = [workspace EXCEPT !.repository = content]
  <2>1. rec \in Calls /\ rec.pc = "hash" /\ rec.request = Request(p) /\ rec.answer = None
    BY <1>2 DEF Calls, Request, Preparing
  <2>2. call'[p] = rec
    BY <1>6 DEF IInv, Types
  <2>3. workspace' \in Workspaces /\ workspace'.target = None
        /\ workspace'.repository = content
    BY <1>2, <1>3, <1>6 DEF Workspaces
  <2>4. Holds(p)'
    BY <1>1, <1>2, <1>3, <2>1, <2>2, <2>3
       DEF Holds, Behind, Answered, At, Method, Request, Preparing
  <2> QED BY <1>1, <1>6, <2>1, <2>3, <2>4, PreparingKeeps
<1> QED BY <1>4, <1>5, <1>6 DEF Extract, Put, Go

\* The digest of the archive is taken later than the copy: it may have moved.
LEMMA HashKeeps == ASSUME IInv, NEW p \in Procs, HashArchive(p) PROVE IInv'
<1> DEFINE now == source["source_archive"]
           rec == [call[p] EXCEPT !.pc = "subdirectory", !.revision = now]
<1>1. Behind(p) /\ Elsewhere /\ UNCHANGED <<workspace, source>>
  BY DEF HashArchive, Behind, At, Preparing, Elsewhere
<1>2. /\ Active(p) /\ call[p] \in Calls /\ Request(p) \in Requests
      /\ call[p].answer = None /\ workspace \in Workspaces /\ workspace.target = None
  BY <1>1, PreparingFacts
<1>3. /\ Method(p) = "source_archive" /\ workspace.repository \in Revisions
      /\ workspace.repository = now \/ call[p].moved
  BY DEF HashArchive, IInv, Holds
<1>4. CASE Fail(p)
  BY <1>1, <1>2, <1>4, FailKeeps
<1>5. CASE call' = [call EXCEPT ![p] = rec]
  <2>1. now \in Revisions
    BY DEF IInv, Types, Methods
  <2>2. rec \in Calls /\ rec.pc = "subdirectory" /\ rec.request = Request(p)
        /\ rec.answer = None /\ rec.revision = now /\ rec.moved = call[p].moved
    BY <1>2, <2>1 DEF Calls, Request, Preparing
  <2>3. call'[p] = rec
    BY <1>5 DEF IInv, Types
  <2>4. HasResolved(p)'
    BY <1>1, <1>3, <2>1, <2>2, <2>3 DEF HasResolved, AtRoot, Method, Request
  <2>5. Holds(p)'
    BY <1>1, <1>2, <2>2, <2>3, <2>4 DEF Holds, Behind, Answered, At, Request, Preparing
  <2> QED BY <1>1, <1>2, <1>5, <2>2, <2>5, PreparingKeeps
<1> QED BY <1>4, <1>5 DEF HashArchive, Resolved

\* Nothing changes but the place.
LEMMA ResolveSubdirectoryKeeps ==
  ASSUME IInv, NEW p \in Procs, ResolveSubdirectory(p) PROVE IInv'
<1> DEFINE rec == [call[p] EXCEPT !.pc = "scan"]
<1>1. Behind(p) /\ Elsewhere /\ UNCHANGED <<workspace, source>> /\ HasResolved(p)
  BY DEF ResolveSubdirectory, Behind, At, Preparing, Elsewhere, IInv, Holds
<1>2. /\ Active(p) /\ call[p] \in Calls /\ Request(p) \in Requests
      /\ call[p].answer = None /\ workspace \in Workspaces /\ workspace.target = None
  BY <1>1, PreparingFacts
<1>3. CASE Fail(p)
  BY <1>1, <1>2, <1>3, FailKeeps
<1>4. CASE call' = [call EXCEPT ![p] = rec]
  <2>1. rec \in Calls /\ rec.pc = "scan" /\ rec.request = Request(p)
        /\ rec.answer = None /\ rec.revision = call[p].revision /\ rec.moved = call[p].moved
    BY <1>2 DEF Calls, Request, Preparing
  <2>2. call'[p] = rec
    BY <1>4 DEF IInv, Types
  <2>3. HasResolved(p)'
    BY <1>1, <2>1, <2>2 DEF HasResolved, AtRoot, Method, Request
  <2>4. Holds(p)'
    BY <1>1, <1>2, <2>1, <2>2, <2>3 DEF Holds, Behind, Answered, At, Request, Preparing
  <2> QED BY <1>1, <1>2, <1>4, <2>1, <2>4, PreparingKeeps
<1> QED BY <1>3, <1>4 DEF ResolveSubdirectory, Go

\* The evidence is of what the analysis root holds by now.
LEMMA ScanKeeps == ASSUME IInv, NEW p \in Procs, Scan(p) PROVE IInv'
<1> DEFINE found == [content |-> AtRoot(p), subdirectory |-> Request(p).subdirectory]
           rec == [call[p] EXCEPT !.pc = "evidence", !.evidence = found]
<1>1. Behind(p) /\ Elsewhere /\ UNCHANGED workspace /\ HasResolved(p)
  BY DEF Scan, Behind, At, Preparing, IInv, Holds
<1>2. /\ Active(p) /\ call[p] \in Calls /\ Request(p) \in Requests
      /\ call[p].answer = None /\ workspace \in Workspaces /\ workspace.target = None
  BY <1>1, PreparingFacts
<1>3. AtRoot(p) \in Revisions
  BY <1>1 DEF HasResolved, AtRoot, IInv, Types, Methods
<1>4. found \in Evidence /\ found.subdirectory = Request(p).subdirectory
      /\ found.content = AtRoot(p)
  BY <1>2, <1>3 DEF Evidence
<1>5. rec \in Calls /\ rec.pc = "evidence" /\ rec.request = Request(p) /\ rec.answer = None
      /\ rec.revision = call[p].revision /\ rec.moved = call[p].moved /\ rec.evidence = found
  BY <1>2, <1>4 DEF Calls, Request, Preparing
<1>6. call' = [call EXCEPT ![p] = rec] /\ call'[p] = rec
  BY DEF Scan, IInv, Types
<1>7. HasScanned(p)'
  BY <1>1, <1>4, <1>5, <1>6 DEF HasScanned, HasResolved, Method, Request
<1>8. Holds(p)'
  BY <1>1, <1>2, <1>5, <1>6, <1>7 DEF Holds, Behind, Answered, At, Request, Preparing
<1> QED BY <1>1, <1>2, <1>5, <1>6, <1>8, PreparingKeeps

\* Evidence, digest and report, in that order.
LEMMA WritesKeep ==
  ASSUME IInv, NEW p \in Procs,
         WriteEvidence(p) \/ WriteDigest(p) \/ OpenReport(p) \/ FillReport(p)
  PROVE  IInv'
<1>1. Behind(p) /\ Elsewhere /\ HasScanned(p) /\ call[p].evidence \in Evidence
  BY DEF WriteEvidence, WriteDigest, OpenReport, FillReport, Behind, At, Preparing, IInv, Holds,
         HasScanned
<1>2. /\ call[p] \in Calls /\ Request(p) \in Requests
      /\ call[p].answer = None /\ workspace \in Workspaces /\ workspace.target = None
  BY <1>1, PreparingFacts
<1>3. PICK pc \in {"digest", "copy", "fill", "target"} :
        /\ call' = [call EXCEPT ![p] = [call[p] EXCEPT !.pc = pc]]
        /\ \/ /\ pc = "digest"
              /\ workspace' = [workspace EXCEPT !.evidence = call[p].evidence]
           \/ /\ pc = "copy" /\ At(p, "digest")
              /\ workspace' = [workspace EXCEPT !.digest = call[p].evidence]
           \/ /\ pc = "fill" /\ At(p, "copy")
              /\ workspace' = [workspace EXCEPT !.report = "opened"]
           \/ /\ pc = "target" /\ At(p, "fill")
              /\ workspace' = [workspace EXCEPT !.report = "template"]
  BY DEF WriteEvidence, WriteDigest, OpenReport, FillReport, Go, Put, AfterDigest
<1> DEFINE rec == [call[p] EXCEPT !.pc = pc]
<1>4. rec \in Calls /\ rec.pc = pc /\ rec.request = Request(p) /\ rec.answer = None
      /\ rec.revision = call[p].revision /\ rec.moved = call[p].moved
      /\ rec.evidence = call[p].evidence
  BY <1>2 DEF Calls, Request, Preparing
<1>5. call'[p] = rec
  BY <1>3 DEF IInv, Types
<1>6. HasScanned(p)'
  BY <1>1, <1>4, <1>5 DEF HasScanned, Method, Request
<1>7. workspace' \in Workspaces /\ workspace'.target = None
  BY <1>1, <1>2, <1>3 DEF Workspaces
<1>8. /\ workspace'.evidence = call[p].evidence
      /\ pc \in {"copy", "fill", "target"} => workspace'.digest = call[p].evidence
      /\ pc = "target" => workspace'.report = "template"
  BY <1>2, <1>3 DEF IInv, Holds, At, Workspaces
<1>9. Holds(p)'
  BY <1>2, <1>4, <1>5, <1>6, <1>7, <1>8 DEF Holds, Behind, Answered, At, Request, Preparing
<1> QED BY <1>1, <1>3, <1>4, <1>7, <1>9, PreparingKeeps

\* The checkpoint, last of all.
LEMMA WriteTargetKeeps == ASSUME IInv, NEW p \in Procs, WriteTarget(p) PROVE IInv'
<1> DEFINE target == [request |-> Request(p), revision |-> call[p].revision,
                      moved |-> call[p].moved]
           rec == [call[p] EXCEPT !.pc = "returned", !.answer = "prepared"]
<1>1. Behind(p) /\ HasScanned(p)
      /\ workspace.evidence = call[p].evidence /\ workspace.digest = call[p].evidence
      /\ workspace.report = "template"
  BY DEF WriteTarget, Behind, At, Preparing, IInv, Holds
<1>2. /\ Alone(p) /\ call[p] \in Calls /\ Request(p) \in Requests
      /\ workspace \in Workspaces
  BY <1>1, PreparingFacts
<1>3. target \in Targets /\ target # None /\ target.request = Request(p)
      /\ target.revision = call[p].revision /\ target.moved = call[p].moved
  BY <1>1, <1>2 DEF HasScanned, Targets, Calls
<1>4. workspace' = [workspace EXCEPT !.target = target] /\ removed' = {}
      /\ UNCHANGED <<source, moves, removals>>
  BY DEF WriteTarget, Put
<1>5. /\ workspace' \in Workspaces /\ workspace'.target = target
      /\ workspace'.evidence = call[p].evidence /\ workspace'.digest = call[p].evidence
      /\ workspace'.report = "template"
  BY <1>1, <1>2, <1>3, <1>4 DEF Workspaces
<1>6. rec \in Calls /\ rec.pc = "returned" /\ rec.request = Request(p)
  BY <1>2 DEF Calls, Request
<1>7. call' = [call EXCEPT ![p] = rec] /\ call'[p] = rec
  BY DEF WriteTarget, Answer, IInv, Types
<1>8. Holds(p)'
  BY <1>2, <1>3, <1>5, <1>6, <1>7
     DEF Holds, Behind, Answered, At, Request, FindsItsCheckpoint, Preparing
<1>9. Whole'
  <2>1. call[p].evidence # None
    BY <1>1 DEF HasScanned
  <2>2. \A a \in Artifacts : workspace'[a] # None
    BY <1>5, <2>1 DEF Artifacts
  <2>3. /\ workspace'.evidence.subdirectory = target.request.subdirectory
        /\ ~target.moved \/ target.request.method = "remote_git" =>
             workspace'.evidence.content = target.revision
        /\ target.request.method = "remote_git" /\ target.request.revision # 0 =>
             target.revision = target.request.revision
    BY <1>1, <1>3, <1>5 DEF HasScanned, Method, Request
  <2> QED BY <1>5, <2>2, <2>3 DEF Whole
<1> QED BY <1>2, <1>4, <1>5, <1>6, <1>7, <1>8, <1>9, StepSuffices DEF Preparing

\* A source that moves marks the calls that use it.
LEMMA MoveKeeps == ASSUME IInv, NEW m \in Methods, Move(m) PROVE IInv'
<1>1. Types'
  <2>1. source' \in [Methods -> Revisions] /\ moves' \in 0..MaxMoves
        /\ \A k \in Methods : source'[k] <= moves' + 1
    BY DEF Move, IInv, Types, Revisions
  <2>2. ASSUME NEW p \in Procs PROVE call'[p] \in Calls
    <3>1. /\ call[p] \in Calls
          /\ call'[p] = call[p] \/ call'[p] = [call[p] EXCEPT !.moved = TRUE]
      BY DEF Move, IInv, Types
    <3>2. [call[p] EXCEPT !.moved = TRUE] \in Calls
      BY <3>1 DEF Calls
    <3> QED BY <3>1, <3>2
  <2> QED BY <2>1, <2>2 DEF Move, IInv, Types
<1>2. ASSUME NEW p \in Procs PROVE Holds(p)'
  <2>1. /\ call[p] \in Calls /\ Holds(p) /\ UNCHANGED workspace
        /\ \/ call'[p] = call[p] /\ (Active(p) => Method(p) # m)
           \/ call'[p] = [call[p] EXCEPT !.moved = TRUE] /\ Method(p) = m
    BY DEF Move, IInv, Types
  <2>2. /\ call'[p].pc = call[p].pc /\ call'[p].request = call[p].request
        /\ call'[p].revision = call[p].revision /\ call'[p].evidence = call[p].evidence
        /\ call'[p].answer = call[p].answer
        /\ call[p].moved => call'[p].moved
        /\ call[p].pc \in Preparing /\ Method(p) = m => call'[p].moved
    BY <2>1 DEF Calls, Active, At, Preparing
  <2>3. \A k \in Methods \ {m} : source'[k] = source[k]
    BY DEF Move, IInv, Types
  <2>4. call[p].pc # "idle" => Method(p) \in Methods
    BY <2>1 DEF Holds, Method, Request
  <2>5. HasScanned(p) => HasScanned(p)'
    BY <2>2 DEF HasScanned, Method, Request
  <2>6. ASSUME call[p].pc \in {"subdirectory", "scan"}, HasResolved(p) PROVE HasResolved(p)'
    <3>1. CASE Method(p) = "local_checkout"
      BY <2>1, <2>2, <2>3, <2>4, <2>6, <3>1
         DEF HasResolved, AtRoot, Method, Request, Preparing, Methods
    <3>2. CASE Method(p) # "local_checkout"
      BY <2>1, <2>2, <2>6, <3>2 DEF HasResolved, AtRoot, Method, Request
    <3> QED BY <3>1, <3>2
  <2>7. FindsItsCheckpoint(p) => FindsItsCheckpoint(p)'
    BY <2>1, <2>2 DEF FindsItsCheckpoint, Request
  <2>8. At(p, "hash")' => /\ Method(p)' = "source_archive" /\ workspace'.repository \in Revisions
                          /\ workspace'.repository = source'["source_archive"] \/ call'[p].moved
    BY <2>1, <2>2, <2>3 DEF Holds, At, Method, Request, Preparing, Methods
  <2>9. /\ call'[p].pc \in {"clone", "checkout"} => Method(p)' = "remote_git"
        /\ At(p, "checkout")' => workspace'.repository \in Revisions
    BY <2>1, <2>2 DEF Holds, At, Method, Request
  <2> QED BY <2>1, <2>2, <2>5, <2>6, <2>7, <2>8, <2>9 DEF Holds, Behind, Answered, At, Request
<1>3. \A p \in Procs : call'[p].pc = call[p].pc
  BY DEF Move, IInv, Types, Calls
<1>4. Sole' /\ Whole'
  BY <1>3, WholeKept DEF Move, IInv, Sole, Behind
<1> QED BY <1>1, <1>2, <1>4 DEF IInv

\* A file that is removed is remembered as removed.
LEMMA RemoveArtifactKeeps == ASSUME IInv, NEW a \in Artifacts, RemoveArtifact(a) PROVE IInv'
<1>1. workspace \in Workspaces /\ workspace.target # None
      /\ workspace' = [workspace EXCEPT ![a] = None]
  BY DEF RemoveArtifact, Put, IInv, Types
<1>2. workspace' \in Workspaces /\ workspace'.target = workspace.target /\ workspace'[a] = None
      /\ \A b \in Artifacts \ {a} : workspace'[b] = workspace[b]
  BY <1>1 DEF Workspaces, Artifacts
<1>3. Types'
  BY <1>2 DEF RemoveArtifact, IInv, Types
<1>4. Sole'
  BY DEF RemoveArtifact, IInv, Sole, Behind
<1>5. ASSUME NEW p \in Procs PROVE Holds(p)'
  <2>1. ~Behind(p) /\ UNCHANGED call
    BY <1>1 DEF IInv, Holds, RemoveArtifact
  <2>2. FindsItsCheckpoint(p) => FindsItsCheckpoint(p)'
    BY <1>2, <2>1 DEF FindsItsCheckpoint, Request
  <2> QED BY <2>1, <2>2 DEF IInv, Holds, Behind, Answered, At, Request, Preparing
<1>6. Whole'
  BY <1>1, <1>2 DEF IInv, Whole, RemoveArtifact, Artifacts
<1> QED BY <1>3, <1>4, <1>5, <1>6 DEF IInv

\* A workspace that goes takes what was promised of it along.
LEMMA RemoveWorkspaceKeeps == ASSUME IInv, RemoveWorkspace PROVE IInv'
<1>1. \A p \in Procs : \/ call'[p] = Idle
                       \/ call'[p] = call[p] /\ call[p].pc \in {"idle", "create", "mkdir"}
  BY DEF RemoveWorkspace, Active, At
<1>2. Idle \in Calls /\ Idle.pc = "idle" /\ Idle.answer = None
  BY DEF Idle, Calls
<1>3. Types'
  BY <1>1, <1>2 DEF RemoveWorkspace, IInv, Types
<1>4. ASSUME NEW p \in Procs PROVE Holds(p)' /\ ~Behind(p)'
  BY <1>1, <1>2 DEF IInv, Holds, Behind, Answered, At, Request, Preparing
<1>5. Whole'
  BY DEF RemoveWorkspace, Whole
<1> QED BY <1>3, <1>4, <1>5 DEF IInv, Sole

\* The invariant holds in every state.
LEMMA Invariant == Spec => []IInv
<1>1. Init => IInv
  <2> SUFFICES ASSUME Init PROVE IInv
    OBVIOUS
  <2>1. Idle \in Calls /\ Idle.pc = "idle" /\ Idle.answer = None
    BY DEF Idle, Calls
  <2>2. Types
    BY <2>1 DEF Init, Types, Revisions
  <2>3. \A p \in Procs : Holds(p) /\ ~Behind(p)
    BY <2>1 DEF Init, Holds, Behind, Answered, At, Preparing
  <2>4. Whole
    BY DEF Init, Whole
  <2> QED BY <2>2, <2>3, <2>4 DEF IInv, Sole
<1>2. IInv /\ [Next]_vars => IInv'
  <2> SUFFICES ASSUME IInv, [Next]_vars PROVE IInv'
    OBVIOUS
  <2>1. ASSUME NEW p \in Procs, Prepare(p) PROVE IInv'
    BY <2>1, ResumeKeeps, CreateKeeps, CloneKeeps, CheckoutKeeps, ResolveCheckoutKeeps, ExtractKeeps, HashKeeps,
       ResolveSubdirectoryKeeps, ScanKeeps, WritesKeep, WriteTargetKeeps DEF Prepare
  <2>2. ASSUME NEW p \in Procs, Begin(p) PROVE IInv'
    BY <2>2, BeginKeeps
  <2>3. ASSUME NEW p \in Procs, Stop(p) PROVE IInv'
    BY <2>3, FailKeeps DEF Stop
  <2>4. ASSUME NEW m \in Methods, Move(m) PROVE IInv'
    BY <2>4, MoveKeeps
  <2>5. ASSUME NEW a \in Artifacts, RemoveArtifact(a) PROVE IInv'
    BY <2>5, RemoveArtifactKeeps
  <2>6. CASE RemoveWorkspace
    BY <2>6, RemoveWorkspaceKeeps
  <2>7. CASE UNCHANGED vars
    BY <2>7 DEF vars, IInv, Types, Sole, Holds, Whole, Behind, Answered, At, Request, Method,
                AtRoot, HasResolved, HasScanned, FindsItsCheckpoint
  <2> QED BY <2>1, <2>2, <2>3, <2>4, <2>5, <2>6, <2>7 DEF Next
<1> QED BY <1>1, <1>2, PTL DEF Spec

-----------------------------------------------------------------------------
(* Theorems *)

\* The types of a preparation, and that mkdir lets in one call at a time, whose
\* directory has no checkpoint until it is done.
THEOREM TypeCorrect == Spec => []TypeOK
<1>1. IInv => TypeOK
  <2> SUFFICES ASSUME IInv PROVE TypeOK
    OBVIOUS
  <2>1. ASSUME NEW p \in Procs, call[p].pc \in Preparing
        PROVE  /\ workspace # None /\ workspace.target = None
               /\ \A q \in Procs \ {p} : call[q].pc \notin Preparing
    BY <2>1 DEF IInv, Holds, Behind, Sole
  <2> QED BY <2>1 DEF IInv, Types, TypeOK, Calls
<1> QED BY <1>1, Invariant, PTL

\* A checkpoint vouches for files that are there, that belong together and that
\* come from the revision it names, unless the source moved under the call.
THEOREM CheckpointIsWholeHolds == Spec => []CheckpointIsWhole
<1>1. IInv => CheckpointIsWhole
  BY DEF IInv, Types, Whole, CheckpointIsWhole
<1> QED BY <1>1, Invariant, PTL

\* A call that is told "prepared" or "reused" finds its own request's evidence.
THEOREM AnswersItsRequestHolds == Spec => []AnswersItsRequest
<1>1. IInv => AnswersItsRequest
  <2> SUFFICES ASSUME IInv, NEW p \in Procs, call[p].answer \in {"prepared", "reused"}
               PROVE  /\ workspace # None /\ workspace.target # None
                      /\ workspace.target.request = Request(p)
                      /\ workspace.evidence # None =>
                           /\ workspace.evidence.subdirectory = Request(p).subdirectory
                           /\ Method(p) = "remote_git" /\ Request(p).revision # 0 =>
                                workspace.evidence.content = Request(p).revision
    BY DEF AnswersItsRequest
  <2>1. FindsItsCheckpoint(p)
    BY DEF IInv, Holds, Answered
  <2>2. Whole
    BY DEF IInv
  <2> QED BY <2>1, <2>2 DEF FindsItsCheckpoint, Whole, Method, Request
<1> QED BY <1>1, Invariant, PTL
=============================================================================
