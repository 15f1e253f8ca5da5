---------------------------- MODULE ReportClient ----------------------------
(***************************************************************************)
(* The loop that drives a model through a report session                   *)
(* (scripts/report_orchestrator.py), the stream protocol                   *)
(* (report_model_protocol.py), the tool handler (report_tool_handler.py)   *)
(* and what the service answers.  Several loops may work on one session.   *)
(*                                                                         *)
(* The service's tables are ReportSession's, here a count of completed     *)
(* units; finalize is ReportLifecycle's, here its begin, the commit of its *)
(* result, and what is left to do before the reply: under the lock for a   *)
(* result of its own, without it after routing.  The versions between      *)
(* begin and commit, on which every reply asks for a sync, are passed over *)
(* and target.json does not change.  What is kept whole is what a client   *)
(* can see: a reply of `sync', and of a rejected payload, is put together  *)
(* from three reads, and a call may be cut short after its commit.         *)
(***************************************************************************)
EXTENDS Integers, FiniteSets

CONSTANTS
  Clients,
  Units,            \* work units of the session
  Prefilled,        \* units that the payload of its start completes
  MaxRetries,       \* MAX_RETRIES of the planner
  MaxRepairRounds,
  MinSteps, StepsPerUnit,  \* the loop's max(20, known_units * 4)
  MaxIdentical,     \* identical payloads without growth that end the loop
  MaxErrors,        \* bound: service calls that raise
  BusySteps,        \* bound: steps of each loop that is not steady
  Steadies,         \* who may be steady: some clients, or None for no one
  None

ASSUME ClientAssumption ==
  /\ Units \in Nat \ {0} /\ Prefilled \in 0 .. Units
  /\ MaxRetries \in Nat /\ MaxRepairRounds \in Nat
  /\ MinSteps \in Nat /\ StepsPerUnit \in Nat
  /\ MaxIdentical \in Nat \ {0, 1}
  /\ MaxErrors \in Nat /\ BusySteps \in [Clients -> Nat]
  /\ None \notin Clients /\ Steadies \subseteq Clients \cup {None}

VARIABLES
  session,      \* the session row, its active lease and its coverage
  stored,       \* chunk_results and finalize_results: key -> reply, once stored
  journal,      \* the key of a finalize that has not been tidied up, or None
  client,       \* where each loop is, and what it holds
  budget,       \* max_steps of each loop, from the result it was given
  steady,       \* the one client that works, with a model that answers well,
                \* or None
  errors

vars == <<session, stored, journal, client, budget, steady, errors>>

-----------------------------------------------------------------------------
(* Replies and the action they ask for *)

\* Mutants: a failed session counts as done; a ready one is not finalized.
NextActionOfFailed(status, state, lease) ==
  IF status = "sync_required" THEN "sync"
  ELSE IF state \in {"COMPLETE", "FAILED"} THEN "complete"
  ELSE IF state = "READY" THEN "finalize"
  ELSE IF lease # None THEN "submit_chunk"
  ELSE "sync"
NextActionOfReady(status, state, lease) ==
  IF status = "sync_required" THEN "sync"
  ELSE IF state = "COMPLETE" THEN "complete"
  ELSE IF lease # None THEN "submit_chunk"
  ELSE "sync"

\* _next_action.
NextAction(status, state, lease) ==
  IF status = "sync_required" THEN "sync"
  ELSE IF state = "COMPLETE" THEN "complete"
  ELSE IF state = "READY" THEN "finalize"
  ELSE IF lease # None THEN "submit_chunk"
  ELSE "sync"

Reply(status, s, lease, artifact) ==
  [action |-> NextAction(status, s.state, lease), version |-> s.version,
   lease |-> IF lease = None THEN None ELSE lease.id,
   done |-> s.done, artifact |-> artifact]

Told(status, s) == Reply(status, s, s.lease, FALSE)

\* _empty_envelope: a call that could not be parsed, or a service that raised.
ErrorReply ==
  [action |-> "sync", version |-> -1, lease |-> None, done |-> 0, artifact |-> FALSE]

\* retry_key, from the reply the call answers.
Key(c) == [tool |-> client[c].last.action, version |-> client[c].last.version,
           lease |-> client[c].last.lease]

StoredReply(k) == (CHOOSE e \in stored : e.key = k).reply
IsStored(k) == \E e \in stored : e.key = k

\* Mutant: the last lease stays open when the session is ready.
CollectedLeased(version, done, repairs) ==
  [state |-> IF done = Units THEN "READY" ELSE "COLLECTING",
   version |-> version, done |-> done, repairs |-> repairs,
   lease |-> [id |-> version + 1, retry |-> 0]]

\* The session after a start or a chunk.
Collected(version, done, repairs) ==
  [state |-> IF done = Units THEN "READY" ELSE "COLLECTING",
   version |-> version, done |-> done, repairs |-> repairs,
   lease |-> IF done = Units THEN None ELSE [id |-> version + 1, retry |-> 0]]

Started == Collected(0, Prefilled, 0)
NoSession == [state |-> "NONE", version |-> -1, done |-> 0, lease |-> None, repairs |-> 0]

\* finalize.lock is free.
Locked == {"finalizing", "tidying"}
Unlocked == \A c \in Clients : client[c].pc \notin Locked

-----------------------------------------------------------------------------
Before(action) == [action |-> action, version |-> -1, lease |-> None,
                   done |-> 0, artifact |-> FALSE]

Loop(last) ==
  [pc |-> "ask", last |-> last, call |-> None, seen |-> None, same |-> 0,
   steps |-> 0, read |-> None]

StepsFor(known) ==
  IF StepsPerUnit * known > MinSteps THEN StepsPerUnit * known ELSE MinSteps

\* A loop is given the reply of a start made for it, or the order to start.
Init ==
  /\ steady \in Steadies
  /\ \E known \in {0, Units} :
       /\ budget = IF steady = None THEN BusySteps ELSE [c \in Clients |-> StepsFor(known)]
       /\ session = IF known = 0 THEN NoSession ELSE Started
       /\ client = [c \in Clients |->
            Loop(IF known = 0 THEN Before("start") ELSE Told("lease_issued", Started))]
  /\ stored = {} /\ journal = None /\ errors = 0

-----------------------------------------------------------------------------
(* The loop *)

At(c, pc) == client[c].pc = pc
Last(c) == client[c].last
Goto(c, pc) == client' = [client EXCEPT ![c].pc = pc]
\* A steady client works alone.
Works(c) == steady \in {c, None}

Asking(c) == At(c, "ask") /\ Works(c) /\ client[c].steps < budget[c]

Return(c) ==
  /\ Asking(c) /\ Last(c).action = "complete"
  /\ Goto(c, "returned")
  /\ UNCHANGED <<session, stored, journal, budget, steady, errors>>

ExceedSteps(c) ==
  /\ At(c, "ask") /\ Works(c) /\ client[c].steps >= budget[c]
  /\ Goto(c, "raised")
  /\ UNCHANGED <<session, stored, journal, budget, steady, errors>>

(* assemble_tool_stream: a stream is what its checks can tell of it.        *)
Streams ==
  [events : {"well_formed", "malformed"}, finish : {"none", "tool_calls", "length"},
   text : BOOLEAN, calls : 0 .. 2, tool : {"expected", "other"},
   arguments : {"object", "partial"}]

ProtocolCode(s) ==
  IF s.events = "malformed" THEN "MALFORMED_STREAM_EVENT"
  ELSE IF s.finish = "none" THEN "NO_FINISH_REASON"
  ELSE IF s.finish # "tool_calls" THEN "INVALID_FINISH_REASON"
  ELSE IF s.text THEN "TEXT_WITH_TOOL_CALL"
  ELSE IF s.calls # 1 THEN "INVALID_TOOL_CALL_COUNT"
  ELSE IF s.tool # "expected" THEN "UNEXPECTED_TOOL"
  ELSE IF s.arguments # "object" THEN "MALFORMED_TOOL_ARGUMENTS"
  ELSE "none"

\* The codes a step of the loop can end in; a model may also time out.
Codes == {ProtocolCode(s) : s \in Streams} \cup {"TRANSPORT_TIMEOUT"}

\* The failure is recorded against the lease of the last reply, if that is
\* still the active one and has a retry left; otherwise the loop raises.
CanRetry(c) ==
  /\ Last(c).lease # None /\ session.lease # None
  /\ session.lease.id = Last(c).lease
  /\ session.lease.retry < MaxRetries

Continue(c, reply) ==
  [client[c] EXCEPT !.pc = "ask", !.last = reply, !.steps = @ + 1]

Retried(lease) == [lease EXCEPT !.retry = @ + 1]

TransportFailure(c, code) ==
  /\ Asking(c) /\ Last(c).action # "complete" /\ steady # c
  /\ code # "none"
  /\ IF CanRetry(c)
     THEN /\ session' = [session EXCEPT !.lease = Retried(session.lease)]
          /\ client' = [client EXCEPT ![c] = Continue(c, Told("retryable", session'))]
     ELSE Goto(c, "raised") /\ UNCHANGED session
  /\ UNCHANGED <<stored, journal, budget, steady, errors>>

Tools == {"start", "submit_chunk", "sync", "finalize"}
AllBodies == {"unit", "part", "refused", "unparsed", "echo", "zero"}

\* What a complete call asks for.  A chunk completes a unit, or fills a part
\* of one, or is turned down; a sync quotes the version it was told, or 0.
Bodies(c) ==
  CASE Last(c).action = "submit_chunk" -> {"unit", "part", "refused", "unparsed"}
    [] Last(c).action = "sync" /\ Last(c).version < 0 -> {"echo", "zero"}
    [] OTHER -> {"echo"}

CallOf(c, body) == [tool |-> Last(c).action, version |-> Last(c).version,
                    lease |-> Last(c).lease, body |-> body]

\* parse_tool_call takes no negative version.
Parses(call) ==
  /\ call.body # "unparsed"
  /\ ~(call.tool = "sync" /\ call.body = "echo" /\ call.version < 0)

\* The model answers with one complete call of the tool it was told to use.
Calls(c, tool, body) ==
  /\ Asking(c) /\ Last(c).action = tool
  /\ body \in Bodies(c)
  /\ steady = c => Parses(CallOf(c, body)) /\ body \notin {"part", "refused"}

\* The reply to a call arrives.  The same call three times without more units
\* completed than the reply before it said ends the loop.
Received(c, call, reply) ==
  LET same == IF reply.done > Last(c).done THEN 0
              ELSE IF call = client[c].seen THEN client[c].same + 1 ELSE 1
      after == [client[c] EXCEPT !.seen = IF same = 0 THEN None ELSE call,
                                 !.same = same, !.call = None, !.read = None]
  IN  IF same >= MaxIdentical THEN [after EXCEPT !.pc = "raised"]
      ELSE [after EXCEPT !.pc = "ask", !.last = reply, !.steps = @ + 1]

Receive(c, call, reply) == client' = [client EXCEPT ![c] = Received(c, call, reply)]

\* A call that takes more than one step is under way.
Calling(c, pc, body, read) ==
  [client[c] EXCEPT !.pc = pc, !.call = CallOf(c, body), !.read = read]
Finalizing(c, body) ==
  client' = [client EXCEPT ![c] = Calling(c, "finalizing", body, None)]

-----------------------------------------------------------------------------
(* The handler and the service *)

InvalidCall(c, body) ==
  /\ \E tool \in {"submit_chunk", "sync"} : Calls(c, tool, body)
  /\ ~Parses(CallOf(c, body))
  /\ Receive(c, CallOf(c, body), ErrorReply)
  /\ UNCHANGED <<session, stored, journal, budget, steady, errors>>

\* A transaction that raises is rolled back.
ServiceRaises(c, body) ==
  /\ \E tool \in Tools : Calls(c, tool, body)
  /\ Parses(CallOf(c, body)) /\ steady # c
  /\ errors < MaxErrors
  /\ errors' = errors + 1
  /\ Receive(c, CallOf(c, body), ErrorReply)
  /\ UNCHANGED <<session, stored, journal, budget, steady>>

\* start, with the key of the session: a second one gets the first reply.
Start(c) ==
  /\ Calls(c, "start", "echo")
  /\ session' = IF session.state = "NONE" THEN Started ELSE session
  /\ Receive(c, CallOf(c, "echo"), Told("lease_issued", Started))
  /\ UNCHANGED <<stored, journal, budget, steady, errors>>

\* _current_result answers a sync, a chunk that is turned down before its
\* transaction, and a finalize that meets the journal of another.  It reads
\* the session, then its lease, then the coverage.
ReadSession(c, body) ==
  /\ \/ Calls(c, "sync", body) /\ Parses(CallOf(c, body))
     \/ Calls(c, "submit_chunk", body) /\ body = "refused"
     \/ /\ Calls(c, "finalize", body) /\ Unlocked
        /\ ~IsStored(Key(c)) /\ journal \notin {None, Key(c)}
  /\ client' = [client EXCEPT ![c] = Calling(c, "lease", body, session)]
  /\ UNCHANGED <<session, stored, journal, budget, steady, errors>>

ReadLease(c) ==
  /\ At(c, "lease")
  /\ client' = [client EXCEPT ![c] =
       [client[c] EXCEPT !.pc = "coverage",
                         !.read = [client[c].read EXCEPT !.lease = session.lease]]]
  /\ UNCHANGED <<session, stored, journal, budget, steady, errors>>

ReadCoverage(c) ==
  /\ At(c, "coverage")
  /\ Receive(c, client[c].call,
             Told("current", [client[c].read EXCEPT !.done = session.done]))
  /\ UNCHANGED <<session, stored, journal, budget, steady, errors>>

\* Mutant: the version of the call is not looked at.
NeverStale(c) == FALSE
Stale(c) == session.version # Last(c).version

HoldsLease(c) == session.lease # None /\ session.lease.id = Last(c).lease

Chunk(body) ==
  LET done == IF body = "unit" THEN session.done + 1 ELSE session.done
  IN  Collected(session.version + 1, done, session.repairs)

\* A chunk is answered from the table if its key is there, turned down if it
\* quotes another version or lease, and accepted otherwise.
Submit(c, body) ==
  /\ Calls(c, "submit_chunk", body) /\ body \in {"unit", "part"}
  /\ \/ /\ IsStored(Key(c))
        /\ Receive(c, CallOf(c, body), StoredReply(Key(c)))
        /\ UNCHANGED <<session, stored>>
     \/ /\ ~IsStored(Key(c)) /\ Stale(c)
        /\ Receive(c, CallOf(c, body), Told("sync_required", session))
        /\ UNCHANGED <<session, stored>>
     \/ /\ ~IsStored(Key(c)) /\ ~Stale(c) /\ ~HoldsLease(c)
        /\ Receive(c, CallOf(c, body), Told("rejected", session))
        /\ UNCHANGED <<session, stored>>
     \/ /\ ~IsStored(Key(c)) /\ ~Stale(c) /\ HoldsLease(c)
        /\ session' = Chunk(body)
        /\ stored' = stored \cup {[key |-> Key(c), reply |-> Told("accepted", session')]}
        /\ Receive(c, CallOf(c, body), Told("accepted", session'))
  /\ UNCHANGED <<journal, budget, steady, errors>>

\* A finalize that is stale, or finds the session unready, leaves no journal;
\* its reply names no lease.
TurnedDown(c) ==
  Reply(IF Stale(c) THEN "sync_required" ELSE "rejected", session, None, FALSE)

\* A session this call has already moved on is recognised by its version.
Resumes(c) == session.state = "ASSEMBLING" /\ session.version = Last(c).version + 1
Begins(c) == session.state = "READY" /\ ~Stale(c)

\* The journal once the call of this loop has removed its own.
Tidied(c) == IF journal = Key(c) THEN None ELSE journal

\* A result that is stored is handed out again, and a journal it left removed.
FinalizeBegin(c, body) ==
  /\ Calls(c, "finalize", body) /\ Unlocked
  /\ \/ /\ IsStored(Key(c))
        /\ Receive(c, CallOf(c, body), StoredReply(Key(c)))
        /\ journal' = Tidied(c) /\ UNCHANGED session
     \/ /\ ~IsStored(Key(c)) /\ journal \in {None, Key(c)} /\ Resumes(c)
        /\ Finalizing(c, body) /\ journal' = Key(c)
        /\ UNCHANGED session
     \/ /\ ~IsStored(Key(c)) /\ journal \in {None, Key(c)} /\ Begins(c)
        /\ session' = [session EXCEPT !.state = "ASSEMBLING", !.version = @ + 1]
        /\ Finalizing(c, body) /\ journal' = Key(c)
     \/ /\ ~IsStored(Key(c)) /\ journal \in {None, Key(c)} /\ ~Resumes(c) /\ ~Begins(c)
        /\ Receive(c, CallOf(c, body), TurnedDown(c)) /\ journal' = None
        /\ UNCHANGED session
  /\ UNCHANGED <<stored, budget, steady, errors>>

\* The session moves and the result is stored under the key of the call; the
\* journal is still there and the caller has no reply yet.
Commit(c, reply, pc) ==
  /\ stored' = stored \cup {[key |-> Key(c), reply |-> reply]}
  /\ Goto(c, pc)
  /\ UNCHANGED <<journal, budget, steady, errors>>

\* Mutant: the reply of a completed finalize is one of the session alone.
CompleteReplySession(s) == Told("complete", s)
CompleteReply(s) == Reply("complete", s, None, TRUE)

\* Accepted: the session was validating before it is complete.
FinalizeCompletes(c) ==
  /\ At(c, "finalizing")
  /\ session' = [session EXCEPT !.state = "COMPLETE", !.version = @ + 2]
  /\ Commit(c, CompleteReply(session'), "tidying")

\* The target guard failed.
FinalizeFails(c) ==
  /\ At(c, "finalizing") /\ steady # c
  /\ session' = [session EXCEPT !.state = "FAILED", !.version = @ + 2]
  /\ Commit(c, Told("failed", session'), "tidying")

\* Sent back: validating, repairing, and collecting again under a lease that
\* is numbered by the version before it.
FinalizeRepairs(c) ==
  /\ At(c, "finalizing") /\ session.repairs < MaxRepairRounds
  /\ \E reopened \in 1 .. session.done :
       session' = [state |-> "COLLECTING", version |-> session.version + 3,
                   done |-> session.done - reopened, repairs |-> session.repairs + 1,
                   lease |-> [id |-> session.version + 3, retry |-> 0]]
  /\ Commit(c, Told("lease_issued", session'), "routed")

\* No round is left, or the findings can be traced to no record.
RoutingFails(c) ==
  /\ At(c, "finalizing") /\ steady # c
  /\ session' = [session EXCEPT !.state = "FAILED", !.version = @ + 3]
  /\ Commit(c, Told("failed", session'), "routed")

\* The files of the call are removed, its journal last, and the reply arrives.
FinalizeReplies(c) ==
  /\ At(c, "tidying")
  /\ journal' = Tidied(c)
  /\ Receive(c, client[c].call, StoredReply(Key(c)))
  /\ UNCHANGED <<session, stored, budget, steady, errors>>

\* finish_repair_routing takes the lock again.  It raises on the journal of
\* another call, unless that one is being repaired as well (ReportLifecycle's
\* RoutingRace): then it removes it.
FinishRouting(c) ==
  /\ At(c, "routed") /\ Unlocked
  /\ \/ /\ journal \in {None, Key(c)} \/ session.state # "COMPLETE"
        /\ journal' = None
        /\ Receive(c, client[c].call, StoredReply(Key(c)))
     \/ /\ journal \notin {None, Key(c)}
        /\ Receive(c, client[c].call, ErrorReply)
        /\ UNCHANGED journal
  /\ UNCHANGED <<session, stored, budget, steady, errors>>

\* What a call that is cut short leaves of its journal.
Leftover(c) == IF At(c, "finalizing") THEN {journal} ELSE {journal, Tidied(c)}

\* Finalize raises before its commit, or after it: the model is told nothing.
FinalizeRaises(c) ==
  /\ client[c].pc \in Locked \cup {"routed"} /\ steady # c /\ errors < MaxErrors
  /\ errors' = errors + 1 /\ journal' \in Leftover(c)
  /\ Receive(c, client[c].call, ErrorReply)
  /\ UNCHANGED <<session, stored, budget, steady>>

\* The process of the loop stops; whoever waits for the lock gets it.
Stop(c) ==
  /\ client[c].pc \in Locked \cup {"routed"} /\ steady # c
  /\ journal' \in Leftover(c)
  /\ Goto(c, "stopped")
  /\ UNCHANGED <<session, stored, budget, steady, errors>>

-----------------------------------------------------------------------------
Step(c) ==
  \/ Return(c) \/ ExceedSteps(c)
  \/ \E code \in Codes : TransportFailure(c, code)
  \/ \E body \in Bodies(c) :
       \/ InvalidCall(c, body) \/ ServiceRaises(c, body)
       \/ ReadSession(c, body) \/ Submit(c, body) \/ FinalizeBegin(c, body)
  \/ Start(c) \/ ReadLease(c) \/ ReadCoverage(c)
  \/ FinalizeCompletes(c) \/ FinalizeFails(c) \/ FinalizeRepairs(c) \/ RoutingFails(c)
  \/ FinalizeReplies(c) \/ FinishRouting(c) \/ FinalizeRaises(c) \/ Stop(c)

Next == \E c \in Clients : Step(c)

\* A loop with a model that answers goes on; any other may be stopped.
Spec == Init /\ [][Next]_vars /\ WF_vars(steady # None /\ Next)

-----------------------------------------------------------------------------
Actions == Tools \cup {"complete"}
Versions == Nat \cup {-1}
LeaseIds == Nat \cup {None}
Replies == [action : Actions, version : Versions, lease : LeaseIds,
            done : 0 .. Units, artifact : BOOLEAN]
CallKeys == [tool : Tools, version : Versions, lease : LeaseIds]
ToolCalls == [tool : Tools, version : Versions, lease : LeaseIds, body : AllBodies]
Leases == [id : Nat, retry : 0 .. MaxRetries]
Rows == [state : {"NONE", "COLLECTING", "READY", "ASSEMBLING", "COMPLETE", "FAILED"},
         version : Versions, done : 0 .. Units, lease : Leases \cup {None},
         repairs : 0 .. MaxRepairRounds]
Places == {"ask", "lease", "coverage", "finalizing", "tidying", "routed",
           "returned", "raised", "stopped"}
Loops == [pc : Places,
          last : Replies, call : ToolCalls \cup {None}, seen : ToolCalls \cup {None},
          same : 0 .. MaxIdentical, steps : Nat, read : Rows \cup {None}]

ASSUME SentinelAssumption == None \notin ToolCalls \cup Leases \cup Rows

\* The variables keep their types, the session's lease is open exactly while
\* it collects, keys are answered once, and one call at most has the lock.
TypeOK ==
  /\ session \in Rows
  /\ (session.lease # None) <=> (session.state = "COLLECTING")
  /\ stored \subseteq [key : CallKeys, reply : Replies]
  /\ \A e, f \in stored : e.key = f.key => e = f
  /\ client \in [Clients -> Loops]
  /\ \A c \in Clients : client[c].steps <= budget[c]
  /\ Cardinality({c \in Clients : client[c].pc \in Locked}) <= 1

\* Whatever changes the document or begins a finalize was asked for by a reply
\* that is true of the session at that moment: version, lease and coverage.
\* Replies put together from several reads, replies stored for a key and
\* replies overtaken by another loop cost a call, never an update.
ActsOnWhatItWasTold ==
  [][\A c \in Clients :
       /\ At(c, "ask") /\ client'[c] # client[c]
       /\ session.state # "NONE" /\ session'.version # session.version
       => /\ Last(c).version = session.version
          /\ Last(c).done = session.done
          /\ Last(c).lease = IF session.lease = None THEN None ELSE session.lease.id]_vars

\* A loop that returns, returns for a session that is complete.
ReturnedIsComplete ==
  \A c \in Clients : At(c, "returned") => session.state = "COMPLETE"

\* The report of a complete session can be had, even if the finalize that
\* completed it was cut short after its commit or its loop gave up: repeating
\* that call yields the reply that carries the report, and no other reply does.
ArtifactIsKept ==
  session.state = "COMPLETE" =>
    \E e \in stored :
      /\ e.key.tool = "finalize" /\ e.reply.action = "complete"
      /\ e.reply.artifact /\ e.reply.version = session.version
      /\ \A c \in Clients : Last(c).artifact => Last(c) = e.reply

\* A loop with a model that answers well returns the report, repairs included,
\* if it was given steps for the start, every unit, a finalize after each
\* round and the return.
StepsNeeded == 1 + Units + MaxRepairRounds * (Units + 1) + 2
SteadyLoopsReturnReport ==
  \A c \in Clients :
    steady = c /\ budget[c] >= StepsNeeded ~> At(c, "returned") /\ Last(c).artifact
=============================================================================
