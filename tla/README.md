# A TLA+ model of analyze-repo-for-kubernetes

The repository is a plugin that lets a language model analyse a source tree and
write a report. Most of it is text processing; its core is a small transactional
system: a **report session** kept in SQLite, filled chunk by chunk by a client
that may repeat, delay or lose its calls, and a **finalize** that turns the
collected document into a file a user reads, across crashes. Around it stand the
loop that drives a model through a session, the preparation of a workspace, the
cached scan of the source and the subprocess that validates a report. These are
modelled and checked with TLC, and each has proofs checked with TLAPS: of its types,
and of its safety properties.

Paths below are relative to `src/`.

## 1. Inventory

| Part | State | Operations | Talks to |
|---|---|---|---|
| session store `scripts/report_session_store.py` | SQLite tables: sessions, subjects, claims, relationships, leases, chunk_results, start_results, work_units, finalize_results, audit_events | `transact` (BEGIN IMMEDIATE … COMMIT), `load` | called by the service and the lifecycle |
| session service `report_session_service.py` | none of its own | `start`, `submit`, `sync`, `record_transport_failure`, `route_repair_diagnostics`, `finalize` | store, planner, work units, lifecycle |
| lease planner `report_lease_planner.py` | none (pure) | `issue_or_resume`, `record_transport_failure`, `record_success` | service |
| work units `report_work_units.py` | none (pure) | `build_work_units`, `calculate_coverage`, `diagnostics_to_repair_units` | service |
| records `report_records.py` | none (pure) | parse and validate a payload | service |
| lifecycle `report_lifecycle.py` | `finalize-journal.json`, `finalize.lock`, the canonical report, a candidate and a previous file per session | `finalize` (`_finalize`, `_resume`, `_terminal_failure`), `finish_repair_routing` | store, target guard (subprocess), validator |
| tool handler and commands `report_tool_handler.py`, `report_tool_commands.py`, `report_tool_schemas.py` | none | parse a call, dispatch it, build the reply and its `next_action` | service |
| orchestrator `report_orchestrator.py`, `report_model_protocol.py` | the last reply, a count of identical payloads | the client loop; assembling a streamed call | model, handler, service |
| MCP server `mcp/report_tool_server.py` | handshake phase | JSON-RPC requests | handler |
| bounded subprocess `bounded_subprocess.py` | two reader threads, a shared byte count | `run` with output limit and timeout | lifecycle |
| evidence `repository_evidence.py`, `repository_inventory.py`, `runtime_signal_extractors.py`, `compact_repository_evidence.py` | evidence cache on disk | collect, cache `get`/`put` | files |
| intake `prepare_analysis_target.py`, `source_intake.py`, `source_archive.py`, the clone helpers | prepared workspace, `target.json` | prepare, clone, unpack | git, files |
| target gate `codex_target_gate_hook.py` | gate state in a cache directory | hook events | the agent |
| rendering and validation | none (pure) | render, validate, resolve diagnostics | lifecycle |
| evaluation and packaging tools | none | run the program, check the package | – |

### What is hard here

* **Delivery.** A client repeats a call whose reply it lost, sends a chunk twice
  under two keys, or sends it after the session has moved on. Idempotency keys,
  the lease id and `state_version` are what the service has against that.
* **Long sequences.** Partial chunks, shrunken leases, rejection and repair in any
  mixture decide which records exist, which lease is open and whether READY is
  true. Lease ids are derived from the version in two different ways.
* **Crashes.** A finalize writes a journal, three files and the rows in separate
  steps. Every step can be the last one of its process.
* **Concurrency.** Several processes serve one workspace. Finalize holds a file
  lock, but routing the diagnostics of a rejected candidate runs outside it and
  takes it again.
* **A moving environment.** `target.json` may change between or during calls, and
  the source a scan reads may be edited under it, between two reads of one file.
* **Two ideas of complete.** Coverage decides READY, the renderer what a document
  needs, the validator what a report may say. A repair must undo exactly what the
  last of these finds.
* **Threads.** The caller of a bounded subprocess, two readers, a child, its
  descendants and a clock end in any order.

### What makes each part correct

* session: the lease table's keys, an open lease exactly while collecting, READY
  only when every entry is recorded, leases that ask only for what is missing,
  one chunk per lease, versions that count changes, a document that does not
  change under a report.
* lifecycle: the user always finds the last promised report; COMPLETE means the
  file rendered from the session's document; a pending finalize can be resumed, and
  a call that resumes it brings it to an end; final verdicts stay.
* repair: what an accepted report says is backed; a repair removes what is at
  fault and nothing else; a client that repairs what it is told gets its report.
* client: no update is made on a reply that is no longer true; a loop that returns
  has a complete session; the report of a complete session can still be had; a model
  that answers well gets its report within the limits.
* subprocess: `run` returns, and a verdict is one the child gave.
* evidence cache: a cached scan says what a clean one would.
* intake: a workspace with a checkpoint is whole and answers its request.

## 2. Modules

| Module | Models | Kind |
|---|---|---|
| `SessionProtocol` | the states of a session, the moves between them, whether a lease is open | abstract specification |
| `ReportSession` | one session's tables and every transaction on them | detailed; implements `SessionProtocol` |
| `ReportLifecycle` | finalize, its files, lock and journal, for several processes and sessions | detailed; each session implements `SessionProtocol` |
| `ReportRepair` | from records to an accepted report: coverage, rendering, validation, tracing of findings, repair | detailed in the records, finalize in one step |
| `ReportClient` | the tool loop, the stream protocol, the handler's replies and the service behind them | composition: client and service |
| `BoundedSubprocess` | one call of `bounded_subprocess.run`: threads, child, deadline | detailed |
| `EvidenceCache` | scans that share a cache while files change | detailed |
| `PrepareTarget` | the preparation and resumption of a workspace | detailed |
| `MCReportSession`, `MCReportLifecycle`, `MCReportRepair`, `MCReportClient`, `MCEvidenceCache`, `MCPrepareTarget` | – | values for TLC |
| `ReportSessionProofs`, `ReportLifecycleProofs`, `ReportLifecycleMoves`, `ReportRepairProofs`, `ReportClientProofs`, `BoundedSubprocessProofs`, `EvidenceCacheProofs`, `PrepareTargetProofs` | – | theorems |

The modules meet where one takes another's result for granted, and each keeps only
what its own questions need of its neighbours:

* `ReportSession` has finalize as its transactions; `ReportLifecycle` has the files
  and crash points between them and reduces the tables to state, version, a
  document number and whether a lease is open. Both implement `SessionProtocol`,
  so the moves each assumes of a session are moves the other makes.
* `ReportRepair` keeps the records themselves, which the first two do not look at.
* `ReportClient` keeps what a client can see: replies, stored replies, the journal's
  owner, and reduces the work units to a count.
* `ReportLifecycle` takes the target guard as passing, failing or unable to run;
  `BoundedSubprocess` shows what those outcomes are worth.
* `PrepareTarget` takes a scan as a step that names the content it read;
  `EvidenceCache` shows when that is true of a cached one.

### ReportSession

One action per transaction. `store.transact` opens `BEGIN IMMEDIATE`, so the
body of each operation is atomic and operations are serial; what interleaves is
the order of the transactions and the age of the commands.

| Variable | Code |
|---|---|
| `state`, `version` | `sessions.state`, `state_version` (`"NONE"` before the row exists) |
| `doc` | rows of claims and relationships: an id and the *slot* it fills |
| `unitStatus` | `work_units.status` |
| `leases` | rows of leases: number, entries, retries, status |
| `results` | rows of chunk_results: key, lease, version produced |
| `repairs` | the number of REPAIR_LEASE_ISSUED audit events |

A *slot* is a (subject, field) pair or a relationship edge; an *item* is an entry
some work unit requires, with the slot that covers it. Two units can require the
same slot (inventory and runtime both ask for `execution_form`), so items and
slots differ. Items are numbered in the order the planner walks them.

| Action | Code |
|---|---|
| `Start` | `service.start`; the initial payload may cover anything, also everything |
| `Submit` | `service.submit` with any key, lease and version up to the current one |
| `RecordTransportFailure` | `service.record_transport_failure` |
| `FinalizeBegin`, `CandidateRendered`, `CandidateRejected`, `FinalizeCompleted`, `FinalizeFailed` | the transactions of `report_lifecycle.py` |
| `RouteRepair`, `RouteRepairFailed` | `service.route_repair_diagnostics` when no lease is open |

A refused command changes nothing, so it is a stuttering step. Abstracted: the
texts of claims and evidence, the byte cap on a lease's arguments (a walk that
ends earlier than the capacity), the token budget (any capacity of the constant
`Capacities`), subject rows. A lease that has been used keeps only its id.

### ReportLifecycle

One action per write that outlives the process (the journal, a rename or unlink, a
transaction), or per read that decides on one: `LoadRendered` and `LoadRejected` read
the state that `MarkValidating` and `RejectCandidate` change in a transaction of their
own, without looking again. `proc[p].pc` says where a process is between two of them;
`Crash` can take it from anywhere, and stands as well for an error of the file system
or the database, which leaves the call with its lock released. A renderer that raises
is an action (`RenderRaises`, for the documents in `Unrenderable`): the journal stays.
`Crash` and `ChangeTarget` are the environment's and translate no lines. The session's rows are reduced to state, version, a
number for the document, whether a lease is open, and the repair count.
`published` is a history variable: the report the last completed finalize named
in its result. `request` records what a key stands for: a client that repeats a
call repeats its session and version too, as `_finalize` demands of the owner of
a journal. `TargetGuard` and `Validate` have either outcome.

One simplification: `unlink` and `rename` are atomic and durable at once (the code
calls `fsync` after them).

### ReportRepair

| Variable | Code |
|---|---|
| `state`, `rounds` | `sessions.state`; the number of REPAIR_LEASE_ISSUED events |
| `doc` | the rows of subjects, claims and relationships |
| `lease` | the entries the open lease asks for |
| `checked` | whether this session's client checks what it answers (chosen in `Init`) |

`Start`, `Submit` and `Finalize` are its actions. `Finalize` renders, validates and
either completes, repairs or fails: the order and the crash points are those of
`ReportLifecycle`. `Renderable` is what the renderer raises on, `Findings` what
the validator finds in the text and `resolve_report_diagnostics` makes of it,
`RepairWork` and `Repaired` what `route_repair_diagnostics` asks for and deletes.
A text is a class: an evidence reference is cited, missing, outside the file, a
`host:port` that reads like one (*endpoint*), not read as a reference, an absence
search or vague; a value is a verdict, forbidden or neither; a name is what its first
word becomes in a heading. `HasRoot` says whether `target.json` names an analysis root:
without one no reference is looked up. A finding on a card line is traced by the
heading (`TracedByName`) where the wording has one the code recognises, and by every
`file:line` it quotes (`TracedByReference`) where not: that is so for a line whose
status cannot be printed (`Unprintable`).

### ReportClient

| Variable | Code |
|---|---|
| `session` | the session's row, its active lease, the number of completed units |
| `stored` | chunk_results and finalize_results: key and reply |
| `journal` | the key of a finalize whose journal has not been removed |
| `client` | per loop: where it is, the last reply, the repeated call and its count, steps, what a reply's reads have found so far |
| `budget`, `steady` | `max_steps`, computed from the result the loop is given; which loop, if any, has a model that answers well |

One action per transaction the loop causes, and three (`ReadSession`, `ReadLease`,
`ReadCoverage`) for `_current_result`, which reads the session, its lease and the
coverage in separate transactions. `NextAction` is `_next_action`; `ErrorReply` the
empty envelope of an error; `Streams` and `ProtocolCode` what
`assemble_tool_stream` distinguishes, in the order of its checks. A retry key is
what `retry_key` hashes: tool, version and lease of the reply that is answered.

A finalize has a place between its begin, its commit and its reply. `FinalizeCompletes`
and `FinalizeFails` commit and stay under the lock (*tidying*) until `FinalizeReplies`;
`FinalizeRepairs` and `RoutingFails` commit without it (*routed*) until `FinishRouting`
has taken it again. In each of these places the call may raise, and the model gets the
error reply (`FinalizeRaises`), or its process stop (`Stop`), with the journal removed or
not. The versions between begin and commit are passed over: every reply in between asks
for a sync. The check of the target that precedes a finalize is left to
`ReportLifecycle`; here `target.json` does not change.

### BoundedSubprocess

Actions of the caller (`Poll…`, `Drain…`, `Join`, `Close`), of each reader thread
(`Read`, `Account`), of the clock, and, as external, of the child and its
descendants (`Write`, `Fork`, `Exit`, `Leave`). A descendant is in the child's
process group or an *outsider* in a session of its own. `stream.read(4096)` returns
at that many bytes or at the end of the pipe, and holds the buffer's lock until
then; `close()` needs that lock. Numbers of bytes stand for bytes.

### EvidenceCache

| Variable | Code |
|---|---|
| `disk`, `edits` | per file the content and its stat |
| `index`, `entries` | the cache's two kinds of file |
| `scan` | per scanner: place, file, snapshot records, what was found, the output |
| `unread`, `crossed`, `torn`, `damaged` | history, used only in properties |

`Disposition` is the inventory's classification (the order of the path's marks, then
the content), `HashFile` and `StatFile` the two reads of the snapshot, `ReadIndex` and
`ReadEntry` the two of `get`, `Extract` the third read of the file, `WriteEntry` and
`WriteIndex` the two writes of `put`, each a temporary file and a rename and so
atomic. `SnapshotFails` is a stat or read of the snapshot that ends in an error although
the file is there. A scan may `Crash`, also because an index it reads is not UTF-8, which
`get` does not catch; a cache file may be damaged or removed, a read or write fail. The
check of the size and the read that follows it are one step. Every edit gives a file a new stat: an edit that keeps size and `mtime_ns`
is outside the model, as it is outside what the cache can notice.

### PrepareTarget

| Variable | Code |
|---|---|
| `source`, `moves` | the current revision of a remote, a checkout, an archive path |
| `workspace` | the directory: what is in `repository`, the three artifacts, `target.json` |
| `call` | per call: place, request, revision resolved, evidence, answer |
| `removed`, `removals` | history of what a user has removed |

One action per file that is read or written on the way of `prepare`, and for a remote
`StartClone`, `Clone` and `Checkout`: a directory begun, filled, and moved to the revision
that was asked for, or to none. `Stop` ends a call with whatever is on disk. A user
removes artifacts of a prepared workspace, or a workspace no running call has taken;
calls answered before that are forgotten, since what they were told was true of another
directory.

## 3. Runs

`tlc -workers 2 -config <cfg> <module>`; the cfg has the run's name.

| Run | Module | Question |
|---|---|---|
| `ReportSession` | `MCReportSession` | Do the tables stay consistent under every order of commands, and do they follow the protocol? |
| `LifecycleCrash` | `MCReportLifecycle` | Do two crashes anywhere, with a target that changes and comes back and a document that cannot be rendered, lose a report or strand a session? Does a call that is served bring its finalize to an end? |
| `LifecycleRace` | `MCReportLifecycle` | Two processes and two sessions on one journal, lock and report: files, protocol and verdicts |
| `ReportRepair` | `MCReportRepair` | What is an accepted report worth, and does a repair remove what is wrong, and what else? |
| `ReportClient` | `MCReportClient` | Do two loops, with failed streams, torn replies, and errors and stops before and after a commit, update only what they have been told of? Is the report kept? Does a loop that works alone, with a model that answers well, return it? |
| `EvidenceCache` | `MCEvidenceCache` | Does a cached scan say what a clean one would? |
| `BoundedSubprocess` | `BoundedSubprocess` | Is the verdict the child's own, and does the call come back? |
| `PrepareTarget` | `MCPrepareTarget` | Is a workspace with a checkpoint whole, and the one that was asked for? |
| `FailedNotTerminal`, `RoutingRace` | `MCReportLifecycle` | disagreements 1 and 2 of section 6 |
| `ReadyUnrenderable` | `MCReportRepair` | disagreement 3 |
| `OverlappingScans` | `MCEvidenceCache` | disagreement 4 |

All properties hold in the first eight; each is also shown to fail for a mutant of
the code (listed in `PROJECT.json`; the mutated operators stand beside the
originals, marked *Mutant*).

### Bounds

`MCReportSession` has four work units with five items over four slots:
a slot shared by two units, a global unit whose field can be claimed for the wrong
subject, and a relationship. Three claim ids and one edge id allow up to four
records; two capacities let a lease be cut in the middle of a unit or take all;
one retry and one repair round reach both sides of each limit. Three keys bound
the accepted chunks to three: enough to collect, be rejected, repair and be
rejected again. The state space is finite: keys, retries and repairs bound every
way to raise the version but one, `FinalizeFailed`, which fires once per revival
by a chunk.

`ReportLifecycle` bounds crashes, changes of the target and edits of the document
by the constants `MaxCrashes`, `MaxTargetChanges`, `MaxEdits`, which appear only
in guards of the environment's actions. Two crashes allow a crash during recovery;
two changes allow the target to be put back; two keys allow a second call to meet
the first one's journal; two processes are what the lock and the late
`finish_repair_routing` need. One repair round reaches both the repaired and the
exhausted case. In `LifecycleCrash` the document of number 1, that of the session
after its first edit or repair, cannot be rendered, so that a session is met both ways.

`MCReportRepair` has one component, one dependency and one relationship, a field of
each kind of group, twelve claims a client may write (sound, missing, vague, a bad
verdict, a status that cannot be printed, forbidden text, a reference with a blank) and
five documents to start from, one at fault in every way that can be traced and one
with a sound claim that cites the line an unprintable one quotes. A chunk carries at most two
claims (`MaxChunkClaims`), so a field can be claimed twice; two repair rounds reach
a second repair and the limit.

`MCReportClient` has two units, one of which the payload of the start fills
(`Prefilled`), so that a session is partly filled, ready and reopened down to nothing. A loop that works alone has the real limits: 20 steps, four per unit,
three identical payloads, three retries, three repair rounds. When two work at
once each has only a few steps (`BusySteps`, 4 and 2) and one service error
(`MaxErrors`), enough for a reply torn between three reads, overtaken by the other
loop, and acted on, and for a finalize that is cut short after its commit and met
again by the other loop.

`MCEvidenceCache` has one file the scanner reads, which is edited, and one it must not
read; two contents, so that an edit can be taken back; two settings; three scans,
two at once, so that a third can see what two have left; one fault. More edits
only add stamps that are seen once. `OverlappingScans` needs no fault.

`BoundedSubprocess` has a limit of three bytes, reads of two and up to four bytes per
pipe: output below, at and above the limit, a chunk that crosses it in the middle,
and both pipes at the limit together. The code's 4096 differs in nothing a
comparison can see.

`MCPrepareTarget` has two calls on one path, five requests that cover the three methods
and differ in revision and subdirectory, an archive that is in turn a tree, several
directories and refused, two moves of the source and two removals.

**Deadlock** is not checked: a client may stop calling, and the bounds end every
behaviour.

**Symmetry** is used for ids, keys, processes, sessions, scanners, settings and
contents, which the specifications only compare; never in a run with liveness.

### Fairness

Safety properties assume none.

* `ReportLifecycle!FairSpec`: a process that is in a call goes on (weak fairness of
  its steps: it is a running thread of control). Nothing is assumed of clients: the
  tool loop is told to sync in ASSEMBLING, VALIDATING and REPAIRING, so nobody need
  repeat a finalize. The liveness properties are therefore about a call that is being
  served, its own first one or one that takes up the journal of a stopped one, and
  about the time until the next crash (`crashes = n`).
* `ReportRepair`: `WF_vars(checked /\ Next)`. A client that checks its records takes
  the step the last reply names for as long as the session moves: that is the loop
  of the orchestrator. Any other client may stop.
* `ReportClient`: `WF_vars(steady # None /\ Next)`. A loop whose model answers well
  goes on; a loop without such a model may be stopped anywhere.
* `BoundedSubprocess`: the caller, the readers and the clock are fair, being threads
  and time. The child and its descendants are not: they need never end or write.

## 4. Properties

`ReportSession`: `TypeOK`; `LeaseTableKeys`, `LeaseMatchesState`,
`FinalizedIsCovered`, `LeaseAsksForMissing`, `ChunksMatchLeases`,
`UnitStatusNotBehind` (invariants); `VersionCountsChanges`, `DocumentGuarded`
(action properties); `FollowsProtocol` (refinement).

The converse of `UnitStatusNotBehind` does not hold: a repair marks only the units
of the diagnostics PENDING, and a unit that shared a deleted claim stays COMPLETE
in the table until the next chunk. The coverage a client sees in that window is
too high by such units. READY is computed from the document, never from the
table, so nothing is finalized by it.

`ReportLifecycle`: `TypeOK` (which contains mutual exclusion);
`AtRestPublished`, `PromisedReportSurvives`, `CompleteMeansRendered`,
`InFlightIsRecoverable` (invariants); `VerdictsStand`, `SessionsFollowProtocol`
(actions, refinement). `JournalsAreSettled`, `FinalizeSettles` (liveness): a call that
holds the lock and owns the journal, whatever phase a stopped call has left it in,
removes it and brings the session out of ASSEMBLING, VALIDATING or REPAIRING, unless
it stops as well or ends in an exception that every repeat meets again (`GaveUp`: the
phase `target_binding_failed`, and a document the renderer raises on).

`ReportRepair`: `TypeOK`; `CompleteIsBacked` and `EdgesAreBacked` say what COMPLETE
means to a reader of the report, if the analysis root is known; `RepairIsLocal`,
`RepairRemovesFaults` what a repair may and must delete. `RepairIsLocal` excepts the
claims that cite a `file:line` an unprintable card line quotes (`CitesUnprintable`);
without the exception it is false of the code (section 6); `EndsComplete` that repairs are enough for a client
that checks its records. The first two name the records that *are* checked. Not
in them, because the code accepts them: references of the scope, and, in a detailed
report, the references of a relationship, whose row no check reads
(`EdgesAreBacked` is checked for the other mode).

`ReportClient`: `TypeOK`; `ActsOnWhatItWasTold`: a reply may be stale or torn, but
no transaction follows from one that is; `ReturnedIsComplete`;
`ArtifactIsKept`: only the reply of finalize carries the artifact, and it need not reach
any loop, but it is stored, so that the call which completed the session yields it when
it is repeated; `SteadyLoopsReturnReport` (liveness), for a loop with enough steps
(`StepsNeeded`, counted from the code's limits).

`EvidenceCache`: `TypeOK`; `IndexedEntryExists`; `CachedIsClean`, with two exceptions it
names: a file a read of which has failed, in the snapshot or later, and two scans that overlap when one of
them has read something else than it hashed. The second is disagreement 4.

`BoundedSubprocess`: `TypeOK` (which contains the limit); `VerdictIsTheChilds`;
`RunReturns`, unless an outsider holds a pipe.

`PrepareTarget`: `TypeOK` (which contains that one call at most is past `mkdir`);
`CheckpointIsWhole`, `AnswersItsRequest`. A checkout or archive that moves during
the preparation is excepted from the revision, and only from it.

## 5. Proofs

Each holds for every value of the constants that satisfies the named assumptions.

| Theorem | Property |
|---|---|
| **`ReportSessionProofs`** `TypeCorrect` | `TypeOK` |
| `LeaseKeysHold`, `LeaseMatchesStateHolds` | `LeaseTableKeys`, `LeaseMatchesState` |
| `FinalizedIsCoveredHolds`, `LeaseAsksForMissingHolds`, `UnitStatusHolds` | the coverage properties |
| `ChunksMatchLeasesHolds` | `ChunksMatchLeases` |
| `VersionCounts`, `DocumentIsGuarded` | `VersionCountsChanges`, `DocumentGuarded` |
| `Implements` | `FollowsProtocol` |
| **`ReportLifecycleProofs`** `Invariance` | the inductive invariant of `ReportLifecycle` |
| **`ReportLifecycleMoves`** `TypeCorrect`, `AtRestPublishedHolds`, `PromisedReportSurvivesHolds`, `CompleteMeansRenderedHolds` | `TypeOK`, `AtRestPublished`, `PromisedReportSurvives`, `CompleteMeansRendered` |
| `VerdictsStandHolds`, `SessionsFollowProtocolHolds` | `VerdictsStand`, `SessionsFollowProtocol` |
| `InFlightIsRecoverableHolds` | `InFlightIsRecoverable`, for one process |
| **`ReportRepairProofs`** `TypeCorrect`, `CompleteIsBackedHolds`, `EdgesAreBackedHolds` | `TypeOK`, `CompleteIsBacked`, `EdgesAreBacked` |
| `RepairIsLocalHolds`, `RepairRemovesFaultsHolds` | `RepairIsLocal`, `RepairRemovesFaults` |
| **`ReportClientProofs`** `TypeCorrect`, `ReturnedIsCompleteHolds`, `ArtifactIsKeptHolds`, `ActsOnWhatItWasToldHolds` | all safety properties of `ReportClient` |
| **`BoundedSubprocessProofs`** `TypeCorrect`, `VerdictIsTheChildsHolds` | `TypeOK`, `VerdictIsTheChilds` |
| **`EvidenceCacheProofs`** `TypeCorrect`, `IndexedEntryExistsHolds`, `CachedIsCleanHolds` | all three properties of `EvidenceCache` |
| **`PrepareTargetProofs`** `TypeCorrect`, `CheckpointIsWholeHolds`, `AnswersItsRequestHolds` | all three properties of `PrepareTarget` |

**ReportSession** (`SessionAssumption`: items are finitely many naturals, capacities are
positive, a lease may hold at least one relationship). The argument has layers, each
an inductive invariant relative to those below:

1. `TypeOK` is inductive by itself.
2. `LeaseInv`. That ids never repeat is not inductive: it needs to know how far ids
   run ahead of the version. `LeaseIdsBounded` says: no id exceeds `version + 1`,
   and with no lease open none exceeds `version`. A chunk issues `version + 2`; a
   repair issues `version + 1`, but only with no lease open. `FreshWhenNone` says
   that nothing exists before the session does. `LeaseMatchesState` is needed
   alongside: it is why no transaction leaves COLLECTING with a lease open.
3. `CoverageInv`, from the lemmas that planning and shrinking leave a nonempty
   subset of what they are given (the least element of a nonempty set of naturals
   is always selected) and that a repair makes missing what it leases.
4. `ChunkInv`, which adds that results carry versions already reached.

The action properties and the refinement follow from layers 1 and 2.

**ReportLifecycle** (`LifecycleAssumption`; `SentinelAssumption`: the value for *none* is no
process, key, session or document). None of the properties is inductive: the
report on disk is wrong for a moment in the middle of every finalize. The invariant
relates the places a report can be in to the journal and to where the holder of the
lock is.

* `JournalHolds`: what the phase the journal was last written with says of the canonical,
  the candidate and the previous file (`Filed`), of the state and the version of the
  session (`Placed`) and of a result that is stored already (`Judged`).
* `Places`: what a process has done by the place it is at. A place past the lock is
  held by one process only, so that its step meets little of what holds of the others.
  The places between a read and the transition it decides on (*mark*, *reject*) say that
  the state is still the one that was read: every other step that changes it is
  one of the lock's holder, a submission, which meets no lease, or a routing, which
  meets the state only after `RejectCandidate`.
* `AtRest` and `Leases`: what there is without a journal, and that a lease is open
  in COLLECTING, and elsewhere in FAILED only.

What a step has to show for the invariant depends on whose it is: of a call that has
its own journal (`OwnerStep`), of the holder of the lock (`HolderStep`), or of something
that changes a session without the lock, a submission or the routing of diagnostics
(`OutsideStep`). A crash keeps the files and the journal and drops the process. What the
next call then meets is `JournalHolds` and nothing else, which is why `CheckJournalKeeps`
needs no history: recovery goes by the phase.

`ReportLifecycleMoves` shows that every step moves each row as `SessionProtocol` allows
and never replaces a stored result. Two properties need more than the invariant,
of runs where something does not happen: `VerdictsStand` that target.json does not change
(`Unmoved`), `InFlightIsRecoverable` that there is one process (`Carried`: a session in
flight has the journal that goes on with it). With two it is false, by disagreement 2
of section 6.

**ReportRepair** (`RepairAssumption`: the fields of the snapshot have a group, the verdict
is one of readiness; `RecordAssumption`: claims are of known fields, no subject is
*Nobody*, the documents to start from are documents, a payload is finite). The invariant is
the types and that the document of a COMPLETE session was `Accepted`: it could be rendered,
and nothing was found in it. From *nothing found* the proof goes back to the records. A
claim that is not backed is on a card or among the references the validator looks up;
the finding there is traced to a subject, by the heading or by the reference, and
whatever that tracing comes to it is not empty, so that something would have been found.
Both properties suppose that the analysis root is known (`HasRoot`), and
`EdgesAreBacked` is proved for reports that are not `Detailed`, as in the run: the rows of
the detailed matrix are not looked up. `RepairIsLocal` needs `PlainNames`: a name is one word,
and of one subject. Without it a finding can be given to another subject, whose sound
claim the repair then deletes (section 6); the subjects of the run are plainly named.
With it a finding of a card line is of that line's own claim, by its heading, or, if
the line is unprintable, of the claims that cite what it quotes; every other finding
that removes a claim is of a reference that is faulty or of the verdict.

**ReportClient** (`ClientAssumption`: at least one unit, no more of them filled by the start
than there are, at least two identical payloads to give up; `SentinelAssumption`). The invariant is one idea said of everything that
may be acted on later: a reply never quotes a version beyond the session's, and one
that quotes the session's own version tells its coverage and, if it names a lease,
its lease. `ReplyFits` says it of the last reply of each loop and of every stored
reply, `ReadFits` of the first read of a reply that is being put together from
three. A torn reply may well describe a row that never was; but then its version is
behind, and the chunk or finalize it asks for is turned down as stale. What makes it
inductive is that a row only `Grows`: whatever changes coverage or lease also
raises the version, and COMPLETE is not left. `ArtifactIsKept` needs two more facts. A
complete row has among the stored replies one of a finalize with the report (`Kept`):
it enters in the same transaction, under a key that had no reply before (`Unanswered`,
in `LoopFits`), and stored replies are never replaced. And a reply that carries a report
is that of the row as it was completed (`IsReport`), so that there are no two.

**BoundedSubprocess** (`BoundsAssumption`). `VerdictIsTheChilds` speaks of the moment the
call has returned, so the invariant has to follow every byte there. Accounting: what
was taken off a pipe is kept or in a reader's hands unless the limit was reported.
A reader that is done has seen its pipe closed and empty, and both stay so. And by
where the caller is: a child that was killed was killed for a reason that the
result reports, and past draining either the readers are done or the time is up.

**EvidenceCache** (`CacheAssumption`; `SentinelAssumption`: the values for *absent* and
*broken* are no evidence, file record or index row). For `IndexedEntryExists` what is
inductive is that a scanner about to write an index has written the entry first, and
that no step but a damage takes an entry away. `CachedIsClean` has two reasons, one
for each way its premise can hold, and a part they share:

* `Faithful`: as long as no extraction has read other than what was hashed, every
  entry is what its key says, whoever wrote it.
* `Apart`: as long as scans have not overlapped, entries may be of anything, but an
  index row whose stamp is the file's leads to what the file holds. A scanner that
  writes an entry under a key that a row names already does not disturb that: the row
  is no newer than the scan's stat, and if it is as new as the file the file has not
  changed since, so that what the scanner has found is what the file holds. An edit
  gives a stamp that nothing has (`Dated`).
* `AllKnown`: of a file that is as it was when the scan began, what the two loops have
  recorded and said by where they are. `Least` is why the files that the second loop
  passes are those without a record.

**PrepareTarget** (`PrepareAssumption`; `SentinelAssumption` likewise). One inductive
invariant for all three properties: `Types`; `Sole`, that a call past `mkdir` is alone
there and the directory has no checkpoint, which is why nobody writes between its
artifacts; `Holds`, what each call has resolved, scanned and written by the step it
is at, and that its source has not moved unless it is marked so; `Whole`, that a
checkpoint once written keeps its artifacts.

Every invariant and action property of the passing runs is proved, `InFlightIsRecoverable`
for one process, with which `LifecycleCrash` runs. Liveness is only model-checked, the
prover does not treat it, nor `ENABLED`: `JournalsAreSettled`, `FinalizeSettles`, `EndsComplete`,
`SteadyLoopsReturnReport`, `RunReturns`.

## 6. Where the code and its word differ

Each with a run that shows it:

1. **FAILED is not terminal** (`FailedNotTerminal`). A finalize that finds the target
   changed fails the session in any state; a session that was collecting keeps its
   open lease, and the next chunk takes it back to COLLECTING or READY.
2. **Routing removes another call's journal** (`RoutingRace`).
   `_finish_repair_routing` compares session and phase, not the key.
3. **READY cannot always be rendered** (`ReadyUnrenderable`). Coverage asks for the
   relationships of the snapshot, the renderer for at least one. A repository
   without any is READY and raises at every finalize.
4. **Overlapping scans can poison the cache** (`OverlappingScans`). An entry does not
   carry the stat of the scan that wrote it; only the index does, and it may be
   another scan's.

Met on the way and described by a model, without a run of their own:

* A finalize of an old version under a changed target fails the session: the
  target is checked before the version.
* The journal phase `target_binding_failed` is written, but `_resume` does not know
  it, and a document that cannot be rendered stops every repeat at the same point:
  `JournalsAreSettled` and `FinalizeSettles` except both (`GaveUp`).
* Nothing repeats a finalize. A loop that meets its own interrupted one (ASSEMBLING) is
  told to sync until a limit ends it; a transport failure with no lease open raises at
  once. What recovery does is done by whoever makes the same call again.
* The artifact may reach no loop. COMPLETE is committed before the files are unlinked
  and the directory synced; if that raises, the model gets an error, the sync that
  follows says `complete`, and the loop returns an empty artifact. The same happens to
  a completing call that is the third identical one, which the loop drops. The result
  is stored, and only the same finalize call gets it out (`ArtifactIsKept`).
* An error after routing has committed leaves a `validation_failed` journal. The session
  collects again, but every later finalize is turned down until the old one is repeated.
* A repair spreads along a quoted line. The validator's finding on a card line of status
  `not_applicable` reads `…의 속성이 key: value …` (`validate_report.py:315`); the pattern
  that takes subject and field from it wants a blank after `속성`
  (`report_diagnostics.py:27-31`). It is traced by the `file:line` it quotes instead, and
  takes every claim and relationship that cites that line with it: `RepairIsLocal` excepts
  them (`CitesUnprintable`).
* A readiness claim that cites a missing file is traced to no unit: the session
  fails with repair rounds left. A status `not_applicable` is refused by the
  validator, though the records allow it. If `target.json` names no analysis root, no
  reference is looked up at all. A card's finding is traced by its heading
  up to the first blank: two components whose names begin alike share it, or none
  has it. A cited path with a blank is read as another path. References of the
  scope, and of relationships in a detailed report, are not checked.
* A read that fails is cached as an empty list until the file is edited. An index file
  that is not UTF-8 ends every scan that asks it.
* `close()` waits for a descendant that left the process group and keeps a pipe,
  beyond the timeout.
* A workspace that was prepared in part is refused by a fresh call, because it
  exists, and by `--resume`, because it has no checkpoint, though `SKILL.md` says to
  retry with `--resume`. `--revision` is ignored for a checkout and an archive. A
  resumed call does not look whether a checkout has moved since.

## 7. Not modelled

* **MCP tool server**: a loop that answers each message before it reads the next, with
  two flags that are only ever set. What its tools do is in `ReportClient`.
* **Target gate hook**: a phase and a source method, moved by patterns over texts.
* **Layout of the report, wording, the legacy contract, the command lines** of the
  renderer and the validator; **the extractors**, which are functions of a text;
  **the authenticated and the demo clone**, which hold no state between calls.
* **Evaluation and packaging tools**, which run the program and keep nothing.
* SQLite itself (serial transactions are assumed), git and the file system beyond
  atomic rename.

## 8. Plan

1. `LeasePlanner`: `issue_or_resume` as the walk it is, with the byte cap and
   `next_budget`, against the set definition used in `ReportSession`.
2. `TargetGate`: the hook's two cache directories, of which the first that can be read
   wins although the last state may be in the second.
