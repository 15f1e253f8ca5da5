------------------------- MODULE ReportClientProofs -------------------------
(***************************************************************************)
(* Proofs about ReportClient: the types of its variables, that a loop      *)
(* returns only for a complete session, that the reply with the report of  *)
(* a complete session is kept for the call that made it, and that no       *)
(* update is made on a reply that is no longer true.                       *)
(*                                                                         *)
(* Everything rests on one fact: a reply never runs ahead of the session,  *)
(* and one that quotes the session's own version tells its coverage and,   *)
(* if it names a lease, its lease.  The invariant says it of all that may  *)
(* be acted on later: the last reply of every loop, every stored reply,    *)
(* and the first read of a reply that is being put together.               *)
(*                                                                         *)
(* The predicates are of one row, one reply and one loop, not of the       *)
(* variables, so that a lemma about them serves both ends of a step.       *)
(***************************************************************************)
EXTENDS ReportClient, FiniteSetTheorems, TLAPS

-----------------------------------------------------------------------------
(* The invariant *)

\* The id of the lease a row has open.
LeaseId(s) == IF s.lease = None THEN None ELSE s.lease.id

\* A row: it has a lease while it collects, and then a unit left; version 0 is
\* that of the start, with its coverage and its lease.
RowFits(s) ==
  /\ s.state = "NONE" <=> s.version = -1
  /\ s.state = "NONE" => s.done = 0
  /\ s.state = "COLLECTING" <=> s.lease # None
  /\ s.state = "COLLECTING" => s.done < Units
  /\ s.version = 0 => s.done = Started.done /\ LeaseId(s) = LeaseId(Started)

\* The reply that carries the report is that of the row as it was completed.
IsReport(r, s) ==
  /\ s.state = "COMPLETE" /\ r.action = "complete"
  /\ r.version = s.version /\ r.done = s.done /\ r.lease = None

\* A reply against the row as it is now.
ReplyFits(r, s) ==
  /\ r.version <= s.version
  /\ r.version = s.version => r.done = s.done /\ r.lease \in {None, LeaseId(s)}
  /\ r.action = "complete" => s.state = "COMPLETE"
  /\ r.artifact => IsReport(r, s)

\* A first read, of a reply still to be put together.
ReadFits(q, s) ==
  /\ q.version <= s.version
  /\ q.version = s.version => LeaseId(q) = LeaseId(s)
  /\ q.state = "COMPLETE" => s.state = "COMPLETE"

Answers == [key : CallKeys, reply : Replies]
\* The tables of stored replies.
StoredFits(t, s) ==
  /\ t \subseteq Answers
  /\ \A e, f \in t : e.key = f.key => e = f
  /\ \A e \in t : ReplyFits(e.reply, s)

\* The finalize that completed the row has its reply among them.
Kept(t, s) ==
  s.state = "COMPLETE" => \E e \in t : e.key.tool = "finalize" /\ e.reply.artifact

UnderWay == {"lease", "coverage", "finalizing", "tidying", "routed"}
Committed == {"tidying", "routed"}
KeyOf(l) == [tool |-> l.last.action, version |-> l.last.version, lease |-> l.last.lease]
Unanswered(l, t) == \A e \in t : e.key # KeyOf(l)

\* A loop.  The key of a finalize has no stored reply before its commit and one
\* after it.
LoopFits(l, b, s, t) ==
  /\ ReplyFits(l.last, s) /\ l.steps <= b
  /\ l.pc # "raised" => l.same < MaxIdentical
  /\ l.pc = "returned" => l.last.action = "complete"
  /\ l.pc \in UnderWay =>
       l.steps < b /\ l.call \in ToolCalls /\ l.call.tool = l.last.action
  /\ l.pc \in {"lease", "coverage"} => l.read \in Rows /\ ReadFits(l.read, s)
  /\ l.pc = "finalizing" =>
       l.call.tool = "finalize" /\ s.state = "ASSEMBLING" /\ Unanswered(l, t)
  /\ l.pc \in Committed => l.call.tool = "finalize" /\ ~Unanswered(l, t)

Types ==
  /\ session \in Rows /\ client \in [Clients -> Loops] /\ budget \in [Clients -> Nat]

IInv ==
  /\ Types /\ RowFits(session) /\ StoredFits(stored, session) /\ Kept(stored, session)
  /\ \A c \in Clients : LoopFits(client[c], budget[c], session, stored)
  /\ \A c, d \in Clients :
       client[c].pc \in Locked /\ client[d].pc \in Locked => c = d

\* What a step does to the session's row.  A complete one is left alone.
Grows(s, n) ==
  /\ n \in Rows /\ RowFits(n)
  /\ s.version <= n.version
  /\ n.version = s.version => n.done = s.done /\ LeaseId(n) = LeaseId(s)
  /\ s.state = "COMPLETE" => n = s

-----------------------------------------------------------------------------
(* Replies and rows *)

\* What the action of a reply says of the state it was made from.
LEMMA NextActionIs ==
  ASSUME NEW status, NEW st, NEW l
  PROVE /\ NextAction(status, st, l) \in Actions
        /\ NextAction(status, st, l) = "complete" => st = "COMPLETE"
        /\ NextAction(status, st, l) = "finalize" =>
             st = "READY" /\ status # "sync_required"
        /\ NextAction(status, st, l) = "submit_chunk" => l # None
        /\ status # "sync_required" /\ st = "COMPLETE" =>
             NextAction(status, st, l) = "complete"
BY DEF NextAction, Actions, Tools

\* r is the reply Told puts together from the row s.
IsTold(r, status, s) ==
  /\ r \in Replies /\ ReplyFits(r, s) /\ r.artifact = FALSE
  /\ r.action = NextAction(status, s.state, s.lease)
  /\ r.version = s.version /\ r.done = s.done /\ r.lease = LeaseId(s)

\* A reply made from one reading of the row fits that row.
LEMMA ToldIs ==
  ASSUME NEW status, NEW s \in Rows
  PROVE IsTold(Told(status, s), status, s)
<1> DEFINE r == Told(status, s)
<1>1. s.lease \in Leases \cup {None} /\ s.version \in Versions
  BY DEF Rows
<1>2. r = Reply(status, s, s.lease, FALSE) /\ FALSE \in BOOLEAN
  BY DEF Told
<1>3. /\ r \in Replies
      /\ r.version = s.version /\ r.done = s.done /\ r.artifact = FALSE
      /\ r.lease = LeaseId(s) /\ r.action = NextAction(status, s.state, s.lease)
  <2>1. NextAction(status, s.state, s.lease) \in Actions
    BY NextActionIs
  <2>2. LeaseId(s) \in LeaseIds
    BY <1>1, SentinelAssumption DEF LeaseId, LeaseIds, Leases
  <2> QED BY <1>2, <2>1, <2>2 DEF Reply, Replies, Rows, LeaseId
<1>4. s.version <= s.version
  BY <1>1 DEF Versions
<1>5. NextAction(status, s.state, s.lease) = "complete" => s.state = "COMPLETE"
  BY NextActionIs
<1> HIDE DEF r
<1>6. IsTold(r, status, s)
  BY <1>3, <1>4, <1>5 DEF ReplyFits, IsTold
<1> QED BY <1>6 DEF r

\* The empty envelope fits every row: it quotes no version.
LEMMA ErrorReplyIs ==
  ASSUME NEW s \in Rows, RowFits(s)
  PROVE /\ ErrorReply \in Replies /\ ReplyFits(ErrorReply, s)
        /\ ErrorReply.action = "sync" /\ ErrorReply.artifact = FALSE
<1>1. ErrorReply \in Replies
  BY ClientAssumption DEF ErrorReply, Replies, Actions, Tools, Versions, LeaseIds
<1> QED BY <1>1 DEF ErrorReply, ReplyFits, RowFits, LeaseId, Rows, Versions

\* A reply that fits a row fits what the row grows into: versions only go up.
LEMMA ReplyKeeps ==
  ASSUME NEW s \in Rows, NEW n, Grows(s, n), NEW r \in Replies, ReplyFits(r, s)
  PROVE ReplyFits(r, n)
BY DEF ReplyFits, IsReport, Grows, Rows, Replies, Versions

\* So does a first read that fits.
LEMMA ReadKeeps ==
  ASSUME NEW s \in Rows, NEW n, Grows(s, n), NEW q \in Rows, ReadFits(q, s)
  PROVE ReadFits(q, n)
BY DEF ReadFits, Grows, Rows, Versions

\* A step that leaves the row alone grows it.
LEMMA GrowsSame ==
  ASSUME NEW s \in Rows, RowFits(s)
  PROVE Grows(s, s)
BY DEF Grows, Rows, Versions

\* Stored replies that fit a row fit what the row grows into.
LEMMA StoredKeeps ==
  ASSUME NEW s \in Rows, NEW n, Grows(s, n), NEW t, StoredFits(t, s)
  PROVE StoredFits(t, n)
<1>1. \A e \in t : e.reply \in Replies
  BY DEF StoredFits, Answers
<1> QED BY <1>1, ReplyKeeps DEF StoredFits

\* Storing the reply of a call whose key is free.
LEMMA StoredAdds ==
  ASSUME NEW s \in Rows, NEW n, Grows(s, n), NEW t, StoredFits(t, s),
         NEW k \in CallKeys, NEW r \in Replies, ReplyFits(r, n),
         \A e \in t : e.key # k
  PROVE StoredFits(t \cup {[key |-> k, reply |-> r]}, n)
<1> DEFINE a == [key |-> k, reply |-> r]
<1>1. a.key = k /\ a.reply = r /\ a \in Answers
  BY DEF Answers
<1>2. StoredFits(t, n)
  BY StoredKeeps
<1>3. t \subseteq Answers /\ (\A e, f \in t : e.key = f.key => e = f)
  BY <1>2 DEF StoredFits
<1>4. \A e \in t : ReplyFits(e.reply, n)
  BY <1>2 DEF StoredFits
<1> HIDE DEF a
<1> DEFINE u == t \cup {a}
<1>5. u \subseteq Answers
  BY <1>1, <1>3
<1>6. \A e, f \in u : e.key = f.key => e = f
  BY <1>1, <1>3
<1>7. \A e \in u : ReplyFits(e.reply, n)
  BY <1>1, <1>4
<1> HIDE DEF u
<1>8. StoredFits(u, n)
  BY <1>5, <1>6, <1>7 DEF StoredFits
<1> QED BY <1>8 DEF u, a

\* What another loop does to the row leaves a loop fit, if no finalize of its
\* own is disturbed.
LEMMA LoopKeeps ==
  ASSUME NEW l \in Loops, NEW b \in Nat, NEW s \in Rows, NEW t, LoopFits(l, b, s, t),
         NEW n, Grows(s, n), NEW u, t \subseteq u,
         l.pc = "finalizing" => n.state = "ASSEMBLING" /\ Unanswered(l, u)
  PROVE LoopFits(l, b, n, u)
<1>1. ReplyFits(l.last, n)
  BY ReplyKeeps DEF Loops, LoopFits
<1>2. l.pc \in {"lease", "coverage"} => ReadFits(l.read, n)
  BY ReadKeeps DEF LoopFits
<1>3. l.pc # "raised" => l.same < MaxIdentical
  BY DEF LoopFits
<1>4. l.pc \in UnderWay => l.steps < b /\ l.call \in ToolCalls /\ l.call.tool = l.last.action
  BY DEF LoopFits
<1>5. l.pc \in {"lease", "coverage"} => l.read \in Rows /\ ReadFits(l.read, n)
  BY <1>2 DEF LoopFits
<1>6. l.pc = "finalizing" =>
        l.call.tool = "finalize" /\ n.state = "ASSEMBLING" /\ Unanswered(l, u)
  BY DEF LoopFits
<1>7. l.steps <= b /\ (l.pc = "returned" => l.last.action = "complete")
  BY DEF LoopFits
<1>8. l.pc \in Committed => l.call.tool = "finalize" /\ ~Unanswered(l, u)
  BY DEF LoopFits, Unanswered
<1> QED BY ONLY <1>1, <1>3, <1>4, <1>5, <1>6, <1>7, <1>8 DEF LoopFits

-----------------------------------------------------------------------------
(* What a loop gets *)

\* The invariant, of one loop.
LEMMA Has ==
  ASSUME IInv, NEW c \in Clients
  PROVE /\ session \in Rows /\ client[c] \in Loops /\ budget[c] \in Nat
        /\ Last(c) \in Replies /\ LoopFits(client[c], budget[c], session, stored)
        /\ Key(c) = KeyOf(client[c])
BY DEF IInv, Types, Last, Loops, Key, KeyOf

\* A step of one loop keeps the invariant if the loop it leaves behind fits,
\* the row grows, no stored reply is lost, and the finalize of another is left
\* alone.
LEMMA Compose ==
  ASSUME IInv, NEW c \in Clients, NEW l \in Loops, client' = [client EXCEPT ![c] = l],
         budget' = budget, Grows(session, session'), StoredFits(stored', session'),
         stored \subseteq stored', LoopFits(l, budget[c], session', stored'),
         \A d \in Clients : d # c /\ client[d].pc \in Locked => l.pc \notin Locked,
         \A d \in Clients : d # c /\ At(d, "finalizing") =>
           session'.state = "ASSEMBLING" /\ Unanswered(client[d], stored'),
         session'.state = "COMPLETE" =>
           session.state = "COMPLETE" \/ Kept(stored', session')
  PROVE IInv'
<1>1. client' \in [Clients -> Loops] /\ client'[c] = l
  BY DEF IInv, Types
<1>2. \A d \in Clients : d # c => client'[d] = client[d]
  BY DEF IInv, Types
<1>3. Types' /\ RowFits(session')
  BY <1>1 DEF IInv, Types, Grows
<1>4. \A d \in Clients : LoopFits(client'[d], budget'[d], session', stored')
  <2>1. SUFFICES ASSUME NEW d \in Clients, d # c
                 PROVE LoopFits(client[d], budget[d], session', stored')
    BY <1>1, <1>2
  <2> QED BY <2>1, Has, LoopKeeps DEF At
<1>5. \A d, e \in Clients :
        client'[d].pc \in Locked /\ client'[e].pc \in Locked => d = e
  BY <1>1, <1>2 DEF IInv
<1>6. Kept(stored', session')
  BY DEF IInv, Kept, Grows
<1> QED BY <1>3, <1>4, <1>5, <1>6 DEF IInv

\* A reply that fits the new row arrives.  The loop goes on with it, or gives
\* up on a call repeated too often.
LEMMA ReplyArrives ==
  ASSUME IInv, NEW c \in Clients, client[c].pc \in {"ask"} \cup UnderWay,
         client[c].steps < budget[c],
         NEW call \in ToolCalls, call.tool = Last(c).action,
         NEW reply \in Replies, ReplyFits(reply, session'),
         Receive(c, call, reply), budget' = budget,
         Grows(session, session'), StoredFits(stored', session'),
         stored \subseteq stored',
         \A d \in Clients : d # c /\ At(d, "finalizing") =>
           session'.state = "ASSEMBLING" /\ Unanswered(client[d], stored'),
         session'.state = "COMPLETE" => session.state = "COMPLETE"
  PROVE IInv'
<1> DEFINE old == client[c]
           same == IF reply.done > Last(c).done THEN 0
                   ELSE IF call = old.seen THEN old.same + 1 ELSE 1
           seen == IF same = 0 THEN None ELSE call
           l == Received(c, call, reply)
<1>1. /\ old \in Loops /\ budget[c] \in Nat /\ Last(c) \in Replies
      /\ LoopFits(old, budget[c], session, stored) /\ old.last = Last(c)
      /\ old.pc # "raised" /\ session \in Rows
  BY Has DEF UnderWay, Last
<1>2. old.same \in Nat /\ old.same < MaxIdentical /\ MaxIdentical \in Nat /\ MaxIdentical > 1
  BY <1>1, ClientAssumption DEF LoopFits, Loops
<1>3. same \in Nat /\ same <= MaxIdentical
  BY <1>2
<1>5. ReplyFits(Last(c), session')
  BY <1>1, ReplyKeeps DEF LoopFits
<1>6. seen \in ToolCalls \cup {None} /\ (seen # None => seen = call)
  OBVIOUS
<1>7. l = IF same >= MaxIdentical
          THEN [old EXCEPT !.seen = seen, !.same = same, !.call = None, !.read = None,
                           !.pc = "raised"]
          ELSE [old EXCEPT !.seen = seen, !.same = same, !.call = None, !.read = None,
                           !.pc = "ask", !.last = reply, !.steps = @ + 1]
  BY <1>1 DEF Received, Loops
<1>8. client' = [client EXCEPT ![c] = l]
  BY DEF Receive
<1>9. /\ same \in 0 .. MaxIdentical /\ None \in ToolCalls \cup {None}
       /\ None \in Rows \cup {None} /\ old.steps + 1 \in Nat
       /\ "raised" \in Places /\ "ask" \in Places
  BY <1>1, <1>2, <1>3 DEF Loops, Places
<1> HIDE DEF l, same, seen, old
<1>10. /\ l \in Loops /\ LoopFits(l, budget[c], session', stored')
      /\ l.pc \in {"ask", "raised"}
  <2>1. CASE same >= MaxIdentical
    <3>1. l = [old EXCEPT !.seen = seen, !.same = same, !.call = None, !.read = None,
                          !.pc = "raised"]
      BY <1>7, <2>1
    <3>2. /\ l.pc = "raised" /\ l.last = Last(c) /\ l.steps = old.steps
          /\ DOMAIN l = DOMAIN old /\ l.seen = seen /\ l.same = same
          /\ l.call = None /\ l.read = None
      BY <1>1, <3>1 DEF Loops
    <3>3. l \in Loops
      BY ONLY <1>1, <1>6, <1>9, <3>1, reply \in Replies DEF Loops
    <3>4. LoopFits(l, budget[c], session', stored')
      BY <1>1, <1>5, <3>2 DEF LoopFits, UnderWay, Committed
    <3> QED BY <3>2, <3>3, <3>4
  <2>2. CASE same < MaxIdentical
    <3>1. l = [old EXCEPT !.seen = seen, !.same = same, !.call = None, !.read = None,
                          !.pc = "ask", !.last = reply, !.steps = @ + 1]
      BY <1>2, <1>3, <1>7, <2>2
    <3>2. /\ l.pc = "ask" /\ l.last = reply /\ l.steps = old.steps + 1
          /\ l.seen = seen /\ l.same = same /\ l.call = None /\ l.read = None
      BY <1>1, <3>1 DEF Loops
    <3>3. l \in Loops
      BY ONLY <1>1, <1>6, <1>9, <3>1, reply \in Replies DEF Loops
    <3>4. LoopFits(l, budget[c], session', stored')
      BY <1>1, <1>6, <2>2, <3>2 DEF LoopFits, UnderWay, Committed, Loops, old
    <3> QED BY <3>2, <3>3, <3>4
  <2> QED BY <1>2, <1>3, <2>1, <2>2
<1>11. l.pc \notin Locked
  BY <1>10 DEF Locked
<1> QED BY <1>8, <1>10, <1>11, Compose

\* The finalize of another loop, while the row and the tables stay.
LEMMA OthersStay ==
  ASSUME IInv, NEW d \in Clients, At(d, "finalizing")
  PROVE session.state = "ASSEMBLING" /\ Unanswered(client[d], stored)
BY Has DEF LoopFits, At

\* A reply arrives and nothing else changes.
LEMMA ReplyArrivesAlone ==
  ASSUME IInv, NEW c \in Clients, client[c].pc \in {"ask"} \cup UnderWay,
         client[c].steps < budget[c],
         NEW call \in ToolCalls, call.tool = Last(c).action,
         NEW reply \in Replies, ReplyFits(reply, session),
         Receive(c, call, reply), UNCHANGED <<session, stored, budget>>
  PROVE IInv'
<1>1. session \in Rows /\ RowFits(session) /\ StoredFits(stored, session)
  BY DEF IInv, Types
<1>2. Grows(session, session)
  BY <1>1, GrowsSame
<1> QED BY <1>1, <1>2, OthersStay, ReplyArrives

\* What a loop that makes a call has.
LEMMA CallsHas ==
  ASSUME IInv, NEW c \in Clients, NEW tool \in Tools, NEW body, Calls(c, tool, body)
  PROVE /\ CallOf(c, body) \in ToolCalls /\ CallOf(c, body).tool = Last(c).action
        /\ Last(c).action = tool /\ Key(c) \in CallKeys /\ Key(c).tool = tool
        /\ client[c].pc = "ask" /\ client[c].pc \in {"ask"} \cup UnderWay
        /\ client[c].steps < budget[c]
<1>1. /\ Last(c) \in Replies /\ Last(c).action = tool /\ body \in AllBodies
      /\ client[c].pc = "ask" /\ client[c].steps < budget[c]
      /\ Key(c) = KeyOf(client[c]) /\ client[c].last = Last(c)
  <2>1. body \in AllBodies
    BY DEF Calls, Bodies, AllBodies
  <2> QED BY <2>1, Has DEF Calls, Asking, At, Last
<1>2. CallOf(c, body) \in ToolCalls /\ CallOf(c, body).tool = Last(c).action
  BY <1>1 DEF CallOf, ToolCalls, Replies
<1>3. Key(c) \in CallKeys /\ Key(c).tool = tool
  BY <1>1 DEF KeyOf, CallKeys, Replies
<1> QED BY <1>1, <1>2, <1>3

\* What a loop that waits for a reply has.
LEMMA UnderWayHas ==
  ASSUME IInv, NEW c \in Clients, client[c].pc \in UnderWay
  PROVE /\ client[c].call \in ToolCalls /\ client[c].call.tool = Last(c).action
        /\ client[c].steps < budget[c]
        /\ client[c].pc \in {"ask"} \cup UnderWay
<1>1. LoopFits(client[c], budget[c], session, stored) /\ client[c].last = Last(c)
  BY Has DEF Last
<1> QED BY <1>1 DEF LoopFits

-----------------------------------------------------------------------------
(* The loop *)

\* A loop ends, and nothing changes that others see but the journal.
LEMMA GotoKeeps ==
  ASSUME IInv, NEW c \in Clients, client[c].pc # "raised",
         NEW pc \in {"returned", "raised", "stopped"},
         pc = "returned" => Last(c).action = "complete",
         Goto(c, pc), UNCHANGED <<session, stored, budget>>
  PROVE IInv'
<1> DEFINE l == [client[c] EXCEPT !.pc = pc]
<1>1. /\ client[c] \in Loops /\ LoopFits(client[c], budget[c], session, stored)
      /\ Last(c) = client[c].last
  BY Has DEF Last
<1>2. client' = [client EXCEPT ![c] = l]
  BY DEF Goto
<1>3. l \in Loops /\ l.pc = pc /\ l.last = client[c].last /\ l.steps = client[c].steps
      /\ l.same = client[c].same
  BY <1>1 DEF Loops, Places
<1> HIDE DEF l
<1>4. LoopFits(l, budget[c], session, stored)
  BY <1>1, <1>3 DEF LoopFits, UnderWay, Committed
<1>5. session \in Rows /\ RowFits(session) /\ StoredFits(stored, session)
  BY DEF IInv, Types
<1>6. /\ Grows(session, session') /\ StoredFits(stored', session') /\ budget' = budget
      /\ LoopFits(l, budget[c], session', stored') /\ stored \subseteq stored'
      /\ (session'.state = "COMPLETE" => session.state = "COMPLETE")
      /\ l.pc \notin Locked
  BY <1>3, <1>4, <1>5, GrowsSame DEF Locked
<1>7. \A d \in Clients : d # c /\ At(d, "finalizing") =>
        session'.state = "ASSEMBLING" /\ Unanswered(client[d], stored')
  BY OthersStay
<1> QED BY <1>2, <1>3, <1>6, <1>7, Compose

\* Return keeps the invariant.
LEMMA ReturnKeeps ==
  ASSUME IInv, NEW c \in Clients, Return(c)
  PROVE IInv'
BY GotoKeeps DEF Return, Asking, At

\* Running out of steps keeps the invariant.
LEMMA ExceedStepsKeeps ==
  ASSUME IInv, NEW c \in Clients, ExceedSteps(c)
  PROVE IInv'
BY GotoKeeps DEF ExceedSteps, At

\* A failed answer keeps the invariant: a retry is counted on the same lease.
LEMMA TransportFailureKeeps ==
  ASSUME IInv, NEW c \in Clients, NEW code \in Codes, TransportFailure(c, code)
  PROVE IInv'
<1>1. CASE CanRetry(c)
  <2> DEFINE reply == Told("retryable", session')
             l == Continue(c, reply)
  <2>1. /\ session \in Rows /\ RowFits(session) /\ session.lease # None
        /\ session.lease.retry < MaxRetries /\ session.state = "COLLECTING"
        /\ session' = [session EXCEPT !.lease = Retried(session.lease)]
    BY <1>1 DEF IInv, Types, RowFits, CanRetry, TransportFailure
  <2>2. /\ session.lease \in Leases /\ Retried(session.lease) \in Leases
        /\ Retried(session.lease).id = session.lease.id /\ Retried(session.lease) # None
    <3>1. session.lease \in Leases
      BY <2>1 DEF Rows
    <3>2. Retried(session.lease) \in Leases /\ Retried(session.lease).id = session.lease.id
      BY <2>1, <3>1, ClientAssumption DEF Retried, Leases
    <3> QED BY <3>1, <3>2, SentinelAssumption
  <2>3. /\ session' \in Rows /\ session'.lease = Retried(session.lease)
        /\ session'.state = session.state /\ session'.version = session.version
        /\ session'.done = session.done
    BY <2>1, <2>2 DEF Rows
  <2>4. LeaseId(session') = LeaseId(session)
    BY <2>1, <2>2, <2>3 DEF LeaseId
  <2>5. Grows(session, session')
    <3>1. RowFits(session')
      BY <2>1, <2>2, <2>3, <2>4 DEF RowFits
    <3>2. session.version <= session'.version
      BY <2>1, <2>3 DEF Rows, Versions
    <3> QED BY <2>1, <2>3, <2>4, <3>1, <3>2 DEF Grows
  <2>6. reply \in Replies /\ ReplyFits(reply, session') /\ reply.action = "submit_chunk"
    <3>1. NextAction("retryable", session'.state, session'.lease) = "submit_chunk"
      BY <2>1, <2>2, <2>3 DEF NextAction
    <3>2. IsTold(reply, "retryable", session')
      BY <2>3, ToldIs
    <3> HIDE DEF reply
    <3> QED BY <3>1, <3>2 DEF IsTold
  <2>7. /\ client[c] \in Loops /\ LoopFits(client[c], budget[c], session, stored)
        /\ client[c].pc = "ask" /\ Last(c) = client[c].last
        /\ client[c].steps < budget[c] /\ budget[c] \in Nat
        /\ Last(c).action # "complete"
    BY Has DEF TransportFailure, Asking, At, Last
  <2>8. client' = [client EXCEPT ![c] = l]
    BY <1>1 DEF TransportFailure
  <2>9. /\ l \in Loops /\ l.pc = "ask" /\ l.last = reply
        /\ l.steps = client[c].steps + 1 /\ l.same = client[c].same
    <3> HIDE DEF reply
    <3>1. l = [client[c] EXCEPT !.pc = "ask", !.last = reply, !.steps = client[c].steps + 1]
      BY <2>7 DEF Continue, Loops
    <3>2. client[c].steps + 1 \in Nat
      BY <2>7 DEF Loops
    <3>3. l \in Loops
      BY ONLY <3>1, <3>2, <2>6, <2>7 DEF Loops, Places
    <3> QED BY ONLY <3>1, <3>2, <3>3, <2>7 DEF Loops
  <2> HIDE DEF l, reply
  <2>10. LoopFits(l, budget[c], session', stored')
    <3>1. l.steps <= budget[c]
      BY <2>7, <2>9 DEF Loops
    <3> QED BY <2>6, <2>7, <2>9, <3>1 DEF LoopFits, UnderWay, Committed
  <2>11. \A d \in Clients : ~At(d, "finalizing")
    BY <2>1, OthersStay
  <2>12. /\ StoredFits(stored', session') /\ budget' = budget /\ stored \subseteq stored'
         /\ l.pc \notin Locked
    BY <2>1, <2>5, <2>9, StoredKeeps DEF IInv, TransportFailure, Locked
  <2> QED BY <2>1, <2>3, <2>5, <2>8, <2>9, <2>10, <2>11, <2>12, Compose
<1>2. CASE ~CanRetry(c)
  BY <1>2, GotoKeeps DEF TransportFailure, Asking, At
<1> QED BY <1>1, <1>2

\* A call that does not parse keeps the invariant.
LEMMA InvalidCallKeeps ==
  ASSUME IInv, NEW c \in Clients, NEW body, InvalidCall(c, body)
  PROVE IInv'
<1>1. PICK tool \in {"submit_chunk", "sync"} : Calls(c, tool, body)
  BY DEF InvalidCall
<1>2. tool \in Tools
  BY DEF Tools
<1>3. ErrorReply \in Replies /\ ReplyFits(ErrorReply, session) /\ ErrorReply.action = "sync"
  BY ErrorReplyIs DEF IInv, Types
<1> QED BY <1>1, <1>2, <1>3, CallsHas, ReplyArrivesAlone DEF InvalidCall

\* A service that raises keeps the invariant.
LEMMA ServiceRaisesKeeps ==
  ASSUME IInv, NEW c \in Clients, NEW body, ServiceRaises(c, body)
  PROVE IInv'
<1>1. PICK tool \in Tools : Calls(c, tool, body)
  BY DEF ServiceRaises
<1>2. ErrorReply \in Replies /\ ReplyFits(ErrorReply, session) /\ ErrorReply.action = "sync"
  BY ErrorReplyIs DEF IInv, Types
<1> QED BY <1>1, <1>2, CallsHas, ReplyArrivesAlone DEF ServiceRaises

-----------------------------------------------------------------------------
(* Start and sync *)

\* The row of a session that collects.
LEMMA CollectedIs ==
  ASSUME NEW v \in Nat, NEW d \in 0 .. Units, NEW r \in 0 .. MaxRepairRounds,
         v = 0 => d = Prefilled, NEW s, s = Collected(v, d, r)
  PROVE /\ s \in Rows /\ RowFits(s) /\ s.version = v /\ s.done = d
        /\ s.state \in {"COLLECTING", "READY"}
<1> DEFINE lease == [id |-> v + 1, retry |-> 0]
<1>1. lease \in Leases /\ lease # None /\ lease.id = v + 1
  BY ClientAssumption, SentinelAssumption DEF Leases
<1>2. /\ s.version = v /\ s.done = d /\ s.repairs = r
      /\ s.lease = (IF d = Units THEN None ELSE lease)
      /\ s.state = (IF d = Units THEN "READY" ELSE "COLLECTING")
  BY DEF Collected
<1>3. s \in Rows
  <2>1. s = [state |-> IF d = Units THEN "READY" ELSE "COLLECTING",
             version |-> v, done |-> d, repairs |-> r,
             lease |-> IF d = Units THEN None ELSE lease]
    BY DEF Collected
  <2>2. (IF d = Units THEN None ELSE lease) \in Leases \cup {None} /\ v \in Versions
    BY <1>1 DEF Versions
  <2> HIDE DEF lease
  <2> QED BY <2>1, <2>2 DEF Rows
<1>4. v = 0 => s.done = Started.done /\ LeaseId(s) = LeaseId(Started)
  BY <1>1, <1>2 DEF Started, Collected, LeaseId, lease
<1> HIDE DEF lease
<1>5. RowFits(s)
  BY <1>1, <1>2, <1>4, ClientAssumption DEF RowFits
<1> QED BY <1>1, <1>2, <1>3, <1>5

\* The row of a session just started.
LEMMA StartedIs ==
  /\ Started \in Rows /\ RowFits(Started) /\ Started.version = 0
  /\ Started.state \in {"COLLECTING", "READY"}
<1>1. 0 \in Nat /\ Prefilled \in 0 .. Units /\ 0 \in 0 .. MaxRepairRounds
  BY ClientAssumption
<1> QED BY <1>1, CollectedIs DEF Started

\* Start keeps the invariant; the reply of a second start is the first one's.
LEMMA StartKeeps ==
  ASSUME IInv, NEW c \in Clients, Start(c)
  PROVE IInv'
<1> DEFINE call == CallOf(c, "echo")
           reply == Told("lease_issued", Started)
<1>1. session \in Rows /\ RowFits(session) /\ StoredFits(stored, session)
  BY DEF IInv, Types
<1>2. Calls(c, "start", "echo") /\ "start" \in Tools
  BY DEF Start, Tools
<1>3. /\ client[c].pc \in {"ask"} \cup UnderWay /\ client[c].steps < budget[c]
      /\ call \in ToolCalls /\ call.tool = Last(c).action /\ call.tool = "start"
  BY <1>2, CallsHas
<1>4. /\ reply \in Replies /\ ReplyFits(reply, Started) /\ reply.version = 0
      /\ reply.done = Started.done /\ reply.lease = LeaseId(Started)
      /\ reply.artifact = FALSE /\ reply.action # "complete"
  <2>1. NextAction("lease_issued", Started.state, Started.lease) # "complete"
    BY StartedIs, NextActionIs
  <2>2. /\ reply \in Replies /\ ReplyFits(reply, Started) /\ reply.artifact = FALSE
        /\ reply.action = NextAction("lease_issued", Started.state, Started.lease)
        /\ reply.version = Started.version /\ reply.done = Started.done
        /\ reply.lease = LeaseId(Started)
    BY StartedIs, ToldIs DEF IsTold
  <2> HIDE DEF reply
  <2> QED BY <2>1, <2>2, StartedIs
<1>5. Receive(c, call, reply) /\ UNCHANGED <<stored, journal, budget>>
  BY DEF Start
<1> HIDE DEF call, reply
<1>6. CASE session.state = "NONE"
  <2>1. session' = Started
    BY <1>6 DEF Start
  <2>2. Grows(session, session')
    BY <1>1, <1>6, <2>1, StartedIs DEF Grows, RowFits
  <2>3. \A d \in Clients : ~At(d, "finalizing")
    BY <1>6, OthersStay
  <2>4. /\ StoredFits(stored', session') /\ stored \subseteq stored' /\ budget' = budget
        /\ ReplyFits(reply, session') /\ session'.state # "COMPLETE"
    BY <1>1, <1>4, <1>5, <1>6, <2>1, <2>2, StoredKeeps, StartedIs
  <2> QED BY <1>3, <1>4, <1>5, <2>2, <2>3, <2>4, ReplyArrives
<1>7. CASE session.state # "NONE"
  <2>1. session' = session
    BY <1>7 DEF Start
  <2>2. ReplyFits(reply, session)
    <3>1. session.version \in Nat
      BY <1>1, <1>7 DEF RowFits, Rows, Versions
    <3>2. session.version = 0 =>
            session.done = Started.done /\ LeaseId(session) = LeaseId(Started)
      BY <1>1 DEF RowFits
    <3> QED BY <1>4, <3>1, <3>2 DEF ReplyFits
  <2> QED BY <1>3, <1>4, <1>5, <2>1, <2>2, ReplyArrivesAlone
<1> QED BY <1>6, <1>7

\* A call of more than one step gets under way.
LEMMA CallingKeeps ==
  ASSUME IInv, NEW c \in Clients, NEW tool \in Tools, NEW body, Calls(c, tool, body),
         NEW pc \in {"lease", "finalizing"}, NEW read \in Rows \cup {None},
         client' = [client EXCEPT ![c] = Calling(c, pc, body, read)],
         Grows(session, session'), UNCHANGED <<stored, budget>>,
         session'.state = "COMPLETE" => session.state = "COMPLETE",
         pc = "lease" => session' = session /\ read \in Rows /\ ReadFits(read, session),
         pc = "finalizing" => /\ tool = "finalize" /\ session'.state = "ASSEMBLING"
                              /\ ~IsStored(Key(c)) /\ Unlocked
  PROVE IInv'
<1> DEFINE l == Calling(c, pc, body, read)
<1>1. /\ CallOf(c, body) \in ToolCalls /\ CallOf(c, body).tool = Last(c).action
      /\ Last(c).action = tool /\ client[c].pc = "ask" /\ client[c].steps < budget[c]
  BY CallsHas
<1>2. /\ client[c] \in Loops /\ LoopFits(client[c], budget[c], session, stored)
      /\ Last(c) = client[c].last /\ Key(c) = KeyOf(client[c]) /\ Last(c) \in Replies
      /\ session \in Rows /\ StoredFits(stored, session)
  BY Has DEF Last, IInv
<1>3. /\ l \in Loops /\ l.pc = pc /\ l.last = client[c].last /\ l.steps = client[c].steps
      /\ l.same = client[c].same /\ l.call = CallOf(c, body) /\ l.read = read
  BY <1>1, <1>2 DEF Calling, Loops, Places
<1>4. client' = [client EXCEPT ![c] = l]
  OBVIOUS
<1> HIDE DEF l
<1>5. KeyOf(l) = Key(c)
  BY <1>2, <1>3 DEF KeyOf
<1>6. pc = "finalizing" => Unanswered(l, stored)
  BY <1>5 DEF Unanswered, IsStored
<1>7. ReplyFits(l.last, session')
  BY <1>2, <1>3, ReplyKeeps DEF LoopFits
<1>8. LoopFits(l, budget[c], session', stored')
  <2>1. l.pc # "raised" /\ l.pc # "returned" /\ l.pc \notin Committed
    BY <1>3 DEF Committed
  <2>2. l.same < MaxIdentical
    BY <1>1, <1>2, <1>3 DEF LoopFits
  <2>3. /\ l.steps < budget[c] /\ l.call \in ToolCalls /\ l.call.tool = l.last.action
        /\ l.call.tool = tool /\ l.steps <= budget[c]
    BY <1>1, <1>2, <1>3, Has DEF LoopFits
  <2>4. l.pc \in {"lease", "coverage"} => l.read \in Rows /\ ReadFits(l.read, session')
    BY <1>3
  <2>5. l.pc = "finalizing" =>
          l.call.tool = "finalize" /\ session'.state = "ASSEMBLING" /\ Unanswered(l, stored')
    BY <1>3, <1>6, <2>3
  <2> QED BY ONLY <1>7, <2>1, <2>2, <2>3, <2>4, <2>5 DEF LoopFits
<1>9. /\ \A d \in Clients : d # c /\ At(d, "finalizing") =>
           session'.state = "ASSEMBLING" /\ Unanswered(client[d], stored')
      /\ \A d \in Clients : d # c /\ client[d].pc \in Locked => l.pc \notin Locked
  <2>1. CASE pc = "lease"
    BY <1>3, <2>1, OthersStay DEF Locked
  <2>2. CASE pc = "finalizing"
    BY <2>2 DEF Unlocked, At, Locked
  <2> QED BY <2>1, <2>2
<1>10. StoredFits(stored', session') /\ stored \subseteq stored'
  BY <1>2, StoredKeeps
<1> QED BY <1>3, <1>4, <1>8, <1>9, <1>10, Compose

\* The first read of a reply keeps the invariant.
LEMMA ReadSessionKeeps ==
  ASSUME IInv, NEW c \in Clients, NEW body, ReadSession(c, body)
  PROVE IInv'
<1>1. session \in Rows /\ RowFits(session)
  BY DEF IInv, Types
<1>2. PICK tool \in Tools : Calls(c, tool, body)
  BY DEF ReadSession, Tools
<1>3. ReadFits(session, session) /\ Grows(session, session)
  BY <1>1, GrowsSame DEF ReadFits, Rows, Versions
<1>4. /\ client' = [client EXCEPT ![c] = Calling(c, "lease", body, session)]
      /\ UNCHANGED <<session, stored, journal, budget>>
  BY DEF ReadSession
<1>5. "lease" \in {"lease", "finalizing"} /\ session \in Rows \cup {None}
  BY <1>1
<1>6. /\ Grows(session, session') /\ session' = session /\ UNCHANGED <<stored, budget>>
      /\ (session'.state = "COMPLETE" => session.state = "COMPLETE")
  BY <1>1, <1>3, <1>4
<1>7. client' = [client EXCEPT ![c] = Calling(c, "lease", body, session)]
  BY <1>4
<1>8. session' = session /\ session \in Rows /\ ReadFits(session, session)
  BY <1>1, <1>3, <1>4
<1> QED BY <1>1, <1>2, <1>3, <1>5, <1>6, <1>7, <1>8, CallingKeeps

\* So does the second: the lease may be newer than the version it is put beside,
\* but then the version is behind.
LEMMA ReadLeaseKeeps ==
  ASSUME IInv, NEW c \in Clients, ReadLease(c)
  PROVE IInv'
<1> DEFINE read == [client[c].read EXCEPT !.lease = session.lease]
           l == [client[c] EXCEPT !.pc = "coverage", !.read = read]
<1>1. /\ client[c] \in Loops /\ LoopFits(client[c], budget[c], session, stored)
      /\ Last(c) = client[c].last /\ session \in Rows /\ RowFits(session)
      /\ StoredFits(stored, session) /\ client[c].pc = "lease"
  BY Has DEF Last, IInv, ReadLease, At
<1>2. /\ client[c].read \in Rows /\ ReadFits(client[c].read, session)
      /\ client[c].call \in ToolCalls /\ client[c].call.tool = Last(c).action
      /\ client[c].steps < budget[c]
  BY <1>1, UnderWayHas DEF LoopFits, UnderWay
<1>3. /\ read \in Rows /\ read.lease = session.lease /\ read.state = client[c].read.state
      /\ read.version = client[c].read.version
  BY <1>1, <1>2 DEF Rows
<1>4. ReadFits(read, session)
  BY <1>2, <1>3 DEF ReadFits, LeaseId
<1>5. client' = [client EXCEPT ![c] = l] /\ UNCHANGED <<session, stored, journal, budget>>
  BY DEF ReadLease
<1> HIDE DEF read
<1>6. /\ l \in Loops /\ l.pc = "coverage" /\ l.last = client[c].last
      /\ l.steps = client[c].steps /\ l.same = client[c].same
      /\ l.call = client[c].call /\ l.read = read
  BY <1>1, <1>3 DEF Loops, Places
<1> HIDE DEF l
<1>7. LoopFits(l, budget[c], session, stored)
  BY <1>1, <1>2, <1>3, <1>4, <1>6 DEF LoopFits, UnderWay, Committed
<1>8. \A d \in Clients : d # c /\ At(d, "finalizing") =>
        session'.state = "ASSEMBLING" /\ Unanswered(client[d], stored')
  BY <1>5, OthersStay
<1>9. Grows(session, session') /\ StoredFits(stored', session') /\ budget' = budget
      /\ LoopFits(l, budget[c], session', stored') /\ stored \subseteq stored'
      /\ l.pc \notin Locked
  BY <1>1, <1>5, <1>6, <1>7, GrowsSame DEF Locked
<1> QED BY <1>6, <1>5, <1>8, <1>9, Compose

\* So does the third, and the reply fits though no row ever equalled it.
LEMMA ReadCoverageKeeps ==
  ASSUME IInv, NEW c \in Clients, ReadCoverage(c)
  PROVE IInv'
<1> DEFINE old == client[c].read
           read == [old EXCEPT !.done = session.done]
           reply == Told("current", read)
<1>1. /\ LoopFits(client[c], budget[c], session, stored) /\ session \in Rows
      /\ client[c].pc = "coverage"
  BY Has DEF ReadCoverage, At
<1>2. old \in Rows /\ ReadFits(old, session)
  BY <1>1 DEF LoopFits
<1>3. /\ read \in Rows /\ read.done = session.done /\ read.state = old.state
      /\ read.version = old.version /\ LeaseId(read) = LeaseId(old)
  BY <1>1, <1>2 DEF Rows, LeaseId
<1> HIDE DEF read
<1>4. /\ reply \in Replies /\ reply.artifact = FALSE
      /\ reply.action = NextAction("current", read.state, read.lease)
      /\ reply.version = read.version /\ reply.done = read.done /\ reply.lease = LeaseId(read)
  <2>1. IsTold(reply, "current", read)
    BY <1>3, ToldIs
  <2> HIDE DEF reply
  <2> QED BY ONLY <2>1 DEF IsTold
<1>5. reply.action = "complete" => old.state = "COMPLETE"
  BY <1>3, <1>4, NextActionIs
<1> HIDE DEF reply, old
<1>6. ReplyFits(reply, session)
  BY <1>2, <1>3, <1>4, <1>5 DEF ReplyFits, ReadFits
<1>7. Receive(c, client[c].call, reply) /\ UNCHANGED <<session, stored, journal, budget>>
  BY DEF ReadCoverage, reply, read, old
<1>8. client[c].pc \in UnderWay
  BY <1>1 DEF UnderWay
<1> QED BY <1>2, <1>4, <1>5, <1>6, <1>7, <1>8, UnderWayHas, ReplyArrivesAlone

-----------------------------------------------------------------------------
(* Chunks and finalize *)

\* A reply out of the table fits.
LEMMA StoredReplyIs ==
  ASSUME NEW t, NEW s, StoredFits(t, s), t = stored, NEW k, IsStored(k)
  PROVE StoredReply(k) \in Replies /\ ReplyFits(StoredReply(k), s)
<1> DEFINE e == CHOOSE x \in stored : x.key = k
<1>1. e \in stored /\ e.key = k
  BY DEF IsStored
<1>2. StoredReply(k) = e.reply
  BY DEF StoredReply
<1> HIDE DEF e
<1>3. e \in Answers /\ ReplyFits(e.reply, s)
  BY <1>1 DEF StoredFits
<1> QED BY <1>1, <1>2, <1>3 DEF Answers

\* A chunk grows the row.
LEMMA ChunkIs ==
  ASSUME NEW body, session \in Rows, RowFits(session), session.state = "COLLECTING",
         NEW s, s = Chunk(body)
  PROVE Grows(session, s) /\ s.state # "COMPLETE"
<1> DEFINE v == session.version + 1
           d == IF body = "unit" THEN session.done + 1 ELSE session.done
<1>1. session.version \in Nat /\ session.done \in 0 .. Units /\ session.done < Units
      /\ session.repairs \in 0 .. MaxRepairRounds
  BY DEF RowFits, Rows, Versions
<1>2. v \in Nat /\ v # 0 /\ d \in 0 .. Units /\ v > session.version
  BY <1>1, ClientAssumption
<1>3. s = Collected(v, d, session.repairs)
  BY DEF Chunk
<1> HIDE DEF v, d
<1>4. /\ s \in Rows /\ RowFits(s) /\ s.version = v /\ s.state \in {"COLLECTING", "READY"}
  BY <1>1, <1>2, <1>3, CollectedIs
<1> QED BY <1>1, <1>2, <1>4 DEF Grows

\* A chunk, answered from the table, turned down or accepted, keeps the invariant.
LEMMA SubmitKeeps ==
  ASSUME IInv, NEW c \in Clients, NEW body, Submit(c, body)
  PROVE IInv'
<1> DEFINE call == CallOf(c, body)
<1>1. session \in Rows /\ RowFits(session) /\ StoredFits(stored, session)
  BY DEF IInv, Types
<1>2. Calls(c, "submit_chunk", body) /\ "submit_chunk" \in Tools
      /\ UNCHANGED <<journal, budget>>
  BY DEF Submit, Tools
<1>3. /\ client[c].pc \in {"ask"} \cup UnderWay /\ client[c].steps < budget[c]
      /\ call \in ToolCalls /\ call.tool = Last(c).action /\ call.tool = "submit_chunk"
      /\ Key(c) \in CallKeys /\ Key(c).tool = "submit_chunk"
  BY <1>2, CallsHas
<1>4. \A status : Told(status, session) \in Replies /\ ReplyFits(Told(status, session), session)
  BY <1>1, ToldIs DEF IsTold
<1>5. CASE IsStored(Key(c))
  <2>1. StoredReply(Key(c)) \in Replies /\ ReplyFits(StoredReply(Key(c)), session)
    BY <1>1, <1>5, StoredReplyIs
  <2>2. Receive(c, call, StoredReply(Key(c))) /\ UNCHANGED <<session, stored>>
    BY <1>5 DEF Submit
  <2> QED BY <1>2, <1>3, <2>1, <2>2, ReplyArrivesAlone
<1>6. CASE ~IsStored(Key(c)) /\ Stale(c)
  <2>1. Receive(c, call, Told("sync_required", session)) /\ UNCHANGED <<session, stored>>
    BY <1>6 DEF Submit
  <2> QED BY <1>2, <1>3, <1>4, <2>1, ReplyArrivesAlone
<1>7. CASE ~IsStored(Key(c)) /\ ~Stale(c) /\ ~HoldsLease(c)
  <2>1. Receive(c, call, Told("rejected", session)) /\ UNCHANGED <<session, stored>>
    BY <1>7 DEF Submit
  <2> QED BY <1>2, <1>3, <1>4, <2>1, ReplyArrivesAlone
<1>8. CASE ~IsStored(Key(c)) /\ ~Stale(c) /\ HoldsLease(c)
  <2> DEFINE reply == Told("accepted", session')
  <2>1. /\ session' = Chunk(body) /\ Receive(c, call, reply)
        /\ stored' = stored \cup {[key |-> Key(c), reply |-> reply]}
    BY <1>8 DEF Submit
  <2>2. session.state = "COLLECTING"
    BY <1>1, <1>8 DEF HoldsLease, RowFits
  <2>3. Grows(session, session') /\ session' \in Rows /\ session'.state # "COMPLETE"
    BY <1>1, <2>1, <2>2, ChunkIs DEF Grows
  <2>4. reply \in Replies /\ ReplyFits(reply, session')
    BY <2>3, ToldIs DEF IsTold
  <2> HIDE DEF reply
  <2>5. StoredFits(stored', session')
    <3>1. \A e \in stored : e.key # Key(c)
      BY <1>8 DEF IsStored
    <3> QED BY <1>1, <1>3, <2>1, <2>3, <2>4, <3>1, StoredAdds
  <2>6. stored \subseteq stored'
    BY <2>1
  <2>7. \A d \in Clients : ~At(d, "finalizing")
    BY <2>2, OthersStay
  <2> QED BY <1>2, <1>3, <2>1, <2>3, <2>4, <2>5, <2>6, <2>7, ReplyArrives
<1> QED BY <1>5, <1>6, <1>7, <1>8

\* The reply of a finalize that is turned down fits.
LEMMA TurnedDownIs ==
  ASSUME NEW c \in Clients, session \in Rows, NEW r, r = TurnedDown(c)
  PROVE r \in Replies /\ ReplyFits(r, session)
<1> DEFINE status == IF Stale(c) THEN "sync_required" ELSE "rejected"
           action == NextAction(status, session.state, None)
<1>1. action \in Actions /\ (action = "complete" => session.state = "COMPLETE")
  BY NextActionIs
<1>2. r = [action |-> action, version |-> session.version, lease |-> None,
           done |-> session.done, artifact |-> FALSE]
  BY DEF TurnedDown, Reply
<1> HIDE DEF action
<1>3. r \in Replies
  BY <1>1, <1>2 DEF Replies, Rows, LeaseIds
<1>4. session.version <= session.version
  BY DEF Rows, Versions
<1>5. /\ r.action = action /\ r.version = session.version /\ r.lease = None
      /\ r.done = session.done /\ r.artifact = FALSE
  BY <1>2
<1> QED BY <1>1, <1>3, <1>4, <1>5 DEF ReplyFits

\* The begin of a finalize keeps the invariant.
LEMMA FinalizeBeginKeeps ==
  ASSUME IInv, NEW c \in Clients, NEW body, FinalizeBegin(c, body)
  PROVE IInv'
<1> DEFINE call == CallOf(c, body)
<1>1. /\ session \in Rows /\ RowFits(session) /\ StoredFits(stored, session)
      /\ Grows(session, session)
  BY GrowsSame DEF IInv, Types
<1>2. Calls(c, "finalize", body) /\ "finalize" \in Tools /\ Unlocked
      /\ UNCHANGED <<stored, budget>>
  BY DEF FinalizeBegin, Tools
<1>3. /\ client[c].pc \in {"ask"} \cup UnderWay /\ client[c].steps < budget[c]
      /\ call \in ToolCalls /\ call.tool = Last(c).action /\ call.tool = "finalize"
      /\ Key(c) \in CallKeys /\ Key(c).tool = "finalize"
  BY <1>2, CallsHas
<1>4. CASE IsStored(Key(c))
  <2>1. StoredReply(Key(c)) \in Replies /\ ReplyFits(StoredReply(Key(c)), session)
    BY <1>1, <1>4, StoredReplyIs
  <2>2. Receive(c, call, StoredReply(Key(c))) /\ UNCHANGED session
    BY <1>4 DEF FinalizeBegin
  <2> QED BY <1>2, <1>3, <2>1, <2>2, ReplyArrivesAlone
<1>5. CASE ~IsStored(Key(c)) /\ Resumes(c)
  <2>1. /\ client' = [client EXCEPT ![c] = Calling(c, "finalizing", body, None)]
        /\ session.state = "ASSEMBLING" /\ session' = session
    BY <1>5 DEF FinalizeBegin, Finalizing, Resumes, Begins
  <2> QED BY <1>1, <1>2, <1>5, <2>1, CallingKeeps
<1>6. CASE ~IsStored(Key(c)) /\ ~Resumes(c) /\ Begins(c)
  <2>1. /\ client' = [client EXCEPT ![c] = Calling(c, "finalizing", body, None)]
        /\ session.state = "READY"
        /\ session' = [session EXCEPT !.state = "ASSEMBLING", !.version = session.version + 1]
    BY <1>1, <1>6 DEF FinalizeBegin, Finalizing, Begins, Rows
  <2>2. session.version \in Nat /\ session.lease = None
    BY <1>1, <2>1 DEF RowFits, Rows, Versions
  <2>3. /\ session' \in Rows /\ session'.state = "ASSEMBLING" /\ session'.lease = None
        /\ session'.version = session.version + 1
    <3>1. session.version + 1 \in Versions
      BY <2>2 DEF Versions
    <3> QED BY <1>1, <2>1, <2>2, <3>1 DEF Rows
  <2>4. RowFits(session')
    BY <2>2, <2>3 DEF RowFits
  <2>5. Grows(session, session')
    BY <2>1, <2>2, <2>3, <2>4 DEF Grows
  <2> QED BY <1>2, <1>6, <2>1, <2>3, <2>5, CallingKeeps
<1>7. CASE ~IsStored(Key(c)) /\ ~Resumes(c) /\ ~Begins(c)
  <2>1. Receive(c, call, TurnedDown(c)) /\ UNCHANGED session
    BY <1>7 DEF FinalizeBegin
  <2>2. TurnedDown(c) \in Replies /\ ReplyFits(TurnedDown(c), session)
    BY <1>1, TurnedDownIs
  <2> QED BY <1>2, <1>3, <2>1, <2>2, ReplyArrivesAlone
<1> QED BY <1>4, <1>5, <1>6, <1>7

\* What a finalize under way knows.
LEMMA FinalizingHas ==
  ASSUME IInv, NEW c \in Clients, At(c, "finalizing")
  PROVE /\ client[c] \in Loops /\ LoopFits(client[c], budget[c], session, stored)
        /\ Key(c) \in CallKeys /\ Key(c).tool = "finalize"
        /\ \A e \in stored : e.key # Key(c)
        /\ \A d \in Clients : d # c => client[d].pc \notin Locked /\ ~At(d, "finalizing")
        /\ session \in Rows /\ RowFits(session) /\ StoredFits(stored, session)
        /\ session.state = "ASSEMBLING" /\ session.lease = None /\ session.version \in Nat
<1>1. /\ LoopFits(client[c], budget[c], session, stored) /\ client[c].pc = "finalizing"
      /\ client[c].pc \in UnderWay /\ Key(c) = KeyOf(client[c]) /\ Last(c) \in Replies
      /\ client[c].last = Last(c) /\ client[c] \in Loops
  BY Has DEF At, UnderWay, Last
<1>2. /\ client[c].call.tool = "finalize" /\ session.state = "ASSEMBLING"
      /\ Unanswered(client[c], stored)
  BY <1>1 DEF LoopFits
<1>3. client[c].call.tool = Last(c).action
  BY <1>1, UnderWayHas
<1>4. Key(c) \in CallKeys /\ Key(c).tool = "finalize"
  BY <1>1, <1>2, <1>3 DEF KeyOf, CallKeys, Replies, Tools
<1>5. \A e \in stored : e.key # Key(c)
  BY <1>1, <1>2 DEF Unanswered
<1>6. session \in Rows /\ RowFits(session) /\ StoredFits(stored, session)
  BY DEF IInv, Types
<1>7. \A d \in Clients : d # c => client[d].pc \notin Locked /\ ~At(d, "finalizing")
  BY <1>1 DEF IInv, Locked, At
<1>8. session.lease = None /\ session.version \in Nat
  BY <1>2, <1>6 DEF RowFits, Rows, Versions
<1> QED BY <1>1, <1>2, <1>4, <1>5, <1>6, <1>7, <1>8

\* The commit of a result keeps the invariant, if the result fits the new row.
LEMMA CommitKeeps ==
  ASSUME IInv, NEW c \in Clients, At(c, "finalizing"), NEW reply \in Replies,
         ReplyFits(reply, session'), NEW pc \in Committed, Commit(c, reply, pc),
         Grows(session, session'), session'.state = "COMPLETE" => reply.artifact
  PROVE IInv'
<1> DEFINE l == [client[c] EXCEPT !.pc = pc]
           entry == [key |-> Key(c), reply |-> reply]
<1>1. /\ stored' = stored \cup {entry} /\ budget' = budget
      /\ client' = [client EXCEPT ![c] = l]
  BY DEF Commit, Goto
<1>2. /\ client[c] \in Loops /\ LoopFits(client[c], budget[c], session, stored)
      /\ Key(c) \in CallKeys /\ Key(c).tool = "finalize"
      /\ \A e \in stored : e.key # Key(c)
      /\ \A d \in Clients : d # c => client[d].pc \notin Locked /\ ~At(d, "finalizing")
      /\ session \in Rows /\ StoredFits(stored, session)
      /\ Key(c) = KeyOf(client[c]) /\ Last(c) = client[c].last
      /\ client[c].pc = "finalizing"
  BY FinalizingHas, Has DEF Last, At
<1>3. StoredFits(stored', session') /\ stored \subseteq stored'
  BY <1>1, <1>2, StoredAdds
<1>4. /\ l \in Loops /\ l.pc = pc /\ l.last = client[c].last /\ l.steps = client[c].steps
      /\ l.same = client[c].same /\ l.call = client[c].call /\ l.pc \in Committed
  BY <1>2 DEF Loops, Places, Committed
<1>5. entry \in stored' /\ entry.key = Key(c) /\ entry.reply = reply
  BY <1>1
<1> HIDE DEF l, entry
<1>6. KeyOf(l) = Key(c)
  BY <1>2, <1>4 DEF KeyOf
<1>7. ~Unanswered(l, stored')
  BY <1>5, <1>6 DEF Unanswered
<1>8. ReplyFits(l.last, session')
  BY <1>2, <1>4, ReplyKeeps DEF LoopFits, Loops
<1>9. LoopFits(l, budget[c], session', stored')
  <2>1. /\ l.steps <= budget[c] /\ l.same < MaxIdentical /\ l.steps < budget[c]
        /\ l.call \in ToolCalls /\ l.call.tool = l.last.action /\ l.call.tool = "finalize"
    BY <1>2, <1>4 DEF LoopFits, UnderWay
  <2>2. l.pc \notin {"raised", "returned", "lease", "coverage", "finalizing"}
    BY <1>4 DEF Committed
  <2> QED BY ONLY <1>7, <1>8, <2>1, <2>2 DEF LoopFits
<1>10. session'.state = "COMPLETE" => Kept(stored', session')
  BY <1>2, <1>5 DEF Kept
<1> QED BY <1>1, <1>2, <1>3, <1>4, <1>9, <1>10, Compose

\* Acceptance keeps the invariant: its reply is the one with the report.
LEMMA FinalizeCompletesKeeps ==
  ASSUME IInv, NEW c \in Clients, FinalizeCompletes(c)
  PROVE IInv'
<1> DEFINE reply == CompleteReply(session')
<1>1. /\ At(c, "finalizing") /\ Commit(c, reply, "tidying") /\ "tidying" \in Committed
      /\ session' = [session EXCEPT !.state = "COMPLETE", !.version = session.version + 2]
  BY FinalizingHas DEF FinalizeCompletes, Rows, Committed
<1>2. /\ session \in Rows /\ RowFits(session) /\ session.state = "ASSEMBLING"
      /\ session.lease = None /\ session.version \in Nat
  BY <1>1, FinalizingHas
<1>3. session.version + 2 \in Versions /\ session.version + 2 > session.version
      /\ session.version + 2 # 0 /\ session.version + 2 # -1
  BY <1>2 DEF Versions
<1>4. /\ session' \in Rows /\ session'.state = "COMPLETE" /\ session'.lease = None
      /\ session'.version = session.version + 2
  BY <1>1, <1>2, <1>3 DEF Rows
<1>5. Grows(session, session')
  BY <1>2, <1>3, <1>4 DEF Grows, RowFits
<1>6. /\ reply.action = "complete" /\ reply.version = session'.version
      /\ reply.lease = None /\ reply.done = session'.done /\ reply.artifact = TRUE
      /\ reply = [action |-> "complete", version |-> session'.version, lease |-> None,
                  done |-> session'.done, artifact |-> TRUE]
  BY <1>4 DEF CompleteReply, Reply, NextAction
<1> HIDE DEF reply
<1>7. reply \in Replies
  BY <1>4, <1>6 DEF Replies, Rows, Actions, LeaseIds
<1>8. reply.version <= session'.version
  BY <1>2, <1>4, <1>6
<1>9. ReplyFits(reply, session')
  BY <1>4, <1>6, <1>8 DEF ReplyFits, IsReport
<1> QED BY <1>1, <1>5, <1>6, <1>7, <1>9, CommitKeeps

\* A round of repair keeps the invariant.
LEMMA FinalizeRepairsKeeps ==
  ASSUME IInv, NEW c \in Clients, FinalizeRepairs(c)
  PROVE IInv'
<1> DEFINE reply == Told("lease_issued", session')
           version == session.version + 3
           lease == [id |-> version, retry |-> 0]
<1>1. /\ At(c, "finalizing") /\ Commit(c, reply, "routed") /\ "routed" \in Committed
      /\ session.repairs < MaxRepairRounds
  BY DEF FinalizeRepairs, Committed
<1>2. PICK reopened \in 1 .. session.done :
        session' = [state |-> "COLLECTING", version |-> version,
                    done |-> session.done - reopened, repairs |-> session.repairs + 1,
                    lease |-> lease]
  BY DEF FinalizeRepairs
<1>3. /\ session \in Rows /\ RowFits(session) /\ session.state = "ASSEMBLING"
      /\ session.version \in Nat
  BY <1>1, FinalizingHas
<1>4. /\ version \in Nat /\ version > session.version /\ version # 0 /\ version # -1
      /\ version \in Versions
  BY <1>3 DEF Versions
<1>5. lease \in Leases /\ lease # None
  BY <1>4, ClientAssumption, SentinelAssumption DEF Leases
<1> DEFINE done == session.done - reopened
<1>6. done \in 0 .. Units /\ done < Units /\ session.repairs + 1 \in 0 .. MaxRepairRounds
  BY <1>1, <1>3, ClientAssumption DEF Rows
<1>7. session' = [state |-> "COLLECTING", version |-> version, done |-> done,
                   repairs |-> session.repairs + 1, lease |-> lease]
  BY <1>2
<1> HIDE DEF done, lease, version
<1>8. /\ session' \in Rows /\ session'.state = "COLLECTING" /\ session'.lease = lease
      /\ session'.version = version /\ session'.done = done
  BY <1>4, <1>5, <1>6, <1>7 DEF Rows
<1>9. RowFits(session')
  BY <1>4, <1>5, <1>6, <1>8 DEF RowFits
<1>10. Grows(session, session')
  BY <1>3, <1>4, <1>8, <1>9 DEF Grows
<1>12. reply \in Replies /\ ReplyFits(reply, session')
  BY <1>8, ToldIs DEF IsTold
<1> HIDE DEF reply
<1> QED BY <1>1, <1>8, <1>10, <1>12, CommitKeeps

\* So does a result that fails the session.
LEMMA FailureKeeps ==
  ASSUME IInv, NEW c \in Clients, At(c, "finalizing"), NEW gap \in {2, 3},
         session' = [session EXCEPT !.state = "FAILED", !.version = session.version + gap],
         NEW pc \in Committed, Commit(c, Told("failed", session'), pc)
  PROVE IInv'
<1> DEFINE reply == Told("failed", session')
<1>2. /\ session \in Rows /\ RowFits(session) /\ session.state = "ASSEMBLING"
      /\ session.lease = None /\ session.version \in Nat
  BY FinalizingHas
<1>3. session.version + gap \in Versions /\ session.version + gap > session.version
      /\ session.version + gap # 0 /\ session.version + gap # -1
  BY <1>2 DEF Versions
<1>4. /\ session' \in Rows /\ session'.state = "FAILED" /\ session'.lease = None
      /\ session'.version = session.version + gap
  BY <1>2, <1>3 DEF Rows
<1>5. Grows(session, session')
  BY <1>2, <1>3, <1>4 DEF Grows, RowFits
<1>7. reply \in Replies /\ ReplyFits(reply, session') /\ Commit(c, reply, pc)
  BY <1>4, ToldIs DEF IsTold
<1> HIDE DEF reply
<1> QED BY <1>4, <1>5, <1>7, CommitKeeps

\* A failed target guard keeps the invariant.
LEMMA FinalizeFailsKeeps ==
  ASSUME IInv, NEW c \in Clients, FinalizeFails(c)
  PROVE IInv'
<1>1. /\ At(c, "finalizing") /\ "tidying" \in Committed /\ 2 \in {2, 3}
      /\ session' = [session EXCEPT !.state = "FAILED", !.version = session.version + 2]
      /\ Commit(c, Told("failed", session'), "tidying")
  BY FinalizingHas DEF FinalizeFails, Rows, Committed
<1> QED BY <1>1, FailureKeeps

\* A routing that finds no round or no record keeps the invariant.
LEMMA RoutingFailsKeeps ==
  ASSUME IInv, NEW c \in Clients, RoutingFails(c)
  PROVE IInv'
<1>1. /\ At(c, "finalizing") /\ "routed" \in Committed /\ 3 \in {2, 3}
      /\ session' = [session EXCEPT !.state = "FAILED", !.version = session.version + 3]
      /\ Commit(c, Told("failed", session'), "routed")
  BY FinalizingHas DEF RoutingFails, Rows, Committed
<1> QED BY <1>1, FailureKeeps

\* What a finalize has after its commit: its reply, under its key.
LEMMA CommittedHas ==
  ASSUME IInv, NEW c \in Clients, client[c].pc \in Committed
  PROVE /\ client[c].pc \in {"ask"} \cup UnderWay /\ client[c].steps < budget[c]
        /\ client[c].call \in ToolCalls /\ client[c].call.tool = Last(c).action
        /\ StoredReply(Key(c)) \in Replies /\ ReplyFits(StoredReply(Key(c)), session)
<1>1. client[c].pc \in UnderWay
  BY DEF Committed, UnderWay
<1>2. ~Unanswered(client[c], stored) /\ Key(c) = KeyOf(client[c])
  BY Has DEF LoopFits
<1>3. IsStored(Key(c)) /\ StoredFits(stored, session)
  BY <1>2 DEF Unanswered, IsStored, IInv
<1> QED BY <1>1, <1>3, UnderWayHas, StoredReplyIs

\* The reply to a committed result keeps the invariant.
LEMMA FinalizeRepliesKeeps ==
  ASSUME IInv, NEW c \in Clients, FinalizeReplies(c)
  PROVE IInv'
<1>1. client[c].pc \in Committed
  BY DEF FinalizeReplies, At, Committed
<1> QED BY <1>1, CommittedHas, ReplyArrivesAlone DEF FinalizeReplies

\* What a loop is told of a call that raised.
LEMMA ErrorArrives ==
  ASSUME IInv, NEW c \in Clients, client[c].pc \in UnderWay,
         Receive(c, client[c].call, ErrorReply), UNCHANGED <<session, stored, budget>>
  PROVE IInv'
<1>1. ErrorReply \in Replies /\ ReplyFits(ErrorReply, session)
  BY ErrorReplyIs DEF IInv, Types
<1> QED BY <1>1, UnderWayHas, ReplyArrivesAlone

\* The end of the routing keeps the invariant, whatever journal it met.
LEMMA FinishRoutingKeeps ==
  ASSUME IInv, NEW c \in Clients, FinishRouting(c)
  PROVE IInv'
<1>1. client[c].pc \in Committed /\ client[c].pc \in UnderWay
      /\ UNCHANGED <<session, stored, budget>>
  BY DEF FinishRouting, At, Committed, UnderWay
<1>2. CASE Receive(c, client[c].call, StoredReply(Key(c)))
  BY <1>1, <1>2, CommittedHas, ReplyArrivesAlone
<1>3. CASE Receive(c, client[c].call, ErrorReply)
  BY <1>1, <1>3, ErrorArrives
<1> QED BY <1>2, <1>3 DEF FinishRouting

\* A finalize that raises keeps the invariant, before its commit and after it.
LEMMA FinalizeRaisesKeeps ==
  ASSUME IInv, NEW c \in Clients, FinalizeRaises(c)
  PROVE IInv'
<1>1. client[c].pc \in UnderWay
  BY DEF FinalizeRaises, Locked, UnderWay
<1> QED BY <1>1, ErrorArrives DEF FinalizeRaises

\* So does a process that stops in one.
LEMMA StopKeeps ==
  ASSUME IInv, NEW c \in Clients, Stop(c)
  PROVE IInv'
<1>1. client[c].pc # "raised"
  BY DEF Stop, Locked
<1> QED BY <1>1, GotoKeeps DEF Stop

-----------------------------------------------------------------------------
(* The invariant *)

\* The invariant holds at first.
LEMMA InitInv ==
  ASSUME Init
  PROVE IInv
<1>1. PICK known \in {0, Units} :
        /\ budget = IF steady = None THEN BusySteps ELSE [c \in Clients |-> StepsFor(known)]
        /\ session = IF known = 0 THEN NoSession ELSE Started
        /\ client = [c \in Clients |->
             Loop(IF known = 0 THEN Before("start") ELSE Told("lease_issued", Started))]
  BY DEF Init
<1> DEFINE last == IF known = 0 THEN Before("start") ELSE Told("lease_issued", Started)
<1>2. session \in Rows /\ RowFits(session) /\ session.state # "COMPLETE"
  <2>1. /\ NoSession \in Rows /\ RowFits(NoSession) /\ NoSession.state = "NONE"
    <3>1. -1 \in Versions /\ 0 \in 0 .. Units /\ 0 \in 0 .. MaxRepairRounds
      BY ClientAssumption DEF Versions
    <3> QED BY <3>1 DEF NoSession, Rows, RowFits
  <2> QED BY <1>1, <2>1, StartedIs
<1>3. last \in Replies /\ ReplyFits(last, session)
  <2>1. CASE known = 0
    <3>1. Before("start") \in Replies
      BY ClientAssumption DEF Before, Replies, Actions, Tools, Versions, LeaseIds
    <3>2. session = NoSession
      BY <1>1, <2>1
    <3>3. ReplyFits(Before("start"), NoSession)
      BY DEF ReplyFits, Before, NoSession
    <3> QED BY <2>1, <3>1, <3>2, <3>3
  <2>2. CASE known # 0
    BY <1>1, <2>2, StartedIs, ToldIs DEF IsTold
  <2> QED BY <2>1, <2>2
<1>4. budget \in [Clients -> Nat]
  <2>1. StepsPerUnit * known \in Nat
    BY <1>1, ClientAssumption
  <2>2. StepsFor(known) \in Nat
    BY <2>1, ClientAssumption DEF StepsFor
  <2> QED BY <1>1, <2>2, ClientAssumption
<1> HIDE DEF last
<1>5. /\ Loop(last) \in Loops /\ Loop(last).pc = "ask" /\ Loop(last).last = last
      /\ Loop(last).steps = 0 /\ Loop(last).same = 0 /\ Loop(last).seen = None
  BY <1>3, ClientAssumption DEF Loop, Loops, Places
<1>6. client = [c \in Clients |-> Loop(last)]
  BY <1>1 DEF last
<1>7. \A c \in Clients : client[c] = Loop(last) /\ client[c].pc = "ask"
  BY <1>5, <1>6
<1>8. \A c \in Clients : LoopFits(client[c], budget[c], session, stored)
  <2> TAKE c \in Clients
  <2>1. 0 <= budget[c] /\ 0 < MaxIdentical
    BY <1>4, ClientAssumption
  <2> QED BY <1>3, <1>5, <1>7, <2>1 DEF LoopFits, UnderWay, Committed
<1>9. client \in [Clients -> Loops]
  BY <1>5, <1>6
<1>10. stored = {} /\ session.state # "COMPLETE"
  BY <1>2 DEF Init
<1> QED
  BY <1>2, <1>4, <1>7, <1>8, <1>9, <1>10
     DEF IInv, Types, StoredFits, Kept, Locked

\* Every step keeps the invariant.
LEMMA StepInv ==
  ASSUME IInv, [Next]_vars
  PROVE IInv'
<1>1. CASE Next
  <2>1. PICK c \in Clients : Step(c)
    BY <1>1 DEF Next
  <2>2. CASE Return(c) \/ ExceedSteps(c)
    BY <2>2, ReturnKeeps, ExceedStepsKeeps
  <2>3. CASE \E code \in Codes : TransportFailure(c, code)
    BY <2>3, TransportFailureKeeps
  <2>4. CASE \E body \in Bodies(c) :
               \/ InvalidCall(c, body) \/ ServiceRaises(c, body)
               \/ ReadSession(c, body) \/ Submit(c, body) \/ FinalizeBegin(c, body)
    BY <2>4, InvalidCallKeeps, ServiceRaisesKeeps, ReadSessionKeeps, SubmitKeeps,
       FinalizeBeginKeeps
  <2>5. CASE Start(c) \/ ReadLease(c) \/ ReadCoverage(c)
    BY <2>5, StartKeeps, ReadLeaseKeeps, ReadCoverageKeeps
  <2>6. CASE \/ FinalizeCompletes(c) \/ FinalizeFails(c)
             \/ FinalizeRepairs(c) \/ RoutingFails(c)
    BY <2>6, FinalizeCompletesKeeps, FinalizeFailsKeeps, FinalizeRepairsKeeps,
       RoutingFailsKeeps
  <2>7. CASE FinalizeReplies(c) \/ FinishRouting(c) \/ FinalizeRaises(c) \/ Stop(c)
    BY <2>7, FinalizeRepliesKeeps, FinishRoutingKeeps, FinalizeRaisesKeeps, StopKeeps
  <2> QED BY <2>1, <2>2, <2>3, <2>4, <2>5, <2>6, <2>7 DEF Step
<1>2. CASE UNCHANGED vars
  BY <1>2 DEF vars, IInv, Types
<1> QED BY <1>1, <1>2

\* The invariant holds in every reachable state.
THEOREM Invariance == Spec => []IInv
<1>1. Init => IInv
  BY InitInv
<1>2. IInv /\ [Next]_vars => IInv'
  BY StepInv
<1> QED BY <1>1, <1>2, PTL DEF Spec

-----------------------------------------------------------------------------
(* The theorems *)

\* The lock of finalize has one holder.
LEMMA OneFinalizes ==
  ASSUME IInv
  PROVE Cardinality({c \in Clients : client[c].pc \in Locked}) <= 1
<1> DEFINE F == {c \in Clients : client[c].pc \in Locked}
<1>1. CASE F = {}
  BY <1>1, FS_EmptySet
<1>2. CASE F # {}
  <2>1. PICK c \in F : TRUE
    BY <1>2
  <2>2. F = {c}
    BY <2>1 DEF IInv
  <2> HIDE DEF F
  <2>3. Cardinality(F) = 1
    BY <2>2, FS_Singleton
  <2> QED BY <2>3 DEF F
<1> QED BY <1>1, <1>2

\* The variables keep their types, a lease is open exactly while the session
\* collects, keys are answered once, and one call at most has the lock.
THEOREM TypeCorrect == Spec => []TypeOK
<1>1. ASSUME IInv PROVE TypeOK
  <2>1. session \in Rows /\ client \in [Clients -> Loops]
    BY <1>1 DEF IInv, Types
  <2>2. (session.lease # None) <=> (session.state = "COLLECTING")
    BY <1>1 DEF IInv, RowFits
  <2>3. stored \subseteq Answers /\ \A e, f \in stored : e.key = f.key => e = f
    BY <1>1 DEF IInv, StoredFits
  <2>4. \A c \in Clients : client[c].steps <= budget[c]
    BY <1>1 DEF IInv, LoopFits
  <2> QED BY <1>1, <2>1, <2>2, <2>3, <2>4, OneFinalizes DEF TypeOK, Answers
<1>2. IInv => TypeOK
  BY <1>1
<1> QED BY <1>2, Invariance, PTL

\* run_report_session returns only when the session it drives is complete.
THEOREM ReturnedIsCompleteHolds == Spec => []ReturnedIsComplete
<1>1. IInv => ReturnedIsComplete
  BY DEF IInv, LoopFits, ReplyFits, ReturnedIsComplete, At
<1> QED BY <1>1, Invariance, PTL

\* The report of a complete session can be had, however the finalize that
\* completed it ended: the reply that carries it stays stored for that call, and
\* no other reply carries one.
THEOREM ArtifactIsKeptHolds == Spec => []ArtifactIsKept
<1>1. ASSUME IInv, session.state = "COMPLETE"
      PROVE \E e \in stored :
              /\ e.key.tool = "finalize" /\ e.reply.action = "complete"
              /\ e.reply.artifact /\ e.reply.version = session.version
              /\ \A c \in Clients : Last(c).artifact => Last(c) = e.reply
  <2>1. PICK e \in stored : e.key.tool = "finalize" /\ e.reply.artifact
    BY <1>1 DEF IInv, Kept
  <2>2. e.reply \in Replies /\ IsReport(e.reply, session)
    BY <1>1, <2>1 DEF IInv, StoredFits, Answers, ReplyFits
  <2>3. ASSUME NEW c \in Clients, Last(c).artifact
        PROVE Last(c) = e.reply
    <3>1. Last(c) \in Replies /\ IsReport(Last(c), session)
      BY <1>1, <2>3, Has DEF LoopFits, ReplyFits, Last
    <3> QED BY <2>1, <2>2, <2>3, <3>1 DEF IsReport, Replies
  <2> QED BY <2>1, <2>2, <2>3 DEF IsReport
<1>2. IInv => ArtifactIsKept
  BY <1>1 DEF ArtifactIsKept
<1> QED BY <1>2, Invariance, PTL

\* A step of one loop leaves the others alone.
LEMMA OnlyItsLoop ==
  ASSUME IInv, NEW c \in Clients, Step(c), NEW d \in Clients, d # c
  PROVE client'[d] = client[d]
<1>1. \E l : client' = [client EXCEPT ![c] = l]
  BY DEF Step, Return, ExceedSteps, TransportFailure, InvalidCall, ServiceRaises,
         ReadSession,
         Submit, FinalizeBegin, Start, ReadLease, ReadCoverage, FinalizeCompletes,
         FinalizeFails, FinalizeRepairs, RoutingFails, Commit, FinalizeReplies,
         FinishRouting, FinalizeRaises, Stop, Goto, Receive, Finalizing
<1> QED BY <1>1 DEF IInv, Types

\* A chunk that is accepted was asked for by a reply that is true of the session.
LEMMA SubmitIsTold ==
  ASSUME IInv, NEW c \in Clients, NEW body, Submit(c, body),
         session'.version # session.version
  PROVE /\ Last(c).version = session.version /\ Last(c).done = session.done
        /\ Last(c).lease = LeaseId(session)
<1>1. session' # session
  OBVIOUS
<1>2. ~Stale(c) /\ HoldsLease(c)
  BY <1>1 DEF Submit
<1>3. ReplyFits(Last(c), session)
  BY Has DEF LoopFits, Last
<1> QED BY <1>2, <1>3 DEF Stale, HoldsLease, ReplyFits, LeaseId

\* So was a finalize that begins.
LEMMA BeginIsTold ==
  ASSUME IInv, NEW c \in Clients, NEW body, FinalizeBegin(c, body),
         session'.version # session.version
  PROVE /\ Last(c).version = session.version /\ Last(c).done = session.done
        /\ Last(c).lease = LeaseId(session)
<1>1. session' # session
  OBVIOUS
<1>2. session.state = "READY" /\ ~Stale(c)
  BY <1>1 DEF FinalizeBegin, Begins
<1>3. ReplyFits(Last(c), session) /\ session.lease = None
  BY <1>2, Has DEF LoopFits, Last, IInv, RowFits
<1> QED BY <1>2, <1>3 DEF Stale, ReplyFits, LeaseId

\* No other call of a loop moves the version of a started session.
LEMMA AskIsTold ==
  ASSUME IInv, NEW c \in Clients, Step(c), At(c, "ask"), session.state # "NONE",
         session'.version # session.version
  PROVE /\ Last(c).version = session.version /\ Last(c).done = session.done
        /\ Last(c).lease = LeaseId(session)
<1>1. session' # session
  OBVIOUS
<1>2. ~(Return(c) \/ ExceedSteps(c) \/ ReadLease(c) \/ ReadCoverage(c) \/ Start(c))
  BY <1>1 DEF Return, ExceedSteps, ReadLease, ReadCoverage, Start
<1>3. ~(\/ FinalizeCompletes(c) \/ FinalizeFails(c) \/ FinalizeRepairs(c) \/ RoutingFails(c)
        \/ FinalizeReplies(c) \/ FinishRouting(c) \/ FinalizeRaises(c) \/ Stop(c))
  BY DEF At, FinalizeCompletes, FinalizeFails, FinalizeRepairs, RoutingFails,
         FinalizeReplies, FinishRouting, FinalizeRaises, Stop, Locked
<1>4. \A code : ~TransportFailure(c, code)
  <2>1. SUFFICES ASSUME NEW code, TransportFailure(c, code) PROVE FALSE
    OBVIOUS
  <2>2. session' = [session EXCEPT !.lease = Retried(session.lease)]
    BY <1>1, <2>1 DEF TransportFailure
  <2>3. session'.version = session.version
    BY <2>2 DEF IInv, Types, Rows
  <2> QED BY <2>3
<1>5. \A body : ~(InvalidCall(c, body) \/ ServiceRaises(c, body) \/ ReadSession(c, body))
  BY <1>1 DEF InvalidCall, ServiceRaises, ReadSession
<1>6. \E body \in Bodies(c) : Submit(c, body) \/ FinalizeBegin(c, body)
  BY <1>2, <1>3, <1>4, <1>5 DEF Step
<1> QED BY <1>6, SubmitIsTold, BeginIsTold

\* Whatever changes the document or begins a finalize was asked for by a reply
\* that is true of the session at that moment: replies put together from three
\* reads, replies stored for a key and replies overtaken by another loop cost a
\* call, never an update.
THEOREM ActsOnWhatItWasToldHolds == Spec => ActsOnWhatItWasTold
<1>1. ASSUME IInv, Next, NEW c \in Clients, At(c, "ask"), client'[c] # client[c],
             session.state # "NONE", session'.version # session.version
      PROVE /\ Last(c).version = session.version /\ Last(c).done = session.done
            /\ Last(c).lease = IF session.lease = None THEN None ELSE session.lease.id
  <2>1. PICK d \in Clients : Step(d)
    BY <1>1 DEF Next
  <2>2. d = c
    BY <1>1, <2>1, OnlyItsLoop
  <2> QED BY <1>1, <2>1, <2>2, AskIsTold DEF LeaseId
<1>2. IInv /\ [Next]_vars =>
        [\A c \in Clients :
          /\ At(c, "ask") /\ client'[c] # client[c]
          /\ session.state # "NONE" /\ session'.version # session.version
          => /\ Last(c).version = session.version
             /\ Last(c).done = session.done
             /\ Last(c).lease = IF session.lease = None THEN None ELSE session.lease.id]_vars
  BY <1>1
<1> QED BY <1>2, Invariance, PTL DEF Spec, ActsOnWhatItWasTold

=============================================================================
