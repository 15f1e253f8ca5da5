------------------------- MODULE BoundedSubprocess -------------------------
(***************************************************************************)
(* One call of bounded_subprocess.run (scripts/bounded_subprocess.py): the *)
(* caller polls a child, two threads read its pipes and share a count of   *)
(* retained bytes, and whoever sees the limit or the deadline first ends   *)
(* the child's process group.  The finalize lifecycle runs the target      *)
(* guard this way, and the guard the report validator.                     *)
(*                                                                         *)
(* A pipe stays open as long as anyone holds it: the child, a descendant   *)
(* in its process group, or one that has moved to a session of its own     *)
(* (an outsider), which killpg does not reach.                             *)
(***************************************************************************)
EXTENDS Integers

CONSTANTS
  MaxOutput,      \* max_output_bytes
  Chunk,          \* 4096, the bytes a read waits for
  MaxWritten      \* bound: bytes written to one pipe

ASSUME BoundsAssumption ==
  MaxOutput \in Nat \ {0} /\ Chunk \in Nat \ {0} /\ MaxWritten \in Nat

Streams == {"stdout", "stderr"}

VARIABLES
  child,          \* running, or how it ended
  descendants,    \* who else holds the pipes: "group", "outsider"
  written, taken, \* per pipe: bytes written so far, bytes taken off it
  reader,         \* per pipe: reading (and in the buffer's lock), holding, done
  chunk,          \* what a reader holds
  kept,           \* the two bytearrays, as numbers of bytes
  exceeded,       \* the output_exceeded event
  main,           \* where the caller is
  timedOut,
  late            \* the deadline has passed

vars == <<child, descendants, written, taken, reader, chunk, kept,
          exceeded, main, timedOut, late>>
children == <<child, descendants, written>>
readers == <<taken, reader, chunk, kept, exceeded>>

Open == child = "running" \/ descendants # {}
Retained == kept["stdout"] + kept["stderr"]
Least(a, b) == IF a <= b THEN a ELSE b
Readable(s) == written[s] - taken[s]

-----------------------------------------------------------------------------
(* The child and its descendants *)

Write(s) ==
  /\ Open
  /\ \E n \in 1..(MaxWritten - written[s]) : written' = [written EXCEPT ![s] = @ + n]
  /\ UNCHANGED <<child, descendants, readers, main, timedOut, late>>

Fork ==
  /\ child = "running" \/ "group" \in descendants
  /\ \E kind \in {"group", "outsider"} \ descendants : descendants' = descendants \cup {kind}
  /\ UNCHANGED <<child, written, readers, main, timedOut, late>>

Exit ==
  /\ child = "running"
  /\ child' \in {"ok", "failed"}
  /\ UNCHANGED <<descendants, written, readers, main, timedOut, late>>

Leave ==
  /\ \E kind \in descendants : descendants' = descendants \ {kind}
  /\ UNCHANGED <<child, written, readers, main, timedOut, late>>

DeadlinePasses ==
  /\ ~late /\ late' = TRUE
  /\ UNCHANGED <<children, readers, main, timedOut>>

-----------------------------------------------------------------------------
(* read_stream *)

\* stream.read(4096) returns when it has that many bytes, or at the end.
Read(s) ==
  LET n == Least(Chunk, Readable(s)) IN
  /\ reader[s] = "reading"
  /\ n = Chunk \/ ~Open
  /\ taken' = [taken EXCEPT ![s] = @ + n]
  /\ chunk' = [chunk EXCEPT ![s] = n]
  /\ reader' = [reader EXCEPT ![s] = IF n = 0 THEN "done" ELSE "holding"]
  /\ UNCHANGED <<children, kept, exceeded, main, timedOut, late>>

Closed(s) ==
  \/ s = "stdout" /\ main \in {"close_stderr", "returned"}
  \/ s = "stderr" /\ main = "returned"

\* Mutants: the chunk that goes over the limit is kept whole; it is cut, but not
\* reported.
KeepsWhole(s) ==
  /\ kept' = [kept EXCEPT ![s] = IF Retained < MaxOutput THEN @ + chunk[s] ELSE @]
  /\ exceeded' = (exceeded \/ chunk[s] > MaxOutput - Retained)
KeepsQuietly(s) ==
  /\ kept' = [kept EXCEPT ![s] = @ + Least(chunk[s], MaxOutput - Retained)]
  /\ exceeded' = (exceeded \/ Retained = MaxOutput)

\* Under the lock: keep what is left of the limit, and report the rest.
Keeps(s) ==
  /\ kept' = [kept EXCEPT ![s] = @ + Least(chunk[s], MaxOutput - Retained)]
  /\ exceeded' = (exceeded \/ chunk[s] > MaxOutput - Retained)

\* The next read of a pipe that was closed meanwhile raises and ends the thread.
Account(s) ==
  /\ reader[s] = "holding"
  /\ Keeps(s)
  /\ reader' = [reader EXCEPT ![s] = IF Closed(s) THEN "done" ELSE "reading"]
  /\ chunk' = [chunk EXCEPT ![s] = 0]
  /\ UNCHANGED <<children, taken, main, timedOut, late>>

-----------------------------------------------------------------------------
(* run *)

\* Mutant: process.kill() in place of killpg.
StopChild ==
  /\ child' = IF child = "running" THEN "killed" ELSE child
  /\ UNCHANGED <<descendants, written>>

\* stop_process_group: SIGKILL to everyone the group still has.
StopGroup ==
  /\ child' = IF child = "running" THEN "killed" ELSE child
  /\ descendants' = descendants \ {"group"}
  /\ UNCHANGED written

\* The polling loop: the event is looked at before the clock.
PollEnded ==
  /\ main = "poll" /\ child # "running"
  /\ main' = "drain"
  /\ UNCHANGED <<children, readers, timedOut, late>>

PollExceeded ==
  /\ main = "poll" /\ child = "running" /\ exceeded
  /\ StopGroup
  /\ main' = "drain"
  /\ UNCHANGED <<readers, timedOut, late>>

PollLate ==
  /\ main = "poll" /\ child = "running" /\ ~exceeded /\ late
  /\ StopGroup
  /\ timedOut' = TRUE
  /\ main' = "drain"
  /\ UNCHANGED <<readers, late>>

\* The child is gone; the readers go on until the deadline.
ReadersAlive == \E s \in Streams : reader[s] # "done"

DrainEnded ==
  /\ main = "drain" /\ ~ReadersAlive
  /\ main' = "join"
  /\ UNCHANGED <<children, readers, timedOut, late>>

DrainLate ==
  /\ main = "drain" /\ ReadersAlive /\ late
  /\ StopGroup
  /\ timedOut' = TRUE
  /\ main' = "join"
  /\ UNCHANGED <<readers, late>>

\* join(timeout=0.5) twice: it returns whether the thread has ended or not.
Join ==
  /\ main = "join"
  /\ main' = "close_stdout"
  /\ UNCHANGED <<children, readers, timedOut, late>>

\* close() takes the buffer's lock, which a thread inside read() holds.
Close(s, at, next) ==
  /\ main = at /\ reader[s] # "reading"
  /\ main' = next
  /\ UNCHANGED <<children, readers, timedOut, late>>

Returned == main = "returned"

-----------------------------------------------------------------------------
Init ==
  /\ child = "running" /\ descendants = {}
  /\ written = [s \in Streams |-> 0] /\ taken = [s \in Streams |-> 0]
  /\ reader = [s \in Streams |-> "reading"] /\ chunk = [s \in Streams |-> 0]
  /\ kept = [s \in Streams |-> 0] /\ exceeded = FALSE
  /\ main = "poll" /\ timedOut = FALSE /\ late = FALSE

Run ==
  \/ PollEnded \/ PollExceeded \/ PollLate
  \/ DrainEnded \/ DrainLate \/ Join
  \/ Close("stdout", "close_stdout", "close_stderr")
  \/ Close("stderr", "close_stderr", "returned")

ReadStream(s) == Read(s) \/ Account(s)

Next ==
  \/ Run \/ DeadlinePasses \/ Fork \/ Exit \/ Leave
  \/ \E s \in Streams : ReadStream(s) \/ Write(s)

\* Threads go on and the clock does; a child need not ever end.
Spec ==
  /\ Init /\ [][Next]_vars
  /\ WF_vars(Run) /\ WF_vars(DeadlinePasses)
  /\ \A s \in Streams : WF_vars(ReadStream(s))

-----------------------------------------------------------------------------
(* Properties *)

TypeOK ==
  /\ child \in {"running", "ok", "failed", "killed"}
  /\ descendants \subseteq {"group", "outsider"}
  /\ written \in [Streams -> 0..MaxWritten] /\ taken \in [Streams -> 0..MaxWritten]
  /\ reader \in [Streams -> {"reading", "holding", "done"}]
  /\ chunk \in [Streams -> 0..Chunk]
  /\ kept \in [Streams -> 0..MaxOutput]
  /\ Retained <= MaxOutput /\ \A s \in Streams : taken[s] <= written[s]
  /\ exceeded \in BOOLEAN /\ timedOut \in BOOLEAN /\ late \in BOOLEAN
  /\ main \in {"poll", "drain", "join", "close_stdout", "close_stderr", "returned"}

\* What the callers make of a Result (CandidateValidator, validate).
Verdict ==
  IF timedOut \/ exceeded THEN "cannot_run" ELSE IF child = "ok" THEN "passes" ELSE "fails"

\* A verdict is one the child gave: it ended by itself, everybody who could still
\* write is gone, and all that was written is in the result.  A call that reports
\* too much output has seen too much.
VerdictIsTheChilds ==
  Returned =>
    /\ Verdict # "cannot_run" =>
         child # "killed" /\ ~Open /\ \A s \in Streams : kept[s] = written[s]
    /\ exceeded => written["stdout"] + written["stderr"] > MaxOutput

\* However long the child and its group go on, the call returns, unless a
\* descendant outside the group holds the pipes: then close() waits for it.
RunReturns == <>(Returned \/ "outsider" \in descendants)
=============================================================================
