---------------------- MODULE BoundedSubprocessProofs ----------------------
(***************************************************************************)
(* Theorems about BoundedSubprocess: its types, and that a verdict is the  *)
(* child's own, for every limit, chunk size and amount of output.          *)
(***************************************************************************)
EXTENDS BoundedSubprocess, TLAPS

\* Every byte taken off a pipe is kept, held, or beyond the limit and reported
\* as such; a limit that is reported has been passed.
Accounting ==
  /\ \A s \in Streams : kept[s] + chunk[s] <= taken[s]
  /\ \A s \in Streams : ~exceeded => kept[s] + chunk[s] = taken[s]
  /\ \A s \in Streams : reader[s] # "holding" => chunk[s] = 0
  /\ exceeded => written["stdout"] + written["stderr"] > MaxOutput

\* The pipe has been read to its end, and nobody is left to write.
Drained(s) == reader[s] = "done" /\ ~Open /\ taken[s] = written[s]

\* A reader that ends before its pipe is closed has read all of it; behind the
\* drain without a timeout both have.  Only the limit and the deadline kill.
Endings ==
  /\ \A s \in Streams : reader[s] = "done" /\ ~Closed(s) => Drained(s)
  /\ main \notin {"poll", "drain"} /\ ~timedOut => \A s \in Streams : Drained(s)
  /\ child = "killed" => exceeded \/ timedOut

\* Every step keeps the types.
LEMMA TypeStep == TypeOK /\ [Next]_vars => TypeOK'
<1> USE BoundsAssumption DEF Streams, Retained, Readable, Least
<1> SUFFICES ASSUME TypeOK, [Next]_vars PROVE TypeOK'
  OBVIOUS
<1>1. CASE Run
  <2>1. UNCHANGED <<written, readers, late>>
    BY <1>1 DEF Run, PollEnded, PollExceeded, PollLate, DrainEnded, DrainLate, Join, Close,
                StopGroup, children, readers
  <2>2. child' \in {"running", "ok", "failed", "killed"}
        /\ descendants' \subseteq {"group", "outsider"}
    BY <1>1 DEF Run, PollEnded, PollExceeded, PollLate, DrainEnded, DrainLate, Join, Close,
                StopGroup, children, TypeOK
  <2>3. timedOut' \in BOOLEAN
        /\ main' \in {"poll", "drain", "join", "close_stdout", "close_stderr", "returned"}
    BY <1>1 DEF Run, PollEnded, PollExceeded, PollLate, DrainEnded, DrainLate, Join, Close,
                TypeOK
  <2> QED BY <2>1, <2>2, <2>3 DEF TypeOK, readers
<1>2. CASE DeadlinePasses \/ Fork \/ Exit \/ Leave
  BY <1>2 DEF DeadlinePasses, Fork, Exit, Leave, TypeOK, children, readers
<1>3. ASSUME NEW s \in Streams, Write(s) PROVE TypeOK'
  BY <1>3 DEF Write, TypeOK, readers
<1>4. ASSUME NEW s \in Streams, Read(s) PROVE TypeOK'
  BY <1>4 DEF Read, TypeOK, children
<1>5. ASSUME NEW s \in Streams, Account(s) PROVE TypeOK'
  BY <1>5 DEF Account, Keeps, TypeOK, children
<1>6. CASE UNCHANGED vars
  BY <1>6 DEF vars, TypeOK
<1> QED BY <1>1, <1>2, <1>3, <1>4, <1>5, <1>6 DEF Next, ReadStream

\* BoundedSubprocess's types are what TypeOK says: no more than the limit is ever
\* retained, and no more is read than was written.
THEOREM TypeCorrect == Spec => []TypeOK
<1> USE BoundsAssumption DEF Streams, Retained, Readable, Least
<1>1. Init => TypeOK
  <2> SUFFICES ASSUME Init PROVE TypeOK
    OBVIOUS
  <2>1. /\ written \in [Streams -> 0..MaxWritten] /\ taken \in [Streams -> 0..MaxWritten]
        /\ chunk \in [Streams -> 0..Chunk] /\ kept \in [Streams -> 0..MaxOutput]
    BY DEF Init
  <2>2. Retained <= MaxOutput /\ \A s \in Streams : taken[s] <= written[s]
    BY DEF Init
  <2> QED BY <2>1, <2>2 DEF Init, TypeOK
<1> QED BY <1>1, TypeStep, PTL DEF Spec

\* The bytes are accounted for, whatever the two readers do to the shared count.
LEMMA AccountingHolds == Spec => []Accounting
<1> USE BoundsAssumption DEF Streams, Retained, Readable, Least
<1>1. Init => Accounting
  BY DEF Init, Accounting
<1>2. TypeOK /\ Accounting /\ [Next]_vars => Accounting'
  <2> SUFFICES ASSUME TypeOK, Accounting, [Next]_vars PROVE Accounting'
    OBVIOUS
  <2>1. CASE Run
    BY <2>1 DEF Run, PollEnded, PollExceeded, PollLate, DrainEnded, DrainLate, Join, Close,
                StopGroup, children, readers, Accounting
  <2>2. CASE DeadlinePasses \/ Fork \/ Exit \/ Leave
    BY <2>2 DEF DeadlinePasses, Fork, Exit, Leave, Accounting, children, readers
  <2>3. ASSUME NEW s \in Streams, Write(s) PROVE Accounting'
    BY <2>3 DEF Write, TypeOK, Accounting, readers
  <2>4. ASSUME NEW s \in Streams, Read(s) PROVE Accounting'
    BY <2>4 DEF Read, TypeOK, Accounting, children
  <2>5. ASSUME NEW s \in Streams, Account(s) PROVE Accounting'
    <3>1. \A t \in Streams : t # s => kept'[t] = kept[t] /\ chunk'[t] = chunk[t]
      BY <2>5 DEF Account, Keeps, TypeOK
    <3>2. /\ chunk'[s] = 0 /\ kept'[s] <= kept[s] + chunk[s]
          /\ ~exceeded' => kept'[s] = kept[s] + chunk[s]
      <4>1. kept[s] \in Nat /\ chunk[s] \in Nat /\ MaxOutput - Retained \in Nat
        BY DEF TypeOK
      <4>2. /\ chunk'[s] = 0
            /\ kept'[s] = kept[s] + Least(chunk[s], MaxOutput - Retained)
            /\ ~exceeded' => ~(chunk[s] > MaxOutput - Retained)
        BY <2>5 DEF Account, Keeps, TypeOK
      <4> QED BY <4>1, <4>2
    <3>3. exceeded' => written["stdout"] + written["stderr"] > MaxOutput
      BY <2>5 DEF Account, Keeps, TypeOK, Accounting
    <3>4. UNCHANGED <<taken, written>> /\ (~exceeded' => ~exceeded)
      BY <2>5 DEF Account, Keeps, children
    <3>5. \A t \in Streams :
            kept[t] \in Nat /\ chunk[t] \in Nat /\ taken[t] \in Nat /\ kept'[t] \in Nat
      <4>1. TypeOK'
        BY TypeStep
      <4> QED BY <4>1 DEF TypeOK
    <3>6. \A t \in Streams : kept'[t] + chunk'[t] <= taken'[t]
      BY <3>1, <3>2, <3>4, <3>5 DEF Accounting
    <3>7. \A t \in Streams : ~exceeded' => kept'[t] + chunk'[t] = taken'[t]
      BY <3>1, <3>2, <3>4, <3>5 DEF Accounting
    <3>8. \A t \in Streams : reader'[t] # "holding" => chunk'[t] = 0
      BY <2>5, <3>1, <3>2 DEF Account, Accounting, TypeOK
    <3> QED BY <3>3, <3>4, <3>6, <3>7, <3>8 DEF Accounting
  <2>6. CASE UNCHANGED vars
    BY <2>6 DEF vars, Accounting
  <2> QED BY <2>1, <2>2, <2>3, <2>4, <2>5, <2>6 DEF Next, ReadStream
<1> QED BY <1>1, <1>2, TypeCorrect, PTL DEF Spec

\* Once nobody holds the pipes, nobody ever will, and nothing is written to them.
LEMMA ClosedForGood == ~Open /\ [Next]_vars => ~Open' /\ UNCHANGED written
<1> SUFFICES ASSUME ~Open, [Next]_vars PROVE ~Open' /\ UNCHANGED written
  OBVIOUS
<1>1. CASE Run
  BY <1>1 DEF Run, PollEnded, PollExceeded, PollLate, DrainEnded, DrainLate, Join, Close,
              StopGroup, children, Open
<1>2. CASE DeadlinePasses \/ Fork \/ Exit \/ Leave
  BY <1>2 DEF DeadlinePasses, Fork, Exit, Leave, Open, children
<1>3. ASSUME NEW s \in Streams, Write(s) \/ ReadStream(s)
      PROVE ~Open' /\ UNCHANGED written
  BY <1>3 DEF Write, ReadStream, Read, Account, Open, children
<1>4. CASE UNCHANGED vars
  BY <1>4 DEF vars, Open
<1> QED BY <1>1, <1>2, <1>3, <1>4 DEF Next

\* A pipe that has been drained stays so.
LEMMA DrainedForGood ==
  ASSUME TypeOK, [Next]_vars, NEW s \in Streams, Drained(s)
  PROVE  Drained(s)'
<1>1. ~Open' /\ UNCHANGED written
  BY ClosedForGood DEF Drained
<1>2. reader'[s] = "done" /\ taken'[s] = taken[s]
  <2>1. CASE Run \/ DeadlinePasses \/ Fork \/ Exit \/ Leave
    BY <2>1 DEF Run, PollEnded, PollExceeded, PollLate, DrainEnded, DrainLate, Join, Close,
                DeadlinePasses, Fork, Exit, Leave, readers, Drained
  <2>2. ASSUME NEW t \in Streams, Write(t) \/ ReadStream(t)
        PROVE reader'[s] = "done" /\ taken'[s] = taken[s]
    BY <2>2 DEF Write, ReadStream, Read, Account, readers, Drained, TypeOK
  <2>3. CASE UNCHANGED vars
    BY <2>3 DEF vars, Drained
  <2> QED BY <2>1, <2>2, <2>3 DEF Next
<1> QED BY <1>1, <1>2 DEF Drained, Open

\* How readers, child and call end, whichever of limit, deadline and end of the
\* child comes first.
LEMMA EndingsHold == Spec => []Endings
<1>1. Init => Endings
  BY DEF Init, Endings, Streams
<1>2. TypeOK /\ Endings /\ [Next]_vars => Endings'
  <2> SUFFICES ASSUME TypeOK, Endings, [Next]_vars PROVE Endings'
    OBVIOUS
  <2>0. \A s \in Streams : Drained(s) => Drained(s)'
    BY DrainedForGood
  <2>a. \A s \in Streams : Closed(s) => Closed(s)'
    BY DEF Next, vars, Run, PollEnded, PollExceeded, PollLate, DrainEnded, DrainLate, Join, Close,
           DeadlinePasses, Fork, Exit, Leave, Write, ReadStream, Read, Account, Closed, Streams
  <2>1. \A s \in Streams : reader'[s] = "done" /\ ~Closed(s)' => Drained(s)'
    <3> SUFFICES ASSUME NEW s \in Streams, reader'[s] = "done", ~Closed(s)' PROVE Drained(s)'
      OBVIOUS
    <3>1. CASE reader[s] = "done"
      BY <3>1, <2>0, <2>a DEF Endings
    <3>2. CASE reader[s] # "done"
      <4>1. Read(s) \/ Account(s)
        BY <3>2 DEF Next, vars, Run, PollEnded, PollExceeded, PollLate, DrainEnded, DrainLate,
                    Join, Close, DeadlinePasses, Fork, Exit, Leave, Write, ReadStream, Read,
                    Account, readers, TypeOK
      <4>2. CASE Account(s)
        BY <4>2, <2>a DEF Account, TypeOK
      <4>3. CASE Read(s)
        BY <4>3, BoundsAssumption
           DEF Read, Drained, Open, children, TypeOK, Least, Readable
      <4> QED BY <4>1, <4>2, <4>3
    <3> QED BY <3>1, <3>2
  <2>2. main' \notin {"poll", "drain"} /\ ~timedOut' => \A s \in Streams : Drained(s)'
    <3> SUFFICES ASSUME main' \notin {"poll", "drain"}, ~timedOut', NEW s \in Streams
                 PROVE  Drained(s)'
      OBVIOUS
    <3>1. CASE main \notin {"poll", "drain"} /\ ~timedOut
      BY <3>1, <2>0 DEF Endings
    <3>2. CASE main \in {"poll", "drain"} \/ timedOut
      <4>1. DrainEnded
        BY <3>2 DEF Next, vars, Run, PollEnded, PollExceeded, PollLate, DrainEnded, DrainLate,
                    Join, Close, DeadlinePasses, Fork, Exit, Leave, Write, ReadStream, Read,
                    Account, TypeOK
      <4>2. reader[s] = "done" /\ ~Closed(s)
        BY <4>1 DEF DrainEnded, ReadersAlive, Closed
      <4> QED BY <4>2, <2>0 DEF Endings
    <3> QED BY <3>1, <3>2
  <2>3. child' = "killed" => exceeded' \/ timedOut'
    BY DEF Endings, Next, vars, Run, PollEnded, PollExceeded, PollLate, DrainEnded, DrainLate,
           Join, Close, StopGroup, DeadlinePasses, Fork, Exit, Leave, Write, ReadStream, Read,
           Account, Keeps, children, readers, TypeOK
  <2> QED BY <2>1, <2>2, <2>3 DEF Endings
<1> QED BY <1>1, <1>2, TypeCorrect, PTL DEF Spec

\* A call that gives a verdict gives the child's: the child ended by itself, no
\* writer is left, and every byte written is in the result, for every limit.
THEOREM VerdictIsTheChildsHolds == Spec => []VerdictIsTheChilds
<1>1. TypeOK /\ Accounting /\ Endings => VerdictIsTheChilds
  <2> SUFFICES ASSUME TypeOK, Accounting, Endings, Returned PROVE
        /\ Verdict # "cannot_run" =>
             child # "killed" /\ ~Open /\ \A s \in Streams : kept[s] = written[s]
        /\ exceeded => written["stdout"] + written["stderr"] > MaxOutput
    BY DEF VerdictIsTheChilds
  <2>1. ASSUME ~timedOut, ~exceeded
        PROVE  child # "killed" /\ ~Open /\ \A s \in Streams : kept[s] = written[s]
    <3>1. \A s \in Streams : Drained(s)
      BY <2>1 DEF Endings, Returned
    <3>2. \A s \in Streams : kept[s] = written[s]
      BY <2>1, <3>1, BoundsAssumption DEF Accounting, Drained, TypeOK
    <3> QED BY <2>1, <3>1, <3>2 DEF Endings, Drained, Streams
  <2>2. exceeded => written["stdout"] + written["stderr"] > MaxOutput
    BY DEF Accounting
  <2> QED BY <2>1, <2>2 DEF Verdict
<1> QED BY <1>1, TypeCorrect, AccountingHolds, EndingsHold, PTL
=============================================================================
