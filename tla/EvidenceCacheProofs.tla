------------------------- MODULE EvidenceCacheProofs -------------------------
(***************************************************************************)
(* Theorems about EvidenceCache for any files, contents, settings, number  *)
(* of scanners and bounds: its types, that no order of scans, edits and    *)
(* crashes leaves an index that names a missing entry, and that a scan says *)
(* what one without a cache would say.                                     *)
(***************************************************************************)
EXTENDS EvidenceCache, WellFoundedInduction, TLAPS

USE CacheAssumption, SentinelAssumption

Collecting == {"index", "entry", "extract", "put", "put_second"}

ScanRecords ==
  [pc : Resting \cup {"hash", "stat"} \cup Collecting,
   file : 0..NFiles, settings : Settings \cup {Absent}, sha : Contents \cup {Absent},
   records : [Files -> FileRecords \cup {Absent}], touched : SUBSET Files,
   found : Evidence \cup {Absent}, output : [Files -> Evidence \cup {Absent}]]

\* What a scanner holds where: a file under way, the settings it was begun with,
\* a hash before the stat, a whole record and evidence after it.
Holds(rec) ==
  /\ rec \in ScanRecords
  /\ rec.pc \notin Resting => rec.file \in Files /\ rec.settings \in Settings
  /\ rec.pc = "stat" => rec.sha \in Contents
  /\ rec.pc \in Collecting => rec.records[rec.file] # Absent
  /\ rec.pc \in {"put", "put_second"} => rec.found \in Evidence

\* What IndexedEntryExists needs of a writer between its two writes.
EntryFirst ==
  ~damaged =>
    /\ \A f \in Files : index[f] # Absent =>
         index[f] # Broken /\ entries[index[f].key] # Absent
    /\ \A s \in Scanners : At(s, "put_second") => entries[Key(s)] # Absent

-----------------------------------------------------------------------------
(* Lemmas about the operators *)

\* A nonempty set of files has a first one.
LEMMA LeastLemma ==
  ASSUME NEW S \in SUBSET Files, S # {}
  PROVE  Least(S) \in S /\ \A m \in S : Least(S) <= m
<1>1. S \in SUBSET Nat
  BY DEF Files
<1>2. PICK m \in S : \A k \in S : <<k, m>> \notin OpToRel(<, Nat)
  BY <1>1, WFMin, NatLessThanWellFounded, Zenon
<1>3. \A k \in S : ~ (k < m)
  BY <1>1, <1>2, Zenon DEF OpToRel
<1>4. \A k \in S : m <= k
  BY <1>1, <1>3
<1> QED BY <1>4 DEF Least

\* What a scan that goes on to another file keeps.
GoesOn(rec, next) ==
  /\ next.pc \in {"hash", "index", "done"}
  /\ next.records = IF next.pc = "done" THEN Idle.records ELSE rec.records
  /\ next.settings = rec.settings /\ next.touched = rec.touched /\ next.output = rec.output

\* The next file to collect is one with a record, ...
LEMMA NextToCollectLemma ==
  ASSUME NEW rec \in ScanRecords, rec.settings \in Settings
  PROVE  Holds(NextToCollect(rec)) /\ GoesOn(rec, NextToCollect(rec))
<1> DEFINE left == {f \in Files : f > rec.file /\ rec.records[f] # Absent}
<1>1. CASE left # {}
  <2>1. Least(left) \in left
    BY <1>1, LeastLemma
  <2>2. NextToCollect(rec) = [rec EXCEPT !.pc = "index", !.file = Least(left)]
    BY <1>1 DEF NextToCollect
  <2>3. Least(left) \in Files /\ Least(left) \in 0..NFiles /\ rec.records[Least(left)] # Absent
    BY <2>1 DEF Files
  <2>4. NextToCollect(rec) \in ScanRecords
    BY <2>2, <2>3 DEF ScanRecords, Collecting
  <2>5. /\ NextToCollect(rec).pc = "index" /\ NextToCollect(rec).file = Least(left)
        /\ NextToCollect(rec).settings = rec.settings
        /\ NextToCollect(rec).records = rec.records
        /\ NextToCollect(rec).touched = rec.touched
        /\ NextToCollect(rec).output = rec.output
    BY <2>2 DEF ScanRecords
  <2> QED BY <2>3, <2>4, <2>5 DEF Holds, GoesOn
<1>2. CASE left = {}
  <2>1. NextToCollect(rec) = [rec EXCEPT !.pc = "done", !.file = 0, !.records = Idle.records]
    BY <1>2 DEF NextToCollect
  <2>2. /\ Idle.records \in [Files -> FileRecords \cup {Absent}]
        /\ 0 \in 0..NFiles
    BY DEF Idle
  <2>3. NextToCollect(rec) \in ScanRecords
    BY <2>1, <2>2 DEF ScanRecords, Resting
  <2>4. /\ NextToCollect(rec).pc = "done" /\ NextToCollect(rec).records = Idle.records
        /\ NextToCollect(rec).settings = rec.settings
        /\ NextToCollect(rec).touched = rec.touched
        /\ NextToCollect(rec).output = rec.output
    BY <2>1 DEF ScanRecords
  <2> QED BY <2>3, <2>4 DEF Holds, GoesOn, Resting, Collecting
<1> QED BY <1>1, <1>2

\* ... and before that every file is hashed.
LEMMA NextToHashLemma ==
  ASSUME NEW rec \in ScanRecords, rec.settings \in Settings
  PROVE  Holds(NextToHash(rec)) /\ GoesOn(rec, NextToHash(rec))
<1>1. CASE rec.file < NFiles
  <2>1. NextToHash(rec) = [rec EXCEPT !.pc = "hash", !.file = @ + 1]
    BY <1>1 DEF NextToHash
  <2>2. rec.file + 1 \in Files /\ rec.file + 1 \in 0..NFiles
    BY <1>1 DEF ScanRecords, Files
  <2>3. NextToHash(rec) \in ScanRecords
    BY <2>1, <2>2 DEF ScanRecords
  <2>4. /\ NextToHash(rec).pc = "hash" /\ NextToHash(rec).file = rec.file + 1
        /\ NextToHash(rec).settings = rec.settings
        /\ NextToHash(rec).records = rec.records
        /\ NextToHash(rec).touched = rec.touched
        /\ NextToHash(rec).output = rec.output
    BY <2>1 DEF ScanRecords
  <2> QED BY <2>2, <2>3, <2>4 DEF Holds, GoesOn, Collecting
<1>2. CASE ~(rec.file < NFiles)
  <2> DEFINE first == [rec EXCEPT !.file = 0]
  <2>1. /\ first \in ScanRecords /\ first.settings = rec.settings
        /\ first.records = rec.records /\ first.touched = rec.touched
        /\ first.output = rec.output
    BY DEF ScanRecords
  <2>2. NextToHash(rec) = NextToCollect(first)
    BY <1>2 DEF NextToHash
  <2> HIDE DEF first
  <2> QED BY <2>1, <2>2, NextToCollectLemma DEF GoesOn
<1> QED BY <1>1, <1>2

\* A file's evidence goes to the output of the scan, which goes on.
Given(e, rec) == [rec EXCEPT !.output[rec.file] = e, !.found = Absent]

\* What becomes of a scan that is given evidence.
LEMMA GivenIs ==
  ASSUME NEW rec \in ScanRecords, NEW e \in Evidence \cup {Absent}
  PROVE  /\ Given(e, rec) \in ScanRecords
         /\ Given(e, rec).settings = rec.settings /\ Given(e, rec).records = rec.records
         /\ Given(e, rec).touched = rec.touched /\ Given(e, rec).file = rec.file
         /\ Given(e, rec).output = [rec.output EXCEPT ![rec.file] = e]
         /\ Give(e, rec) = NextToCollect(Given(e, rec))
BY DEF Given, Give, ScanRecords

\* It goes on to another file.
LEMMA GiveLemma ==
  ASSUME NEW rec \in ScanRecords, rec.settings \in Settings,
         NEW e \in Evidence \cup {Absent}
  PROVE  Holds(Give(e, rec)) /\ GoesOn(Given(e, rec), Give(e, rec))
<1>1. /\ Given(e, rec) \in ScanRecords /\ Given(e, rec).settings \in Settings
      /\ Give(e, rec) = NextToCollect(Given(e, rec))
  BY GivenIs
<1> QED BY <1>1, NextToCollectLemma
-----------------------------------------------------------------------------
(* Types *)

\* The variables but scan.
CacheTypes ==
  /\ disk \in [Files -> [content : Contents \cup {Absent}, stamp : Stamps]]
  /\ edits \in Stamps
  /\ index \in [Files -> IndexRows \cup {Absent, Broken}]
  /\ \A f \in Files : index[f] \notin {Absent, Broken} => index[f].key.file = f
  /\ entries \in [Keys -> Evidence \cup {Absent, Broken}]
  /\ unread \subseteq Files
  /\ crossed \in BOOLEAN /\ torn \in BOOLEAN /\ damaged \in BOOLEAN
  /\ scans \in 0..MaxScans /\ faults \in 0..MaxFaults

ScanTypes == scan \in [Scanners -> ScanRecords] /\ \A s \in Scanners : Holds(scan[s])

\* Together these are TypeOK.
LEMMA TypesSuffice == CacheTypes /\ ScanTypes => TypeOK
BY DEF CacheTypes, ScanTypes, TypeOK, ScanRecords, Holds, Collecting, Record, File

\* A step of one scanner that leaves a sound record keeps the types of all.
LEMMA OneScanner ==
  ASSUME ScanTypes, NEW s \in Scanners, NEW rec, Holds(rec), scan' = [scan EXCEPT ![s] = rec]
  PROVE  ScanTypes'
<1>1. rec \in ScanRecords
  BY DEF Holds
<1>2. scan' \in [Scanners -> ScanRecords]
  BY <1>1 DEF ScanTypes
<1>3. \A t \in Scanners : Holds(scan'[t])
  BY DEF ScanTypes
<1> QED BY <1>2, <1>3 DEF ScanTypes, Holds, ScanRecords, Resting, Collecting

\* What a scanner under way holds.
LEMMA HoldsFacts ==
  ASSUME ScanTypes, NEW s \in Scanners, scan[s].pc \notin Resting
  PROVE  /\ scan[s] \in ScanRecords
         /\ File(s) \in Files /\ scan[s].settings \in Settings
         /\ scan[s].pc = "stat" => scan[s].sha \in Contents
         /\ scan[s].pc \in Collecting =>
              Record(s) \in FileRecords /\ Key(s) \in Keys /\ Key(s).file = File(s)
         /\ scan[s].pc \in {"put", "put_second"} => scan[s].found \in Evidence
<1>1. scan[s] \in ScanRecords /\ Holds(scan[s])
  BY DEF ScanTypes
<1>2. File(s) \in Files /\ scan[s].settings \in Settings
  BY <1>1 DEF Holds, File
<1>3. ASSUME scan[s].pc \in Collecting PROVE Record(s) \in FileRecords
  BY <1>1, <1>2, <1>3 DEF Holds, ScanRecords, Record, File
<1>4. ASSUME Record(s) \in FileRecords
      PROVE  Key(s) \in Keys /\ Key(s).file = File(s)
  BY <1>2, <1>4 DEF Key, Keys, FileRecords
<1> QED BY <1>1, <1>2, <1>3, <1>4 DEF Holds

\* A path with a mark has a first one, and it is not "included".
LEMMA FirstMarkLemma ==
  ASSUME NEW f \in Files, Marks[f] # {}
  PROVE  FirstMark(f) # "included"
<1> DEFINE marked == {i \in DOMAIN MarkOrder : MarkOrder[i] \in Marks[f]}
<1>1. DOMAIN MarkOrder = 1..6 /\ \A i \in 1..6 : MarkOrder[i] # "included"
  BY DEF MarkOrder
<1>2. marked \in SUBSET Nat /\ marked # {}
  <2>1. Marks[f] \subseteq {MarkOrder[i] : i \in DOMAIN MarkOrder}
    OBVIOUS
  <2> QED BY <1>1, <2>1
<1>3. PICK m \in marked : \A k \in marked : <<k, m>> \notin OpToRel(<, Nat)
  BY <1>2, WFMin, NatLessThanWellFounded, Zenon
<1>4. \A k \in marked : ~ (k < m)
  BY <1>2, <1>3, Zenon DEF OpToRel
<1>5. m \in DOMAIN MarkOrder /\ MarkOrder[m] \in Marks[f]
      /\ \A j \in 1..(m-1) : MarkOrder[j] \notin Marks[f]
  BY <1>1, <1>4
<1> DEFINE First(i) == /\ MarkOrder[i] \in Marks[f]
                       /\ \A j \in 1..(i-1) : MarkOrder[j] \notin Marks[f]
<1>6. (CHOOSE i \in DOMAIN MarkOrder : First(i)) \in DOMAIN MarkOrder
  BY <1>5
<1> QED BY <1>1, <1>6 DEF FirstMark

\* A scanner that moves on to a place that asks for no more holds what it must.
LEMMA MoveLemma ==
  ASSUME NEW rec \in ScanRecords, Holds(rec), rec.pc \in Collecting, NEW pc \in Collecting,
         pc \in {"put", "put_second"} => rec.found \in Evidence
  PROVE  Holds([rec EXCEPT !.pc = pc])
<1>1. [rec EXCEPT !.pc = pc] \in ScanRecords
  BY DEF ScanRecords
<1>2. /\ [rec EXCEPT !.pc = pc].pc = pc /\ [rec EXCEPT !.pc = pc].file = rec.file
      /\ [rec EXCEPT !.pc = pc].settings = rec.settings
      /\ [rec EXCEPT !.pc = pc].records = rec.records
      /\ [rec EXCEPT !.pc = pc].found = rec.found
  BY DEF ScanRecords
<1> QED BY <1>1, <1>2 DEF Holds, Resting, Collecting

\* After a write the second one comes, or the next file.
LEMMA AfterPutLemma ==
  ASSUME ScanTypes, NEW s \in Scanners, At(s, "put") \/ At(s, "put_second"), AfterPut(s)
  PROVE  /\ ScanTypes'
         /\ At(s, "put_second") => scan'[s].pc # "put_second"
         /\ At(s, "put") => scan'[s] = [scan[s] EXCEPT !.pc = "put_second"]
<1>1. /\ scan[s] \in ScanRecords /\ scan[s].settings \in Settings
      /\ scan[s].found \in Evidence
  BY HoldsFacts DEF At, Resting
<1>2. CASE At(s, "put")
  <2>1. scan' = [scan EXCEPT ![s] = [scan[s] EXCEPT !.pc = "put_second"]]
    BY <1>2 DEF AfterPut, At
  <2>2. Holds([scan[s] EXCEPT !.pc = "put_second"])
    BY <1>1, <1>2, MoveLemma DEF At, ScanTypes, Collecting
  <2>3. ScanTypes'
    BY <2>1, <2>2, OneScanner
  <2> QED BY <1>2, <2>1, <2>3 DEF At, ScanTypes
<1>3. CASE At(s, "put_second")
  <2>1. scan' = [scan EXCEPT ![s] = Give(scan[s].found, scan[s])]
    BY <1>3 DEF AfterPut, At
  <2>2. ScanTypes'
    BY <1>1, <2>1, GiveLemma, OneScanner
  <2>3. scan'[s].pc # "put_second"
    BY <1>1, <2>1, GiveLemma DEF GoesOn, ScanTypes
  <2> QED BY <1>3, <2>2, <2>3 DEF At
<1> QED BY <1>2, <1>3

\* A scan without the file it could not read.
Unseen(s) == [scan[s] EXCEPT !.sha = Absent, !.touched = @ \cup {File(s)}]

\* It differs from the scan in the hash and in what counts as touched.
LEMMA UnseenLemma ==
  ASSUME ScanTypes, NEW s \in Scanners, scan[s].pc \notin Resting
  PROVE  /\ Unseen(s) \in ScanRecords /\ Unseen(s).settings \in Settings
         /\ Unseen(s).file = File(s) /\ Unseen(s).records = scan[s].records
         /\ Unseen(s).output = scan[s].output
         /\ Unseen(s).touched = scan[s].touched \cup {File(s)}
<1>1. scan[s] \in ScanRecords /\ File(s) \in Files /\ scan[s].settings \in Settings
  BY HoldsFacts
<1> QED BY <1>1 DEF Unseen, ScanRecords, File

\* Every step keeps the types, and what each scanner holds.
LEMMA TypesStep == CacheTypes /\ ScanTypes /\ [Next]_vars => CacheTypes' /\ ScanTypes'
<1> SUFFICES ASSUME CacheTypes, ScanTypes, [Next]_vars PROVE CacheTypes' /\ ScanTypes'
  OBVIOUS
<1> USE DEF At, cache, history
<1>1. ASSUME NEW s \in Scanners, Begin(s) PROVE CacheTypes' /\ ScanTypes'
  <2>1. PICK o \in Settings :
          scan' = [scan EXCEPT ![s] = NextToHash([Idle EXCEPT !.settings = o])]
    BY <1>1 DEF Begin
  <2>2. [Idle EXCEPT !.settings = o] \in ScanRecords /\ [Idle EXCEPT !.settings = o].settings = o
    BY DEF Idle, ScanRecords, Resting
  <2>3. ScanTypes'
    BY <2>1, <2>2, NextToHashLemma, OneScanner
  <2>4. CacheTypes'
    BY <1>1 DEF Begin, CacheTypes
  <2> QED BY <2>3, <2>4
<1>2. ASSUME NEW s \in Scanners, HashFile(s) PROVE CacheTypes' /\ ScanTypes'
  <2>1. scan[s] \in ScanRecords /\ File(s) \in Files /\ scan[s].settings \in Settings
    BY <1>2, HoldsFacts DEF HashFile, Resting
  <2>2. CASE Disposition(File(s), disk[File(s)].content) = "included"
    <3>1. disk[File(s)].content \in Contents
      <4>1. disk[File(s)].content \in Contents \cup {Absent}
        BY <2>1 DEF CacheTypes
      <4>2. Marks[File(s)] = {}
        BY <2>2, <2>1, FirstMarkLemma DEF Disposition
      <4> QED BY <2>2, <4>1, <4>2 DEF Disposition
    <3> DEFINE rec == [scan[s] EXCEPT !.pc = "stat", !.sha = disk[File(s)].content]
    <3>2. rec \in ScanRecords /\ rec.pc = "stat" /\ rec.file = File(s)
          /\ rec.settings = scan[s].settings /\ rec.sha = disk[File(s)].content
      BY <2>1, <3>1 DEF ScanRecords, File
    <3>3. Holds(rec)
      BY <2>1, <3>1, <3>2 DEF Holds, Collecting
    <3>4. scan' = [scan EXCEPT ![s] = rec]
      BY <1>2, <2>2 DEF HashFile
    <3> QED BY <1>2, <3>3, <3>4, OneScanner DEF HashFile, CacheTypes
  <2>3. CASE Disposition(File(s), disk[File(s)].content) # "included"
    <3>1. scan' = [scan EXCEPT ![s] = NextToHash(scan[s])]
      BY <1>2, <2>3 DEF HashFile
    <3>2. ScanTypes'
      BY <2>1, <3>1, NextToHashLemma, OneScanner
    <3> QED BY <1>2, <3>2 DEF HashFile, CacheTypes
  <2> QED BY <2>2, <2>3
<1>3. ASSUME NEW s \in Scanners, StatFile(s) PROVE CacheTypes' /\ ScanTypes'
  <2> DEFINE record == IF disk[File(s)].content = Absent THEN Absent
                       ELSE [sha |-> scan[s].sha, stamp |-> disk[File(s)].stamp]
             rec == [scan[s] EXCEPT !.records[File(s)] = record, !.sha = Absent]
  <2>1. /\ scan[s] \in ScanRecords /\ File(s) \in Files /\ scan[s].settings \in Settings
        /\ scan[s].sha \in Contents
    BY <1>3, HoldsFacts DEF StatFile, Resting
  <2>2. record \in FileRecords \cup {Absent}
    BY <2>1 DEF CacheTypes, FileRecords
  <2>3. rec \in ScanRecords /\ rec.settings = scan[s].settings
    BY <2>1, <2>2 DEF ScanRecords
  <2>4. scan' = [scan EXCEPT ![s] = NextToHash(rec)]
    BY <1>3 DEF StatFile
  <2>5. ScanTypes'
    BY <2>1, <2>3, <2>4, NextToHashLemma, OneScanner
  <2> QED BY <1>3, <2>5 DEF StatFile, CacheTypes
<1>4. ASSUME NEW s \in Scanners, ReadIndex(s) PROVE CacheTypes' /\ ScanTypes'
  <2>1. PICK pc \in {"entry", "extract"} : scan' = [scan EXCEPT ![s].pc = pc]
    BY <1>4 DEF ReadIndex, Go
  <2>2. Holds([scan[s] EXCEPT !.pc = pc])
    BY <1>4, MoveLemma DEF ReadIndex, ScanTypes, Collecting
  <2>3. ScanTypes'
    BY <2>1, <2>2, OneScanner
  <2> QED BY <1>4, <2>3 DEF ReadIndex, CacheTypes
<1>5. ASSUME NEW s \in Scanners, ReadEntry(s) PROVE CacheTypes' /\ ScanTypes'
  <2>1. /\ scan[s] \in ScanRecords /\ File(s) \in Files /\ scan[s].settings \in Settings
        /\ Key(s) \in Keys
    BY <1>5, HoldsFacts DEF ReadEntry, Resting, Collecting
  <2>2. CASE entries[Key(s)] \in {Absent, Broken}
    <3>1. scan' = [scan EXCEPT ![s] = [scan[s] EXCEPT !.pc = "extract"]]
      BY <1>5, <2>2 DEF ReadEntry
    <3>2. Holds([scan[s] EXCEPT !.pc = "extract"])
      BY <1>5, MoveLemma DEF ReadEntry, ScanTypes, Collecting
    <3>3. ScanTypes'
      BY <3>1, <3>2, OneScanner
    <3> QED BY <1>5, <3>3 DEF ReadEntry, CacheTypes
  <2>3. CASE entries[Key(s)] \notin {Absent, Broken}
    <3>1. scan' = [scan EXCEPT ![s] = Give(entries[Key(s)], scan[s])]
      BY <1>5, <2>3 DEF ReadEntry
    <3>2. entries[Key(s)] \in Evidence
      BY <2>1, <2>3 DEF CacheTypes
    <3>3. ScanTypes'
      BY <2>1, <3>1, <3>2, GiveLemma, OneScanner
    <3> QED BY <1>5, <3>3 DEF ReadEntry, CacheTypes
  <2> QED BY <2>2, <2>3
<1>6. ASSUME NEW s \in Scanners, Extract(s) \/ ExtractFails(s) PROVE CacheTypes' /\ ScanTypes'
  <2>1. /\ scan[s] \in ScanRecords /\ File(s) \in Files /\ scan[s].settings \in Settings
    BY <1>6, HoldsFacts DEF Extract, ExtractFails, Resting
  <2>2. PICK c \in {disk[File(s)].content, Absent} :
          scan' = [scan EXCEPT ![s] =
            [scan[s] EXCEPT !.pc = "put", !.found = EvidenceOf(c, scan[s].settings)]]
    BY Zenon, <1>6 DEF Extract, ExtractFails
  <2> DEFINE e == EvidenceOf(c, scan[s].settings)
             rec == [scan[s] EXCEPT !.pc = "put", !.found = e]
  <2>3. e \in Evidence
    BY <2>1 DEF EvidenceOf, Evidence, CacheTypes
  <2>4. scan' = [scan EXCEPT ![s] = rec]
    BY <2>2
  <2> HIDE DEF e
  <2>5. rec \in ScanRecords /\ rec.pc = "put" /\ rec.file = scan[s].file /\ rec.found = e
        /\ rec.records = scan[s].records /\ rec.settings = scan[s].settings
    BY <2>1, <2>3 DEF ScanRecords, Collecting
  <2>6. Holds(rec)
    BY <1>6, <2>3, <2>5 DEF Extract, ExtractFails, ScanTypes, Holds, Collecting, Resting
  <2>7. ScanTypes'
    BY <2>4, <2>6, OneScanner
  <2>8. CacheTypes'
    <3>1. CASE Extract(s)
      <4>1. torn' \in BOOLEAN
        BY <3>1 DEF Extract, CacheTypes
      <4> QED BY <3>1, <4>1 DEF Extract, CacheTypes
    <3>2. CASE ExtractFails(s)
      <4>1. faults' \in 0..MaxFaults /\ unread' \subseteq Files
        BY <2>1, <3>2 DEF ExtractFails, CacheTypes
      <4> QED BY <3>2, <4>1 DEF ExtractFails, CacheTypes
    <3> QED BY <1>6, <3>1, <3>2
  <2> QED BY <2>7, <2>8
<1>7. ASSUME NEW s \in Scanners, WriteEntry(s) \/ WriteIndex(s) PROVE CacheTypes' /\ ScanTypes'
  <2>1. At(s, "put") \/ At(s, "put_second")
    BY <1>7 DEF WriteEntry, WriteIndex, Puts
  <2>2. /\ scan[s] \in ScanRecords /\ File(s) \in Files /\ scan[s].settings \in Settings
        /\ Record(s) \in FileRecords /\ Key(s) \in Keys /\ Key(s).file = File(s)
        /\ scan[s].found \in Evidence
    BY <2>1, HoldsFacts DEF Resting, Collecting
  <2>3. ScanTypes'
    BY <1>7, <2>1, <2>2, AfterPutLemma DEF WriteEntry, WriteIndex
  <2>4. CASE WriteEntry(s)
    <3>1. entries' \in [Keys -> Evidence \cup {Absent, Broken}]
      BY <2>2, <2>4 DEF WriteEntry, CacheTypes
    <3>2. CacheTypes'
      BY <2>4, <3>1 DEF WriteEntry, CacheTypes
    <3> QED BY <2>3, <3>2
  <2>5. CASE WriteIndex(s)
    <3>1. [key |-> Key(s), stamp |-> Record(s).stamp] \in IndexRows
      BY <2>2 DEF FileRecords, IndexRows
    <3>2. index' \in [Files -> IndexRows \cup {Absent, Broken}]
      BY <2>2, <2>5, <3>1 DEF WriteIndex, CacheTypes
    <3>3. \A f \in Files : index'[f] \notin {Absent, Broken} => index'[f].key.file = f
      BY <2>2, <2>5 DEF WriteIndex, CacheTypes
    <3>4. CacheTypes'
      BY <2>5, <3>2, <3>3 DEF WriteIndex, CacheTypes
    <3> QED BY <2>3, <3>4
  <2> QED BY <1>7, <2>3, <2>4, <2>5 
<1>8. ASSUME NEW s \in Scanners, WriteFails(s) PROVE CacheTypes' /\ ScanTypes'
  <2>1. /\ scan[s] \in ScanRecords /\ scan[s].settings \in Settings
        /\ scan[s].found \in Evidence
    BY <1>8, HoldsFacts DEF WriteFails, Resting
  <2>2. scan' = [scan EXCEPT ![s] = Give(scan[s].found, scan[s])]
    BY <1>8 DEF WriteFails
  <2>3. ScanTypes'
    BY <2>1, <2>2, GiveLemma, OneScanner
  <2> QED BY <1>8, <2>3 DEF WriteFails, CacheTypes
<1>9. ASSUME NEW s \in Scanners, Crash(s) PROVE CacheTypes' /\ ScanTypes'
  <2>1. Holds(Idle)
    BY DEF Holds, Idle, ScanRecords, Resting, Collecting
  <2>2. ScanTypes'
    BY <1>9, <2>1, OneScanner DEF Crash
  <2> QED BY <1>9, <2>2 DEF Crash, CacheTypes
<1>10. ASSUME NEW f \in Edited, Edit(f) PROVE CacheTypes' /\ ScanTypes'
  <2>1. f \in Files
    OBVIOUS
  <2>2. PICK c \in Contents \cup {Absent} :
          disk' = [disk EXCEPT ![f] = [content |-> c, stamp |-> edits + 1]]
    BY <1>10 DEF Edit
  <2>3. edits + 1 \in Stamps /\ edits' \in Stamps
    BY <1>10 DEF Edit, Stamps, CacheTypes
  <2>4. CacheTypes'
    BY <1>10, <2>1, <2>2, <2>3 DEF Edit, CacheTypes
  <2>5. ASSUME NEW s \in Scanners PROVE Holds(scan'[s])
    <3>1. Holds(scan[s]) /\ scan[s] \in ScanRecords
      BY DEF ScanTypes
    <3>2. scan'[s] = scan[s] \/ scan'[s] = [scan[s] EXCEPT !.touched = @ \cup {f}]
      BY <1>10 DEF Edit
    <3>3. CASE scan'[s] = [scan[s] EXCEPT !.touched = @ \cup {f}]
      <4>1. scan'[s] \in ScanRecords
        BY <2>1, <3>1, <3>3 DEF ScanRecords
      <4>2. /\ scan'[s].pc = scan[s].pc /\ scan'[s].file = scan[s].file
            /\ scan'[s].settings = scan[s].settings /\ scan'[s].sha = scan[s].sha
            /\ scan'[s].records = scan[s].records /\ scan'[s].found = scan[s].found
        BY <3>1, <3>3 DEF ScanRecords
      <4> QED BY <3>1, <4>1, <4>2 DEF Holds
    <3> QED BY <3>1, <3>2, <3>3
  <2>6. \A s \in Scanners : Holds(scan'[s])
    BY <2>5
  <2>7. scan' \in [Scanners -> ScanRecords]
    BY <1>10, <2>6 DEF Edit, Holds
  <2>8. ScanTypes'
    BY <2>6, <2>7 DEF ScanTypes, Holds, ScanRecords, Resting, Collecting
  <2> QED BY <2>4, <2>8
<1>11. CASE Damage
  <2>1. ScanTypes'
    BY <1>11 DEF Damage, ScanTypes, Holds, ScanRecords, Resting, Collecting
  <2>2. faults' \in 0..MaxFaults /\ damaged' \in BOOLEAN
    BY <1>11 DEF Damage, CacheTypes
  <2>3. PICK left \in {Absent, Broken} :
          \/ (\E f \in Files : index' = [index EXCEPT ![f] = left]) /\ UNCHANGED entries
          \/ (\E k \in Keys : entries' = [entries EXCEPT ![k] = left]) /\ UNCHANGED index
    BY <1>11 DEF Damage
  <2>4. index' \in [Files -> IndexRows \cup {Absent, Broken}]
        /\ entries' \in [Keys -> Evidence \cup {Absent, Broken}]
    BY <2>3 DEF CacheTypes
  <2>5. \A f \in Files : index'[f] \notin {Absent, Broken} => index'[f].key.file = f
    BY <2>3 DEF CacheTypes
  <2>6. CacheTypes'
    BY <1>11, <2>2, <2>4, <2>5 DEF Damage, CacheTypes
  <2> QED BY <2>1, <2>6
<1>12. ASSUME NEW s \in Scanners, SnapshotFails(s) PROVE CacheTypes' /\ ScanTypes'
  <2>1. Unseen(s) \in ScanRecords /\ Unseen(s).settings \in Settings
    BY <1>12, UnseenLemma DEF SnapshotFails, Resting
  <2>2. scan' = [scan EXCEPT ![s] = NextToHash(Unseen(s))]
    BY <1>12 DEF SnapshotFails, Unseen
  <2>3. ScanTypes'
    BY <2>1, <2>2, NextToHashLemma, OneScanner
  <2> QED BY <1>12, <2>3 DEF SnapshotFails, CacheTypes
<1>13. CASE UNCHANGED vars
  BY <1>13 DEF vars, CacheTypes, ScanTypes, Holds, ScanRecords, Resting, Collecting
<1> QED BY <1>1, <1>2, <1>3, <1>4, <1>5, <1>6, <1>7, <1>8, <1>9, <1>10, <1>11, <1>12, <1>13
        DEF Next, ScanStep

\* The types hold in every state.
LEMMA Types == Spec => [](CacheTypes /\ ScanTypes)
<1>1. Init => CacheTypes
  <2> SUFFICES ASSUME Init PROVE CacheTypes
    OBVIOUS
  <2>1. 0 \in Stamps /\ edits \in Stamps /\ scans \in 0..MaxScans /\ faults \in 0..MaxFaults
    BY DEF Init, Stamps
  <2>2. disk \in [Files -> [content : Contents \cup {Absent}, stamp : Stamps]]
    BY <2>1 DEF Init
  <2>3. /\ index \in [Files -> IndexRows \cup {Absent, Broken}]
        /\ \A f \in Files : index[f] = Absent
        /\ entries \in [Keys -> Evidence \cup {Absent, Broken}]
    BY DEF Init
  <2> QED BY <2>1, <2>2, <2>3 DEF Init, CacheTypes
<1>2. Init => ScanTypes
  <2>1. Holds(Idle)
    BY DEF Holds, Idle, ScanRecords, Resting, Collecting
  <2> QED BY <2>1 DEF Init, ScanTypes, Holds
<1> QED BY <1>1, <1>2, TypesStep, PTL DEF Spec

\* EvidenceCache's types are what TypeOK says: every scanner under way has a file,
\* and a whole record of it wherever it asks the cache.
THEOREM TypeCorrect == Spec => []TypeOK
BY Types, TypesSuffice, PTL

-----------------------------------------------------------------------------
(* Where a step of a scanner leads *)

\* A scanner under way is not at rest.
LEMMA UnderWay ==
  ASSUME NEW s \in Scanners, ScanStep(s) \/ Crash(s)
  PROVE  scan[s].pc \notin Resting
BY 
   DEF ScanStep, HashFile, StatFile, SnapshotFails, ReadIndex, ReadEntry, Extract, ExtractFails,
       WriteEntry,
       WriteIndex, WriteFails, Puts, PutOrder, Crash, At, Resting

\* What StatFile writes down.
Stated(s) ==
  [scan[s].records EXCEPT ![File(s)] =
     IF disk[File(s)].content = Absent THEN Absent
     ELSE [sha |-> scan[s].sha, stamp |-> disk[File(s)].stamp]]

Places == Resting \cup {"hash", "stat", "index", "extract"}

\* Where a step of a scanner leads, and what becomes of its records.
Led(s, pc, records) ==
  /\ \/ pc \in Places
     \/ pc = "entry" /\ ReadIndex(s)
     \/ pc = "put" /\ (Extract(s) \/ ExtractFails(s))
     \/ pc = "put_second" /\ WriteEntry(s)
  /\ \/ records = Idle.records
     \/ records = scan[s].records /\ scan[s].pc \notin Resting
     \/ records = Stated(s) /\ StatFile(s)

\* What Give leads to.
LEMMA GiveLeads ==
  ASSUME ScanTypes, NEW s \in Scanners, scan[s].pc \in Collecting, NEW e \in Evidence,
         scan' = [scan EXCEPT ![s] = Give(e, scan[s])]
  PROVE  Led(s, scan'[s].pc, scan'[s].records)
<1>1. scan[s].pc \notin Resting
  BY DEF Collecting, Resting
<1>2. scan[s] \in ScanRecords /\ scan[s].settings \in Settings
  BY <1>1, HoldsFacts
<1>3. Given(e, scan[s]).records = scan[s].records
  BY <1>2, GivenIs
<1>4. GoesOn(Given(e, scan[s]), Give(e, scan[s]))
  BY <1>2, GiveLemma
<1>5. scan'[s] = Give(e, scan[s])
  BY DEF ScanTypes
<1> QED BY <1>1, <1>3, <1>4, <1>5 DEF GoesOn, Led, Places, Resting

\* No other scanner moves, and the step leads where Led says.
LEMMA ScannerMoves ==
  ASSUME CacheTypes, ScanTypes, NEW s \in Scanners, Begin(s) \/ ScanStep(s) \/ Crash(s)
  PROVE  /\ Led(s, scan'[s].pc, scan'[s].records)
         /\ \A t \in Scanners \ {s} : scan'[t] = scan[t]
<1> USE DEF At
<1>1. \A t \in Scanners \ {s} : scan'[t] = scan[t]
  BY 
     DEF Begin, ScanStep, HashFile, StatFile, SnapshotFails, ReadIndex, Go, ReadEntry, Extract,
         ExtractFails,
         WriteEntry, WriteIndex, WriteFails, AfterPut, Crash, ScanTypes
<1>2. CASE Begin(s)
  <2>1. PICK o \in Settings :
          scan' = [scan EXCEPT ![s] = NextToHash([Idle EXCEPT !.settings = o])]
    BY <1>2 DEF Begin
  <2> DEFINE new == [Idle EXCEPT !.settings = o]
  <2>2. new \in ScanRecords /\ new.records = Idle.records /\ new.settings = o
    BY DEF Idle, ScanRecords, Resting
  <2>3. GoesOn(new, NextToHash(new))
    BY <2>2, NextToHashLemma
  <2>4. scan'[s] = NextToHash(new)
    BY <2>1 DEF ScanTypes
  <2> HIDE DEF new
  <2> QED BY <1>1, <2>2, <2>3, <2>4 DEF GoesOn, Led, Places, Resting
<1>3. CASE ScanStep(s) \/ Crash(s)
  <2>1. /\ scan[s].pc \notin Resting /\ scan[s] \in ScanRecords /\ File(s) \in Files
        /\ scan[s].settings \in Settings
    BY <1>3, UnderWay, HoldsFacts
  <2>2. CASE HashFile(s)
    <3>1. CASE Disposition(File(s), disk[File(s)].content) = "included"
      BY <1>1, <2>1, <2>2, <3>1 DEF HashFile, Led, Places, Resting, ScanTypes, ScanRecords
    <3>2. CASE Disposition(File(s), disk[File(s)].content) # "included"
      <4>1. GoesOn(scan[s], NextToHash(scan[s]))
        BY <2>1, NextToHashLemma
      <4>2. scan'[s] = NextToHash(scan[s])
        BY <2>2, <3>2 DEF HashFile, ScanTypes
      <4> QED BY <1>1, <2>1, <4>1, <4>2 DEF GoesOn, Led, Places, Resting
    <3> QED BY <3>1, <3>2
  <2>3. CASE StatFile(s)
    <3> DEFINE record == IF disk[File(s)].content = Absent THEN Absent
                         ELSE [sha |-> scan[s].sha, stamp |-> disk[File(s)].stamp]
               rec == [scan[s] EXCEPT !.records[File(s)] = record, !.sha = Absent]
    <3>1. record \in FileRecords \cup {Absent}
      <4>1. scan[s].sha \in Contents
        BY <2>1, <2>3, HoldsFacts DEF StatFile
      <4> QED BY <2>1, <4>1 DEF CacheTypes, FileRecords
    <3>2. rec \in ScanRecords /\ rec.settings = scan[s].settings /\ rec.records = Stated(s)
      BY <2>1, <3>1 DEF ScanRecords, File, Stated
    <3>3. scan'[s] = NextToHash(rec)
      BY <2>3 DEF StatFile, ScanTypes
    <3> HIDE DEF rec
    <3>4. GoesOn(rec, NextToHash(rec))
      BY <2>1, <3>2, NextToHashLemma
    <3> QED BY <1>1, <2>3, <3>2, <3>3, <3>4 DEF GoesOn, Led, Places, Resting
  <2>4. CASE ReadIndex(s)
    BY <1>1, <2>1, <2>4 DEF ReadIndex, Go, Led, Places, Resting, ScanTypes, ScanRecords
  <2>5. CASE Crash(s)
    BY <1>1, <2>5 DEF Crash, Idle, Led, Places, Resting, ScanTypes
  <2>6. CASE Extract(s) \/ ExtractFails(s)
    <3>1. PICK e : scan' = [scan EXCEPT ![s] = [scan[s] EXCEPT !.pc = "put", !.found = e]]
      BY Zenon, <2>6 DEF Extract, ExtractFails
    <3>2. scan'[s].pc = "put" /\ scan'[s].records = scan[s].records
      BY <2>1, <3>1 DEF ScanTypes, ScanRecords
    <3> QED BY <1>1, <2>1, <2>6, <3>2 DEF Led
  <2>7. CASE ReadEntry(s)
    <3>1. scan[s].pc \in Collecting /\ Key(s) \in Keys
      BY <2>1, <2>7, HoldsFacts DEF ReadEntry, Collecting
    <3>2. CASE entries[Key(s)] \in {Absent, Broken}
      BY <1>1, <2>1, <2>7, <3>2 DEF ReadEntry, Led, Places, Resting, ScanTypes, ScanRecords
    <3>3. CASE entries[Key(s)] \notin {Absent, Broken}
      <4>1. entries[Key(s)] \in Evidence
        BY <3>1, <3>3 DEF CacheTypes
      <4>2. scan' = [scan EXCEPT ![s] = Give(entries[Key(s)], scan[s])]
        BY <2>7, <3>3 DEF ReadEntry
      <4> QED BY <1>1, <3>1, <4>1, <4>2, GiveLeads
    <3> QED BY <3>2, <3>3
  <2>8. CASE WriteEntry(s) \/ WriteIndex(s) \/ WriteFails(s)
    <3>1. scan[s].pc \in {"put", "put_second"}
      BY <2>8 DEF WriteEntry, WriteIndex, WriteFails, Puts, PutOrder
    <3>2. scan[s].found \in Evidence /\ scan[s].pc \in Collecting
      BY <2>1, <3>1, HoldsFacts DEF Collecting
    <3>3. CASE scan' = [scan EXCEPT ![s] = Give(scan[s].found, scan[s])]
      BY <1>1, <3>2, <3>3, GiveLeads
    <3>4. CASE WriteEntry(s)
      <4>0. scan[s].pc = "put" /\ AfterPut(s)
        BY <3>4 DEF WriteEntry, Puts, PutOrder
      <4>1. scan' = [scan EXCEPT ![s] = [scan[s] EXCEPT !.pc = "put_second"]]
        BY <4>0 DEF AfterPut
      <4>2. scan'[s].pc = "put_second" /\ scan'[s].records = scan[s].records
        BY <2>1, <4>1 DEF ScanTypes, ScanRecords
      <4> QED BY <1>1, <2>1, <3>4, <4>2 DEF Led
    <3> QED BY <2>8, <3>3, <3>4 DEF WriteIndex, WriteFails, Puts, PutOrder, AfterPut
  <2>9. CASE SnapshotFails(s)
    <3>1. /\ GoesOn(Unseen(s), NextToHash(Unseen(s)))
          /\ Unseen(s).records = scan[s].records
      BY <2>1, UnseenLemma, NextToHashLemma
    <3>2. scan'[s] = NextToHash(Unseen(s))
      BY <2>9 DEF SnapshotFails, Unseen, ScanTypes
    <3> QED BY <1>1, <2>1, <3>1, <3>2 DEF GoesOn, Led, Places, Resting
  <2> QED BY <1>3, <2>2, <2>3, <2>4, <2>5, <2>6, <2>7, <2>8, <2>9 DEF ScanStep
<1> QED BY <1>2, <1>3

-----------------------------------------------------------------------------
(* The two writes of put *)

\* A row is not the value for a broken file.
LEMMA IndexRowLemma ==
  ASSUME NEW k \in Keys, NEW r \in FileRecords
  PROVE  [key |-> k, stamp |-> r.stamp] # Broken
<1>1. [key |-> k, stamp |-> r.stamp] \in IndexRows
  BY DEF FileRecords, IndexRows
<1> QED BY <1>1

\* No step of anyone takes an entry away or leaves an index ahead of its entry,
\* unless somebody damages the cache.
LEMMA EntryFirstHolds == Spec => []EntryFirst
<1>1. Init => EntryFirst
  BY DEF Init, EntryFirst, At, Idle
<1>2. CacheTypes /\ ScanTypes /\ EntryFirst /\ [Next]_vars => EntryFirst'
  <2> SUFFICES ASSUME CacheTypes, ScanTypes, EntryFirst, [Next]_vars, ~damaged'
               PROVE  EntryFirst'
    BY DEF EntryFirst
  <2> USE DEF At, cache, history
  <2>0. ~damaged /\ ~Damage
    <3>1. ~Damage
      BY DEF Damage
    <3>2. ASSUME NEW s \in Scanners, Begin(s) \/ ScanStep(s) \/ Crash(s)
          PROVE  damaged' = damaged
      BY <3>2 DEF ScanStep, Begin, HashFile, StatFile, SnapshotFails, ReadIndex, ReadEntry, Extract,
                  ExtractFails, WriteEntry, WriteIndex, WriteFails, Crash
    <3>3. ASSUME NEW f \in Edited, Edit(f) PROVE damaged' = damaged
      BY <3>3 DEF Edit
    <3>4. ASSUME UNCHANGED vars PROVE damaged' = damaged
      BY <3>4 DEF vars
    <3>5. damaged' = damaged
      BY <3>1, <3>2, <3>3, <3>4 DEF Next
    <3> QED BY <3>1, <3>5
  \* What a step must keep, of the cache and of each scanner.
  <2>1. ASSUME UNCHANGED cache, NEW s \in Scanners,
               \A t \in Scanners \ {s} : scan'[t] = scan[t],
               scan'[s].pc # "put_second"
        PROVE  EntryFirst'
    BY <2>0, <2>1 DEF EntryFirst, Key, Record, File
  <2>2. ASSUME NEW s \in Scanners, Begin(s) \/ ScanStep(s) \/ Crash(s),
               ~WriteEntry(s), ~WriteIndex(s)
        PROVE  EntryFirst'
    <3>1. UNCHANGED cache
      BY <2>2
         DEF Begin, ScanStep, HashFile, StatFile, SnapshotFails, ReadIndex, ReadEntry, Extract,
             ExtractFails,
                  WriteFails, Crash
    <3>2. scan'[s].pc # "put_second" /\ \A t \in Scanners \ {s} : scan'[t] = scan[t]
      BY <2>2, ScannerMoves DEF Led, Places, Resting
    <3> QED BY <2>1, <3>1, <3>2
  <2>3. ASSUME NEW s \in Scanners, WriteEntry(s) PROVE EntryFirst'
    <3>1. At(s, "put") /\ AfterPut(s)
      BY <2>3 DEF WriteEntry, Puts, PutOrder
    <3>2. Key(s) \in Keys /\ scan[s].found \in Evidence
      BY <3>1, HoldsFacts DEF Resting, Collecting
    <3>3. entries' = [entries EXCEPT ![Key(s)] = scan[s].found] /\ UNCHANGED <<index, damaged>>
      BY <2>3 DEF WriteEntry
    <3>4. \A k \in Keys : entries[k] # Absent \/ k = Key(s) => entries'[k] # Absent
      BY <3>2, <3>3 DEF CacheTypes
    <3>5. \A f \in Files : index[f] \notin {Absent, Broken} => index[f].key \in Keys
      BY DEF CacheTypes, IndexRows
    <3>6. \A f \in Files : index'[f] # Absent =>
            index'[f] # Broken /\ entries'[index'[f].key] # Absent
      BY <2>0, <3>3, <3>4, <3>5 DEF EntryFirst
    <3>7. ASSUME NEW t \in Scanners, scan'[t].pc = "put_second"
          PROVE  entries'[Key(t)'] # Absent
      <4>1. CASE t = s
        <5>1. scan'[s] = [scan[s] EXCEPT !.pc = "put_second"] /\ scan[s] \in ScanRecords
          BY <3>1, AfterPutLemma DEF ScanTypes
        <5>2. Key(s)' = Key(s)
          BY <5>1 DEF Key, Record, File, ScanRecords
        <5> QED BY <3>2, <3>4, <4>1, <5>2
      <4>2. CASE t # s
        <5>1. scan'[t] = scan[t]
          BY <3>1, <4>2 DEF AfterPut, ScanTypes
        <5>2. Key(t)' = Key(t)
          BY <5>1 DEF Key, Record, File
        <5>3. entries[Key(t)] # Absent
          BY <2>0, <3>7, <5>1 DEF EntryFirst
        <5>4. Key(t) \in Keys
          BY <3>7, <5>1, HoldsFacts DEF Resting, Collecting
        <5> QED BY <3>4, <5>2, <5>3, <5>4
      <4> QED BY <4>1, <4>2
    <3> QED BY <3>6, <3>7 DEF EntryFirst
  <2>4. ASSUME NEW s \in Scanners, WriteIndex(s) PROVE EntryFirst'
    <3>1. At(s, "put_second") /\ AfterPut(s)
      BY <2>4 DEF WriteIndex, Puts, PutOrder
    <3>2. File(s) \in Files /\ entries[Key(s)] # Absent
      BY <2>0, <3>1, HoldsFacts DEF EntryFirst, Resting
    <3>3. index' = [index EXCEPT ![File(s)] = [key |-> Key(s), stamp |-> Record(s).stamp]]
          /\ UNCHANGED <<entries, damaged>>
      BY <2>4 DEF WriteIndex
    <3>4. [key |-> Key(s), stamp |-> Record(s).stamp] # Broken
      BY <3>1, HoldsFacts, IndexRowLemma DEF Resting, Collecting
    <3>5. \A f \in Files : index'[f] # Absent =>
            index'[f] # Broken /\ entries'[index'[f].key] # Absent
      BY <2>0, <3>2, <3>3, <3>4 DEF EntryFirst, CacheTypes
    <3>6. ASSUME NEW t \in Scanners, scan'[t].pc = "put_second"
          PROVE  entries'[Key(t)'] # Absent
      <4>1. t # s
        BY <3>1, <3>6, AfterPutLemma
      <4>2. scan'[t] = scan[t]
        BY <3>1, <4>1 DEF AfterPut, ScanTypes
      <4>3. Key(t)' = Key(t) /\ entries[Key(t)] # Absent
        BY <2>0, <3>6, <4>2 DEF EntryFirst, Key, Record, File
      <4> QED BY <3>3, <4>3
    <3> QED BY <3>5, <3>6 DEF EntryFirst
  <2>5. ASSUME NEW f \in Edited, Edit(f) PROVE EntryFirst'
    <3>1. \A s \in Scanners : scan'[s].pc = scan[s].pc /\ Key(s)' = Key(s)
      BY <2>5 DEF Edit, ScanTypes, ScanRecords, Key, Record, File
    <3> QED BY <2>0, <2>5, <3>1 DEF Edit, EntryFirst
  <2>6. CASE UNCHANGED vars
    BY <2>0, <2>6 DEF vars, EntryFirst, Key, Record, File
  <2> QED BY <2>0, <2>2, <2>3, <2>4, <2>5, <2>6 DEF Next
<1> QED BY <1>1, <1>2, Types, PTL DEF Spec

\* An index file never names an entry that is not there: whatever scans, edits and
\* crashes there have been, put writes the entry first and nobody takes it back.
THEOREM IndexedEntryExistsHolds == Spec => []IndexedEntryExists
<1>1. EntryFirst => IndexedEntryExists
  BY DEF EntryFirst, IndexedEntryExists
<1> QED BY <1>1, EntryFirstHolds, PTL

-----------------------------------------------------------------------------
(* The invariant behind CachedIsClean *)

\* A file that a scan has been past, and that is what it was when the scan began:
\* it has a record just if the scan is interested in it, and the record is of it.
Recorded(rec, f) ==
  IF Disposition(f, disk[f].content) = "included"
  THEN rec.records[f] = [sha |-> disk[f].content, stamp |-> disk[f].stamp]
  ELSE rec.records[f] = Absent

Says(rec, f) ==
  f \notin unread => rec.output[f] = CleanOutput(f, disk[f].content, rec.settings)

\* What the two loops of a scan have made of such a file by where they are.
Knows(rec, f) ==
  /\ rec.pc \in {"hash", "stat"} =>
       /\ IF f < rec.file THEN Recorded(rec, f) ELSE rec.records[f] = Absent
       /\ rec.output[f] = Absent
  /\ rec.pc = "stat" /\ f = rec.file =>
       /\ Disposition(f, disk[f].content) = "included"
       /\ rec.sha = disk[f].content
  /\ rec.pc \in Collecting =>
       /\ Recorded(rec, f)
       /\ IF f < rec.file THEN Says(rec, f) ELSE rec.output[f] = Absent
  /\ rec.pc = "done" => Says(rec, f)

AllKnown ==
  ~(crossed /\ torn) =>
    \A s \in Scanners : \A f \in Files \ scan[s].touched : Knows(scan[s], f)

\* Stamps only grow.
Dated ==
  \A f \in Files :
    /\ disk[f].stamp <= edits
    /\ index[f] \notin {Absent, Broken} => index[f].stamp <= disk[f].stamp
    /\ \A s \in Scanners : scan[s].records[f] # Absent =>
         scan[s].records[f].stamp <= disk[f].stamp

\* As long as every extraction has read what was hashed, an entry is what its
\* key says.
Faithful ==
  ~torn =>
    /\ \A k \in Keys : entries[k] \notin {Absent, Broken} =>
         entries[k] = EvidenceOf(k.sha, k.settings)
    /\ \A s \in Scanners : scan[s].pc \in {"put", "put_second"} =>
         scan[s].found = EvidenceOf(Record(s).sha, scan[s].settings)

\* Otherwise, if scans do not overlap, an index row whose stamp is the file's leads
\* to what the file holds.
Right(e, f, o) == e \in {Absent, Broken} \/ e = EvidenceOf(disk[f].content, o)

RowsRight ==
  \A f \in Files \ unread :
    index[f] \notin {Absent, Broken} /\ index[f].stamp = disk[f].stamp =>
      Right(entries[index[f].key], f, index[f].key.settings)

Current(s) == Record(s).stamp = disk[File(s)].stamp /\ File(s) \notin unread

Working(s) ==
  /\ \A f \in Files : scan[s].records[f] # Absent /\ index[f] \notin {Absent, Broken} =>
       index[f].stamp <= scan[s].records[f].stamp
  /\ At(s, "entry") /\ Current(s) => Right(entries[Key(s)], File(s), scan[s].settings)
  /\ scan[s].pc \in {"put", "put_second"} /\ Current(s) =>
       scan[s].found = EvidenceOf(disk[File(s)].content, scan[s].settings)
  /\ At(s, "put_second") => entries[Key(s)] \in {Absent, Broken, scan[s].found}

Apart ==
  ~crossed =>
    /\ \A s, t \in Scanners : {scan[s].pc, scan[t].pc} \cap Resting = {} => s = t
    /\ RowsRight
    /\ \A s \in Scanners : scan[s].pc \notin Resting => Working(s)

-----------------------------------------------------------------------------
(* What a scan says of a file *)

\* Without a cache a scan says something of the files it is interested in.
LEMMA CleanIs ==
  ASSUME NEW f \in Files, NEW c \in Contents \cup {Absent}, NEW o
  PROVE  CleanOutput(f, c, o) =
           IF Disposition(f, c) = "included" THEN EvidenceOf(c, o) ELSE Absent
BY FirstMarkLemma DEF CleanOutput, Disposition

\* On the way to the next file with a record, those without one are passed: nothing is
\* said of them, as it should be.
LEMMA NextToCollectKnows ==
  ASSUME CacheTypes, NEW rec \in ScanRecords, NEW f \in Files,
         Recorded(rec, f),
         f <= rec.file => Says(rec, f),
         f > rec.file => rec.output[f] = Absent
  PROVE  Knows(NextToCollect(rec), f)
<1> DEFINE left == {g \in Files : g > rec.file /\ rec.records[g] # Absent}
           next == NextToCollect(rec)
<1>1. ASSUME rec.records[f] = Absent, f > rec.file PROVE Says(rec, f)
  <2>1. disk[f].content \in Contents \cup {Absent} /\ disk[f].stamp \in Stamps
    BY DEF CacheTypes
  <2>2. Disposition(f, disk[f].content) # "included"
    <3>1. ASSUME Disposition(f, disk[f].content) = "included" PROVE FALSE
      <4>1. disk[f].content \in Contents
        BY <2>1, <3>1, FirstMarkLemma DEF Disposition
      <4>2. [sha |-> disk[f].content, stamp |-> disk[f].stamp] \in FileRecords
        BY <2>1, <4>1 DEF FileRecords
      <4> QED BY <1>1, <3>1, <4>2 DEF Recorded
    <3> QED BY <3>1
  <2> QED BY <1>1, <2>1, <2>2, CleanIs DEF Says
<1>2. rec.file \in Nat /\ f \in Nat
  BY DEF ScanRecords, Files
<1>3. CASE left # {}
  <2>1. Least(left) \in left /\ \A g \in left : Least(left) <= g
    BY <1>3, LeastLemma
  <2>2. /\ next.pc = "index" /\ next.file = Least(left) /\ next.settings = rec.settings
        /\ next.records = rec.records /\ next.output = rec.output
    BY <1>3 DEF NextToCollect, ScanRecords
  <2>3. Recorded(next, f)
    BY <2>2 DEF Recorded
  <2>4. IF f < next.file THEN Says(rec, f) ELSE rec.output[f] = Absent
    <3>1. Least(left) \in Nat /\ Least(left) > rec.file
      <4>1. \A g \in left : g \in Nat /\ g > rec.file
        BY DEF Files
      <4> HIDE DEF left
      <4> QED BY <2>1, <4>1
    <3>2. ASSUME f < Least(left) PROVE Says(rec, f)
      <4>1. f \notin left
        BY <1>2, <2>1, <3>1, <3>2
      <4>2. f > rec.file => rec.records[f] = Absent
        BY <4>1
      <4>3. f <= rec.file \/ f > rec.file
        BY <1>2
      <4> QED BY <1>1, <4>2, <4>3
    <3>3. ~(f < Least(left)) => f > rec.file
      BY <1>2, <3>1
    <3> QED BY <2>2, <3>2, <3>3
  <2> QED BY <2>2, <2>3, <2>4 DEF Knows, Says, Collecting
<1>4. CASE left = {}
  <2>1. /\ next.pc = "done" /\ next.settings = rec.settings /\ next.output = rec.output
    BY <1>4 DEF NextToCollect, ScanRecords
  <2>2. Says(rec, f)
    BY <1>1, <1>2, <1>4
  <2> QED BY <2>1, <2>2 DEF Knows, Says, Collecting
<1> QED BY <1>3, <1>4

\* The snapshot goes on to the next file, or ends with every file recorded.
LEMMA NextToHashKnows ==
  ASSUME CacheTypes, NEW rec \in ScanRecords, NEW f \in Files,
         IF f <= rec.file THEN Recorded(rec, f) ELSE rec.records[f] = Absent,
         rec.output[f] = Absent
  PROVE  Knows(NextToHash(rec), f)
<1>1. rec.file \in 0..NFiles /\ f \in 1..NFiles
  BY DEF ScanRecords, Files
<1>2. CASE rec.file < NFiles
  <2>1. /\ NextToHash(rec).pc = "hash" /\ NextToHash(rec).file = rec.file + 1
        /\ NextToHash(rec).records = rec.records /\ NextToHash(rec).output = rec.output
    BY <1>2 DEF NextToHash, ScanRecords
  <2>2. f < rec.file + 1 <=> f <= rec.file
    BY <1>1
  <2> QED BY <2>1, <2>2 DEF Knows, Recorded, Collecting
<1>3. CASE ~(rec.file < NFiles)
  <2> DEFINE first == [rec EXCEPT !.file = 0]
  <2>1. /\ first \in ScanRecords /\ first.records = rec.records /\ first.output = rec.output
        /\ first.file = 0
    BY DEF ScanRecords
  <2>2. Recorded(first, f)
    BY <1>1, <1>3, <2>1 DEF Recorded
  <2>3. f > first.file
    BY <1>1, <2>1
  <2>4. NextToHash(rec) = NextToCollect(first)
    BY <1>3 DEF NextToHash
  <2>5. first.output[f] = Absent
    BY <2>1
  <2>6. ~(f <= first.file)
    BY <1>1, <2>1
  <2> HIDE DEF first
  <2> QED BY <2>1, <2>2, <2>3, <2>4, <2>5, <2>6, NextToCollectKnows
<1> QED BY <1>2, <1>3

\* Evidence of what an untouched file holds may be given to the output.
LEMMA GiveKnows ==
  ASSUME CacheTypes, NEW rec \in ScanRecords, rec.pc \in Collecting, rec.file \in Files,
         rec.records[rec.file] # Absent,
         NEW f \in Files, Knows(rec, f), NEW e \in Evidence,
         f = rec.file /\ f \notin unread => e = EvidenceOf(disk[f].content, rec.settings)
  PROVE  Knows(Give(e, rec), f)
<1> DEFINE given == Given(e, rec)
<1>1. /\ given \in ScanRecords /\ given.settings = rec.settings /\ given.records = rec.records
      /\ given.file = rec.file /\ given.output = [rec.output EXCEPT ![rec.file] = e]
      /\ Give(e, rec) = NextToCollect(given)
  BY GivenIs
<1>2. /\ Recorded(rec, f)
      /\ IF f < rec.file THEN Says(rec, f) ELSE rec.output[f] = Absent
  BY DEF Knows
<1>3. given.output[f] = IF f = rec.file THEN e ELSE rec.output[f]
  BY <1>1 DEF ScanRecords
<1>4. Recorded(given, f)
  BY <1>1, <1>2 DEF Recorded
<1>5. ASSUME f = rec.file PROVE Says(given, f)
  <2>1. Disposition(f, disk[f].content) = "included"
    BY <1>2, <1>5 DEF Recorded
  <2>2. disk[f].content \in Contents \cup {Absent}
    BY DEF CacheTypes
  <2> QED BY <1>1, <1>3, <1>5, <2>1, <2>2, CleanIs DEF Says
<1>6. f <= given.file => Says(given, f)
  <2>1. f <= rec.file => f = rec.file \/ f < rec.file
    BY DEF Files
  <2>2. f < rec.file => f # rec.file
    BY DEF Files
  <2> QED BY <1>1, <1>2, <1>3, <1>5, <2>1, <2>2 DEF Says
<1>7. f > given.file => given.output[f] = Absent
  <2>1. f > rec.file => f # rec.file /\ ~(f < rec.file)
    BY DEF Files
  <2> QED BY <1>1, <1>2, <1>3, <2>1
<1> HIDE DEF given
<1> QED BY <1>1, <1>4, <1>6, <1>7, NextToCollectKnows

\* A step of one scanner that keeps what it knows keeps what all know.
LEMMA OneKnown ==
  ASSUME ScanTypes, AllKnown, crossed \in BOOLEAN, torn \in BOOLEAN,
         NEW s \in Scanners, NEW rec, scan' = [scan EXCEPT ![s] = rec],
         UNCHANGED disk, unread \subseteq unread', crossed => crossed', torn => torn',
         ~(crossed /\ torn) => \A f \in Files \ rec.touched : Knows(rec, f)
  PROVE  AllKnown'
<1> SUFFICES ASSUME ~(crossed /\ torn)', NEW t \in Scanners, NEW f \in Files \ scan'[t].touched
             PROVE  Knows(scan[t], f)'
  BY DEF AllKnown
<1>1. ~(crossed /\ torn)
  OBVIOUS
<1>2. scan'[t] = IF t = s THEN rec ELSE scan[t]
  BY DEF ScanTypes
<1>3. Knows(scan'[t], f)
  BY <1>1, <1>2 DEF AllKnown
<1> QED BY <1>3 DEF Knows, Recorded, Says

\* What the record of an untouched file under way is of.
LEMMA RecordIs ==
  ASSUME NEW s \in Scanners, scan[s].pc \in Collecting, Record(s) # Absent,
         Knows(scan[s], File(s))
  PROVE  Record(s) = [sha |-> disk[File(s)].content, stamp |-> disk[File(s)].stamp]
BY DEF Knows, Recorded, Record, File

\* The snapshot: a file's hash and stat are those of an untouched file.
LEMMA SnapshotKnows ==
  ASSUME CacheTypes, ScanTypes, AllKnown, NEW s \in Scanners,
         Begin(s) \/ HashFile(s) \/ StatFile(s) \/ SnapshotFails(s)
  PROVE  AllKnown'
<1> USE DEF At, history
<1>1. crossed \in BOOLEAN /\ torn \in BOOLEAN
  BY DEF CacheTypes
<1>2. CASE Begin(s)
  <2>1. PICK o \in Settings :
          scan' = [scan EXCEPT ![s] = NextToHash([Idle EXCEPT !.settings = o])]
    BY <1>2 DEF Begin
  <2> DEFINE new == [Idle EXCEPT !.settings = o]
  <2>2. /\ new \in ScanRecords /\ new.file = 0 /\ new.records = [f \in Files |-> Absent]
        /\ new.output = [f \in Files |-> Absent]
    BY DEF Idle, ScanRecords, Resting
  <2>3. ASSUME NEW f \in Files PROVE Knows(NextToHash(new), f)
    <3>1. ~(f <= new.file) /\ new.records[f] = Absent /\ new.output[f] = Absent
      BY <2>2 DEF Files
    <3> HIDE DEF new
    <3> QED BY <2>2, <3>1, NextToHashKnows
  <2> QED BY <1>1, <1>2, <2>1, <2>3, OneKnown DEF Begin
<1>3. CASE HashFile(s)
  <2>1. scan[s] \in ScanRecords /\ File(s) \in Files /\ scan[s].settings \in Settings
    BY <1>3, HoldsFacts DEF HashFile, Resting
  <2>2. CASE Disposition(File(s), disk[File(s)].content) = "included"
    <3> DEFINE rec == [scan[s] EXCEPT !.pc = "stat", !.sha = disk[File(s)].content]
    <3>1. /\ rec.pc = "stat" /\ rec.file = File(s) /\ rec.sha = disk[File(s)].content
          /\ rec.records = scan[s].records /\ rec.output = scan[s].output
          /\ rec.touched = scan[s].touched
      BY <2>1 DEF ScanRecords, File
    <3>2. ASSUME NEW f \in Files \ rec.touched, Knows(scan[s], f) PROVE Knows(rec, f)
      BY <1>3, <2>2, <3>1, <3>2 DEF Knows, Recorded, HashFile, File, Collecting
    <3>3. scan' = [scan EXCEPT ![s] = rec] /\ UNCHANGED <<disk, unread, crossed, torn>>
      BY <1>3, <2>2 DEF HashFile
    <3>4. ~(crossed /\ torn) => \A f \in Files \ rec.touched : Knows(rec, f)
      BY <3>1, <3>2 DEF AllKnown
    <3> HIDE DEF rec
    <3> QED BY <1>1, <3>3, <3>4, OneKnown
  <2>3. CASE Disposition(File(s), disk[File(s)].content) # "included"
    <3>1. /\ scan' = [scan EXCEPT ![s] = NextToHash(scan[s])]
          /\ UNCHANGED <<disk, unread, crossed, torn>>
      BY <1>3, <2>3 DEF HashFile
    <3>2. ASSUME NEW f \in Files, Knows(scan[s], f) PROVE Knows(NextToHash(scan[s]), f)
      <4>1. /\ IF f < File(s) THEN Recorded(scan[s], f) ELSE scan[s].records[f] = Absent
            /\ scan[s].output[f] = Absent
        BY <1>3, <3>2 DEF HashFile, Knows, File
      <4>2. f = File(s) => Recorded(scan[s], f)
        BY <2>3, <4>1 DEF Recorded, Files
      <4>3. f <= File(s) => f < File(s) \/ f = File(s)
        BY <2>1 DEF Files
      <4>4. f > File(s) => ~(f < File(s))
        BY <2>1 DEF Files
      <4>5. IF f <= scan[s].file THEN Recorded(scan[s], f) ELSE scan[s].records[f] = Absent
        BY <2>1, <4>1, <4>2, <4>3, <4>4 DEF File, Files
      <4> QED BY <2>1, <4>1, <4>5, NextToHashKnows
    <3>3. NextToHash(scan[s]).touched = scan[s].touched
      BY <2>1, NextToHashLemma DEF GoesOn
    <3>4. ~(crossed /\ torn) =>
            \A f \in Files \ NextToHash(scan[s]).touched : Knows(NextToHash(scan[s]), f)
      BY <3>2, <3>3 DEF AllKnown
    <3> QED BY <1>1, <3>1, <3>4, OneKnown
  <2> QED BY <2>2, <2>3
<1>4. CASE StatFile(s)
  <2>1. /\ scan[s] \in ScanRecords /\ File(s) \in Files /\ scan[s].settings \in Settings
        /\ scan[s].sha \in Contents
    BY <1>4, HoldsFacts DEF StatFile, Resting
  <2> DEFINE record == IF disk[File(s)].content = Absent THEN Absent
                       ELSE [sha |-> scan[s].sha, stamp |-> disk[File(s)].stamp]
             rec == [scan[s] EXCEPT !.records[File(s)] = record, !.sha = Absent]
  <2>2. record \in FileRecords \cup {Absent}
    BY <2>1 DEF CacheTypes, FileRecords
  <2>3. /\ rec \in ScanRecords /\ rec.settings = scan[s].settings /\ rec.file = File(s)
        /\ rec.records = [scan[s].records EXCEPT ![File(s)] = record]
        /\ rec.output = scan[s].output /\ rec.touched = scan[s].touched
    <3> HIDE DEF record
    <3> QED BY <2>1, <2>2 DEF ScanRecords, File
  <2>4. scan' = [scan EXCEPT ![s] = NextToHash(rec)] /\ UNCHANGED <<disk, unread, crossed, torn>>
    BY <1>4 DEF StatFile
  <2>5. ASSUME NEW f \in Files, Knows(scan[s], f) PROVE Knows(NextToHash(rec), f)
    <3>1. /\ IF f < File(s) THEN Recorded(scan[s], f) ELSE scan[s].records[f] = Absent
          /\ scan[s].output[f] = Absent
          /\ f = File(s) => /\ Disposition(f, disk[f].content) = "included"
                            /\ scan[s].sha = disk[f].content
      BY <1>4, <2>5 DEF StatFile, Knows, File
    <3>2. rec.records[f] = IF f = File(s) THEN record ELSE scan[s].records[f]
      <4> HIDE DEF record, rec
      <4> QED BY <2>1, <2>3 DEF ScanRecords
    <3>3. f = File(s) => Recorded(rec, f)
      BY <2>1, <3>1, <3>2 DEF Recorded
    <3>4. f < File(s) => f # File(s)
      BY <2>1 DEF Files
    <3>5. f < File(s) => Recorded(rec, f)
      <4> HIDE DEF record, rec
      <4> QED BY <3>1, <3>2, <3>4 DEF Recorded
    <3>6. ~(f <= File(s)) => f # File(s) /\ ~(f < File(s))
      BY <2>1 DEF Files
    <3>7. f <= File(s) => f < File(s) \/ f = File(s)
      BY <2>1 DEF Files
    <3> HIDE DEF record, rec
    <3>8. IF f <= rec.file THEN Recorded(rec, f) ELSE rec.records[f] = Absent
      BY <2>3, <3>1, <3>2, <3>3, <3>5, <3>6, <3>7
    <3> QED BY <2>3, <3>1, <3>8, NextToHashKnows
  <2> HIDE DEF record, rec
  <2>6. NextToHash(rec).touched = scan[s].touched
    BY <2>1, <2>3, NextToHashLemma DEF GoesOn
  <2>7. ~(crossed /\ torn) =>
          \A f \in Files \ NextToHash(rec).touched : Knows(NextToHash(rec), f)
    BY <2>5, <2>6 DEF AllKnown
  <2> QED BY <1>1, <2>4, <2>7, OneKnown
<1>5. CASE SnapshotFails(s)
  <2>1. /\ Unseen(s) \in ScanRecords /\ Unseen(s).settings \in Settings
        /\ Unseen(s).file = File(s) /\ Unseen(s).records = scan[s].records
        /\ Unseen(s).output = scan[s].output
        /\ Unseen(s).touched = scan[s].touched \cup {File(s)} /\ File(s) \in Files
    BY <1>5, UnseenLemma, HoldsFacts DEF SnapshotFails, Resting
  <2>2. scan' = [scan EXCEPT ![s] = NextToHash(Unseen(s))]
        /\ UNCHANGED <<disk, unread, crossed, torn>>
    BY <1>5 DEF SnapshotFails, Unseen
  <2>3. ASSUME NEW f \in Files, f # File(s), Knows(scan[s], f)
        PROVE  Knows(NextToHash(Unseen(s)), f)
    <3>1. /\ IF f < File(s) THEN Recorded(scan[s], f) ELSE scan[s].records[f] = Absent
          /\ scan[s].output[f] = Absent
      BY <1>5, <2>3 DEF SnapshotFails, Knows, File
    <3>2. f <= File(s) => f < File(s)
      BY <2>1, <2>3 DEF Files
    <3>3. f < File(s) => f <= File(s)
      BY <2>1 DEF Files
    <3>4. IF f <= Unseen(s).file THEN Recorded(Unseen(s), f) ELSE Unseen(s).records[f] = Absent
      BY <2>1, <3>1, <3>2, <3>3 DEF Recorded
    <3> QED BY <2>1, <3>1, <3>4, NextToHashKnows
  <2>4. NextToHash(Unseen(s)).touched = Unseen(s).touched
    BY <2>1, NextToHashLemma DEF GoesOn
  <2>5. ~(crossed /\ torn) =>
          \A f \in Files \ NextToHash(Unseen(s)).touched : Knows(NextToHash(Unseen(s)), f)
    BY <2>1, <2>3, <2>4 DEF AllKnown
  <2> QED BY <1>1, <2>2, <2>5, OneKnown
<1> QED BY <1>2, <1>3, <1>4, <1>5

\* A scanner that only moves within the collection of a file knows what it knew.
Moved(rec, next) ==
  /\ rec.pc \in Collecting /\ next.pc \in Collecting
  /\ next.file = rec.file /\ next.settings = rec.settings /\ next.records = rec.records
  /\ next.output = rec.output /\ next.touched = rec.touched

\* Such a step keeps what all know.
LEMMA MoveKnows ==
  ASSUME CacheTypes, ScanTypes, AllKnown, NEW s \in Scanners, NEW next,
         scan' = [scan EXCEPT ![s] = next], Moved(scan[s], next),
         UNCHANGED disk, unread \subseteq unread', crossed => crossed', torn => torn'
  PROVE  AllKnown'
<1>1. ASSUME NEW f \in Files, Knows(scan[s], f) PROVE Knows(next, f)
  BY <1>1 DEF Moved, Knows, Recorded, Says, Collecting
<1>2. ~(crossed /\ torn) => \A f \in Files \ next.touched : Knows(next, f)
  BY <1>1 DEF Moved, AllKnown
<1>3. crossed \in BOOLEAN /\ torn \in BOOLEAN
  BY DEF CacheTypes
<1> QED BY <1>2, <1>3, OneKnown

\* A scanner that gives the right evidence of a file knows the rest.
LEMMA GiveStep ==
  ASSUME CacheTypes, ScanTypes, AllKnown, NEW s \in Scanners, scan[s].pc \in Collecting,
         NEW e \in Evidence, scan' = [scan EXCEPT ![s] = Give(e, scan[s])],
         UNCHANGED <<disk, unread, crossed, torn>>,
         ~(crossed /\ torn) /\ File(s) \notin unread /\ Knows(scan[s], File(s)) =>
           e = EvidenceOf(disk[File(s)].content, scan[s].settings)
  PROVE  AllKnown'
<1>1. /\ scan[s] \in ScanRecords /\ File(s) \in Files /\ scan[s].settings \in Settings
      /\ Record(s) # Absent
  <2>1. scan[s].pc \notin Resting /\ Holds(scan[s])
    BY DEF ScanTypes, Collecting, Resting
  <2>2. Record(s) # Absent
    BY <2>1 DEF Holds, Record, File
  <2> QED BY <2>1, <2>2, HoldsFacts
<1>2. ASSUME ~(crossed /\ torn), NEW f \in Files, Knows(scan[s], f)
      PROVE  Knows(Give(e, scan[s]), f)
  <2>1. f = scan[s].file /\ f \notin unread => e = EvidenceOf(disk[f].content, scan[s].settings)
    BY <1>2 DEF File
  <2> QED BY <1>1, <1>2, <2>1, GiveKnows DEF File, Record
<1>3. Give(e, scan[s]).touched = scan[s].touched
  <2>1. Given(e, scan[s]).touched = scan[s].touched
    BY <1>1, GivenIs
  <2>2. GoesOn(Given(e, scan[s]), Give(e, scan[s]))
    BY <1>1, GiveLemma
  <2> QED BY <2>1, <2>2 DEF GoesOn
<1>4. ~(crossed /\ torn) => \A f \in Files \ Give(e, scan[s]).touched : Knows(Give(e, scan[s]), f)
  BY <1>2, <1>3 DEF AllKnown
<1>5. crossed \in BOOLEAN /\ torn \in BOOLEAN
  BY DEF CacheTypes
<1> QED BY <1>4, <1>5, OneKnown

-----------------------------------------------------------------------------
(* Stamps *)

\* Whatever a scan or the cache has of a file is no newer than the file.
LEMMA DatedStep ==
  ASSUME CacheTypes, ScanTypes, Dated, [Next]_vars
  PROVE  Dated'
<1> USE DEF cache, history
<1>1. \A f \in Files : disk[f].stamp \in Nat
  BY DEF CacheTypes, Stamps
<1>2. ASSUME NEW s \in Scanners, Begin(s) \/ ScanStep(s) \/ Crash(s) PROVE Dated'
  <2>1. UNCHANGED <<disk, edits>>
    BY <1>2 DEF Begin, ScanStep, HashFile, StatFile, SnapshotFails, ReadIndex, ReadEntry, Extract,
                ExtractFails, WriteEntry, WriteIndex, WriteFails, Crash
  <2>2. ASSUME NEW f \in Files, NEW t \in Scanners, scan'[t].records[f] # Absent
        PROVE  scan'[t].records[f].stamp <= disk[f].stamp
    <3>1. CASE scan'[t].records = scan[t].records
      BY <2>2, <3>1 DEF Dated
    <3>2. CASE scan'[t].records = Idle.records
      BY <2>2, <3>2 DEF Idle
    <3>3. CASE t = s /\ scan'[s].records = Stated(s)
      <4>1. scan[s].records \in [Files -> FileRecords \cup {Absent}]
        BY DEF ScanTypes, ScanRecords
      <4>2. CASE f = File(s)
        BY <1>1, <2>2, <3>3, <4>1, <4>2 DEF Stated
      <4>3. CASE f # File(s)
        BY <2>2, <3>3, <4>1, <4>3 DEF Dated, Stated
      <4> QED BY <4>2, <4>3
    <3> QED BY <1>2, <3>1, <3>2, <3>3, ScannerMoves DEF Led
  <2>3. ASSUME NEW f \in Files, index'[f] \notin {Absent, Broken}
        PROVE  index'[f].stamp <= disk[f].stamp
    <3>1. CASE ~WriteIndex(s)
      <4>1. UNCHANGED index
        BY <1>2, <3>1
           DEF Begin, ScanStep, HashFile, StatFile, SnapshotFails, ReadIndex, ReadEntry, Extract,
                          ExtractFails, WriteEntry, WriteFails, Crash
      <4> QED BY <2>3, <4>1 DEF Dated
    <3>2. CASE WriteIndex(s)
      <4>1. scan[s].pc \in {"put", "put_second"}
        BY <3>2 DEF WriteIndex, Puts, PutOrder, At
      <4>2. File(s) \in Files /\ Record(s) \in FileRecords
        BY <4>1, HoldsFacts DEF Collecting, Resting
      <4>3. Record(s).stamp <= disk[File(s)].stamp
        BY <4>2 DEF Dated, Record, File, FileRecords
      <4>4. index' = [index EXCEPT ![File(s)] = [key |-> Key(s), stamp |-> Record(s).stamp]]
        BY <3>2 DEF WriteIndex
      <4> QED BY <2>3, <4>3, <4>4 DEF Dated, CacheTypes
    <3> QED BY <3>1, <3>2
  <2> QED BY <2>1, <2>2, <2>3 DEF Dated
<1>3. ASSUME NEW f \in Edited, Edit(f) PROVE Dated'
  <2>1. PICK c : disk' = [disk EXCEPT ![f] = [content |-> c, stamp |-> edits + 1]]
    BY <1>3 DEF Edit
  <2>2. edits \in Nat /\ edits' = edits + 1 /\ UNCHANGED index
    BY <1>3 DEF Edit, CacheTypes, Stamps
  <2>3. \A t \in Scanners : scan'[t].records = scan[t].records
    BY <1>3 DEF Edit, ScanTypes, ScanRecords
  <2>4. ASSUME NEW g \in Files
        PROVE  /\ disk'[g].stamp \in Nat
               /\ disk[g].stamp <= disk'[g].stamp /\ disk'[g].stamp <= edits'
    BY <1>1, <2>1, <2>2 DEF Dated, CacheTypes
  <2>5. ASSUME NEW g \in Files, index[g] \notin {Absent, Broken}
        PROVE  index[g].stamp <= disk'[g].stamp
    <3>1. index[g].stamp \in Nat
      BY <2>5 DEF CacheTypes, IndexRows, Stamps
    <3> QED BY <1>1, <2>4, <2>5, <3>1 DEF Dated
  <2>6. ASSUME NEW g \in Files, NEW t \in Scanners, scan[t].records[g] # Absent
        PROVE  scan[t].records[g].stamp <= disk'[g].stamp
    <3>1. scan[t].records[g].stamp \in Nat
      BY <2>6 DEF ScanTypes, ScanRecords, FileRecords, Stamps
    <3> QED BY <1>1, <2>4, <2>6, <3>1 DEF Dated
  <2> QED BY <2>2, <2>3, <2>4, <2>5, <2>6 DEF Dated
<1>4. CASE Damage
  <2>1. UNCHANGED <<disk, edits, scan>>
    BY <1>4 DEF Damage
  <2>2. PICK left \in {Absent, Broken} :
          (\E f \in Files : index' = [index EXCEPT ![f] = left]) \/ UNCHANGED index
    BY <1>4 DEF Damage
  <2>3. \A f \in Files : index'[f] = index[f] \/ index'[f] \in {Absent, Broken}
    BY <2>2 DEF CacheTypes
  <2> QED BY <2>1, <2>3 DEF Dated
<1>5. CASE UNCHANGED vars
  BY <1>5 DEF vars, Dated
<1> QED BY <1>2, <1>3, <1>4, <1>5 DEF Next

-----------------------------------------------------------------------------
(* Without torn reads: entries are what their keys say *)

\* The entry a scanner writes, and what it has found before, is of the hash in its key.
LEMMA FaithfulStep ==
  ASSUME CacheTypes, ScanTypes, Faithful, [Next]_vars
  PROVE  Faithful'
<1> USE DEF At, cache, history
<1> DEFINE Told(s) == scan[s].found = EvidenceOf(Record(s).sha, scan[s].settings)
           True(k) == entries[k] \notin {Absent, Broken} =>
                        entries[k] = EvidenceOf(k.sha, k.settings)
<1> SUFFICES ASSUME ~torn'
             PROVE  /\ \A k \in Keys : True(k)'
                    /\ \A s \in Scanners : scan'[s].pc \in {"put", "put_second"} => Told(s)'
  BY DEF Faithful
<1>1. torn => torn'
  BY 
     DEF Next, Begin, ScanStep, HashFile, StatFile, SnapshotFails, ReadIndex, ReadEntry, Extract,
         ExtractFails,
         WriteEntry, WriteIndex, WriteFails, Crash, Edit, Damage, vars
<1>2. /\ \A k \in Keys : True(k)
      /\ \A s \in Scanners : scan[s].pc \in {"put", "put_second"} => Told(s)
  BY <1>1 DEF Faithful
<1> HIDE DEF True, Told
<1>3. ASSUME NEW s \in Scanners, Begin(s) \/ ScanStep(s) \/ Crash(s)
      PROVE  /\ \A k \in Keys : True(k)'
             /\ \A t \in Scanners : scan'[t].pc \in {"put", "put_second"} => Told(t)'
  <2>1. ASSUME NEW t \in Scanners \ {s}, scan'[t].pc \in {"put", "put_second"} PROVE Told(t)'
    <3>1. scan'[t] = scan[t]
      BY <1>3, ScannerMoves
    <3> QED BY <1>2, <2>1, <3>1 DEF Told, Record, File
  <2>2. CASE Extract(s)
    <3>1. torn' = (torn \/ disk[File(s)].content # Record(s).sha) /\ UNCHANGED entries
      BY <2>2 DEF Extract
    <3>2. scan'[s] = [scan[s] EXCEPT !.pc = "put",
                        !.found = EvidenceOf(disk[File(s)].content, scan[s].settings)]
      BY <2>2 DEF Extract, ScanTypes
    <3>3. /\ scan'[s].found = EvidenceOf(disk[File(s)].content, scan[s].settings)
          /\ scan'[s].settings = scan[s].settings /\ scan'[s].file = scan[s].file
          /\ scan'[s].records = scan[s].records
      BY <3>2 DEF ScanTypes, ScanRecords
    <3>4. Record(s)' = Record(s) /\ Record(s).sha = disk[File(s)].content
      BY <3>1, <3>3 DEF Record, File
    <3>5. Told(s)'
      BY <3>3, <3>4 DEF Told
    <3> QED BY <1>2, <2>1, <3>1, <3>5 DEF True
  <2>3. CASE ExtractFails(s)
    BY <2>3 DEF ExtractFails
  <2>4. CASE WriteEntry(s)
    <3>1. /\ scan[s].pc = "put" /\ AfterPut(s)
          /\ entries' = [entries EXCEPT ![Key(s)] = scan[s].found]
      BY <2>4 DEF WriteEntry, Puts, PutOrder
    <3>2. scan'[s] = [scan[s] EXCEPT !.pc = "put_second"] /\ scan[s] \in ScanRecords
      BY <3>1 DEF AfterPut, ScanTypes
    <3>3. Told(s)
      BY <1>2, <3>1
    <3>4. Told(s)'
      BY <3>2, <3>3 DEF Told, Record, File, ScanRecords
    <3>5. scan[s].found = EvidenceOf(Key(s).sha, Key(s).settings)
      BY <3>3 DEF Told, Key
    <3>6. \A k \in Keys : True(k)'
      BY <1>2, <3>1, <3>5 DEF True, CacheTypes
    <3> QED BY <2>1, <3>4, <3>6
  <2>5. CASE ~(Extract(s) \/ ExtractFails(s) \/ WriteEntry(s))
    <3>1. UNCHANGED entries
      BY <1>3, <2>5
         DEF Begin, ScanStep, HashFile, StatFile, SnapshotFails, ReadIndex, ReadEntry, WriteIndex,
                        WriteFails, Crash
    <3>2. scan'[s].pc \notin {"put", "put_second"}
      BY <1>3, <2>5, ScannerMoves DEF Led, Places, Resting
    <3> QED BY <1>2, <2>1, <3>1, <3>2 DEF True
  <2> QED BY <2>2, <2>3, <2>4, <2>5
<1>4. ASSUME NEW f \in Edited, Edit(f)
      PROVE  /\ \A k \in Keys : True(k)'
             /\ \A t \in Scanners : scan'[t].pc \in {"put", "put_second"} => Told(t)'
  <2>1. UNCHANGED entries
    BY <1>4 DEF Edit
  <2>2. \A t \in Scanners : /\ scan'[t].pc = scan[t].pc /\ scan'[t].found = scan[t].found
                            /\ scan'[t].settings = scan[t].settings /\ Record(t)' = Record(t)
    BY <1>4 DEF Edit, ScanTypes, ScanRecords, Record, File
  <2> QED BY <1>2, <2>1, <2>2 DEF True, Told
<1>5. ASSUME Damage
      PROVE  /\ \A k \in Keys : True(k)'
             /\ \A t \in Scanners : scan'[t].pc \in {"put", "put_second"} => Told(t)'
  <2>1. UNCHANGED scan
    BY <1>5 DEF Damage
  <2>2. PICK left \in {Absent, Broken} :
          (\E k \in Keys : entries' = [entries EXCEPT ![k] = left]) \/ UNCHANGED entries
    BY <1>5 DEF Damage
  <2>3. \A k \in Keys : entries'[k] = entries[k] \/ entries'[k] \in {Absent, Broken}
    BY <2>2 DEF CacheTypes
  <2> QED BY <1>2, <2>1, <2>3 DEF True, Told, Record, File
<1>6. CASE UNCHANGED vars
  BY <1>2, <1>6 DEF vars, True, Told, Record, File
<1> QED BY <1>3, <1>4, <1>5, <1>6 DEF Next

-----------------------------------------------------------------------------
(* Without overlaps: the stamp in the index masks the entry *)

\* One scanner alone: what is left to show is what it works with and what the
\* index says.
LEMMA AloneStep ==
  ASSUME CacheTypes, ScanTypes, Apart, NEW s \in Scanners,
         Begin(s) \/ ScanStep(s) \/ Crash(s),
         ~crossed => RowsRight',
         ~crossed /\ scan'[s].pc \notin Resting => Working(s)'
  PROVE  Apart'
<1> SUFFICES ASSUME ~crossed' PROVE Apart'
  BY DEF Apart
<1>1. ~crossed /\ \A t \in Scanners \ {s} : scan[t].pc \in Resting
  <2>1. CASE Begin(s)
    BY <2>1 DEF Begin
  <2>2. CASE ScanStep(s) \/ Crash(s)
    <3>1. UNCHANGED crossed
      BY <2>2 DEF ScanStep, HashFile, StatFile, SnapshotFails, ReadIndex, ReadEntry, Extract, ExtractFails,
                  WriteEntry, WriteIndex, WriteFails, Crash, history
    <3>2. scan[s].pc \notin Resting
      BY <2>2, UnderWay
    <3> QED BY <3>1, <3>2 DEF Apart
  <2> QED BY <2>1, <2>2
<1>2. \A t \in Scanners \ {s} : scan'[t].pc \in Resting
  BY <1>1, ScannerMoves
<1> QED BY <1>1, <1>2 DEF Apart

\* As long as the cache is left alone, ...
LEMMA RowsStay ==
  ASSUME RowsRight, UNCHANGED <<disk, index, entries>>, unread \subseteq unread'
  PROVE  RowsRight'
BY DEF RowsRight, Right

\* ... the stamps in the index are those of earlier scans.
LEMMA OlderStep ==
  ASSUME CacheTypes, ScanTypes, Dated, NEW s \in Scanners,
         Begin(s) \/ ScanStep(s) \/ Crash(s), UNCHANGED <<disk, index>>,
         scan[s].pc \notin Resting => Working(s),
         NEW f \in Files, scan'[s].records[f] # Absent, index[f] \notin {Absent, Broken}
  PROVE  index[f].stamp <= scan'[s].records[f].stamp
<1>1. CASE scan'[s].records = Idle.records
  BY <1>1 DEF Idle
<1>2. CASE scan'[s].records = scan[s].records /\ scan[s].pc \notin Resting
  BY <1>2 DEF Working
<1>3. CASE scan'[s].records = Stated(s) /\ StatFile(s)
  <2>1. scan[s].pc \notin Resting /\ scan[s].records \in [Files -> FileRecords \cup {Absent}]
    BY <1>3, UnderWay DEF ScanStep, ScanTypes, ScanRecords
  <2>2. CASE f = File(s)
    BY <1>3, <2>1, <2>2 DEF Stated, Dated
  <2>3. CASE f # File(s)
    BY <1>3, <2>1, <2>3 DEF Stated, Working
  <2> QED BY <2>2, <2>3
<1> QED BY <1>1, <1>2, <1>3, ScannerMoves DEF Led

\* The steps of a scanner that leave the files and the cache alone.
LEMMA QuietStep ==
  ASSUME CacheTypes, ScanTypes, Dated, Apart, NEW s \in Scanners,
         Begin(s) \/ ScanStep(s) \/ Crash(s), ~WriteEntry(s), ~WriteIndex(s)
  PROVE  Apart'
<1> USE DEF At, cache, history
<1>1. UNCHANGED <<disk, index, entries>> /\ unread \subseteq unread'
  BY DEF Begin, ScanStep, HashFile, StatFile, SnapshotFails, ReadIndex, ReadEntry, Extract, ExtractFails,
         WriteFails, Crash
<1>2. ~crossed => RowsRight'
  BY <1>1, RowsStay DEF Apart
<1>3. ASSUME ~crossed, scan'[s].pc \notin Resting PROVE Working(s)'
  <2>1. scan[s].pc \notin Resting => Working(s)
    BY <1>3 DEF Apart
  <2>2. ASSUME NEW f \in Files, scan'[s].records[f] # Absent, index[f] \notin {Absent, Broken}
        PROVE  index[f].stamp <= scan'[s].records[f].stamp
    BY <1>1, <2>1, <2>2, OlderStep
  <2>3. CASE scan'[s].pc \in Places
    BY <1>1, <2>2, <2>3 DEF Working, Places, Resting
  <2>4. CASE scan'[s].pc = "entry" /\ ReadIndex(s)
    <3>1. scan'[s] = [scan[s] EXCEPT !.pc = "entry"] /\ IndexHits(s) /\ scan[s] \in ScanRecords
      BY <2>4 DEF ReadIndex, Go, ScanTypes, ScanRecords
    <3>2. /\ File(s)' = File(s) /\ Record(s)' = Record(s) /\ Key(s)' = Key(s)
          /\ scan'[s].settings = scan[s].settings
      BY <3>1 DEF File, Record, Key, ScanRecords
    <3>3. File(s) \in Files /\ Key(s).settings = scan[s].settings
      BY <2>4, HoldsFacts DEF ReadIndex, Resting, Key
    <3>4. ASSUME Current(s)' PROVE Right(entries[Key(s)], File(s), scan[s].settings)
      <4>1. index[File(s)].stamp = disk[File(s)].stamp /\ File(s) \notin unread
        BY <1>1, <3>1, <3>2, <3>4 DEF IndexHits, Current
      <4>2. index[File(s)].key = Key(s)
        BY <3>1 DEF IndexHits
      <4>3. Right(entries[index[File(s)].key], File(s), index[File(s)].key.settings)
        BY <1>3, <3>1, <3>3, <4>1 DEF Apart, RowsRight, IndexHits
      <4> QED BY <3>3, <4>2, <4>3
    <3> QED BY <1>1, <2>2, <2>4, <3>2, <3>4 DEF Working, Right
  <2>5. CASE scan'[s].pc = "put" /\ (Extract(s) \/ ExtractFails(s))
    <3>1. scan[s] \in ScanRecords /\ File(s) \in Files
      BY <2>5, HoldsFacts DEF Extract, ExtractFails, Resting
    <3>2. CASE Extract(s)
      <4>1. scan'[s] = [scan[s] EXCEPT !.pc = "put",
                          !.found = EvidenceOf(disk[File(s)].content, scan[s].settings)]
        BY <3>2 DEF Extract, ScanTypes
      <4>2. /\ scan'[s].found = EvidenceOf(disk[File(s)].content, scan[s].settings)
            /\ scan'[s].settings = scan[s].settings /\ File(s)' = File(s)
        BY <3>1, <4>1 DEF File, ScanRecords
      <4> QED BY <1>1, <2>2, <2>5, <4>2 DEF Working
    <3>3. CASE ExtractFails(s)
      <4>1. unread' = unread \cup {File(s)}
        BY <3>3 DEF ExtractFails
      <4>2. PICK e : scan' = [scan EXCEPT ![s] = [scan[s] EXCEPT !.pc = "put", !.found = e]]
        BY Zenon, <3>3 DEF ExtractFails
      <4>3. File(s)' = File(s)
        BY <3>1, <4>2 DEF File, ScanTypes, ScanRecords
      <4> QED BY <1>1, <2>2, <2>5, <4>1, <4>3 DEF Working, Current
    <3> QED BY <2>5, <3>2, <3>3
  <2> QED BY <1>3, <2>3, <2>4, <2>5, ScannerMoves DEF Led
<1> QED BY <1>2, <1>3, AloneStep

\* put writes what it has found under the key of the file: no row has the file's
\* stamp unless it has the record's.
LEMMA WriteEntryApart ==
  ASSUME CacheTypes, ScanTypes, Dated, Apart, NEW s \in Scanners, WriteEntry(s)
  PROVE  Apart'
<1> USE DEF At, cache, history
<1>1. /\ scan[s].pc = "put" /\ AfterPut(s)
      /\ entries' = [entries EXCEPT ![Key(s)] = scan[s].found]
      /\ UNCHANGED <<disk, index, unread, crossed>>
  BY DEF WriteEntry, Puts, PutOrder
<1>2. /\ scan[s] \in ScanRecords /\ File(s) \in Files /\ Key(s) \in Keys /\ Key(s).file = File(s)
      /\ Record(s) \in FileRecords /\ scan[s].found \in Evidence
  BY <1>1, HoldsFacts DEF Resting, Collecting
<1>3. ASSUME ~crossed PROVE Working(s)
  BY <1>1, <1>3 DEF Apart, Resting
<1>4. scan'[s] = [scan[s] EXCEPT !.pc = "put_second"]
  BY <1>1 DEF AfterPut, ScanTypes
<1>5. /\ scan'[s].pc = "put_second" /\ scan'[s].found = scan[s].found
      /\ scan'[s].settings = scan[s].settings /\ scan'[s].records = scan[s].records
      /\ File(s)' = File(s) /\ Record(s)' = Record(s) /\ Key(s)' = Key(s)
  BY <1>2, <1>4 DEF File, Record, Key, ScanRecords
<1>6. entries'[Key(s)] = scan[s].found
  BY <1>1, <1>2 DEF CacheTypes
<1>7. ASSUME ~crossed PROVE Working(s)'
  BY <1>1, <1>3, <1>5, <1>6, <1>7 DEF Working, Current
<1>8. ASSUME ~crossed, NEW f \in Files \ unread, index[f] \notin {Absent, Broken},
             index[f].stamp = disk[f].stamp
      PROVE  Right(entries'[index[f].key], f, index[f].key.settings)
  <2>1. index[f].key \in Keys /\ index[f].key.file = f /\ index[f].stamp \in Nat
    BY <1>8 DEF CacheTypes, IndexRows, Stamps
  <2>2. CASE index[f].key # Key(s)
    BY <1>1, <1>2, <1>8, <2>1, <2>2 DEF Apart, RowsRight, CacheTypes
  <2>3. CASE index[f].key = Key(s)
    <3>1. f = File(s) /\ index[f].key.settings = scan[s].settings
      BY <1>2, <2>1, <2>3 DEF Key
    <3>2. index[f].stamp <= Record(s).stamp /\ Record(s).stamp <= disk[f].stamp
      BY <1>2, <1>3, <1>8, <3>1 DEF Working, Dated, Record, File, FileRecords
    <3>3. Record(s).stamp = disk[f].stamp
      <4>1. Record(s).stamp \in Nat
        BY <1>2 DEF FileRecords, Stamps
      <4> QED BY <1>8, <2>1, <3>2, <4>1
    <3>4. scan[s].found = EvidenceOf(disk[f].content, scan[s].settings)
      BY <1>1, <1>3, <1>8, <3>1, <3>3 DEF Working, Current
    <3> QED BY <1>6, <2>3, <3>1, <3>4 DEF Right
  <2> QED BY <2>2, <2>3
<1>9. ~crossed => RowsRight'
  BY <1>1, <1>8 DEF RowsRight, Right
<1> QED BY <1>7, <1>9, AloneStep DEF ScanStep

\* The index row that is written names the entry that was.
LEMMA WriteIndexApart ==
  ASSUME CacheTypes, ScanTypes, Dated, Apart, NEW s \in Scanners, WriteIndex(s)
  PROVE  Apart'
<1> USE DEF At, cache, history
<1>1. /\ scan[s].pc = "put_second" /\ AfterPut(s)
      /\ index' = [index EXCEPT ![File(s)] = [key |-> Key(s), stamp |-> Record(s).stamp]]
      /\ UNCHANGED <<disk, entries, unread, crossed>>
  BY DEF WriteIndex, Puts, PutOrder
<1>2. /\ scan[s] \in ScanRecords /\ File(s) \in Files /\ Key(s) \in Keys
      /\ Record(s) \in FileRecords /\ scan[s].found \in Evidence
  BY <1>1, HoldsFacts DEF Resting, Collecting
<1>3. ASSUME ~crossed PROVE Working(s)
  BY <1>1, <1>3 DEF Apart, Resting
<1>4. Led(s, scan'[s].pc, scan'[s].records)
  BY ScannerMoves DEF ScanStep
<1>5. scan'[s].pc \in Places
  BY <1>1, <1>4 DEF Led, ReadIndex, Extract, ExtractFails, WriteEntry, Puts, PutOrder
<1>6. scan'[s].records \in {Idle.records, scan[s].records}
  BY <1>1, <1>4 DEF Led, StatFile
<1>7. \A f \in Files : index'[f] = IF f = File(s) THEN [key |-> Key(s), stamp |-> Record(s).stamp]
                                   ELSE index[f]
  BY <1>1 DEF CacheTypes
<1>8. ASSUME ~crossed, scan'[s].pc \notin Resting PROVE Working(s)'
  <2>1. ASSUME NEW f \in Files, scan'[s].records[f] # Absent, index'[f] \notin {Absent, Broken}
        PROVE  index'[f].stamp <= scan'[s].records[f].stamp
    <3>1. scan'[s].records = scan[s].records
      BY <1>6, <2>1 DEF Idle
    <3>2. CASE f = File(s)
      <4>1. index'[f].stamp = Record(s).stamp /\ Record(s).stamp \in Nat
        BY <1>2, <1>7, <3>2 DEF FileRecords, Stamps
      <4> QED BY <3>1, <3>2, <4>1 DEF Record, File
    <3>3. CASE f # File(s)
      BY <1>3, <1>7, <1>8, <2>1, <3>1, <3>3 DEF Working
    <3> QED BY <3>2, <3>3
  <2> QED BY <1>5, <1>8, <2>1 DEF Working, Places, Resting
<1>9. ASSUME ~crossed, NEW f \in Files \ unread, index'[f] \notin {Absent, Broken},
             index'[f].stamp = disk[f].stamp
      PROVE  Right(entries[index'[f].key], f, index'[f].key.settings)
  <2>1. CASE f # File(s)
    BY <1>7, <1>9, <2>1 DEF Apart, RowsRight
  <2>2. CASE f = File(s)
    <3>1. index'[f].key = Key(s) /\ Record(s).stamp = disk[f].stamp
      BY <1>7, <1>9, <2>2
    <3>2. /\ scan[s].found = EvidenceOf(disk[f].content, scan[s].settings)
          /\ entries[Key(s)] \in {Absent, Broken, scan[s].found}
      BY <1>1, <1>3, <1>9, <2>2, <3>1 DEF Working, Current
    <3> QED BY <3>1, <3>2 DEF Right, Key
  <2> QED BY <2>1, <2>2
<1>10. ~crossed => RowsRight'
  BY <1>1, <1>9 DEF RowsRight, Right
<1> QED BY <1>8, <1>10, AloneStep DEF ScanStep

\* A file that is edited has a stamp that nothing has.
LEMMA EditApart ==
  ASSUME CacheTypes, ScanTypes, Dated, Apart, NEW g \in Edited, Edit(g)
  PROVE  Apart'
<1> USE DEF At, cache, history
<1>1. PICK c : disk' = [disk EXCEPT ![g] = [content |-> c, stamp |-> edits + 1]]
  BY DEF Edit
<1>2. /\ UNCHANGED <<index, entries, crossed>> /\ unread' = unread \ {g}
      /\ g \in Files /\ edits \in Nat
  BY DEF Edit, CacheTypes, Stamps
<1>3. disk'[g].stamp = edits + 1 /\ \A f \in Files \ {g} : disk'[f] = disk[f]
  BY <1>1, <1>2 DEF CacheTypes
<1>4. \A s \in Scanners :
        /\ scan'[s].pc = scan[s].pc /\ scan'[s].found = scan[s].found
        /\ scan'[s].settings = scan[s].settings /\ scan'[s].records = scan[s].records
        /\ File(s)' = File(s) /\ Record(s)' = Record(s) /\ Key(s)' = Key(s)
  BY DEF Edit, ScanTypes, ScanRecords, File, Record, Key
<1>5. disk[g].stamp \in Nat /\ disk[g].stamp <= edits
  BY <1>2 DEF CacheTypes, Stamps, Dated
<1>6. ASSUME ~crossed PROVE RowsRight'
  <2>1. index[g] \notin {Absent, Broken} => index[g].stamp # disk'[g].stamp
    <3>1. ASSUME index[g] \notin {Absent, Broken} PROVE index[g].stamp # edits + 1
      <4>1. index[g].stamp \in Nat /\ index[g].stamp <= disk[g].stamp
        BY <1>2, <3>1 DEF CacheTypes, IndexRows, Stamps, Dated
      <4> QED BY <1>2, <1>5, <4>1
    <3> QED BY <1>3, <3>1
  <2> QED BY <1>2, <1>3, <1>6, <2>1 DEF Apart, RowsRight, Right
<1>7. ASSUME ~crossed, NEW s \in Scanners, scan[s].pc \notin Resting PROVE Working(s)'
  <2>1. Working(s) /\ File(s) \in Files
    BY <1>7, HoldsFacts DEF Apart
  <2>2. scan[s].pc \in Collecting /\ Current(s)' => Current(s) /\ disk'[File(s)] = disk[File(s)]
    <3>1. ASSUME scan[s].pc \in Collecting, File(s) = g PROVE ~Current(s)'
      <4>1. Record(s) \in FileRecords /\ scan[s] \in ScanRecords
        BY <1>7, <3>1, HoldsFacts
      <4>2. Record(s).stamp \in Nat /\ Record(s).stamp <= disk[g].stamp
        BY <2>1, <3>1, <4>1 DEF FileRecords, Stamps, Dated, Record, File
      <4>3. Record(s).stamp # edits + 1
        BY <1>2, <1>5, <4>2
      <4> QED BY <1>3, <1>4, <3>1, <4>3 DEF Current
    <3> QED BY <1>2, <1>3, <1>4, <2>1, <3>1 DEF Current
  <2> QED BY <1>2, <1>4, <2>1, <2>2 DEF Working, Right, Collecting
<1> QED BY <1>2, <1>4, <1>6, <1>7 DEF Apart

\* Damage only takes away.
LEMMA DamageApart ==
  ASSUME CacheTypes, ScanTypes, Apart, Damage
  PROVE  Apart'
<1> USE DEF At
<1>1. UNCHANGED <<disk, scan, unread, crossed>>
  BY DEF Damage
<1>2. PICK left \in {Absent, Broken} :
        \/ (\E f \in Files : index' = [index EXCEPT ![f] = left]) /\ UNCHANGED entries
        \/ (\E k \in Keys : entries' = [entries EXCEPT ![k] = left]) /\ UNCHANGED index
  BY DEF Damage
<1>3. /\ \A f \in Files : index'[f] = index[f] \/ index'[f] \in {Absent, Broken}
      /\ \A k \in Keys : entries'[k] = entries[k] \/ entries'[k] \in {Absent, Broken}
  BY <1>2 DEF CacheTypes
<1>4. ASSUME ~crossed, NEW f \in Files \ unread, index'[f] \notin {Absent, Broken},
             index'[f].stamp = disk[f].stamp
      PROVE  Right(entries'[index'[f].key], f, index'[f].key.settings)
  <2>1. index'[f] = index[f] /\ index[f].key \in Keys
    BY <1>3, <1>4 DEF CacheTypes, IndexRows
  <2>2. Right(entries[index[f].key], f, index[f].key.settings)
    BY <1>4, <2>1 DEF Apart, RowsRight
  <2> QED BY <1>3, <2>1, <2>2 DEF Right
<1>5. ~crossed => RowsRight'
  BY <1>1, <1>4 DEF RowsRight, Right
<1>6. ASSUME ~crossed, NEW s \in Scanners, scan[s].pc \notin Resting PROVE Working(s)'
  <2>1. Working(s)
    BY <1>6 DEF Apart
  <2>2. /\ File(s)' = File(s) /\ Record(s)' = Record(s) /\ Key(s)' = Key(s)
        /\ Current(s)' <=> Current(s)
    BY <1>1 DEF File, Record, Key, Current
  <2>3. scan[s].pc \in Collecting => Key(s) \in Keys
    BY <1>6, HoldsFacts
  <2> QED BY <1>1, <1>3, <2>1, <2>2, <2>3 DEF Working, Right, Collecting
<1> QED BY <1>1, <1>5, <1>6 DEF Apart

\* Scans apart stay apart from the rows of one another.
LEMMA ApartStep ==
  ASSUME CacheTypes, ScanTypes, Dated, Apart, [Next]_vars
  PROVE  Apart'
<1>1. ASSUME NEW s \in Scanners, Begin(s) \/ ScanStep(s) \/ Crash(s) PROVE Apart'
  <2>1. CASE WriteEntry(s)
    BY <2>1, WriteEntryApart
  <2>2. CASE WriteIndex(s)
    BY <2>2, WriteIndexApart
  <2>3. CASE ~WriteEntry(s) /\ ~WriteIndex(s)
    BY <1>1, <2>3, QuietStep
  <2> QED BY <2>1, <2>2, <2>3
<1>2. CASE UNCHANGED vars
  BY <1>2 DEF vars, Apart, RowsRight, Right, Working, Current, At, Key, Record, File
<1> QED BY <1>1, <1>2, EditApart, DamageApart DEF Next

-----------------------------------------------------------------------------
(* What every scan knows *)

\* Evidence out of the cache is that of the file, ...
LEMMA ReadEntryKnows ==
  ASSUME CacheTypes, ScanTypes, Faithful, Apart, AllKnown, NEW s \in Scanners, ReadEntry(s)
  PROVE  AllKnown'
<1> USE DEF At, cache, history
<1>1. /\ scan[s].pc = "entry" /\ scan[s].pc \in Collecting
      /\ UNCHANGED <<disk, unread, crossed, torn>>
  BY DEF ReadEntry, Collecting
<1>2. /\ scan[s] \in ScanRecords /\ Key(s) \in Keys /\ Record(s) \in FileRecords
      /\ scan[s].found \in Evidence \cup {Absent} /\ File(s) \in Files
  BY <1>1, HoldsFacts DEF Resting, ScanRecords
<1>3. CASE entries[Key(s)] \in {Absent, Broken}
  <2>1. scan' = [scan EXCEPT ![s] = [scan[s] EXCEPT !.pc = "extract"]]
    BY <1>3 DEF ReadEntry
  <2>2. Moved(scan[s], [scan[s] EXCEPT !.pc = "extract"])
    BY <1>1, <1>2 DEF Moved, ScanRecords, Collecting
  <2> QED BY <1>1, <2>1, <2>2, MoveKnows
<1>4. CASE entries[Key(s)] \notin {Absent, Broken}
  <2>1. entries[Key(s)] \in Evidence
    BY <1>2, <1>4 DEF CacheTypes
  <2>2. scan' = [scan EXCEPT ![s] = Give(entries[Key(s)], scan[s])]
    BY <1>4 DEF ReadEntry
  <2>3. ASSUME ~(crossed /\ torn), File(s) \notin unread, Knows(scan[s], File(s))
        PROVE  entries[Key(s)] = EvidenceOf(disk[File(s)].content, scan[s].settings)
    <3>1. Record(s) # Absent
      BY <1>2
    <3>2. Record(s) = [sha |-> disk[File(s)].content, stamp |-> disk[File(s)].stamp]
      BY <1>1, <2>3, <3>1, RecordIs
    <3>3. CASE ~torn
      BY <1>2, <1>4, <3>2, <3>3 DEF Faithful, Key
    <3>4. CASE ~crossed
      <4>1. Working(s) /\ Current(s)
        BY <1>1, <2>3, <3>2, <3>4 DEF Apart, Current, Resting
      <4> QED BY <1>1, <1>4, <4>1 DEF Working, Right
    <3> QED BY <2>3, <3>3, <3>4 DEF CacheTypes
  <2> QED BY <1>1, <2>1, <2>2, <2>3, GiveStep
<1> QED BY <1>3, <1>4

\* ... and so is what was extracted.
LEMMA PutKnows ==
  ASSUME CacheTypes, ScanTypes, Faithful, Apart, AllKnown, NEW s \in Scanners,
         WriteEntry(s) \/ WriteIndex(s) \/ WriteFails(s)
  PROVE  AllKnown'
<1> USE DEF At, cache, history
<1>1. /\ scan[s].pc \in {"put", "put_second"} /\ UNCHANGED <<disk, unread, crossed, torn>>
  BY DEF WriteEntry, WriteIndex, WriteFails, Puts, PutOrder
<1>2. /\ scan[s] \in ScanRecords /\ scan[s].pc \in Collecting /\ File(s) \in Files
      /\ Record(s) \in FileRecords /\ scan[s].found \in Evidence
  BY <1>1, HoldsFacts DEF Resting, Collecting
<1>3. CASE scan' = [scan EXCEPT ![s] = Give(scan[s].found, scan[s])]
  <2>1. ASSUME ~(crossed /\ torn), File(s) \notin unread, Knows(scan[s], File(s))
        PROVE  scan[s].found = EvidenceOf(disk[File(s)].content, scan[s].settings)
    <3>1. Record(s) # Absent
      BY <1>2
    <3>2. Record(s) = [sha |-> disk[File(s)].content, stamp |-> disk[File(s)].stamp]
      BY <1>2, <2>1, <3>1, RecordIs
    <3>3. CASE ~torn
      BY <1>1, <3>2, <3>3 DEF Faithful
    <3>4. CASE ~crossed
      <4>1. Working(s) /\ Current(s)
        BY <1>1, <2>1, <3>2, <3>4 DEF Apart, Current, Resting
      <4> QED BY <1>1, <4>1 DEF Working
    <3> QED BY <2>1, <3>3, <3>4 DEF CacheTypes
  <2> QED BY <1>1, <1>2, <1>3, <2>1, GiveStep
<1>4. CASE WriteEntry(s)
  <2>1. scan[s].pc = "put" /\ AfterPut(s)
    BY <1>4 DEF WriteEntry, Puts, PutOrder
  <2>2. scan' = [scan EXCEPT ![s] = [scan[s] EXCEPT !.pc = "put_second"]]
    BY <2>1 DEF AfterPut
  <2>3. Moved(scan[s], [scan[s] EXCEPT !.pc = "put_second"])
    BY <1>2 DEF Moved, ScanRecords, Collecting
  <2> QED BY <1>1, <2>2, <2>3, MoveKnows
<1> QED BY <1>3, <1>4 DEF WriteIndex, WriteFails, Puts, PutOrder, AfterPut

\* Every step keeps what the scans know.
LEMMA KnownStep ==
  ASSUME CacheTypes, ScanTypes, Faithful, Apart, AllKnown, [Next]_vars
  PROVE  AllKnown'
<1> USE DEF At, cache, history
<1>1. ASSUME NEW s \in Scanners, ReadIndex(s) PROVE AllKnown'
  <2>1. scan[s] \in ScanRecords /\ scan[s].pc \in Collecting
    BY <1>1, HoldsFacts DEF ReadIndex, Resting, Collecting
  <2>2. PICK pc \in {"entry", "extract"} : scan' = [scan EXCEPT ![s] = [scan[s] EXCEPT !.pc = pc]]
    BY <1>1 DEF ReadIndex, Go
  <2>3. Moved(scan[s], [scan[s] EXCEPT !.pc = pc])
    BY <2>1 DEF Moved, ScanRecords, Collecting
  <2>4. UNCHANGED <<disk, unread, crossed, torn>>
    BY <1>1 DEF ReadIndex
  <2> QED BY <2>2, <2>3, <2>4, MoveKnows
<1>2. ASSUME NEW s \in Scanners, Extract(s) \/ ExtractFails(s) PROVE AllKnown'
  <2>1. scan[s] \in ScanRecords /\ scan[s].pc \in Collecting
    BY <1>2, HoldsFacts DEF Extract, ExtractFails, Resting, Collecting
  <2>2. PICK e : scan' = [scan EXCEPT ![s] = [scan[s] EXCEPT !.pc = "put", !.found = e]]
    BY Zenon, <1>2 DEF Extract, ExtractFails
  <2>3. Moved(scan[s], [scan[s] EXCEPT !.pc = "put", !.found = e])
    BY <2>1 DEF Moved, ScanRecords, Collecting
  <2>4. UNCHANGED <<disk, crossed>> /\ unread \subseteq unread' /\ (torn => torn')
    BY <1>2 DEF Extract, ExtractFails
  <2> QED BY <2>2, <2>3, <2>4, MoveKnows
<1>3. ASSUME NEW s \in Scanners, Crash(s) PROVE AllKnown'
  <2>1. \A f \in Files : Knows(Idle, f)
    BY DEF Idle, Knows, Collecting
  <2> QED BY <1>3, <2>1, OneKnown DEF Crash, CacheTypes
<1>4. ASSUME NEW g \in Edited, Edit(g) PROVE AllKnown'
  <2>1. UNCHANGED <<crossed, torn>> /\ unread' = unread \ {g} /\ g \in Files
    BY <1>4 DEF Edit
  <2>2. \A f \in Files \ {g} : disk'[f] = disk[f]
    BY <1>4 DEF Edit, CacheTypes
  <2>3. ASSUME ~(crossed /\ torn), NEW s \in Scanners, NEW f \in Files \ scan'[s].touched
        PROVE  Knows(scan[s], f)'
    <3>1. CASE scan[s].pc = "idle"
      BY <1>4, <3>1 DEF Edit, Knows, Collecting
    <3>2. CASE scan[s].pc # "idle"
      <4>1. scan'[s] = [scan[s] EXCEPT !.touched = @ \cup {g}] /\ scan[s] \in ScanRecords
        BY <1>4, <3>2 DEF Edit, ScanTypes
      <4>2. /\ scan'[s].pc = scan[s].pc /\ scan'[s].file = scan[s].file
            /\ scan'[s].records = scan[s].records /\ scan'[s].output = scan[s].output
            /\ scan'[s].settings = scan[s].settings /\ scan'[s].sha = scan[s].sha
            /\ scan'[s].touched = scan[s].touched \cup {g}
        BY <4>1 DEF ScanRecords
      <4>3. Knows(scan[s], f) /\ f # g
        BY <2>3, <4>2 DEF AllKnown
      <4> QED BY <2>1, <2>2, <4>2, <4>3 DEF Knows, Recorded, Says
    <3> QED BY <3>1, <3>2
  <2> QED BY <2>1, <2>3 DEF AllKnown
<1>5. CASE Damage \/ UNCHANGED vars
  BY <1>5 DEF Damage, vars, AllKnown, Knows, Recorded, Says
<1> QED
  BY <1>1, <1>2, <1>3, <1>4, <1>5, SnapshotKnows, ReadEntryKnows, PutKnows
     DEF Next, ScanStep

\* Of an untouched file that could be read a finished scan says what a scan without
\* a cache would say: unless scans have overlapped and one of them has read a file
\* that was no longer what it had hashed.
THEOREM CachedIsCleanHolds == Spec => []CachedIsClean
<1> DEFINE CleanInv == Dated /\ Faithful /\ Apart /\ AllKnown
<1>1. Init => CleanInv
  <2> SUFFICES ASSUME Init PROVE CleanInv
    OBVIOUS
  <2>1. /\ edits = 0 /\ index = [f \in Files |-> Absent] /\ entries = [k \in Keys |-> Absent]
        /\ \A f \in Files : disk[f].stamp = 0
        /\ \A s \in Scanners : scan[s] = Idle
    BY DEF Init
  <2>2. Dated /\ Faithful
    BY <2>1 DEF Dated, Faithful, Idle
  <2>3. Apart
    <3>1. RowsRight
      BY <2>1 DEF RowsRight
    <3>2. \A s \in Scanners : scan[s].pc \in Resting
      BY <2>1 DEF Idle, Resting
    <3> QED BY <3>1, <3>2 DEF Apart
  <2>4. AllKnown
    BY <2>1 DEF AllKnown, Knows, Idle, Collecting
  <2> QED BY <2>2, <2>3, <2>4
<1>2. CacheTypes /\ ScanTypes /\ CleanInv /\ [Next]_vars => CleanInv'
  BY DatedStep, FaithfulStep, ApartStep, KnownStep
<1>3. CleanInv => CachedIsClean
  BY DEF AllKnown, CachedIsClean, SaysClean, Knows, Says, At
<1> QED BY <1>1, <1>2, <1>3, Types, PTL DEF Spec
=============================================================================
