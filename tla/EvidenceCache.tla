--------------------------- MODULE EvidenceCache ---------------------------
(***************************************************************************)
(* A scan of a source tree and the cache it keeps per file                 *)
(* (scripts/repository_evidence.py, scripts/repository_inventory.py).      *)
(*                                                                         *)
(* A scan looks at every file twice: the snapshot reads it for its hash    *)
(* and then takes its stat; much later the collection asks the cache and,  *)
(* on a miss, reads the file again.  In between the file may be edited or  *)
(* deleted, other scans work on the same cache, and any step may be the    *)
(* last of its process.                                                    *)
(***************************************************************************)
EXTENDS Integers, Sequences

CONSTANTS
  NFiles,           \* files are numbered in the order of their paths
  Contents,         \* what a file may hold; stands for its sha256
  Kind,             \* Contents -> "text", "binary" or "large"
  Marks,            \* what a file's path says about it, a set for each file
  ScannerInput,     \* the files whose name or suffix the scanner knows
  Settings,         \* rule fingerprint and runtime_signals_enabled
  Scanners,
  Absent, Broken,
  Edited,           \* bound: the files that change
  MaxEdits,         \* bound: changes of them
  MaxScans,         \* bound: scans begun
  MaxFaults         \* bound: crashes, damaged cache files and failed reads

Files == 1..NFiles

\* The marks a path can have, in the order the code asks for them.
MarkOrder == <<"symlink", "ignored", "dependency_cache", "vendored", "generated", "sensitive">>

ASSUME CacheAssumption ==
  /\ NFiles \in Nat \ {0}
  /\ Kind \in [Contents -> {"text", "binary", "large"}]
  /\ Marks \in [Files -> SUBSET {MarkOrder[i] : i \in DOMAIN MarkOrder}]
  /\ ScannerInput \subseteq Files
  /\ Absent \notin Contents /\ Absent # Broken
  /\ Edited \subseteq Files /\ MaxEdits \in Nat
  /\ MaxScans \in Nat /\ MaxFaults \in Nat

VARIABLES
  disk,       \* per file: its content (or Absent) and its stat, new for each edit
  edits,      \* how often a file was changed
  index,      \* the cache's index files, one per path
  entries,    \* the cache's entry files, one per key
  scan,       \* where each scanner is, and what it holds
  unread,     \* history: files an unedited read of which has failed
  crossed,    \* history: two scans have been under way at once
  torn,       \* history: an extraction has read other than what was hashed
  damaged,    \* history: a file of the cache was damaged
  scans,      \* how many scans were begun
  faults      \* how many faults there have been

vars == <<disk, edits, index, entries, scan, unread, crossed, torn, damaged, scans, faults>>
cache == <<index, entries>>
history == <<unread, crossed, torn, damaged>>

Stamps == 0..MaxEdits
Keys == [file : Files, sha : Contents, settings : Settings]
FileRecords == [sha : Contents, stamp : Stamps]

\* What the extractors make of a content: its records and their diagnostics.
\* A file that cannot be read gives the empty list.
Evidence == [of : Contents \cup {Absent}, settings : Settings]
EvidenceOf(c, o) == [of |-> c, settings |-> o]

IndexRows == [key : Keys, stamp : Stamps]

ASSUME SentinelAssumption ==
  {Absent, Broken} \cap (Evidence \cup FileRecords \cup IndexRows) = {}

-----------------------------------------------------------------------------
(* Classification *)

FirstMark(f) ==
  LET first == CHOOSE i \in DOMAIN MarkOrder :
        /\ MarkOrder[i] \in Marks[f]
        /\ \A j \in 1..(i-1) : MarkOrder[j] \notin Marks[f]
  IN  MarkOrder[first]

\* classify_file, with what scan_directory decides before it.
Disposition(f, c) ==
  IF Marks[f] # {} THEN FirstMark(f)
  ELSE IF c = Absent THEN "read_error"
  ELSE IF Kind[c] = "large" THEN "too_large"
  ELSE IF Kind[c] = "binary" THEN "binary"
  ELSE IF f \in ScannerInput THEN "included" ELSE "unclassified"

-----------------------------------------------------------------------------
(* Scanners *)

Resting == {"idle", "done"}
Idle == [pc |-> "idle", file |-> 0, settings |-> Absent, sha |-> Absent,
         records |-> [f \in Files |-> Absent], touched |-> {},
         found |-> Absent, output |-> [f \in Files |-> Absent]]

At(s, pc) == scan[s].pc = pc
File(s) == scan[s].file
Record(s) == scan[s].records[File(s)]
Key(s) == [file |-> File(s), sha |-> Record(s).sha, settings |-> scan[s].settings]
Go(s, pc) == scan' = [scan EXCEPT ![s].pc = pc]

Least(set) == CHOOSE n \in set : \A m \in set : n <= m

\* The two loops over the files: the snapshot, then collect_universal_evidence,
\* which has only the records of the snapshot.
\* Mutant: a file without a complete record is collected too.
NextToCollectAll(rec) ==
  IF rec.file < NFiles THEN [rec EXCEPT !.pc = "index", !.file = @ + 1]
  ELSE [rec EXCEPT !.pc = "done", !.file = 0, !.records = Idle.records]
NextToCollect(rec) ==
  LET left == {f \in Files : f > rec.file /\ rec.records[f] # Absent} IN
  IF left # {} THEN [rec EXCEPT !.pc = "index", !.file = Least(left)]
  ELSE [rec EXCEPT !.pc = "done", !.file = 0, !.records = Idle.records]
NextToHash(rec) ==
  IF rec.file < NFiles THEN [rec EXCEPT !.pc = "hash", !.file = @ + 1]
  ELSE NextToCollect([rec EXCEPT !.file = 0])

Begin(s) ==
  /\ scan[s].pc \in Resting
  /\ scans < MaxScans
  /\ scans' = scans + 1
  /\ \E o \in Settings : scan' = [scan EXCEPT ![s] = NextToHash([Idle EXCEPT !.settings = o])]
  /\ crossed' = (crossed \/ \E t \in Scanners \ {s} : scan[t].pc \notin Resting)
  /\ UNCHANGED <<disk, edits, cache, unread, torn, damaged, faults>>

\* classify_file reads the bytes: what is not included is never looked at again.
HashFile(s) ==
  LET f == File(s) IN
  /\ At(s, "hash")
  /\ scan' = [scan EXCEPT ![s] =
       IF Disposition(f, disk[f].content) = "included"
       THEN [scan[s] EXCEPT !.pc = "stat", !.sha = disk[f].content]
       ELSE NextToHash(scan[s])]
  /\ UNCHANGED <<disk, edits, cache, history, faults, scans>>

\* record_from_path takes the stat later; without one there is no FileRecord.
StatFile(s) ==
  LET f == File(s)
      record == IF disk[f].content = Absent THEN Absent
                ELSE [sha |-> scan[s].sha, stamp |-> disk[f].stamp]
  IN
  /\ At(s, "stat")
  /\ scan' = [scan EXCEPT ![s] =
       NextToHash([scan[s] EXCEPT !.records[f] = record, !.sha = Absent])]
  /\ UNCHANGED <<disk, edits, cache, history, faults, scans>>

\* The read or a stat of a file that is there raises an OSError: no FileRecord
\* either.  The scan has not seen the file and counts it as touched.
SnapshotFails(s) ==
  /\ At(s, "hash") \/ At(s, "stat")
  /\ faults < MaxFaults
  /\ scan' = [scan EXCEPT ![s] =
       NextToHash([scan[s] EXCEPT !.sha = Absent, !.touched = @ \cup {File(s)}])]
  /\ faults' = faults + 1
  /\ UNCHANGED <<disk, edits, cache, history, scans>>

\* Mutant: the stat, "only a fast path", is not compared.
IndexHitsAnyStat(s) ==
  /\ index[File(s)] \notin {Absent, Broken}
  /\ index[File(s)].key = Key(s)

\* EvidenceCache.get up to the entry.
IndexHits(s) ==
  /\ index[File(s)] \notin {Absent, Broken}
  /\ index[File(s)].key = Key(s)
  /\ index[File(s)].stamp = Record(s).stamp

ReadIndex(s) ==
  /\ At(s, "index")
  /\ Go(s, IF IndexHits(s) THEN "entry" ELSE "extract")
  /\ UNCHANGED <<disk, edits, cache, history, faults, scans>>

Give(evidence, rec) ==
  NextToCollect([rec EXCEPT !.output[rec.file] = evidence, !.found = Absent])

\* The rest of get: a hit, unless the entry is not there or does not parse.
ReadEntry(s) ==
  LET entry == entries[Key(s)] IN
  /\ At(s, "entry")
  /\ scan' = [scan EXCEPT ![s] =
       IF entry \in {Absent, Broken} THEN [scan[s] EXCEPT !.pc = "extract"]
       ELSE Give(entry, scan[s])]
  /\ UNCHANGED <<disk, edits, cache, history, faults, scans>>

\* collect_file_evidence reads the file again.
Extract(s) ==
  LET c == disk[File(s)].content IN
  /\ At(s, "extract")
  /\ scan' = [scan EXCEPT ![s] =
       [scan[s] EXCEPT !.pc = "put", !.found = EvidenceOf(c, scan[s].settings)]]
  /\ torn' = (torn \/ c # Record(s).sha)
  /\ UNCHANGED <<disk, edits, cache, unread, crossed, damaged, faults, scans>>

\* read_lines raises an OSError although the file is there.
ExtractFails(s) ==
  /\ At(s, "extract")
  /\ faults < MaxFaults
  /\ scan' = [scan EXCEPT ![s] =
       [scan[s] EXCEPT !.pc = "put", !.found = EvidenceOf(Absent, scan[s].settings)]]
  /\ faults' = faults + 1
  /\ unread' = unread \cup {File(s)}
  /\ torn' = TRUE
  /\ UNCHANGED <<disk, edits, cache, crossed, damaged, scans>>

\* EvidenceCache.put: two files, each replaced as a whole.
\* Mutant: the index first.
PutIndexFirst == <<"index", "entry">>
PutOrder == <<"entry", "index">>

Puts(s, what) == \E n \in 1..2 : PutOrder[n] = what /\ At(s, <<"put", "put_second">>[n])

\* The other file comes next, or the next file of the scan.
AfterPut(s) ==
  scan' = [scan EXCEPT ![s] =
    IF At(s, "put") THEN [scan[s] EXCEPT !.pc = "put_second"]
    ELSE Give(scan[s].found, scan[s])]

WriteEntry(s) ==
  /\ Puts(s, "entry")
  /\ entries' = [entries EXCEPT ![Key(s)] = scan[s].found]
  /\ AfterPut(s)
  /\ UNCHANGED <<disk, edits, index, history, faults, scans>>

WriteIndex(s) ==
  /\ Puts(s, "index")
  /\ index' = [index EXCEPT ![File(s)] = [key |-> Key(s), stamp |-> Record(s).stamp]]
  /\ AfterPut(s)
  /\ UNCHANGED <<disk, edits, entries, history, faults, scans>>

\* An OSError in put: the scan goes on without the cache.
WriteFails(s) ==
  /\ At(s, "put") \/ At(s, "put_second")
  /\ scan' = [scan EXCEPT ![s] = Give(scan[s].found, scan[s])]
  /\ UNCHANGED <<disk, edits, cache, history, faults, scans>>

-----------------------------------------------------------------------------
(* The environment *)

\* A scan ends early: its process is killed, or the index file it reads is not
\* UTF-8, which get does not catch.
Crash(s) ==
  /\ scan[s].pc \notin Resting
  /\ \/ faults < MaxFaults /\ faults' = faults + 1
     \/ At(s, "index") /\ index[File(s)] = Broken /\ UNCHANGED faults
  /\ scan' = [scan EXCEPT ![s] = Idle]
  /\ UNCHANGED <<disk, edits, cache, history, scans>>

\* A file is written or deleted; `touched' is what changed since a scan began, or
\* could not be read by its snapshot.
Edit(f) ==
  /\ edits < MaxEdits
  /\ \E c \in Contents \cup {Absent} :
       /\ c # disk[f].content
       /\ disk' = [disk EXCEPT ![f] = [content |-> c, stamp |-> edits + 1]]
  /\ edits' = edits + 1
  /\ unread' = unread \ {f}
  /\ scan' = [s \in Scanners |->
       IF At(s, "idle") THEN scan[s] ELSE [scan[s] EXCEPT !.touched = @ \cup {f}]]
  /\ UNCHANGED <<cache, crossed, torn, damaged, faults, scans>>

\* The cache is disposable: its files may be deleted or cut short.
Damage ==
  /\ faults < MaxFaults
  /\ \E left \in {Absent, Broken} :
       \/ /\ \E f \in Files : /\ index[f] \notin {Absent, left}
                              /\ index' = [index EXCEPT ![f] = left]
          /\ UNCHANGED entries
       \/ /\ \E k \in Keys : /\ entries[k] \notin {Absent, left}
                             /\ entries' = [entries EXCEPT ![k] = left]
          /\ UNCHANGED index
  /\ damaged' = TRUE
  /\ faults' = faults + 1
  /\ UNCHANGED <<disk, edits, scan, unread, crossed, torn, scans>>

-----------------------------------------------------------------------------
Init ==
  /\ disk \in [Files -> [content : Contents, stamp : {0}]]
  /\ edits = 0
  /\ index = [f \in Files |-> Absent]
  /\ entries = [k \in Keys |-> Absent]
  /\ scan = [s \in Scanners |-> Idle]
  /\ unread = {}
  /\ crossed = FALSE /\ torn = FALSE /\ damaged = FALSE
  /\ scans = 0 /\ faults = 0

ScanStep(s) ==
  \/ HashFile(s) \/ StatFile(s) \/ SnapshotFails(s)
  \/ ReadIndex(s) \/ ReadEntry(s) \/ Extract(s) \/ ExtractFails(s)
  \/ WriteEntry(s) \/ WriteIndex(s) \/ WriteFails(s)

Next ==
  \/ \E s \in Scanners : Begin(s) \/ ScanStep(s) \/ Crash(s)
  \/ \E f \in Edited : Edit(f)
  \/ Damage

Spec == Init /\ [][Next]_vars

-----------------------------------------------------------------------------
(* Properties *)

TypeOK ==
  /\ disk \in [Files -> [content : Contents \cup {Absent}, stamp : Stamps]]
  /\ edits \in Stamps
  /\ index \in [Files -> IndexRows \cup {Absent, Broken}]
  /\ \A f \in Files : index[f] \notin {Absent, Broken} => index[f].key.file = f
  /\ entries \in [Keys -> Evidence \cup {Absent, Broken}]
  /\ scan \in [Scanners ->
       [pc : Resting \cup {"hash", "stat", "index", "entry", "extract",
                           "put", "put_second"},
        file : 0..NFiles, settings : Settings \cup {Absent}, sha : Contents \cup {Absent},
        records : [Files -> FileRecords \cup {Absent}], touched : SUBSET Files,
        found : Evidence \cup {Absent}, output : [Files -> Evidence \cup {Absent}]]]
  /\ \A s \in Scanners :
       scan[s].pc \in {"index", "entry", "extract", "put", "put_second"} => Record(s) # Absent
  /\ unread \subseteq Files
  /\ crossed \in BOOLEAN /\ torn \in BOOLEAN /\ damaged \in BOOLEAN
  /\ scans \in 0..MaxScans /\ faults \in 0..MaxFaults

\* What a scan without a cache finds in a file it is interested in.
CleanOutput(f, c, o) ==
  IF c # Absent /\ Marks[f] = {} /\ f \in ScannerInput /\ Kind[c] = "text"
  THEN EvidenceOf(c, o) ELSE Absent

\* As long as a file is what it was when a scan began, and the snapshot could read
\* it, the scan says of it what a scan without a cache would say, ...
SaysClean(s) ==
  \A f \in Files \ (scan[s].touched \cup unread) :
    scan[s].output[f] = CleanOutput(f, disk[f].content, scan[s].settings)

\* ... whatever edits, other settings, crashes and damage the cache has been
\* through, and whatever other scans, as long as none of those read a file that
\* was no longer what it had hashed.  Otherwise the stamp in the index must mask
\* the entry, and does so if scans never overlap.  Excepted is a file that could
\* not be read: its empty list stays in the cache until the file is edited.
CachedIsClean ==
  ~(crossed /\ torn) => \A s \in Scanners : At(s, "done") => SaysClean(s)

\* The same for scans that do overlap.
OverlappingScansAreClean ==
  \A s \in Scanners : At(s, "done") => SaysClean(s)

\* As long as nobody else touches the cache's files, an index never names an
\* entry that is not there: a crash between the two writes costs a miss only.
IndexedEntryExists ==
  ~damaged =>
    \A f \in Files : index[f] # Absent => entries[index[f].key] # Absent
=============================================================================
