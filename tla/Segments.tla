------------------------------ MODULE Segments ------------------------------
(***************************************************************************)
(* The segment files of one node: Manager.Write and its rotation           *)
(* (internal/segment/segment_manager.go, segment.go), the LSN index filled *)
(* by a goroutine per batch (index.go), a replication handler that reads   *)
(* the files while they are written (internal/database/logs/log_reader.go, *)
(* utils/fs/dir.go), and a restart that rebuilds the index from them.      *)
(*                                                                         *)
(* A master has one writer, the WAL worker, and a replication handler.  A  *)
(* slave has no handler, and two writers: its WAL worker logs the writes   *)
(* of its clients before they are rejected, and the replication goroutine  *)
(* logs the rows of the master.  They share the Manager and its mutex.     *)
(*                                                                         *)
(* A row is its LSN, its encoding Size[l] bytes (module LogStream has the  *)
(* bytes).  A file is the rows that are complete in it, with the byte each *)
(* starts at, and its length.  Its name is the clock at its creation, a    *)
(* number; names of one length sort as strings the way the numbers do.     *)
(***************************************************************************)
EXTENDS Naturals, Sequences, FiniteSetsExt, SeqFold

CONSTANTS
  Lsns,            \* the LSNs of the rows
  Size,            \* Size[l]: bytes of the row with LSN l
  MaxSegmentSize,  \* max_segment_size
  MaxBatch,        \* bound: rows in one call of Manager.Write
  Nodes,           \* the nodes: master or slave, index manager, rows, what may go wrong
  MaxCrashes,      \* bound: how many times the process may end
  None             \* no index entry, no holder of the mutex

ASSUME SegmentsAssumption ==
  /\ Size \in [Lsns -> Nat \ {0}]
  /\ MaxSegmentSize \in Nat /\ MaxBatch \in Nat /\ MaxCrashes \in Nat
  /\ Nodes \subseteq [master : BOOLEAN, im : {"mutex", "cow"}, lsns : SUBSET Lsns,
                      faults : SUBSET {"io", "crash", "torn", "clock"}]
  /\ None \notin {"wal", "repl", "leaked"} /\ None \notin [file : Nat, off : Nat]
  /\ None \notin Seq([lsn : Lsns, off : Nat])

VARIABLES
  phase,    \* "up", "down" or "restoring"
  node,     \* which of Nodes this is
  files,    \* the directory: a file for each name
  cur,      \* the name of curSeg.file
  size,     \* curSeg.size
  back,     \* the log when the clock was set back, or None
  used,     \* the rows that were handed to Write
  w,        \* the calls of Manager.Write, one for each writer
  mutex,    \* who holds Manager.m; "leaked": a call returned without Unlock
  raced,    \* two calls of Write have overlapped since the start
  index,    \* the map of the index manager
  adds,     \* the AddBatchIndex goroutines that have not ended
  rd,       \* the replication handler
  restore,  \* the files that the restart has still to read
  crashes

diskVars == <<files, cur, size, back>>
writeVars == <<used, w, mutex, raced>>
indexVars == <<index, adds>>
vars == <<phase, node, diskVars, writeVars, indexVars, rd, restore, crashes>>

Writers == {"wal", "repl"}

Entry == [file : Nat, off : Nat]
NoEntries == [l \in Lsns |-> None]
Merge(m, new) == [l \in Lsns |-> IF new[l] # None THEN new[l] ELSE m[l]]

\* shared: bytes were put into it while two calls of Write overlapped.
EmptyFile == [rows |-> <<>>, end |-> 0, shared |-> FALSE]

Idle == [pc |-> "idle", batch |-> <<>>, chunk |-> <<>>, left |-> <<>>, name |-> 0, off |-> 0]
NoRead == [pc |-> "idle", lsn |-> None, off |-> 0, names |-> <<>>, rows |-> <<>>, seen |-> 0]

Bytes(rows) == FoldLeft(LAMBDA n, l : n + Size[l], 0, rows)

\* ReadDir: the names in order.
Dirs == Concat([n \in 1..Max(DOMAIN files) |-> IF n \in DOMAIN files THEN <<n>> ELSE <<>>])

\* The rows on disk, in the order of the files.
Log == Concat([n \in 1..Max(DOMAIN files) |-> IF n \in DOMAIN files THEN files[n].rows ELSE <<>>])

\* What is left of a torn row lies before row j of the file: Unmarshal completes
\* the torn row with the bytes of row j, then meets the end of the file or goes
\* on in the middle of a row.
Gap(file, j) ==
  file.rows[j].off > (IF j = 1 THEN 0 ELSE file.rows[j - 1].off + Size[file.rows[j - 1].lsn])

\* LogReader.read from byte off: the rows up to the first gap.  The rows it
\* makes up after a gap are not modelled.
Parse(file, off) ==
  LET good(j) == /\ file.rows[j].off >= off
                 /\ \A i \in 1..j : file.rows[i].off > off => ~Gap(file, i)
  IN  Concat([j \in DOMAIN file.rows |-> IF good(j) THEN <<file.rows[j].lsn>> ELSE <<>>])

\* The index entries of rows that follow each other in a file from byte off.
EntriesOf(rows, name, off) ==
  LET first(l) == Min({i \in DOMAIN rows : rows[i] = l})
  IN  [l \in Lsns |-> IF l \in Range(rows)
                      THEN [file |-> name, off |-> off + Bytes(SubSeq(rows, 1, first(l) - 1))]
                      ELSE None]

\* The empty directory: initFileSegment creates the first file.
Init ==
  /\ phase = "up" /\ node \in Nodes
  /\ files = [n \in {2} |-> EmptyFile] /\ cur = 2 /\ size = 0 /\ back = None
  /\ used = {} /\ w = [p \in Writers |-> Idle] /\ mutex = None /\ raced = FALSE
  /\ index = NoEntries /\ adds = {} /\ rd = NoRead
  /\ restore = <<>> /\ crashes = 0
-----------------------------------------------------------------------------
(***************************************************************************)
(* Manager.Write: createBatch, processBatches, writeBatch, writeInSeg.     *)
(*                                                                         *)
(* processBatches cuts the batch into chunks that fit and rotates between  *)
(* them.  Only the write of a chunk and the rotation hold the mutex, each  *)
(* for itself: the size of the segment, its name and the offset for the    *)
(* index are read without it.                                              *)
(***************************************************************************)
Batches == UNION {Injection(1..Cardinality(S), S) : S \in {T \in SUBSET (node.lsns \ used) :
                                                            Cardinality(T) \in 1..MaxBatch}}

\* Mutant: the bytes already in the file are not counted.
FitsAlone(n) == MaxSegmentSize >= n

Fits(n) == MaxSegmentSize >= n + size

\* A batch that fits as a whole, by a size that counts one byte more for each
\* row, is one chunk; another is cut row by row.
Write(p, b) ==
  /\ phase = "up" /\ w[p].pc = "idle" /\ (node.master => p = "wal")
  /\ used' = used \cup Range(b)
  /\ w' = [w EXCEPT ![p] = IF Fits(Bytes(b) + Len(b))
                           THEN [Idle EXCEPT !.pc = "locate", !.chunk = b, !.left = b]
                           ELSE [Idle EXCEPT !.pc = "cut", !.batch = b]]
  /\ raced' = (raced \/ \E q \in Writers \ {p} : w[q].pc # "idle")
  /\ UNCHANGED <<phase, node, diskVars, mutex, indexVars, rd, restore, crashes>>

\* The next row joins the chunk, or the chunk is complete.
Cut(p) ==
  /\ phase = "up" /\ w[p].pc = "cut"
  /\ LET call == w[p] IN
     w' = [w EXCEPT ![p] =
       IF call.batch # <<>> /\ Fits(Bytes(call.chunk) + Size[Head(call.batch)])
       THEN [call EXCEPT !.chunk = Append(@, Head(call.batch)), !.batch = Tail(@)]
       ELSE [call EXCEPT !.pc = "locate", !.left = call.chunk]]
  /\ UNCHANGED <<phase, node, diskVars, used, mutex, raced, indexVars, rd, restore, crashes>>

\* writeBatch: GetName and CurrentOffset of the segment.
Locate(p) ==
  /\ phase = "up" /\ w[p].pc = "locate"
  /\ w' = [w EXCEPT ![p].pc = "put", ![p].name = cur, ![p].off = size]
  /\ UNCHANGED <<phase, node, diskVars, used, mutex, raced, indexVars, rd, restore, crashes>>

\* curSeg.Write under the mutex.  O_APPEND: a row goes to the end of the file,
\* whatever curSeg.size says; the file grows row by row for a concurrent reader
\* and for a crash.
PutRow(p) ==
  /\ phase = "up" /\ w[p].pc = "put" /\ w[p].left # <<>> /\ mutex \in {None, p}
  /\ mutex' = p
  /\ LET l == Head(w[p].left) IN
       files' = [files EXCEPT ![cur] =
                   [rows |-> Append(@.rows, [lsn |-> l, off |-> @.end]), end |-> @.end + Size[l],
                    shared |-> @.shared \/ raced]]
  /\ w' = [w EXCEPT ![p].left = Tail(@)]
  /\ UNCHANGED <<phase, node, cur, size, back, used, raced, indexVars, rd, restore, crashes>>

\* Mutant: the index entries of the chunk all have the offset of its first row.
EntriesAtStart(call) ==
  [l \in Lsns |-> IF l \in Range(call.chunk) THEN [file |-> call.name, off |-> call.off] ELSE None]

\* Mutant: an index goroutine is started for the last chunk only.
EntriesOfLast(call) ==
  IF call.batch = <<>> THEN EntriesOf(call.chunk, call.name, call.off) ELSE NoEntries

\* The entries that writeBatch hands to its goroutine.
Entries(call) == EntriesOf(call.chunk, call.name, call.off)

\* The chunk is complete: Sync, size, Unlock, and go AddBatchIndex.  An empty
\* chunk has not taken the mutex.
Sync(p) ==
  /\ phase = "up" /\ w[p].pc = "put" /\ w[p].left = <<>>
  /\ size' = size + Bytes(w[p].chunk)
  /\ mutex' = IF mutex = p THEN None ELSE mutex
  /\ adds' = adds \cup {[entries |-> Entries(w[p]), old |-> None]}
  /\ w' = [w EXCEPT ![p] = IF w[p].batch = <<>> THEN Idle ELSE [@ EXCEPT !.pc = "rotate"]]
  /\ UNCHANGED <<phase, node, files, cur, back, used, raced, index, rd, restore, crashes>>

\* The name of a new file: the clock, or a time before that of the last file if
\* the clock was set back.
NewNames ==
  {Max(DOMAIN files) + 1}
    \cup IF "clock" \in node.faults THEN 1..Max(DOMAIN files) \ DOMAIN files ELSE {}

\* Mutant: curSeg.size is not reset.
SizeKept == size

SizeOfNewFile == 0

\* Rotate under the mutex; the first row after it joins the chunk in any case.
Rotate(p) ==
  /\ phase = "up" /\ w[p].pc = "rotate" /\ mutex = None
  /\ \E name \in NewNames :
       /\ files' = [n \in DOMAIN files \cup {name} |-> IF n = name THEN EmptyFile ELSE files[n]]
       /\ cur' = name
       /\ back' = IF back = None /\ name < Max(DOMAIN files) THEN Log ELSE back
  /\ size' = SizeOfNewFile
  /\ w' = [w EXCEPT ![p] = [Idle EXCEPT !.pc = "cut", !.chunk = <<Head(w[p].batch)>>,
                                        !.batch = Tail(w[p].batch)]]
  /\ UNCHANGED <<phase, node, used, mutex, raced, indexVars, rd, restore, crashes>>

\* Write, Sync or the new file fails: the error returns without Unlock, and the
\* retry of the WAL, the next poll of the slave and the other writer block.
IOError(p) ==
  /\ "io" \in node.faults /\ phase = "up"
  /\ \/ w[p].pc = "put" /\ w[p].chunk # <<>> /\ mutex \in {None, p}
     \/ w[p].pc = "rotate" /\ mutex = None
  /\ w' = [w EXCEPT ![p] = [Idle EXCEPT !.pc = "failed"]]
  /\ mutex' = "leaked"
  /\ UNCHANGED <<phase, node, diskVars, used, raced, indexVars, rd, restore, crashes>>
-----------------------------------------------------------------------------
(***************************************************************************)
(* The goroutines of AddBatchIndex, in any order.  IndexManagerMutex adds  *)
(* its entries under a lock; IndexManagerCOW loads the map, and stores a   *)
(* copy with the entries.                                                  *)
(***************************************************************************)
AddBatch ==
  /\ phase = "up"
  /\ \E a \in adds :
       \/ /\ node.im = "mutex"
          /\ index' = Merge(index, a.entries) /\ adds' = adds \ {a}
       \/ /\ node.im = "cow" /\ a.old = None
          /\ adds' = (adds \ {a}) \cup {[a EXCEPT !.old = index]} /\ UNCHANGED index
       \/ /\ node.im = "cow" /\ a.old # None
          /\ index' = Merge(a.old, a.entries) /\ adds' = adds \ {a}
  /\ UNCHANGED <<phase, node, diskVars, writeVars, rd, restore, crashes>>
-----------------------------------------------------------------------------
(***************************************************************************)
(* Master.Handle from GetIndex on: ReadDirsFrom lists the files, then each *)
(* is read to its end.  Without an entry the answer is "no new logs" and   *)
(* nothing changes.  seen is what was on disk at GetIndex.                 *)
(***************************************************************************)
GetIndex(l) ==
  /\ phase = "up" /\ node.master /\ rd.pc = "idle" /\ index[l] # None
  /\ rd' = [NoRead EXCEPT !.pc = "list", !.lsn = l, !.names = <<index[l].file>>,
                          !.off = index[l].off, !.seen = Len(Log)]
  /\ UNCHANGED <<phase, node, diskVars, writeVars, indexVars, restore, crashes>>

\* Mutant: the search gives up when one name is left.
BinarySearchStrict(array, target) ==
  LET search[r \in (1..(Len(array) + 1)) \X (0..Len(array))] ==
        LET low == r[1]
            high == r[2]
            mid == (low + high) \div 2
        IN  IF low >= high THEN 0
            ELSE CASE array[mid] = target -> mid
                   [] array[mid] < target -> search[<<mid + 1, high>>]
                   [] OTHER               -> search[<<low, mid - 1>>]
  IN  search[<<1, Len(array)>>]

\* The place of target in a sorted array, or 0.
BinarySearch(array, target) ==
  LET search[r \in (1..(Len(array) + 1)) \X (0..Len(array))] ==
        LET low == r[1]
            high == r[2]
            mid == (low + high) \div 2
        IN  IF low > high THEN 0
            ELSE CASE array[mid] = target -> mid
                   [] array[mid] < target -> search[<<mid + 1, high>>]
                   [] OTHER               -> search[<<low, mid - 1>>]
  IN  search[<<1, Len(array)>>]

\* The files from the one of the index entry on; none if it is not found.
ReadDirsFrom ==
  /\ phase = "up" /\ rd.pc = "list"
  /\ LET idx == BinarySearch(Dirs, rd.names[1]) IN
       rd' = [rd EXCEPT !.pc = "read",
                        !.names = IF idx = 0 THEN <<>> ELSE SubSeq(Dirs, idx, Len(Dirs))]
  /\ UNCHANGED <<phase, node, diskVars, writeVars, indexVars, restore, crashes>>

\* The path of the file is compared with the base name of curSeg, which it never
\* equals: every file is read without the mutex.
ReadSegment(name) == files[name]

\* Only the first file is read from the offset of the index.
ReadFile ==
  /\ phase = "up" /\ rd.pc = "read"
  /\ rd' = IF rd.names = <<>> THEN [rd EXCEPT !.pc = "done"]
           ELSE [rd EXCEPT !.rows = @ \o Parse(ReadSegment(Head(rd.names)), rd.off),
                           !.names = Tail(@), !.off = 0]
  /\ UNCHANGED <<phase, node, diskVars, writeVars, indexVars, restore, crashes>>

Reply ==
  /\ phase = "up" /\ rd.pc = "done"
  /\ rd' = NoRead
  /\ UNCHANGED <<phase, node, diskVars, writeVars, indexVars, restore, crashes>>
-----------------------------------------------------------------------------
(***************************************************************************)
(* The end of the process and NewFileSegment, RestoreSystemStream.         *)
(***************************************************************************)
\* A write in progress may leave a part of its next row in the file.
Tearing(p) ==
  /\ "torn" \in node.faults /\ phase = "up"
  /\ w[p].pc = "put" /\ w[p].left # <<>> /\ mutex \in {None, p}
  /\ Size[Head(w[p].left)] > 1

Crash ==
  /\ "crash" \in node.faults /\ crashes < MaxCrashes
  /\ phase # "down"
  /\ phase' = "down" /\ crashes' = crashes + 1
  /\ \/ UNCHANGED files
     \/ \E p \in Writers : Tearing(p) /\ files' = [files EXCEPT ![cur].end = @ + 1,
                                                         ![cur].shared = @ \/ raced]
  /\ size' = 0 /\ w' = [p \in Writers |-> Idle] /\ mutex' = None /\ raced' = FALSE
  /\ index' = NoEntries /\ adds' = {} /\ rd' = NoRead /\ restore' = <<>>
  /\ UNCHANGED <<node, cur, back, used>>

\* Mutant: the last file is truncated when it is opened.
RestartTruncates ==
  /\ phase = "down"
  /\ phase' = "restoring"
  /\ cur' = Max(DOMAIN files)
  /\ files' = [files EXCEPT ![cur'] = EmptyFile]
  /\ size' = 0
  /\ restore' = Dirs
  /\ UNCHANGED <<node, back, writeVars, indexVars, rd, crashes>>

\* initFileSegment opens the last file; its size is the file's length.
Restart ==
  /\ phase = "down"
  /\ phase' = "restoring"
  /\ cur' = Max(DOMAIN files)
  /\ size' = files[cur'].end
  /\ restore' = Dirs
  /\ UNCHANGED <<node, files, back, writeVars, indexVars, rd, crashes>>

\* read, restoreIndex: the offset of a row is the sum of the sizes of the rows
\* before it.
RestoreFile ==
  /\ phase = "restoring" /\ restore # <<>>
  /\ LET name == Head(restore) IN
       index' = Merge(index, EntriesOf(Parse(files[name], 0), name, 0))
  /\ restore' = Tail(restore)
  /\ UNCHANGED <<phase, node, diskVars, writeVars, adds, rd, crashes>>

\* Mutant: the restore ends before the last file.
RestoreAllButLast ==
  /\ phase = "restoring" /\ Len(restore) <= 1
  /\ phase' = "up" /\ restore' = <<>>
  /\ UNCHANGED <<node, diskVars, writeVars, indexVars, rd, crashes>>

RestoreDone ==
  /\ phase = "restoring" /\ restore = <<>>
  /\ phase' = "up"
  /\ UNCHANGED <<node, diskVars, writeVars, indexVars, rd, restore, crashes>>
-----------------------------------------------------------------------------
WriteAny == \E p \in Writers, b \in Batches : Write(p, b)
GetIndexAny == \E l \in Lsns : GetIndex(l)
WriteStep(p) == Cut(p) \/ Locate(p) \/ PutRow(p) \/ Sync(p) \/ Rotate(p)

Next ==
  \/ WriteAny
  \/ \E p \in Writers : Cut(p)
  \/ \E p \in Writers : Locate(p)
  \/ \E p \in Writers : PutRow(p)
  \/ \E p \in Writers : Sync(p)
  \/ \E p \in Writers : Rotate(p)
  \/ \E p \in Writers : IOError(p)
  \/ AddBatch
  \/ GetIndexAny \/ ReadDirsFrom \/ ReadFile \/ Reply
  \/ Crash \/ Restart \/ RestoreFile \/ RestoreDone

Spec == Init /\ [][Next]_vars

\* The writers, the index goroutines, the handler and the restore are goroutines
\* that run; nobody has to write or to ask, and nothing has to fail.
Fairness ==
  /\ \A p \in Writers : WF_vars(WriteStep(p))
  /\ WF_vars(AddBatch)
  /\ WF_vars(ReadDirsFrom) /\ WF_vars(ReadFile) /\ WF_vars(Reply)
  /\ WF_vars(Restart) /\ WF_vars(RestoreFile) /\ WF_vars(RestoreDone)

FairSpec == Spec /\ Fairness
-----------------------------------------------------------------------------
\* Types of the state; curSeg.size never exceeds the length of the file.
TypeOK ==
  /\ phase \in {"up", "down", "restoring"} /\ node \in Nodes
  /\ \A n \in DOMAIN files :
       /\ n \in Nat \ {0}
       /\ files[n] \in [rows : Seq([lsn : Lsns, off : Nat]), end : Nat, shared : BOOLEAN]
  /\ cur \in DOMAIN files /\ size \in 0..files[cur].end
  /\ back = None \/ back \in Seq([lsn : Lsns, off : Nat])
  /\ used \subseteq Lsns /\ raced \in BOOLEAN
  /\ w \in [Writers -> [pc : {"idle", "cut", "locate", "put", "rotate", "failed"},
                        batch : Seq(Lsns), chunk : Seq(Lsns), left : Seq(Lsns),
                        name : Nat, off : Nat]]
  /\ mutex \in Writers \cup {None, "leaked"}
  /\ index \in [Lsns -> Entry \cup {None}]
  /\ \A a \in adds : {a.entries} \cup ({a.old} \ {None}) \subseteq [Lsns -> Entry \cup {None}]
  /\ rd.pc \in {"idle", "list", "read", "done"}
  /\ restore \in Seq(DOMAIN files)
  /\ crashes \in 0..MaxCrashes

\* No segment grows past max_segment_size, but for a row that is larger by
\* itself and then is alone in its file (segment_manager.go:63-88), and for a
\* file to which two calls of Write that overlapped have written: each asked
\* Fits before the other's rows were counted.
SegmentBound ==
  \A n \in DOMAIN files :
    files[n].end <= MaxSegmentSize \/ Len(files[n].rows) <= 1 \/ files[n].shared

\* An index entry leads to its row: the row starts at that byte of that file,
\* whether the entry came from a write or from a restart, by either index
\* manager, and after the clock was set back.  Two calls of Write that overlap
\* may index the offset of each other's rows (segment_manager.go:98-103 reads it
\* before the mutex is taken).
IndexSound ==
  ~raced =>
    \A l \in Lsns : index[l] # None =>
      \E j \in DOMAIN files[index[l].file].rows :
         files[index[l].file].rows[j] = [lsn |-> l, off |-> index[l].off]

\* A row was appended after the rest of one that a crash had torn.
Torn == \E n \in DOMAIN files : \E j \in DOMAIN files[n].rows : Gap(files[n], j)

\* What the handler read is a piece of the log without a hole, from the row
\* that was asked for to at least the last one on disk at GetIndex, although
\* files grow and are rotated between listing and reading them.  Rows after a
\* torn one are not read (log_reader.go:189-205), and a file of a clock that was
\* set back is sorted before rows that are older.
ReadIsSuffix ==
  rd.pc = "done" /\ ~Torn /\ back = None =>
    LET log == Log IN
    \E k \in DOMAIN log :
      /\ log[k].lsn = rd.lsn
      /\ k + Len(rd.rows) - 1 \in rd.seen..Len(log)
      /\ \A i \in DOMAIN rd.rows : rd.rows[i] = log[k + i - 1].lsn

\* A restart finds every row that is on disk, wherever the clock and two writers
\* at once have put it, and the rows in a file that ends in a torn one included;
\* only rows that were appended after a torn one are lost (segment.go:95 appends
\* to whatever the last file ends with).
RestoreComplete ==
  [][phase = "restoring" /\ phase' = "up" /\ ~Torn =>
       \A row \in Range(Log) : index[row.lsn] # None]_vars

DiskLog == INSTANCE AppendLog WITH log <- IF back = None THEN Log ELSE back

\* The files in name order are one append-only log, across rotations, restarts
\* and two writers, for as long as the clock is not set back: this is the log of
\* module Wal.
ImplementsAppendLog == DiskLog!Spec

\* Every row on disk gets into the index, by its goroutine or by a restart,
\* unless a write failed under the mutex or a torn row keeps the restart from
\* it.  This is IndexManagerMutex: the copies of IndexManagerCOW may overwrite
\* each other's entries (index.go:76-86).
IndexCatchesUp ==
  \A l \in Lsns :
    (\E row \in Range(Log) : row.lsn = l)
      ~> (index[l] # None \/ mutex = "leaked" \/ Torn \/ node.im = "cow")
=============================================================================
