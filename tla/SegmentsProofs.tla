--------------------------- MODULE SegmentsProofs ---------------------------
(***************************************************************************)
(* Proofs about Segments, for any rows and sizes, max_segment_size, nodes  *)
(* and number of crashes, and for two writers: every step keeps the types  *)
(* and the bound on the size of a segment.  Then the segment files are one *)
(* log: the rows in the order of the files implement the append-only log   *)
(* of module AppendLog, whichever of the two writers puts them, across     *)
(* rotations, failed and torn writes and restarts.  Last, what a reader    *)
(* finds: the list of the files is sorted, BinarySearch finds a name in    *)
(* it, and LogReader parses the rows of a file.  The theorems are at the   *)
(* end of module SegmentsIndexProofs, which goes on from here.             *)
(***************************************************************************)
EXTENDS Segments, TLAPS

Row == [lsn : Lsns, off : Nat]
File == [rows : Seq(Row), end : Nat, shared : BOOLEAN]
Index == [Lsns -> Entry \cup {None}]
Call == [pc : {"idle", "cut", "locate", "put", "rotate", "failed"},
         batch : Seq(Lsns), chunk : Seq(Lsns), left : Seq(Lsns), name : Nat, off : Nat]
-----------------------------------------------------------------------------
(***************************************************************************)
(* What the proofs need of the naturals and of the folds in the model.     *)
(* These are the facts that take an induction: module SegmentsIndexProofs  *)
(* proves them at its end, and the lemmas before assume them.              *)
(***************************************************************************)
DataFacts ==
  /\ \A T : T \subseteq Nat /\ T # {} => \E x \in T : \A y \in T : x <= y
  /\ \A N \in Nat : \A T : T \subseteq 0..N /\ T # {} => \E g \in T : \A x \in T : x <= g
  /\ \A T : 0 \in T /\ (\A n \in T \cap Nat : n + 1 \in T) => Nat \subseteq T
  /\ Bytes(<<>>) = 0
  /\ \A s \in Seq(Lsns) : /\ Bytes(s) \in Nat
                         /\ \A l \in Lsns : Bytes(Append(s, l)) = Bytes(s) + Size[l]
  /\ \A s, t \in Seq(Lsns) : Bytes(s) <= Bytes(s \o t)
  /\ Concat(<<>>) = <<>>
  /\ \A S : \A s \in Seq(Seq(S)) : /\ Concat(s) \in Seq(S)
                                   /\ \A t \in Seq(S) : Concat(Append(s, t)) = Concat(s) \o t

\* The size of a chunk grows with each row of it.
LEMMA BytesAppend ==
  ASSUME DataFacts, NEW s \in Seq(Lsns), NEW l \in Lsns
  PROVE  Bytes(Append(s, l)) = Bytes(s) + Size[l]
  BY DEF DataFacts

\* An empty chunk has no bytes.
LEMMA BytesEmpty == ASSUME DataFacts PROVE Bytes(<<>>) = 0
  BY DEF DataFacts

\* The size of a chunk is a number.
LEMMA BytesType == ASSUME DataFacts, NEW s \in Seq(Lsns) PROVE Bytes(s) \in Nat
  BY DEF DataFacts

\* The rows of a chunk are not less than those that were put already.
LEMMA BytesGrow ==
  ASSUME DataFacts, NEW s \in Seq(Lsns), NEW t \in Seq(Lsns)
  PROVE  Bytes(s) <= Bytes(s \o t)
  BY Zenon DEF DataFacts

\* No files.
LEMMA ConcatEmpty == ASSUME DataFacts PROVE Concat(<<>>) = <<>>
  BY DEF DataFacts

\* The names in the directory and the rows in the files are sequences.
LEMMA ConcatType == ASSUME DataFacts, NEW S, NEW s \in Seq(Seq(S)) PROVE Concat(s) \in Seq(S)
  BY DEF DataFacts

\* One more file.
LEMMA ConcatMore ==
  ASSUME DataFacts, NEW S, NEW s \in Seq(Seq(S)), NEW t \in Seq(S)
  PROVE  Concat(Append(s, t)) = Concat(s) \o t
  BY DEF DataFacts

\* The least of some places.
LEMMA Least ==
  ASSUME DataFacts, NEW T, T \subseteq Nat, T # {}
  PROVE  \E x \in T : \A y \in T : x <= y
  BY Zenon DEF DataFacts

\* The greatest of some names.
LEMMA Greatest ==
  ASSUME DataFacts, NEW N \in Nat, NEW T, T \subseteq 0..N, T # {}
  PROVE  \E g \in T : \A x \in T : x <= g
  BY Zenon DEF DataFacts

\* The greatest name.
LEMMA MaxName ==
  ASSUME DataFacts, NEW N \in Nat, NEW T, T \subseteq 1..N, T # {}
  PROVE  Max(T) \in T /\ (\A x \in T : x <= Max(T)) /\ T \subseteq 1..Max(T) /\ Max(T) \in Nat \ {0}
<1>1. T \subseteq 0..N
  OBVIOUS
<1>2. PICK g \in T : \A x \in T : x <= g
  BY <1>1, Greatest, Zenon
<1>3. \E x \in T : \A y \in T : x >= y
  BY <1>2
<1>4. Max(T) \in T /\ \A y \in T : Max(T) >= y
  BY <1>3, Zenon DEF Max
<1> DEFINE m == Max(T)
<1>5. m \in T /\ \A y \in T : m >= y
  BY <1>4
<1> HIDE DEF m
<1>6. m \in Nat \ {0} /\ \A x \in T : x <= m /\ x \in 1..m
  BY <1>5
<1> QED
  BY <1>5, <1>6 DEF m

\* A directory: finitely many names, with a file for each.
FilesOK(fs) == (\E N \in Nat : DOMAIN fs \subseteq 1..N) /\ \A n \in DOMAIN fs : fs[n] \in File

RowsOf(fs, n) == IF n \in DOMAIN fs THEN fs[n].rows ELSE <<>>
LogOf(fs) == Concat([n \in 1..Max(DOMAIN fs) |-> RowsOf(fs, n)])

\* The name of the last file.
LEMMA LastName ==
  ASSUME DataFacts, NEW fs, FilesOK(fs), NEW c \in DOMAIN fs
  PROVE  /\ Max(DOMAIN fs) \in DOMAIN fs /\ Max(DOMAIN fs) \in Nat \ {0}
         /\ \A n \in DOMAIN fs : n \in 1..Max(DOMAIN fs)
<1>1. PICK N \in Nat : DOMAIN fs \subseteq 1..N
  BY DEF FilesOK
<1> QED
  BY <1>1, MaxName

\* The names of the files, and the rows in them.
LEMMA DirsType ==
  ASSUME DataFacts, FilesOK(files), NEW c \in DOMAIN files
  PROVE  Dirs \in Seq(DOMAIN files)
<1> DEFINE m == Max(DOMAIN files)
           f == [n \in 1..m |-> IF n \in DOMAIN files THEN <<n>> ELSE <<>>]
<1>1. m \in Nat
  BY LastName
<1> HIDE DEF m
<1>2. ASSUME NEW n \in 1..m
      PROVE  (IF n \in DOMAIN files THEN <<n>> ELSE <<>>) \in Seq(DOMAIN files)
  <2>1. n \in DOMAIN files => <<n>> \in Seq(DOMAIN files)
    OBVIOUS
  <2>2. <<>> \in Seq(DOMAIN files)
    OBVIOUS
  <2> QED
    BY <2>1, <2>2, Zenon
<1>3. f \in [1..m -> Seq(DOMAIN files)]
  BY <1>2
<1> HIDE DEF f
<1>4. f \in Seq(Seq(DOMAIN files))
  BY <1>1, <1>3
<1>5. Concat(f) \in Seq(DOMAIN files)
  BY <1>4, ConcatType
<1> QED
  BY <1>5 DEF Dirs, f, m

\* The rows of a file, or none.
LEMMA RowsType == ASSUME NEW fs, FilesOK(fs), NEW n PROVE RowsOf(fs, n) \in Seq(Row)
<1>1. CASE n \in DOMAIN fs
  <2>1. fs[n] \in File
    BY <1>1 DEF FilesOK
  <2> QED
    BY <1>1, <2>1 DEF RowsOf, File
<1>2. CASE n \notin DOMAIN fs
  BY <1>2 DEF RowsOf
<1> QED
  BY <1>1, <1>2

\* The log of a directory is a sequence of rows.
LEMMA LogType ==
  ASSUME DataFacts, NEW fs, FilesOK(fs), NEW c \in DOMAIN fs
  PROVE  LogOf(fs) \in Seq(Row)
<1> DEFINE m == Max(DOMAIN fs)
           f == [n \in 1..m |-> RowsOf(fs, n)]
<1>1. m \in Nat
  BY LastName
<1> HIDE DEF m
<1>2. f \in [1..m -> Seq(Row)]
  BY RowsType
<1> HIDE DEF f
<1>3. f \in Seq(Seq(Row))
  BY <1>1, <1>2
<1>4. Concat(f) \in Seq(Row)
  BY <1>3, ConcatType
<1> QED
  BY <1>4 DEF LogOf, f, m

\* The log of the model.
LEMMA LogIs == Log = LogOf(files)
  BY DEF Log, LogOf, RowsOf
-----------------------------------------------------------------------------
(***************************************************************************)
(* Index entries.                                                          *)
(***************************************************************************)
First(rows, l) == Min({i \in DOMAIN rows : rows[i] = l})

\* The place of a row in its chunk.
LEMMA FirstOf ==
  ASSUME DataFacts, NEW rows \in Seq(Lsns), NEW l \in Range(rows)
  PROVE  First(rows, l) \in 1..Len(rows) /\ rows[First(rows, l)] = l
<1> DEFINE I == {i \in 1..Len(rows) : rows[i] = l}
<1>1. Len(rows) \in Nat /\ Range(rows) = {rows[i] : i \in 1..Len(rows)}
  BY DEF Range
<1>2. I \subseteq Nat /\ I # {}
  BY <1>1
<1>3. \E i \in I : \A j \in I : i <= j
  BY <1>2, Least, Zenon
<1>4. Min(I) \in I
  BY <1>3 DEF Min
<1>5. {i \in DOMAIN rows : rows[i] = l} = I
  OBVIOUS
<1> QED
  BY <1>4, <1>5, Zenon DEF First

\* The index entry of one row.
LEMMA EntriesAre ==
  ASSUME NEW rows, NEW name, NEW off, NEW l \in Lsns
  PROVE  EntriesOf(rows, name, off)[l] =
           IF l \in Range(rows)
           THEN [file |-> name, off |-> off + Bytes(SubSeq(rows, 1, First(rows, l) - 1))]
           ELSE None
  BY DEF EntriesOf, First

\* What writeBatch and the restart hand to the index are entries.
LEMMA EntriesType ==
  ASSUME DataFacts, NEW rows \in Seq(Lsns), NEW name \in Nat, NEW off \in Nat
  PROVE  EntriesOf(rows, name, off) \in Index
<1>1. ASSUME NEW l \in Lsns PROVE EntriesOf(rows, name, off)[l] \in Entry \cup {None}
  <2>1. CASE l \in Range(rows)
    <3>1. First(rows, l) \in 1..Len(rows) /\ Len(rows) \in Nat
      BY <2>1, FirstOf
    <3> DEFINE i == First(rows, l) - 1
    <3>2. i \in 0..Len(rows)
      BY <3>1
    <3> HIDE DEF i
    <3>3. SubSeq(rows, 1, i) \in Seq(Lsns)
      BY <3>2
    <3> DEFINE n == Bytes(SubSeq(rows, 1, i))
    <3>4. n \in Nat
      BY <3>3, BytesType, Zenon
    <3>5. EntriesOf(rows, name, off)[l] = [file |-> name, off |-> off + n]
      BY <2>1, EntriesAre DEF i
    <3> HIDE DEF n
    <3>6. off + n \in Nat
      BY <3>4
    <3> QED
      BY <3>5, <3>6 DEF Entry
  <2>2. CASE l \notin Range(rows)
    BY <2>2, EntriesAre, Zenon
  <2> QED
    BY <2>1, <2>2
<1> DEFINE e == EntriesOf(rows, name, off)
<1>2. e = [l \in Lsns |-> e[l]]
  BY DEF EntriesOf
<1>3. \A l \in Lsns : e[l] \in Entry \cup {None}
  BY <1>1
<1> HIDE DEF e
<1>4. e \in [Lsns -> Entry \cup {None}]
  BY <1>2, <1>3
<1> QED
  BY <1>4 DEF e, Index

\* AddBatchIndex keeps the type of the map.
LEMMA MergeType == ASSUME NEW m \in Index, NEW new \in Index PROVE Merge(m, new) \in Index
  BY DEF Merge, Index

\* The empty map.
LEMMA NoEntriesType == NoEntries \in Index
  BY DEF NoEntries, Index

\* A file is read as rows, whatever a torn write left between them.
LEMMA ParseType == ASSUME DataFacts, NEW file \in File, NEW off PROVE Parse(file, off) \in Seq(Lsns)
<1> DEFINE good(j) == /\ file.rows[j].off >= off
                      /\ \A i \in 1..j : file.rows[i].off > off => ~Gap(file, i)
           f == [j \in DOMAIN file.rows |-> IF good(j) THEN <<file.rows[j].lsn>> ELSE <<>>]
<1>1. file.rows \in Seq(Row)
  BY DEF File
<1>2. DOMAIN file.rows = 1..Len(file.rows) /\ Len(file.rows) \in Nat
  BY <1>1
<1>3. ASSUME NEW j \in 1..Len(file.rows) PROVE file.rows[j].lsn \in Lsns
  <2>1. file.rows[j] \in Row
    BY <1>1
  <2> QED
    BY <2>1 DEF Row
<1> HIDE DEF good
<1>4. \A j \in 1..Len(file.rows) :
        (IF good(j) THEN <<file.rows[j].lsn>> ELSE <<>>) \in Seq(Lsns)
  BY <1>3
<1>5. f \in [1..Len(file.rows) -> Seq(Lsns)]
  BY <1>2, <1>4
<1> HIDE DEF f
<1>6. f \in Seq(Seq(Lsns))
  BY <1>2, <1>5
<1>7. Concat(f) \in Seq(Lsns)
  BY <1>6, ConcatType
<1>8. Parse(file, off) = Concat(f)
  BY DEF Parse, f, good
<1> QED
  BY <1>7, <1>8

\* A batch: rows that were not handed to Write before, each once.
LEMMA BatchType ==
  ASSUME node.lsns \subseteq Lsns, NEW b \in Batches
  PROVE  /\ b \in Seq(Lsns) /\ Range(b) \subseteq Lsns \ used
         /\ \A i, j \in 1..Len(b) : b[i] = b[j] => i = j
<1>1. PICK S \in SUBSET (node.lsns \ used) :
        Cardinality(S) \in 1..MaxBatch /\ b \in Injection(1..Cardinality(S), S)
  BY DEF Batches
<1>2. PICK n \in Nat : n = Cardinality(S)
  BY <1>1, SegmentsAssumption
<1>3. b \in [1..n -> S] /\ \A i, j \in 1..n : i # j => b[i] # b[j]
  BY <1>1, <1>2 DEF Injection, IsInjective
<1>4. b \in Seq(S) /\ Len(b) = n
  BY <1>2, <1>3
<1>5. Range(b) \subseteq S
  BY <1>4 DEF Range
<1> QED
  BY <1>1, <1>3, <1>4, <1>5
-----------------------------------------------------------------------------
(***************************************************************************)
(* The types, with what they need of the mutex: while it is free, curSeg   *)
(* knows the length of the file, and while a call holds it the file is     *)
(* longer by the rows of its chunk that it has put.                        *)
(***************************************************************************)
DiskType ==
  /\ phase \in {"up", "down", "restoring"} /\ node \in Nodes
  /\ FilesOK(files) /\ cur \in DOMAIN files /\ size \in 0..files[cur].end
  /\ back = None \/ back \in Seq(Row)

WriteType ==
  /\ used \subseteq Lsns /\ raced \in BOOLEAN /\ w \in [Writers -> Call]
  /\ mutex \in Writers \cup {None, "leaked"}

IndexType == index \in Index /\ adds \subseteq [entries : Index, old : Index \cup {None}]

ReadType ==
  /\ rd = [pc |-> rd.pc, lsn |-> rd.lsn, off |-> rd.off, names |-> rd.names, rows |-> rd.rows,
           seen |-> rd.seen]
  /\ rd.pc \in {"idle", "list", "read", "done"}
  /\ restore \in Seq(DOMAIN files) /\ crashes \in 0..MaxCrashes

\* The rows of the chunk that a call has put.
Put(call, done, held, end, sz) ==
  /\ call.chunk = done \o call.left
  /\ IF held THEN end = sz + Bytes(done) ELSE done = <<>>

LockInv ==
  /\ phase # "up" => mutex = None /\ ~raced /\ adds = {} /\ \A p \in Writers : w[p] = Idle
  /\ mutex \in Writers => w[mutex].pc = "put"
  /\ phase # "down" /\ mutex = None => files[cur].end = size
  /\ \A p \in Writers : w[p].pc = "locate" => w[p].left = w[p].chunk
  /\ \A p \in Writers : w[p].pc = "rotate" => w[p].batch # <<>>
  /\ \A p \in Writers : w[p].pc = "put" =>
       \E done \in Seq(Lsns) : Put(w[p], done, mutex = p, files[cur].end, size)

TypeInv == DiskType /\ WriteType /\ IndexType /\ ReadType /\ LockInv

\* The type invariant of the model is part of it.
LEMMA TypeParts == TypeInv => TypeOK
<1> SUFFICES ASSUME TypeInv PROVE TypeOK
  OBVIOUS
<1>1. \A n \in DOMAIN files : n \in Nat \ {0} /\ files[n] \in File
  BY DEF TypeInv, DiskType, FilesOK
<1>2. \A a \in adds : {a.entries} \cup ({a.old} \ {None}) \subseteq Index
  BY DEF TypeInv, IndexType
<1> QED
  BY <1>1, <1>2, Zenon
     DEF TypeInv, TypeOK, DiskType, WriteType, IndexType, ReadType, File, Row, Call, Index

\* A call that has not begun.
LEMMA IdleType == Idle \in Call /\ Idle.pc = "idle"
  BY DEF Idle, Call

\* The empty directory.
LEMMA TypeInit == Init => TypeInv
<1> SUFFICES ASSUME Init PROVE TypeInv
  OBVIOUS
<1>1. EmptyFile \in File /\ EmptyFile.end = 0
  BY DEF EmptyFile, File
<1>2. DOMAIN files = {2} /\ files[2] = EmptyFile /\ cur = 2 /\ size = 0
  BY DEF Init
<1>3. {2} \subseteq 1..2 /\ 2 \in Nat
  OBVIOUS
<1>4. FilesOK(files)
  BY <1>1, <1>2, <1>3 DEF FilesOK
<1>5. DiskType
  BY <1>1, <1>2, <1>4 DEF Init, DiskType
<1>6. \A p \in Writers : w[p] = Idle
  BY DEF Init
<1>7. WriteType
  BY IdleType, Zenon DEF Init, WriteType
<1>8. IndexType
  BY NoEntriesType DEF Init, IndexType
<1>9. ReadType
  BY SegmentsAssumption DEF Init, ReadType, NoRead
<1>10. LockInv
  BY <1>1, <1>2, <1>6, IdleType, SegmentsAssumption DEF Init, LockInv, Writers
<1> QED
  BY <1>5, <1>7, <1>8, <1>9, <1>10 DEF TypeInv

\* A call moves on that has not put a row, and nothing else changes.
LEMMA CallMoves ==
  ASSUME LockInv, WriteType, phase = "up", NEW p \in Writers, NEW c \in Call, w[p].pc # "put",
         c.pc # "rotate", c.pc \in {"locate", "put"} => c.left = c.chunk, w' = [w EXCEPT ![p] = c],
         UNCHANGED <<phase, mutex, files, cur, size>>
  PROVE  LockInv' /\ w' \in [Writers -> Call]
<1>1. w' \in [Writers -> Call] /\ w'[p] = c /\ \A q \in Writers \ {p} : w'[q] = w[q]
  BY DEF WriteType
<1>2. mutex # p
  BY DEF LockInv
<1>3. mutex' \in Writers => w'[mutex'].pc = "put"
  BY <1>1, <1>2 DEF LockInv
<1>4. ASSUME NEW q \in Writers, w'[q].pc = "put"
      PROVE  \E done \in Seq(Lsns) : Put(w'[q], done, mutex' = q, files'[cur'].end, size')
  <2>1. CASE q = p
    <3>1. c.chunk = <<>> \o c.left /\ <<>> \in Seq(Lsns)
      BY <1>1, <1>4, <2>1 DEF Call
    <3> QED
      BY <1>1, <1>2, <2>1, <3>1, Zenon DEF Put
  <2>2. CASE q # p
    BY <1>1, <1>4, <2>2 DEF LockInv
  <2> QED
    BY <2>1, <2>2
<1>5. \A q \in Writers : /\ w'[q].pc = "locate" => w'[q].left = w'[q].chunk
                         /\ w'[q].pc = "rotate" => w'[q].batch # <<>>
  BY <1>1 DEF LockInv
<1> QED
  BY <1>1, <1>3, <1>4, <1>5 DEF LockInv

\* A file may be added to, or get longer.
LEMMA FilesAdd ==
  ASSUME NEW fs, FilesOK(fs), NEW n \in Nat \ {0}, NEW f \in File
  PROVE  FilesOK([m \in DOMAIN fs \cup {n} |-> IF m = n THEN f ELSE fs[m]])
<1> DEFINE g == [m \in DOMAIN fs \cup {n} |-> IF m = n THEN f ELSE fs[m]]
<1>1. PICK N \in Nat : DOMAIN fs \subseteq 1..N
  BY DEF FilesOK
<1>2. N + n \in Nat /\ DOMAIN g \subseteq 1..(N + n)
  BY <1>1
<1>3. \A m \in DOMAIN g : g[m] \in File
  BY DEF FilesOK
<1> HIDE DEF g
<1>4. FilesOK(g)
  BY <1>2, <1>3 DEF FilesOK
<1> QED
  BY <1>4 DEF g

\* One file of the directory changes.
LEMMA FilesSet ==
  ASSUME NEW fs, FilesOK(fs), NEW n \in DOMAIN fs, NEW f \in File
  PROVE  /\ FilesOK([fs EXCEPT ![n] = f]) /\ DOMAIN [fs EXCEPT ![n] = f] = DOMAIN fs
         /\ [fs EXCEPT ![n] = f][n] = f
         /\ \A m \in DOMAIN fs : m # n => [fs EXCEPT ![n] = f][m] = fs[m]
  BY DEF FilesOK

\* A call that holds the mutex, or takes it, puts its next row.
LEMMA CallPuts ==
  ASSUME DataFacts, LockInv, WriteType, DiskType, phase = "up", NEW p \in Writers, w[p].pc = "put",
         w[p].left # <<>>, mutex \in {None, p}
  PROVE  \E done \in Seq(Lsns) :
           /\ w[p].chunk = done \o w[p].left
           /\ files[cur].end = size + Bytes(done)
           /\ Head(w[p].left) \in Lsns /\ Tail(w[p].left) \in Seq(Lsns)
           /\ Append(done, Head(w[p].left)) \in Seq(Lsns)
           /\ w[p].chunk = Append(done, Head(w[p].left)) \o Tail(w[p].left)
           /\ Bytes(Append(done, Head(w[p].left))) = Bytes(done) + Size[Head(w[p].left)]
<1>1. PICK done \in Seq(Lsns) : Put(w[p], done, mutex = p, files[cur].end, size)
  BY DEF LockInv
<1>2. w[p].chunk = done \o w[p].left
  BY <1>1 DEF Put
<1>3. files[cur].end = size + Bytes(done)
  <2>1. CASE mutex = p
    BY <1>1, <2>1 DEF Put
  <2>2. CASE mutex # p
    <3>1. done = <<>> /\ files[cur].end = size
      BY <1>1, <2>2 DEF Put, LockInv
    <3>2. size \in Nat
      BY <3>1 DEF DiskType, FilesOK, File
    <3> QED
      BY <3>1, <3>2, BytesEmpty
  <2> QED
    BY <2>1, <2>2
<1>4. w[p].left \in Seq(Lsns)
  BY DEF WriteType, Call
<1>5. PICK l, t : l = Head(w[p].left) /\ t = Tail(w[p].left)
  BY Zenon
<1>6. l \in Lsns /\ t \in Seq(Lsns) /\ w[p].left = <<l>> \o t
  BY <1>4, <1>5
<1>7. /\ Append(done, l) \in Seq(Lsns) /\ Append(done, l) = done \o <<l>> /\ <<l>> \in Seq(Lsns)
      /\ Bytes(Append(done, l)) = Bytes(done) + Size[l]
  BY <1>6, BytesAppend
<1>8. (done \o <<l>>) \o t = done \o (<<l>> \o t)
  BY <1>6, <1>7
<1> QED
  BY <1>2, <1>3, <1>5, <1>6, <1>7, <1>8, Zenon

\* A call of Write starts.
LEMMA TypeWrite ==
  ASSUME TypeInv, NEW p \in Writers, NEW b \in Batches, Write(p, b) PROVE TypeInv'
<1>1. node.lsns \subseteq Lsns
  BY SegmentsAssumption DEF TypeInv, DiskType
<1>2. b \in Seq(Lsns) /\ Range(b) \subseteq Lsns
  BY <1>1, BatchType
<1>3. PICK c : w' = [w EXCEPT ![p] = c] /\ c \in Call /\ c.pc \in {"locate", "cut"}
               /\ (c.pc = "locate" => c.left = c.chunk)
  <2>1. PICK c : c = [Idle EXCEPT !.pc = "locate", !.chunk = b, !.left = b]
    OBVIOUS
  <2>2. PICK d : d = [Idle EXCEPT !.pc = "cut", !.batch = b]
    OBVIOUS
  <2>3. c \in Call /\ c.pc = "locate" /\ c.left = b /\ c.chunk = b /\ d \in Call /\ d.pc = "cut"
    BY <1>2, <2>1, <2>2, IdleType, Zenon DEF Call
  <2>4. CASE Fits(Bytes(b) + Len(b))
    <3>1. w' = [w EXCEPT ![p] = c]
      BY <2>1, <2>4 DEF Write
    <3> QED
      BY <2>3, <3>1, Zenon
  <2>5. CASE ~Fits(Bytes(b) + Len(b))
    <3>1. w' = [w EXCEPT ![p] = d]
      BY <2>2, <2>5 DEF Write
    <3> QED
      BY <2>3, <3>1, Zenon
  <2> QED
    BY <2>4, <2>5
<1>4. phase = "up" /\ w[p].pc = "idle" /\ UNCHANGED <<phase, mutex, files, cur, size>>
  BY DEF Write, diskVars
<1>5. LockInv' /\ w' \in [Writers -> Call]
  BY <1>3, <1>4, CallMoves, Zenon DEF TypeInv
<1>6. used' \subseteq Lsns /\ raced' \in BOOLEAN
  BY <1>2 DEF Write, TypeInv, WriteType
<1> QED
  BY <1>5, <1>6 DEF TypeInv, Write, DiskType, WriteType, IndexType, ReadType, diskVars, indexVars

\* processBatches: the chunk grows, or is complete.
LEMMA TypeCut ==
  ASSUME TypeInv, NEW p \in Writers, Cut(p) PROVE TypeInv'
<1>1. w[p] \in Call
  BY DEF TypeInv, WriteType
<1>2. PICK c : w' = [w EXCEPT ![p] = c] /\ c \in Call /\ c.pc \in {"locate", "cut"}
               /\ (c.pc = "locate" => c.left = c.chunk)
  <2> DEFINE more == w[p].batch # <<>> /\ Fits(Bytes(w[p].chunk) + Size[Head(w[p].batch)])
  <2>1. CASE more
    <3>1. w' = [w EXCEPT ![p] = [w[p] EXCEPT !.chunk = Append(w[p].chunk, Head(w[p].batch)),
                                             !.batch = Tail(w[p].batch)]]
      BY <2>1 DEF Cut
    <3>2. Append(w[p].chunk, Head(w[p].batch)) \in Seq(Lsns) /\ Tail(w[p].batch) \in Seq(Lsns)
      BY <1>1, <2>1 DEF Call
    <3>3. [w[p] EXCEPT !.chunk = Append(w[p].chunk, Head(w[p].batch)),
                       !.batch = Tail(w[p].batch)] \in Call
      BY <1>1, <3>2, Zenon DEF Call
    <3>4. [w[p] EXCEPT !.chunk = Append(w[p].chunk, Head(w[p].batch)),
                       !.batch = Tail(w[p].batch)].pc = "cut"
      BY <1>1 DEF Call, Cut
    <3> QED
      BY <3>1, <3>3, <3>4, Zenon
  <2>2. CASE ~more
    <3>1. PICK c : c = [w[p] EXCEPT !.pc = "locate", !.left = w[p].chunk]
      OBVIOUS
    <3>2. w' = [w EXCEPT ![p] = c]
      BY <2>2, <3>1, Zenon DEF Cut
    <3>3. c \in Call /\ c.pc = "locate" /\ c.left = c.chunk
      BY <1>1, <3>1, Zenon DEF Call
    <3> QED
      BY <3>2, <3>3, Zenon
  <2> QED
    BY <2>1, <2>2
<1>3. phase = "up" /\ w[p].pc = "cut" /\ UNCHANGED <<phase, mutex, files, cur, size>>
  BY DEF Cut, diskVars
<1>4. LockInv' /\ w' \in [Writers -> Call]
  BY <1>2, <1>3, CallMoves, Zenon DEF TypeInv
<1> QED
  BY <1>4 DEF TypeInv, Cut, DiskType, WriteType, IndexType, ReadType, diskVars, indexVars

\* writeBatch reads the name and the size of the segment.
LEMMA TypeLocate ==
  ASSUME TypeInv, NEW p \in Writers, Locate(p) PROVE TypeInv'
<1>1. w[p] \in Call
  BY DEF TypeInv, WriteType
<1>2. cur \in Nat /\ size \in Nat
  BY DEF TypeInv, DiskType, FilesOK
<1>3. PICK c : c = [w[p] EXCEPT !.pc = "put", !.name = cur, !.off = size]
  OBVIOUS
<1>4. w' = [w EXCEPT ![p] = c]
  BY <1>3, Zenon DEF Locate
<1>5. c \in Call /\ c.pc = "put" /\ c.left = w[p].left /\ c.chunk = w[p].chunk
  BY <1>1, <1>2, <1>3, Zenon DEF Call
<1>6. w[p].left = w[p].chunk
  BY DEF TypeInv, LockInv, Locate
<1>7. phase = "up" /\ w[p].pc = "locate" /\ UNCHANGED <<phase, mutex, files, cur, size>>
  BY DEF Locate, diskVars
<1>8. LockInv' /\ w' \in [Writers -> Call]
  BY <1>4, <1>5, <1>6, <1>7, CallMoves, Zenon DEF TypeInv
<1> QED
  BY <1>8 DEF TypeInv, Locate, DiskType, WriteType, IndexType, ReadType, diskVars, indexVars

\* What curSeg.Write makes of the file.
LEMMA PutFile ==
  ASSUME TypeInv, NEW p \in Writers, PutRow(p)
  PROVE  \E l \in Lsns, f \in File :
           /\ l = Head(w[p].left) /\ files' = [files EXCEPT ![cur] = f]
           /\ f.rows = Append(files[cur].rows, [lsn |-> l, off |-> files[cur].end])
           /\ f.end = files[cur].end + Size[l] /\ f.shared = (files[cur].shared \/ raced)
<1>1. files[cur] \in File /\ cur \in DOMAIN files
  BY DEF TypeInv, DiskType, FilesOK
<1>2. PICK l : l = Head(w[p].left)
  OBVIOUS
<1>3. l \in Lsns
  BY <1>2 DEF TypeInv, WriteType, PutRow, Call
<1>4. Size[l] \in Nat /\ files[cur].end \in Nat
  BY <1>1, <1>3, SegmentsAssumption DEF File
<1>5. [lsn |-> l, off |-> files[cur].end] \in Row
  BY <1>3, <1>4 DEF Row
<1>6. Append(files[cur].rows, [lsn |-> l, off |-> files[cur].end]) \in Seq(Row)
  BY <1>1, <1>5 DEF File
<1>7. files[cur].end + Size[l] \in Nat
  BY <1>4
<1>8. (files[cur].shared \/ raced) \in BOOLEAN
  OBVIOUS
<1>9. PICK f : f = [rows |-> Append(files[cur].rows, [lsn |-> l, off |-> files[cur].end]),
                    end |-> files[cur].end + Size[l], shared |-> files[cur].shared \/ raced]
  BY Zenon
<1>10. f \in File
  BY <1>6, <1>7, <1>8, <1>9 DEF File
<1>11. files' = [files EXCEPT ![cur] = f]
  BY <1>2, <1>9 DEF PutRow
<1> QED
  BY <1>2, <1>3, <1>9, <1>10, <1>11, Zenon

\* A row is put, under the mutex.
LEMMA TypePutRow ==
  ASSUME DataFacts, TypeInv, NEW p \in Writers, PutRow(p) PROVE TypeInv'
<1>1. PICK l \in Lsns, f \in File :
        /\ l = Head(w[p].left) /\ files' = [files EXCEPT ![cur] = f]
        /\ f.end = files[cur].end + Size[l]
  BY PutFile, Zenon
<1>2. FilesOK(files) /\ cur \in DOMAIN files /\ size \in 0..files[cur].end /\ files[cur].end \in Nat
  BY DEF TypeInv, DiskType, FilesOK, File
<1>3. FilesOK(files') /\ DOMAIN files' = DOMAIN files /\ files'[cur] = f
  BY <1>1, <1>2, FilesSet, Zenon
<1>4. Size[l] \in Nat /\ cur' = cur /\ size' = size
  BY SegmentsAssumption DEF PutRow
<1>5. size' \in 0..files'[cur'].end
  BY <1>1, <1>2, <1>3, <1>4
<1>6. DiskType'
  BY <1>2, <1>3, <1>4, <1>5 DEF TypeInv, DiskType, PutRow
<1>7. w[p] \in Call /\ w \in [Writers -> Call]
  BY DEF TypeInv, WriteType
<1>8. PICK done \in Seq(Lsns) :
        /\ files[cur].end = size + Bytes(done) /\ Tail(w[p].left) \in Seq(Lsns)
        /\ Append(done, l) \in Seq(Lsns)
        /\ w[p].chunk = Append(done, l) \o Tail(w[p].left)
        /\ Bytes(Append(done, l)) = Bytes(done) + Size[l]
  BY <1>1, CallPuts, Zenon DEF TypeInv, PutRow
<1>9. PICK c : c = [w[p] EXCEPT !.left = Tail(w[p].left)]
  BY Zenon
<1>10. c \in Call /\ c.pc = "put" /\ c.chunk = w[p].chunk /\ c.left = Tail(w[p].left)
  BY <1>7, <1>8, <1>9, Zenon DEF Call, PutRow
<1>11. w' = [w EXCEPT ![p] = c]
  BY <1>9 DEF PutRow
<1>12. w' \in [Writers -> Call] /\ w'[p] = c /\ \A q \in Writers \ {p} : w'[q] = w[q]
  BY <1>7, <1>10, <1>11
<1>13. WriteType'
  BY <1>12 DEF TypeInv, WriteType, PutRow
<1>14. ASSUME NEW q \in Writers, w'[q].pc = "put"
       PROVE  \E d \in Seq(Lsns) : Put(w'[q], d, mutex' = q, files'[cur'].end, size')
  <2>1. CASE q = p
    <3>1. size \in Nat /\ Bytes(done) \in Nat
      BY <1>2, BytesType
    <3>2. files'[cur'].end = size' + Bytes(Append(done, l))
      BY <1>1, <1>3, <1>4, <1>8, <3>1
    <3>3. w'[q].chunk = Append(done, l) \o w'[q].left /\ mutex' = q
      BY <1>8, <1>10, <1>12, <2>1, Zenon DEF PutRow
    <3> QED
      BY <1>8, <3>2, <3>3, Zenon DEF Put
  <2>2. CASE q # p
    <3>1. w'[q] = w[q] /\ mutex # q /\ mutex' # q
      BY <1>12, <2>2, SegmentsAssumption DEF PutRow, Writers
    <3>2. PICK d \in Seq(Lsns) : Put(w[q], d, mutex = q, files[cur].end, size)
      BY <1>14, <3>1 DEF TypeInv, LockInv
    <3> QED
      BY <3>1, <3>2, Zenon DEF Put
  <2> QED
    BY <2>1, <2>2
<1>15. \A q \in Writers : /\ w'[q].pc = "locate" => w'[q].left = w'[q].chunk
                          /\ w'[q].pc = "rotate" => w'[q].batch # <<>>
  BY <1>10, <1>12 DEF TypeInv, LockInv
<1>16. phase' = "up" /\ mutex' = p /\ mutex' # None
  BY SegmentsAssumption DEF PutRow, Writers
<1>17. LockInv'
  BY <1>10, <1>12, <1>14, <1>15, <1>16 DEF LockInv
<1>18. IndexType' /\ ReadType'
  BY <1>3 DEF TypeInv, IndexType, ReadType, PutRow, indexVars
<1> QED
  BY <1>6, <1>13, <1>17, <1>18 DEF TypeInv

\* The chunk is in the file; curSeg.size has caught up with it.
LEMMA Synced ==
  ASSUME DataFacts, TypeInv, NEW p \in Writers, Sync(p)
  PROVE  /\ mutex = p => size' = files[cur].end
         /\ mutex # p => size' = size /\ w[p].chunk = <<>>
<1>1. PICK done \in Seq(Lsns) : Put(w[p], done, mutex = p, files[cur].end, size)
  BY DEF TypeInv, LockInv, Sync
<1>2. w[p].chunk = done
  BY <1>1 DEF Put, Sync
<1>3. size \in Nat
  BY DEF TypeInv, DiskType
<1>4. CASE mutex = p
  BY <1>1, <1>2, <1>4 DEF Put, Sync
<1>5. CASE mutex # p
  BY <1>1, <1>2, <1>3, <1>5, BytesEmpty DEF Put, Sync
<1> QED
  BY <1>4, <1>5

\* The chunk is complete: size catches up with the file.
LEMMA TypeSync ==
  ASSUME DataFacts, TypeInv, NEW p \in Writers, Sync(p) PROVE TypeInv'
<1>1. (mutex = p => size' = files[cur].end) /\ (mutex # p => size' = size)
  BY Synced
<1>2. FilesOK(files) /\ cur \in DOMAIN files /\ size \in 0..files[cur].end /\ files[cur].end \in Nat
  BY DEF TypeInv, DiskType, FilesOK, File
<1>3. size' \in 0..files[cur].end
  BY <1>1, <1>2
<1>4. DiskType'
  BY <1>2, <1>3 DEF TypeInv, DiskType, Sync
<1>5. w[p] \in Call /\ w \in [Writers -> Call]
  BY DEF TypeInv, WriteType
<1>6. PICK c \in Call : /\ w' = [w EXCEPT ![p] = c] /\ c.pc \in {"idle", "rotate"}
                        /\ c.pc = "rotate" => c.batch # <<>>
  <2>1. CASE w[p].batch = <<>>
    BY <2>1, IdleType, Zenon DEF Sync
  <2>2. CASE w[p].batch # <<>>
    <3>1. PICK c : c = [w[p] EXCEPT !.pc = "rotate"]
      BY Zenon
    <3>2. c \in Call /\ c.pc = "rotate" /\ c.batch # <<>>
      BY <1>5, <2>2, <3>1, Zenon DEF Call
    <3> QED
      BY <2>2, <3>1, <3>2, Zenon DEF Sync
  <2> QED
    BY <2>1, <2>2
<1>7. w' \in [Writers -> Call] /\ w'[p] = c /\ \A q \in Writers \ {p} : w'[q] = w[q]
  BY <1>5, <1>6
<1>8. /\ mutex' \in Writers \cup {None, "leaked"} /\ mutex' # p
      /\ mutex' \in Writers => mutex' = mutex
  BY SegmentsAssumption DEF TypeInv, WriteType, Sync, Writers
<1>9. WriteType'
  BY <1>7, <1>8 DEF TypeInv, WriteType, Sync
<1>10. ASSUME NEW q \in Writers, w'[q].pc = "put"
       PROVE  \E d \in Seq(Lsns) : Put(w'[q], d, mutex' = q, files'[cur'].end, size')
  <2>1. q # p /\ w'[q] = w[q]
    BY <1>6, <1>7, <1>10
  <2>2. PICK d \in Seq(Lsns) : Put(w[q], d, mutex = q, files[cur].end, size)
    BY <1>10, <2>1 DEF TypeInv, LockInv
  <2>3. CASE mutex = q
    <3>1. size' = size /\ mutex' = q /\ files' = files /\ cur' = cur
      BY <1>1, <2>1, <2>3 DEF Sync
    <3> QED
      BY <2>1, <2>2, <2>3, <3>1, Zenon DEF Put
  <2>4. CASE mutex # q
    <3>1. mutex' # q
      BY <1>8, <2>4
    <3> QED
      BY <2>1, <2>2, <2>4, <3>1, Zenon DEF Put
  <2> QED
    BY <2>3, <2>4
<1>11. \A q \in Writers : /\ w'[q].pc = "locate" => w'[q].left = w'[q].chunk
                          /\ w'[q].pc = "rotate" => w'[q].batch # <<>>
  BY <1>6, <1>7 DEF TypeInv, LockInv
<1>12. mutex' \in Writers => w'[mutex'].pc = "put"
  BY <1>7, <1>8 DEF TypeInv, LockInv
<1>13. mutex' = None => files'[cur'].end = size'
  BY <1>1 DEF TypeInv, LockInv, Sync
<1>14. LockInv'
  BY <1>10, <1>11, <1>12, <1>13 DEF LockInv, Sync
<1>15. w[p].chunk \in Seq(Lsns) /\ w[p].name \in Nat /\ w[p].off \in Nat
  BY <1>5 DEF Call
<1>16. Entries(w[p]) \in Index
  BY <1>15, EntriesType DEF Entries
<1>17. IndexType'
  BY <1>16 DEF TypeInv, IndexType, Sync
<1>18. ReadType'
  BY DEF TypeInv, ReadType, Sync
<1> QED
  BY <1>4, <1>9, <1>14, <1>17, <1>18 DEF TypeInv

\* A new file, before or after the others.
LEMMA TypeRotate ==
  ASSUME DataFacts, TypeInv, NEW p \in Writers, Rotate(p) PROVE TypeInv'
<1>1. FilesOK(files) /\ cur \in DOMAIN files
  BY DEF TypeInv, DiskType
<1>2. PICK name \in NewNames :
        /\ files' = [n \in DOMAIN files \cup {name} |-> IF n = name THEN EmptyFile ELSE files[n]]
        /\ cur' = name /\ back' = IF back = None /\ name < Max(DOMAIN files) THEN Log ELSE back
  BY DEF Rotate
<1>3. name \in Nat \ {0}
  BY <1>1, LastName DEF NewNames
<1>4. EmptyFile \in File /\ EmptyFile.end = 0
  BY DEF EmptyFile, File
<1>5. FilesOK(files')
  BY <1>1, <1>2, <1>3, <1>4, FilesAdd
<1>6. DOMAIN files' = DOMAIN files \cup {name} /\ files'[name] = EmptyFile /\ size' = 0
  BY <1>2 DEF Rotate, SizeOfNewFile
<1>7. back' = None \/ back' \in Seq(Row)
  <2>1. Log \in Seq(Row)
    BY <1>1, LogType, LogIs
  <2> QED
    BY <1>2, <2>1 DEF TypeInv, DiskType
<1>8. size' \in 0..files'[cur'].end
  BY <1>2, <1>4, <1>6
<1>9. DiskType'
  BY <1>2, <1>5, <1>6, <1>7, <1>8 DEF TypeInv, DiskType, Rotate
<1>10. w[p] \in Call /\ w \in [Writers -> Call] /\ w[p].batch # <<>>
  BY DEF TypeInv, WriteType, LockInv, Rotate
<1>11. <<Head(w[p].batch)>> \in Seq(Lsns) /\ Tail(w[p].batch) \in Seq(Lsns)
  BY <1>10 DEF Call
<1>12. PICK c : c = [Idle EXCEPT !.pc = "cut", !.chunk = <<Head(w[p].batch)>>,
                                 !.batch = Tail(w[p].batch)]
  OBVIOUS
<1>13. c \in Call /\ c.pc = "cut"
  BY <1>11, <1>12, IdleType, Zenon DEF Call
<1>14. w' = [w EXCEPT ![p] = c]
  BY <1>12 DEF Rotate
<1>15. w' \in [Writers -> Call] /\ w'[p] = c /\ \A q \in Writers \ {p} : w'[q] = w[q]
  BY <1>10, <1>13, <1>14
<1>16. WriteType'
  BY <1>15 DEF TypeInv, WriteType, Rotate
<1>17. mutex = None /\ mutex' = None /\ phase = "up" /\ phase' = "up"
  BY DEF Rotate
<1>18. None \notin Writers
  BY SegmentsAssumption DEF Writers
<1>19. ASSUME NEW q \in Writers, w'[q].pc = "put"
       PROVE  \E d \in Seq(Lsns) : Put(w'[q], d, mutex' = q, files'[cur'].end, size')
  <2>1. q # p /\ w'[q] = w[q]
    BY <1>13, <1>15, <1>19
  <2>2. PICK d \in Seq(Lsns) : Put(w[q], d, mutex = q, files[cur].end, size)
    BY <1>19, <2>1 DEF TypeInv, LockInv
  <2> QED
    BY <1>17, <1>18, <2>1, <2>2, Zenon DEF Put
<1>20. \A q \in Writers : /\ w'[q].pc = "locate" => w'[q].left = w'[q].chunk
                          /\ w'[q].pc = "rotate" => w'[q].batch # <<>>
  BY <1>13, <1>15 DEF TypeInv, LockInv
<1>21. files'[cur'].end = size'
  BY <1>2, <1>4, <1>6
<1>22. phase' = "up" /\ (mutex' \in Writers => w'[mutex'].pc = "put")
  BY <1>17, <1>18
<1>23. LockInv'
  BY <1>19, <1>20, <1>21, <1>22 DEF LockInv
<1>24. Seq(DOMAIN files) \subseteq Seq(DOMAIN files')
  BY <1>6
<1>25. IndexType' /\ ReadType'
  BY <1>24 DEF TypeInv, IndexType, ReadType, Rotate, indexVars
<1> QED
  BY <1>9, <1>16, <1>23, <1>25 DEF TypeInv

\* An error leaves the mutex held, by nobody.
LEMMA TypeIOError ==
  ASSUME TypeInv, NEW p \in Writers, IOError(p) PROVE TypeInv'
<1>1. w \in [Writers -> Call]
  BY DEF TypeInv, WriteType
<1>2. PICK c : c = [Idle EXCEPT !.pc = "failed"]
  BY Zenon
<1>3. c \in Call /\ c.pc = "failed" /\ w' = [w EXCEPT ![p] = c]
  BY <1>2, IdleType, Zenon DEF IOError, Call
<1>4. w' \in [Writers -> Call] /\ w'[p] = c /\ \A q \in Writers \ {p} : w'[q] = w[q]
  BY <1>1, <1>3
<1>5. mutex' = "leaked" /\ mutex' \notin Writers /\ mutex' # None /\ phase' = "up"
  BY SegmentsAssumption DEF IOError, Writers
<1>6. \A q \in Writers \ {p} : mutex # q
  BY SegmentsAssumption DEF IOError, Writers
<1>7. ASSUME NEW q \in Writers, w'[q].pc = "put"
      PROVE  \E d \in Seq(Lsns) : Put(w'[q], d, mutex' = q, files'[cur'].end, size')
  <2>1. q # p /\ w'[q] = w[q]
    BY <1>3, <1>4, <1>7
  <2>2. PICK d \in Seq(Lsns) : Put(w[q], d, mutex = q, files[cur].end, size)
    BY <1>7, <2>1 DEF TypeInv, LockInv
  <2> QED
    BY <1>5, <1>6, <2>1, <2>2 DEF Put
<1>8. \A q \in Writers : /\ w'[q].pc = "locate" => w'[q].left = w'[q].chunk
                         /\ w'[q].pc = "rotate" => w'[q].batch # <<>>
  BY <1>3, <1>4 DEF TypeInv, LockInv
<1>9. /\ phase' = "up" /\ (mutex' \in Writers => w'[mutex'].pc = "put")
      /\ mutex' = None => files'[cur'].end = size'
  BY <1>5
<1>10. LockInv'
  BY <1>7, <1>8, <1>9 DEF LockInv
<1>11. WriteType'
  BY <1>4, <1>5 DEF TypeInv, WriteType, IOError
<1> QED
  BY <1>10, <1>11 DEF TypeInv, IOError, DiskType, IndexType, ReadType, diskVars, indexVars

\* The goroutines of the index.
LEMMA TypeAddBatch ==
  ASSUME TypeInv, AddBatch PROVE TypeInv'
<1>1. PICK a \in adds :
        \/ index' = Merge(index, a.entries) /\ adds' = adds \ {a}
        \/ adds' = (adds \ {a}) \cup {[a EXCEPT !.old = index]} /\ UNCHANGED index
        \/ a.old # None /\ index' = Merge(a.old, a.entries) /\ adds' = adds \ {a}
  BY DEF AddBatch
<1>2. a \in [entries : Index, old : Index \cup {None}] /\ index \in Index
      /\ adds \subseteq [entries : Index, old : Index \cup {None}]
  BY DEF TypeInv, IndexType
<1>3. a.entries \in Index /\ a.old \in Index \cup {None}
      /\ [a EXCEPT !.old = index] \in [entries : Index, old : Index \cup {None}]
  BY <1>2
<1>4. IndexType'
  <2>1. CASE index' = Merge(index, a.entries) /\ adds' = adds \ {a}
    BY <1>2, <1>3, <2>1, MergeType DEF IndexType
  <2>2. CASE adds' = (adds \ {a}) \cup {[a EXCEPT !.old = index]} /\ UNCHANGED index
    BY <1>2, <1>3, <2>2 DEF IndexType
  <2>3. CASE a.old # None /\ index' = Merge(a.old, a.entries) /\ adds' = adds \ {a}
    BY <1>2, <1>3, <2>3, MergeType DEF IndexType
  <2> QED
    BY <1>1, <2>1, <2>2, <2>3
<1>5. DiskType' /\ WriteType' /\ ReadType'
  BY DEF TypeInv, AddBatch, DiskType, WriteType, ReadType, diskVars, writeVars
<1>6. LockInv'
  BY DEF TypeInv, AddBatch, LockInv, diskVars, writeVars
<1> QED
  BY <1>4, <1>5, <1>6 DEF TypeInv

\* The replication handler only reads.
LEMMA TypeRead ==
  ASSUME TypeInv, GetIndexAny \/ ReadDirsFrom \/ ReadFile \/ Reply PROVE TypeInv'
<1>1. UNCHANGED <<phase, node, diskVars, writeVars, indexVars, restore, crashes>>
  BY Zenon DEF GetIndexAny, GetIndex, ReadDirsFrom, ReadFile, Reply
<1>2. rd' = [pc |-> rd'.pc, lsn |-> rd'.lsn, off |-> rd'.off, names |-> rd'.names,
             rows |-> rd'.rows, seen |-> rd'.seen]
      /\ rd'.pc \in {"idle", "list", "read", "done"}
  <2>1. CASE GetIndexAny
    BY <2>1, Zenon DEF GetIndexAny, GetIndex, NoRead
  <2>2. CASE ReadDirsFrom
    BY <2>2, Zenon DEF TypeInv, ReadType, ReadDirsFrom
  <2>3. CASE ReadFile
    BY <2>3, Zenon DEF TypeInv, ReadType, ReadFile
  <2>4. CASE Reply
    BY <2>4 DEF Reply, NoRead
  <2> QED
    BY <2>1, <2>2, <2>3, <2>4
<1>3. ReadType'
  BY <1>1, <1>2 DEF TypeInv, ReadType, diskVars
<1>4. LockInv'
  BY <1>1 DEF TypeInv, LockInv, diskVars, writeVars, indexVars
<1> QED
  BY <1>1, <1>3, <1>4 DEF TypeInv, DiskType, WriteType, IndexType, diskVars, writeVars, indexVars

\* A torn write: the file has one byte more.
LEMMA TornFile ==
  ASSUME TypeInv, files' = [files EXCEPT ![cur].end = @ + 1, ![cur].shared = @ \/ raced]
  PROVE  \E f \in File : /\ files' = [files EXCEPT ![cur] = f] /\ f.rows = files[cur].rows
                         /\ f.end = files[cur].end + 1 /\ f.shared = (files[cur].shared \/ raced)
<1>1. files[cur] \in File /\ cur \in DOMAIN files
  BY DEF TypeInv, DiskType, FilesOK
<1>2. PICK f : f = [files[cur] EXCEPT !.end = files[cur].end + 1,
                                      !.shared = files[cur].shared \/ raced]
  OBVIOUS
<1>3. files[cur].end + 1 \in Nat
  BY <1>1 DEF File
<1>4. (files[cur].shared \/ raced) \in BOOLEAN
  OBVIOUS
<1>5. f \in File /\ f.rows = files[cur].rows /\ f.end = files[cur].end + 1
      /\ f.shared = (files[cur].shared \/ raced)
  BY <1>1, <1>2, <1>3, <1>4 DEF File
<1>6. files' = [files EXCEPT ![cur] = f]
  BY <1>1, <1>2, Zenon
<1> QED
  BY <1>5, <1>6, Zenon

\* The end of the process.
LEMMA TypeCrash ==
  ASSUME TypeInv, Crash PROVE TypeInv'
<1>1. FilesOK(files) /\ cur \in DOMAIN files /\ files[cur] \in File
  BY DEF TypeInv, DiskType, FilesOK
<1>2. FilesOK(files') /\ DOMAIN files' = DOMAIN files
  <2>1. CASE UNCHANGED files
    BY <1>1, <2>1
  <2>2. CASE files' = [files EXCEPT ![cur].end = @ + 1, ![cur].shared = @ \/ raced]
    <3>1. PICK f \in File : files' = [files EXCEPT ![cur] = f]
      BY <2>2, TornFile, Zenon
    <3> QED
      BY <1>1, <3>1, FilesSet, Zenon
  <2> QED
    BY <2>1, <2>2 DEF Crash
<1>3. cur' = cur /\ size' = 0 /\ back' = back /\ phase' = "down" /\ node' = node
  BY DEF Crash
<1>4. files'[cur'].end \in Nat
  BY <1>1, <1>2, <1>3 DEF FilesOK, File
<1>5. size' \in 0..files'[cur'].end
  BY <1>3, <1>4
<1>6. DiskType'
  BY <1>1, <1>2, <1>3, <1>5 DEF TypeInv, DiskType
<1>7. w' = [p \in Writers |-> Idle] /\ mutex' = None /\ ~raced' /\ raced' \in BOOLEAN
      /\ adds' = {} /\ used' = used /\ index' = NoEntries
  BY Zenon DEF Crash
<1>8. WriteType'
  BY <1>7, IdleType DEF TypeInv, WriteType
<1>9. IndexType'
  BY <1>7, NoEntriesType DEF IndexType
<1>10. crashes' \in 0..MaxCrashes
  BY SegmentsAssumption DEF TypeInv, ReadType, Crash
<1>11. rd' = NoRead /\ restore' \in Seq(DOMAIN files')
  BY DEF Crash
<1>12. ReadType'
  BY <1>10, <1>11 DEF ReadType, NoRead
<1>13. \A p \in Writers : w'[p] = Idle
  BY <1>7
<1>14. None \notin Writers
  BY SegmentsAssumption DEF Writers
<1>15. LockInv'
  BY <1>3, <1>7, <1>13, <1>14, IdleType DEF LockInv
<1> QED
  BY <1>6, <1>8, <1>9, <1>12, <1>15 DEF TypeInv

\* NewFileSegment opens the last file, and the restore lists the directory.
LEMMA TypeRestart ==
  ASSUME DataFacts, TypeInv, Restart PROVE TypeInv'
<1>1. FilesOK(files) /\ cur \in DOMAIN files
  BY DEF TypeInv, DiskType
<1>2. cur' = Max(DOMAIN files) /\ cur' \in DOMAIN files
  BY <1>1, LastName DEF Restart
<1>3. files' = files /\ size' = files[cur'].end /\ files[cur'].end \in Nat
  BY <1>1, <1>2 DEF Restart, FilesOK, File
<1>4. size' \in 0..files'[cur'].end
  BY <1>3
<1>5. DiskType'
  BY <1>1, <1>2, <1>3, <1>4 DEF TypeInv, DiskType, Restart
<1>6. restore' \in Seq(DOMAIN files')
  BY <1>1, <1>3, DirsType DEF Restart
<1>7. ReadType'
  BY <1>6 DEF TypeInv, ReadType, Restart
<1>8. WriteType' /\ IndexType'
  BY DEF TypeInv, WriteType, IndexType, Restart, writeVars, indexVars
<1>9. /\ mutex' = None /\ ~raced' /\ adds' = {} /\ \A p \in Writers : w'[p] = Idle
      /\ phase' = "restoring"
  BY DEF TypeInv, LockInv, Restart, writeVars, indexVars
<1>10. None \notin Writers
  BY SegmentsAssumption DEF Writers
<1>11. LockInv'
  BY <1>3, <1>9, <1>10, IdleType DEF LockInv
<1> QED
  BY <1>5, <1>7, <1>8, <1>11 DEF TypeInv

\* The restore fills the index, a file at a time.
LEMMA TypeRestore ==
  ASSUME DataFacts, TypeInv, RestoreFile \/ RestoreDone PROVE TypeInv'
<1>1. CASE RestoreFile
  <2>1. PICK name : name = Head(restore)
    OBVIOUS
  <2>2. name \in DOMAIN files /\ Tail(restore) \in Seq(DOMAIN files)
    BY <1>1, <2>1 DEF TypeInv, ReadType, RestoreFile
  <2>3. files[name] \in File /\ name \in Nat
    BY <2>2 DEF TypeInv, DiskType, FilesOK
  <2>4. EntriesOf(Parse(files[name], 0), name, 0) \in Index
    BY <2>3, ParseType, EntriesType
  <2>5. index' \in Index
    BY <1>1, <2>1, <2>4, MergeType DEF TypeInv, IndexType, RestoreFile
  <2>6. IndexType'
    BY <1>1, <2>5 DEF TypeInv, IndexType, RestoreFile
  <2>7. ReadType'
    BY <1>1, <2>1, <2>2 DEF TypeInv, ReadType, RestoreFile, diskVars
  <2>8. LockInv'
    BY <1>1 DEF TypeInv, LockInv, RestoreFile, diskVars, writeVars
  <2> QED
    BY <1>1, <2>6, <2>7, <2>8 DEF TypeInv, DiskType, WriteType, RestoreFile, diskVars, writeVars
<1>2. CASE RestoreDone
  <2>1. UNCHANGED <<node, diskVars, writeVars, indexVars, rd, restore, crashes>>
        /\ phase = "restoring" /\ phase' = "up"
    BY <1>2 DEF RestoreDone
  <2>2. LockInv'
    BY <2>1 DEF TypeInv, LockInv, diskVars, writeVars, indexVars
  <2> QED
    BY <2>1, <2>2
       DEF TypeInv, DiskType, WriteType, IndexType, ReadType, diskVars, writeVars, indexVars
<1> QED
  BY <1>1, <1>2

\* Nothing happens.
LEMMA TypeStutter == TypeInv /\ UNCHANGED vars => TypeInv'
<1> SUFFICES ASSUME TypeInv, UNCHANGED vars PROVE TypeInv'
  OBVIOUS
<1>1. UNCHANGED <<phase, node, files, cur, size, back, used, w, mutex, raced, index, adds, rd,
                  restore, crashes>>
  BY DEF vars, diskVars, writeVars, indexVars
<1>2. LockInv'
  BY <1>1 DEF TypeInv, LockInv
<1> QED
  BY <1>1, <1>2 DEF TypeInv, DiskType, WriteType, IndexType, ReadType

\* Every step keeps the types.
LEMMA TypeStep == ASSUME DataFacts PROVE TypeInv /\ [Next]_vars => TypeInv'
<1> SUFFICES ASSUME TypeInv, [Next]_vars PROVE TypeInv'
  OBVIOUS
<1>1. CASE WriteAny
  BY <1>1, TypeWrite DEF WriteAny
<1>2. CASE \E p \in Writers : Cut(p) \/ Locate(p) \/ PutRow(p)
  BY <1>2, TypeCut, TypeLocate, TypePutRow
<1>3. CASE \E p \in Writers : Sync(p) \/ Rotate(p) \/ IOError(p)
  BY <1>3, TypeSync, TypeRotate, TypeIOError
<1>4. CASE AddBatch
  BY <1>4, TypeAddBatch
<1>5. CASE GetIndexAny \/ ReadDirsFrom \/ ReadFile \/ Reply
  BY <1>5, TypeRead
<1>6. CASE Crash \/ Restart \/ RestoreFile \/ RestoreDone
  BY <1>6, TypeCrash, TypeRestart, TypeRestore
<1>7. CASE UNCHANGED vars
  BY <1>7, TypeStutter
<1> QED
  BY <1>1, <1>2, <1>3, <1>4, <1>5, <1>6, <1>7 DEF Next
-----------------------------------------------------------------------------
(***************************************************************************)
(* max_segment_size.  A call that is alone knows that its chunk fits into  *)
(* the file, or that it is one row that will be the first of the file.     *)
(***************************************************************************)
Alone == \A p, q \in Writers : p # q => w[p].pc = "idle" \/ w[q].pc = "idle"

Room(call, sz, rows) ==
  \/ call.chunk = <<>>
  \/ sz + Bytes(call.chunk) <= MaxSegmentSize
  \/ /\ Len(call.chunk) = 1
     /\ Len(rows) + Len(IF call.pc = "cut" THEN call.chunk ELSE call.left) <= 1

RoomInv ==
  \A p \in Writers : w[p].pc \in {"cut", "locate", "put"} => Room(w[p], size, files[cur].rows)

BoundInv == SegmentBound /\ (~raced => Alone /\ RoomInv)

\* A file that is not too long, for SegmentBound.
Bounded(f) == f.end <= MaxSegmentSize \/ Len(f.rows) <= 1 \/ f.shared

\* A call goes on in the same file, and the others do nothing.
LEMMA RoomMoves ==
  ASSUME TypeInv, BoundInv, NEW p \in Writers, NEW c \in Call, w' = [w EXCEPT ![p] = c],
         w[p].pc # "idle", UNCHANGED <<files, cur, raced>>,
         ~raced /\ c.pc \in {"cut", "locate", "put"} => Room(c, size', files[cur].rows)
  PROVE  BoundInv'
<1>1. w'[p] = c /\ \A q \in Writers \ {p} : w'[q] = w[q]
  BY DEF TypeInv, WriteType
<1>2. SegmentBound'
  BY DEF BoundInv, SegmentBound
<1>3. ASSUME ~raced' PROVE Alone' /\ RoomInv'
  <2>1. ~raced /\ Alone
    BY <1>3 DEF BoundInv
  <2>2. \A q \in Writers \ {p} : w'[q].pc = "idle"
    BY <1>1, <2>1 DEF Alone
  <2>3. Alone'
    BY <2>2 DEF Alone
  <2>4. \A q \in Writers : w'[q].pc \in {"cut", "locate", "put"} => q = p
    BY <2>2
  <2>5. RoomInv'
    BY <1>1, <2>1, <2>4 DEF RoomInv
  <2> QED
    BY <2>3, <2>5
<1> QED
  BY <1>2, <1>3 DEF BoundInv

\* A batch fits as a whole, or is cut from its first row on.
LEMMA BoundWrite ==
  ASSUME DataFacts, TypeInv, BoundInv, NEW p \in Writers, NEW b \in Batches, Write(p, b)
  PROVE  BoundInv'
<1>1. node.lsns \subseteq Lsns
  BY SegmentsAssumption DEF TypeInv, DiskType
<1>2. b \in Seq(Lsns)
  BY <1>1, BatchType
<1>3. size \in Nat /\ Bytes(b) \in Nat /\ Len(b) \in Nat /\ MaxSegmentSize \in Nat
  BY <1>2, BytesType, SegmentsAssumption DEF TypeInv, DiskType
<1>4. PICK c : /\ w' = [w EXCEPT ![p] = c]
               /\ c.chunk = <<>> \/ size + Bytes(c.chunk) <= MaxSegmentSize
  <2>1. PICK c : c = [Idle EXCEPT !.pc = "locate", !.chunk = b, !.left = b]
    OBVIOUS
  <2>2. PICK d : d = [Idle EXCEPT !.pc = "cut", !.batch = b]
    OBVIOUS
  <2>3. c.chunk = b /\ d.chunk = <<>>
    BY <2>1, <2>2 DEF Idle
  <2>4. CASE Fits(Bytes(b) + Len(b))
    <3>1. w' = [w EXCEPT ![p] = c]
      BY <2>1, <2>4 DEF Write
    <3>2. size + Bytes(b) <= MaxSegmentSize
      BY <1>3, <2>4 DEF Fits
    <3> QED
      BY <2>3, <3>1, <3>2, Zenon
  <2>5. CASE ~Fits(Bytes(b) + Len(b))
    <3>1. w' = [w EXCEPT ![p] = d]
      BY <2>2, <2>5 DEF Write
    <3> QED
      BY <2>3, <3>1, Zenon
  <2> QED
    BY <2>4, <2>5
<1>5. w'[p] = c /\ \A q \in Writers \ {p} : w'[q] = w[q]
  BY <1>4 DEF TypeInv, WriteType
<1>6. /\ UNCHANGED <<files, cur, size>>
      /\ raced' = (raced \/ \E q \in Writers \ {p} : w[q].pc # "idle")
  BY DEF Write, diskVars
<1>7. SegmentBound'
  BY <1>6 DEF BoundInv, SegmentBound
<1>8. ASSUME ~raced' PROVE Alone' /\ RoomInv'
  <2>1. \A q \in Writers \ {p} : w'[q].pc = "idle"
    BY <1>5, <1>6, <1>8, Zenon
  <2>2. Alone'
    BY <2>1 DEF Alone
  <2>3. Room(c, size, files[cur].rows)
    BY <1>4, Zenon DEF Room
  <2>4. \A q \in Writers : w'[q].pc \in {"cut", "locate", "put"} => q = p
    BY <2>1
  <2>5. RoomInv'
    BY <1>5, <1>6, <2>3, <2>4 DEF RoomInv
  <2> QED
    BY <2>2, <2>5
<1> QED
  BY <1>7, <1>8 DEF BoundInv

\* processBatches asks Fits for each row but the first after a rotation.
LEMMA BoundCut ==
  ASSUME DataFacts, TypeInv, BoundInv, NEW p \in Writers, Cut(p) PROVE BoundInv'
<1>1. w[p] \in Call /\ w[p].pc = "cut"
  BY DEF TypeInv, WriteType, Cut
<1>2. UNCHANGED <<files, cur, size, raced>>
  BY DEF Cut, diskVars
<1>3. CASE w[p].batch # <<>> /\ Fits(Bytes(w[p].chunk) + Size[Head(w[p].batch)])
  <2>1. PICK l : l = Head(w[p].batch)
    OBVIOUS
  <2>2. PICK c : c = [w[p] EXCEPT !.chunk = Append(w[p].chunk, l), !.batch = Tail(w[p].batch)]
    OBVIOUS
  <2>3. w' = [w EXCEPT ![p] = c]
    BY <1>3, <2>1, <2>2 DEF Cut
  <2>4. l \in Lsns /\ w[p].chunk \in Seq(Lsns) /\ Tail(w[p].batch) \in Seq(Lsns)
        /\ Append(w[p].chunk, l) \in Seq(Lsns)
    BY <1>1, <1>3, <2>1 DEF Call
  <2>5. c \in Call /\ c.chunk = Append(w[p].chunk, l)
    BY <1>1, <2>2, <2>4, Zenon DEF Call
  <2>6. Bytes(c.chunk) = Bytes(w[p].chunk) + Size[l] /\ Bytes(w[p].chunk) \in Nat /\ Size[l] \in Nat
    BY <2>4, <2>5, BytesAppend, BytesType, SegmentsAssumption
  <2>7. size \in Nat /\ MaxSegmentSize \in Nat
    BY SegmentsAssumption DEF TypeInv, DiskType
  <2>8. size + Bytes(c.chunk) <= MaxSegmentSize
    BY <1>3, <2>1, <2>6, <2>7 DEF Fits
  <2>9. Room(c, size', files[cur].rows)
    BY <1>2, <2>8, Zenon DEF Room
  <2> QED
    BY <1>1, <1>2, <2>3, <2>5, <2>9, RoomMoves, Zenon
<1>4. CASE ~(w[p].batch # <<>> /\ Fits(Bytes(w[p].chunk) + Size[Head(w[p].batch)]))
  <2>1. PICK c : c = [w[p] EXCEPT !.pc = "locate", !.left = w[p].chunk]
    OBVIOUS
  <2>2. w' = [w EXCEPT ![p] = c]
    BY <1>4, <2>1, Zenon DEF Cut
  <2>3. c \in Call /\ c.pc = "locate" /\ c.chunk = w[p].chunk /\ c.left = w[p].chunk
    BY <1>1, <2>1, Zenon DEF Call
  <2>4. ~raced => Room(w[p], size, files[cur].rows)
    BY <1>1 DEF BoundInv, RoomInv
  <2>5. ~raced => Room(c, size', files[cur].rows)
    BY <1>1, <1>2, <2>3, <2>4, Zenon DEF Room
  <2> QED
    BY <1>1, <1>2, <2>2, <2>3, <2>5, RoomMoves, Zenon
<1> QED
  BY <1>3, <1>4

\* GetName and CurrentOffset change nothing.
LEMMA BoundLocate ==
  ASSUME TypeInv, BoundInv, NEW p \in Writers, Locate(p) PROVE BoundInv'
<1>1. w[p] \in Call /\ w[p].pc = "locate" /\ cur \in Nat /\ size \in Nat
  BY DEF TypeInv, WriteType, DiskType, FilesOK, Locate
<1>2. UNCHANGED <<files, cur, size, raced>>
  BY DEF Locate, diskVars
<1>3. PICK c : c = [w[p] EXCEPT !.pc = "put", !.name = cur, !.off = size]
  OBVIOUS
<1>4. w' = [w EXCEPT ![p] = c]
  BY <1>3, Zenon DEF Locate
<1>5. c \in Call /\ c.pc = "put" /\ c.left = w[p].left /\ c.chunk = w[p].chunk
  BY <1>1, <1>3, Zenon DEF Call
<1>6. ~raced => Room(w[p], size, files[cur].rows)
  BY <1>1 DEF BoundInv, RoomInv
<1>7. ~raced => Room(c, size', files[cur].rows)
  BY <1>1, <1>2, <1>5, <1>6, Zenon DEF Room
<1> QED
  BY <1>1, <1>2, <1>4, <1>5, <1>7, RoomMoves, Zenon

\* The next row of a call that is alone fits, or is the first of the file.
LEMMA NextRowFits ==
  ASSUME DataFacts, TypeInv, BoundInv, ~raced, phase = "up", NEW p \in Writers, w[p].pc = "put",
         w[p].left # <<>>, mutex \in {None, p}
  PROVE  files[cur].end + Size[Head(w[p].left)] <= MaxSegmentSize \/ files[cur].rows = <<>>
<1>1. PICK l : l = Head(w[p].left)
  OBVIOUS
<1>2. PICK done \in Seq(Lsns) :
        /\ files[cur].end = size + Bytes(done) /\ Tail(w[p].left) \in Seq(Lsns) /\ l \in Lsns
        /\ w[p].chunk = Append(done, l) \o Tail(w[p].left) /\ Append(done, l) \in Seq(Lsns)
        /\ Bytes(Append(done, l)) = Bytes(done) + Size[l]
  BY <1>1, CallPuts, Zenon DEF TypeInv
<1>3. Bytes(Append(done, l)) <= Bytes(w[p].chunk)
  BY <1>2, BytesGrow, Zenon
<1>4. size \in Nat /\ MaxSegmentSize \in Nat /\ Bytes(done) \in Nat /\ Size[l] \in Nat
      /\ Bytes(w[p].chunk) \in Nat
  <2>1. size \in Nat /\ MaxSegmentSize \in Nat /\ Size[l] \in Nat
    BY <1>2, SegmentsAssumption DEF TypeInv, DiskType
  <2>2. w[p].chunk \in Seq(Lsns)
    BY DEF TypeInv, WriteType, Call
  <2> QED
    BY <1>2, <2>1, <2>2, BytesType, Zenon
<1>5. Room(w[p], size, files[cur].rows)
  BY DEF BoundInv, RoomInv
<1>6. w[p].left \in Seq(Lsns) /\ files[cur].rows \in Seq(Row)
  BY DEF TypeInv, DiskType, FilesOK, File, WriteType, Call
<1>7. w[p].chunk # <<>>
  BY <1>2
<1>8. CASE size + Bytes(w[p].chunk) <= MaxSegmentSize
  BY <1>1, <1>2, <1>3, <1>4, <1>8
<1>9. CASE Len(files[cur].rows) + Len(w[p].left) <= 1
  <2>1. PICK a, b \in Nat : a = Len(files[cur].rows) /\ b = Len(w[p].left)
    BY <1>6
  <2>2. b # 0
    BY <1>6, <2>1
  <2>3. a + b <= 1
    BY <1>9, <2>1, Zenon
  <2>4. a = 0
    BY <2>2, <2>3
  <2>5. \A s \in Seq(Row) : Len(s) = 0 => s = <<>>
    OBVIOUS
  <2> QED
    BY <1>6, <2>1, <2>4, <2>5, Zenon
<1> QED
  BY <1>5, <1>7, <1>8, <1>9, Zenon DEF Room

\* A file takes a row, or a part of one.
LEMMA BoundedFiles ==
  ASSUME TypeInv, BoundInv, NEW f, files' = [files EXCEPT ![cur] = f], Bounded(f)
  PROVE  SegmentBound'
  BY DEF TypeInv, DiskType, BoundInv, SegmentBound, Bounded

\* The row that is put fits, or is the first one of its file.
LEMMA BoundPutRow ==
  ASSUME DataFacts, TypeInv, BoundInv, NEW p \in Writers, PutRow(p) PROVE BoundInv'
<1>1. PICK l \in Lsns, f \in File :
        /\ l = Head(w[p].left) /\ files' = [files EXCEPT ![cur] = f]
        /\ f.rows = Append(files[cur].rows, [lsn |-> l, off |-> files[cur].end])
        /\ f.end = files[cur].end + Size[l] /\ f.shared = (files[cur].shared \/ raced)
  BY PutFile, Zenon
<1>2. /\ cur \in DOMAIN files /\ files[cur].rows \in Seq(Row)
      /\ [lsn |-> l, off |-> files[cur].end] \in Row
  BY Zenon DEF TypeInv, DiskType, FilesOK, File, Row
<1>3. Len(f.rows) = Len(files[cur].rows) + 1 /\ Len(files[cur].rows) \in Nat
  BY <1>1, <1>2
<1>4. Bounded(f)
  <2>1. CASE raced
    BY <1>1, <2>1, Zenon DEF Bounded
  <2>2. CASE ~raced
    <3>1. CASE files[cur].end + Size[l] <= MaxSegmentSize
      BY <1>1, <3>1 DEF Bounded
    <3>2. CASE files[cur].rows = <<>>
      BY <1>3, <3>2 DEF Bounded
    <3> QED
      BY <1>1, <2>2, <3>1, <3>2, NextRowFits DEF PutRow
  <2> QED
    BY <2>1, <2>2
<1>5. SegmentBound'
  BY <1>1, <1>4, BoundedFiles, Zenon
<1>6. w[p] \in Call /\ w[p].left # <<>> /\ w[p].pc = "put"
  BY DEF TypeInv, WriteType, PutRow
<1>7. PICK c : c = [w[p] EXCEPT !.left = Tail(w[p].left)]
  BY Zenon
<1>8. w' = [w EXCEPT ![p] = c]
  BY <1>7 DEF PutRow
<1>9. w[p].left \in Seq(Lsns) /\ c.pc = "put" /\ c.chunk = w[p].chunk /\ c.left = Tail(w[p].left)
  BY <1>6, <1>7 DEF Call
<1>10. Len(c.left) = Len(w[p].left) - 1 /\ Len(w[p].left) \in Nat
  BY <1>6, <1>9
<1>11. w'[p] = c /\ \A q \in Writers \ {p} : w'[q] = w[q]
  BY <1>8 DEF TypeInv, WriteType
<1>12. raced' = raced /\ cur' = cur /\ size' = size /\ files'[cur] = f
  BY <1>1, <1>2 DEF PutRow
<1>13. ASSUME ~raced' PROVE Alone' /\ RoomInv'
  <2>1. ~raced /\ Alone /\ Room(w[p], size, files[cur].rows)
    BY <1>6, <1>12, <1>13 DEF BoundInv, RoomInv
  <2>2. \A q \in Writers \ {p} : w'[q].pc = "idle"
    BY <1>6, <1>11, <2>1 DEF Alone
  <2>3. Alone'
    BY <2>2 DEF Alone
  <2>4. Len(f.rows) + Len(c.left) = Len(files[cur].rows) + Len(w[p].left)
    <3>1. PICK a, b \in Nat : a = Len(files[cur].rows) /\ b = Len(w[p].left)
      BY <1>3, <1>10
    <3>2. Len(f.rows) = a + 1 /\ Len(c.left) = b - 1
      BY <1>3, <1>10, <3>1
    <3>3. (a + 1) + (b - 1) = a + b
      OBVIOUS
    <3> QED
      BY <3>1, <3>2, <3>3, Zenon
  <2>5. Room(c, size, f.rows)
    BY <1>6, <1>9, <2>1, <2>4, Zenon DEF Room
  <2>6. \A q \in Writers : w'[q].pc \in {"cut", "locate", "put"} => q = p
    BY <2>2
  <2>7. RoomInv'
    BY <1>11, <1>12, <2>5, <2>6 DEF RoomInv
  <2> QED
    BY <2>3, <2>7
<1> QED
  BY <1>5, <1>13 DEF BoundInv

\* The call waits for a new file, or is over.
LEMMA BoundEnds ==
  ASSUME TypeInv, BoundInv, NEW p \in Writers, Sync(p) \/ IOError(p) PROVE BoundInv'
<1>1. w[p] \in Call /\ w[p].pc # "idle"
  BY DEF TypeInv, WriteType, Sync, IOError
<1>2. UNCHANGED <<files, cur, raced>>
  BY DEF Sync, IOError, diskVars
<1>3. PICK c \in Call : w' = [w EXCEPT ![p] = c] /\ c.pc \in {"idle", "rotate", "failed"}
  <2>1. PICK c : c = [w[p] EXCEPT !.pc = "rotate"]
    BY Zenon
  <2>2. c \in Call /\ c.pc = "rotate"
    BY <1>1, <2>1 DEF Call
  <2>3. PICK d : d = [Idle EXCEPT !.pc = "failed"]
    BY Zenon
  <2>4. d \in Call /\ d.pc = "failed"
    BY <2>3, IdleType, Zenon DEF Call
  <2>5. CASE Sync(p)
    BY <2>1, <2>2, <2>5, IdleType, Zenon DEF Sync
  <2>6. CASE IOError(p)
    BY <2>3, <2>4, <2>6, Zenon DEF IOError
  <2> QED
    BY <2>5, <2>6
<1> QED
  BY <1>1, <1>2, <1>3, RoomMoves, Zenon

\* The first row after a rotation is alone in an empty file, whatever its size.
LEMMA BoundRotate ==
  ASSUME TypeInv, BoundInv, NEW p \in Writers, Rotate(p) PROVE BoundInv'
<1>1. PICK name \in NewNames :
        /\ files' = [n \in DOMAIN files \cup {name} |-> IF n = name THEN EmptyFile ELSE files[n]]
        /\ cur' = name
  BY DEF Rotate
<1>2. Bounded(EmptyFile) /\ EmptyFile.rows = <<>>
  BY SegmentsAssumption DEF Bounded, EmptyFile
<1>3. \A n \in DOMAIN files : Bounded(files[n])
  BY DEF BoundInv, SegmentBound, Bounded
<1>4. \A n \in DOMAIN files' : Bounded(files'[n])
  BY <1>1, <1>2, <1>3
<1>5. SegmentBound'
  BY <1>4 DEF SegmentBound, Bounded
<1>6. PICK c : c = [Idle EXCEPT !.pc = "cut", !.chunk = <<Head(w[p].batch)>>,
                                !.batch = Tail(w[p].batch)]
  OBVIOUS
<1>7. c.pc = "cut" /\ c.chunk = <<Head(w[p].batch)>>
  BY <1>6 DEF Idle
<1>8. w' = [w EXCEPT ![p] = c]
  BY <1>6 DEF Rotate
<1>9. w'[p] = c /\ \A q \in Writers \ {p} : w'[q] = w[q]
  BY <1>8 DEF TypeInv, WriteType
<1>10. files'[cur'].rows = <<>> /\ raced' = raced /\ w[p].pc = "rotate"
  BY <1>1, <1>2 DEF Rotate
<1>11. ASSUME ~raced' PROVE Alone' /\ RoomInv'
  <2>1. Alone
    BY <1>10, <1>11 DEF BoundInv
  <2>2. \A q \in Writers \ {p} : w'[q].pc = "idle"
    BY <1>9, <1>10, <2>1 DEF Alone
  <2>3. Alone'
    BY <2>2 DEF Alone
  <2>4. Len(c.chunk) = 1 /\ Len(files'[cur'].rows) + Len(c.chunk) <= 1
    BY <1>7, <1>10
  <2>5. Room(c, size', files'[cur'].rows)
    BY <1>7, <2>4 DEF Room
  <2>6. \A q \in Writers : w'[q].pc \in {"cut", "locate", "put"} => q = p
    BY <2>2
  <2>7. RoomInv'
    BY <1>9, <2>5, <2>6 DEF RoomInv
  <2> QED
    BY <2>3, <2>7
<1> QED
  BY <1>5, <1>11 DEF BoundInv

\* A torn row takes less than the whole.
LEMMA BoundCrash ==
  ASSUME DataFacts, TypeInv, BoundInv, Crash PROVE BoundInv'
<1>1. \A p \in Writers : w'[p].pc = "idle"
  BY IdleType DEF Crash
<1>2. Alone' /\ RoomInv'
  BY <1>1 DEF Alone, RoomInv
<1>3. CASE UNCHANGED files
  BY <1>2, <1>3 DEF BoundInv, SegmentBound
<1>4. CASE \E p \in Writers : Tearing(p) /\ files' = [files EXCEPT ![cur].end = @ + 1,
                                                          ![cur].shared = @ \/ raced]
  <2>1. PICK p \in Writers : Tearing(p) /\ files' = [files EXCEPT ![cur].end = @ + 1,
                                                          ![cur].shared = @ \/ raced]
    BY <1>4
  <2>2. PICK f \in File : /\ files' = [files EXCEPT ![cur] = f] /\ f.rows = files[cur].rows
                          /\ f.end = files[cur].end + 1 /\ f.shared = (files[cur].shared \/ raced)
    BY <2>1, TornFile, Zenon
  <2>3. PICK l : l = Head(w[p].left)
    OBVIOUS
  <2>4. l \in Lsns
    BY <2>1, <2>3 DEF TypeInv, WriteType, Tearing, Call
  <2>5. Size[l] \in Nat \ {0} /\ files[cur].end \in Nat /\ MaxSegmentSize \in Nat
    BY <2>4, SegmentsAssumption DEF TypeInv, DiskType, FilesOK, File
  <2>6. Bounded(f)
    <3>1. CASE raced
      BY <2>2, <3>1, Zenon DEF Bounded
    <3>2. CASE ~raced
      <4>1. CASE files[cur].end + Size[l] <= MaxSegmentSize
        BY <2>2, <2>5, <4>1 DEF Bounded
      <4>2. CASE files[cur].rows = <<>>
        BY <2>2, <4>2 DEF Bounded
      <4> QED
        BY <2>1, <2>3, <3>2, <4>1, <4>2, NextRowFits DEF Tearing
    <3> QED
      BY <3>1, <3>2
  <2>7. SegmentBound'
    BY <2>2, <2>6, BoundedFiles, Zenon
  <2> QED
    BY <1>2, <2>7 DEF BoundInv
<1> QED
  BY <1>3, <1>4 DEF Crash

\* Nothing is written: neither the files nor the calls change.
LEMMA BoundRest ==
  ASSUME TypeInv, BoundInv,
         AddBatch \/ GetIndexAny \/ ReadDirsFrom \/ ReadFile \/ Reply
           \/ Restart \/ RestoreFile \/ RestoreDone \/ UNCHANGED vars
  PROVE  BoundInv'
<1>1. UNCHANGED <<files, w, raced>>
  BY Zenon DEF AddBatch, GetIndexAny, GetIndex, ReadDirsFrom, ReadFile, Reply, Restart, RestoreFile,
         RestoreDone, vars, diskVars, writeVars
<1>2. SegmentBound' /\ (Alone => Alone')
  BY <1>1 DEF BoundInv, SegmentBound, Alone
<1>3. CASE Restart
  <2>1. \A p \in Writers : w'[p].pc = "idle"
    BY <1>1, <1>3, IdleType DEF TypeInv, LockInv, Restart
  <2>2. Alone' /\ RoomInv'
    BY <2>1 DEF Alone, RoomInv
  <2> QED
    BY <1>2, <2>2 DEF BoundInv
<1>4. CASE ~Restart
  <2>1. cur' = cur /\ size' = size
    BY <1>4, Zenon DEF AddBatch, GetIndexAny, GetIndex, ReadDirsFrom, ReadFile, Reply, RestoreFile,
                RestoreDone, vars, diskVars
  <2>2. RoomInv => RoomInv'
    BY <1>1, <2>1 DEF RoomInv
  <2> QED
    BY <1>1, <1>2, <2>2 DEF BoundInv
<1> QED
  BY <1>3, <1>4

\* An empty file is within the bound.
LEMMA BoundInit == Init => BoundInv
<1> SUFFICES ASSUME Init PROVE BoundInv
  OBVIOUS
<1>1. \A n \in DOMAIN files : files[n] = EmptyFile
  BY DEF Init
<1>2. Bounded(EmptyFile)
  BY SegmentsAssumption DEF Bounded, EmptyFile
<1>3. \A p \in Writers : w[p].pc = "idle"
  BY IdleType DEF Init
<1> QED
  BY <1>1, <1>2, <1>3 DEF BoundInv, SegmentBound, Bounded, Alone, RoomInv

\* Every step keeps the bound.
LEMMA BoundStep == ASSUME DataFacts PROVE TypeInv /\ BoundInv /\ [Next]_vars => BoundInv'
<1> SUFFICES ASSUME TypeInv, BoundInv, [Next]_vars PROVE BoundInv'
  OBVIOUS
<1>1. CASE WriteAny
  BY <1>1, BoundWrite DEF WriteAny
<1>2. CASE \E p \in Writers : Cut(p) \/ Locate(p) \/ PutRow(p)
  BY <1>2, BoundCut, BoundLocate, BoundPutRow
<1>3. CASE \E p \in Writers : Sync(p) \/ Rotate(p) \/ IOError(p)
  BY <1>3, BoundEnds, BoundRotate
<1>4. CASE Crash
  BY <1>4, BoundCrash
<1>5. CASE AddBatch \/ GetIndexAny \/ ReadDirsFrom \/ ReadFile \/ Reply
             \/ Restart \/ RestoreFile \/ RestoreDone \/ UNCHANGED vars
  BY <1>5, BoundRest
<1> QED
  BY <1>1, <1>2, <1>3, <1>4, <1>5 DEF Next
-----------------------------------------------------------------------------
(***************************************************************************)
(* The log of a directory.                                                 *)
(***************************************************************************)
\* The last of some sequences comes last.
LEMMA ConcatLast ==
  ASSUME DataFacts, NEW S, NEW m \in Nat, NEW f \in [1..(m + 1) -> Seq(S)]
  PROVE  /\ Concat(f) = Concat([n \in 1..m |-> f[n]]) \o f[m + 1]
         /\ Concat([n \in 1..m |-> f[n]]) \in Seq(S)
<1> DEFINE h == [n \in 1..m |-> f[n]]
<1>1. h \in [1..m -> Seq(S)] /\ f[m + 1] \in Seq(S)
  OBVIOUS
<1>2. \A n \in 1..m : h[n] = f[n]
  OBVIOUS
<1> HIDE DEF h
<1>3. h \in Seq(Seq(S)) /\ Len(h) = m
  BY <1>1
<1> DEFINE a == Append(h, f[m + 1])
<1>4. a \in Seq(Seq(S)) /\ Len(a) = m + 1 /\ a[m + 1] = f[m + 1] /\ \A n \in 1..m : a[n] = h[n]
  BY <1>1, <1>3
<1>5. f \in Seq(Seq(S)) /\ Len(f) = m + 1
  OBVIOUS
<1> HIDE DEF a
<1>6. ASSUME NEW n \in 1..(m + 1) PROVE f[n] = a[n]
  <2>1. n \in 1..m \/ n = m + 1
    OBVIOUS
  <2> QED
    BY <1>2, <1>4, <2>1
<1>7. f = a
  BY <1>4, <1>5, <1>6
<1>8. Concat(a) = Concat(h) \o f[m + 1]
  BY <1>1, <1>3, ConcatMore DEF a
<1>9. Concat(h) \in Seq(S)
  BY <1>3, ConcatType
<1> QED
  BY <1>7, <1>8, <1>9 DEF h

\* The files before the last one, and the last one.
LEMMA LogLast ==
  ASSUME DataFacts, NEW fs, FilesOK(fs), NEW m \in Nat, m + 1 = Max(DOMAIN fs)
  PROVE  /\ LogOf(fs) = Concat([n \in 1..m |-> RowsOf(fs, n)]) \o RowsOf(fs, m + 1)
         /\ Concat([n \in 1..m |-> RowsOf(fs, n)]) \in Seq(Row)
<1> DEFINE f == [n \in 1..(m + 1) |-> RowsOf(fs, n)]
<1>1. f \in [1..(m + 1) -> Seq(Row)]
  BY RowsType
<1>2. f[m + 1] = RowsOf(fs, m + 1) /\ \A n \in 1..m : f[n] = RowsOf(fs, n)
  OBVIOUS
<1>3. LogOf(fs) = Concat(f)
  BY DEF LogOf
<1> HIDE DEF f
<1>4. [n \in 1..m |-> f[n]] = [n \in 1..m |-> RowsOf(fs, n)]
  BY <1>2
<1> QED
  BY <1>1, <1>2, <1>3, <1>4, ConcatLast, Zenon

\* The name of the last file, as a successor.
LEMMA LastFile ==
  ASSUME DataFacts, NEW fs, FilesOK(fs), NEW c \in DOMAIN fs
  PROVE  \E m \in Nat : m + 1 = Max(DOMAIN fs) /\ m + 1 \in DOMAIN fs
                        /\ \A n \in DOMAIN fs : n \in 1..(m + 1)
<1>1. /\ Max(DOMAIN fs) \in DOMAIN fs /\ Max(DOMAIN fs) \in Nat \ {0}
      /\ \A n \in DOMAIN fs : n \in 1..Max(DOMAIN fs)
  BY LastName
<1>2. PICK k \in Nat \ {0} : k = Max(DOMAIN fs)
  BY <1>1
<1>3. k - 1 \in Nat /\ (k - 1) + 1 = k
  OBVIOUS
<1> QED
  BY <1>1, <1>2, <1>3

\* A row at the end of the last file is at the end of the log.
LEMMA LogPut ==
  ASSUME DataFacts, NEW fs, FilesOK(fs), NEW c \in DOMAIN fs, c = Max(DOMAIN fs), NEW file \in File,
         NEW row \in Row, file.rows = Append(fs[c].rows, row)
  PROVE  LogOf([fs EXCEPT ![c] = file]) = Append(LogOf(fs), row)
<1>1. PICK m \in Nat : m + 1 = c /\ \A n \in DOMAIN fs : n \in 1..(m + 1)
  BY LastFile
<1> DEFINE gs == [fs EXCEPT ![c] = file]
           h == Concat([n \in 1..m |-> RowsOf(fs, n)])
<1>2. /\ FilesOK(gs) /\ DOMAIN gs = DOMAIN fs /\ gs[c] = file
      /\ \A n \in DOMAIN fs : n # c => gs[n] = fs[n]
  BY FilesSet
<1> HIDE DEF gs
<1>3. RowsOf(gs, c) = Append(fs[c].rows, row) /\ RowsOf(fs, c) = fs[c].rows
  BY <1>2 DEF RowsOf
<1>4. ASSUME NEW n \in 1..m PROVE RowsOf(gs, n) = RowsOf(fs, n)
  <2>1. n # c
    BY <1>1
  <2> QED
    BY <1>2, <2>1 DEF RowsOf
<1>5. [n \in 1..m |-> RowsOf(gs, n)] = [n \in 1..m |-> RowsOf(fs, n)]
  BY <1>4
<1>6. LogOf(fs) = h \o fs[c].rows /\ h \in Seq(Row)
  BY <1>1, <1>3, LogLast, Zenon
<1>7. LogOf(gs) = h \o Append(fs[c].rows, row)
  <2>1. m + 1 = Max(DOMAIN gs) /\ FilesOK(gs)
    BY <1>1, <1>2
  <2>2. LogOf(gs) = Concat([n \in 1..m |-> RowsOf(gs, n)]) \o RowsOf(gs, m + 1)
    BY <2>1, LogLast
  <2> QED
    BY <1>1, <1>3, <1>5, <2>2, Zenon
<1> HIDE DEF h
<1>8. PICK r \in Seq(Row) : r = fs[c].rows
  BY DEF FilesOK, File
<1>9. h \o Append(fs[c].rows, row) = Append(h \o fs[c].rows, row)
  <2>1. h \o Append(r, row) = Append(h \o r, row)
    BY <1>6
  <2> QED
    BY <1>8, <2>1, Zenon
<1> QED
  BY <1>6, <1>7, <1>9, Zenon DEF gs

\* A new last file is empty.
LEMMA LogNew ==
  ASSUME DataFacts, NEW fs, FilesOK(fs), NEW c \in DOMAIN fs, NEW name, name = Max(DOMAIN fs) + 1,
         NEW gs, gs = [n \in DOMAIN fs \cup {name} |-> IF n = name THEN EmptyFile ELSE fs[n]]
  PROVE  LogOf(gs) = LogOf(fs) /\ Max(DOMAIN gs) = name
<1>1. PICK m \in Nat : m + 1 = Max(DOMAIN fs) /\ \A n \in DOMAIN fs : n \in 1..(m + 1)
  BY LastFile
<1>2. name \in Nat \ {0} /\ m + 1 \in Nat /\ name = (m + 1) + 1 /\ name \notin 1..(m + 1)
  BY <1>1
<1>3. EmptyFile \in File /\ EmptyFile.rows = <<>>
  BY DEF EmptyFile, File
<1>4. name \in DOMAIN gs /\ \A n \in DOMAIN gs : n \in 1..(m + 1) \/ n = name
  BY <1>1
<1>5. FilesOK(gs)
  <2>1. DOMAIN gs \subseteq 1..name
    BY <1>2, <1>4
  <2>2. \A n \in DOMAIN gs : gs[n] \in File
    BY <1>3 DEF FilesOK
  <2> QED
    BY <1>2, <2>1, <2>2 DEF FilesOK
<1>6. Max(DOMAIN gs) = name
  <2>1. PICK k \in Nat \ {0} : k = Max(DOMAIN gs)
    BY <1>4, <1>5, LastName
  <2>2. k \in DOMAIN gs /\ name \in 1..k
    BY <1>4, <1>5, <2>1, LastName
  <2>3. k = name
    BY <1>2, <1>4, <2>2
  <2> QED
    BY <2>1, <2>3
<1>7. ASSUME NEW n \in 1..(m + 1) PROVE RowsOf(gs, n) = RowsOf(fs, n)
  <2>1. n # name
    BY <1>2
  <2> QED
    BY <2>1 DEF RowsOf
<1>8. [n \in 1..(m + 1) |-> RowsOf(gs, n)] = [n \in 1..(m + 1) |-> RowsOf(fs, n)]
  BY <1>7
<1>9. LogOf(fs) = Concat([n \in 1..(m + 1) |-> RowsOf(fs, n)])
  BY <1>1 DEF LogOf
<1>10. RowsOf(gs, (m + 1) + 1) = <<>>
  BY <1>2, <1>3, <1>4 DEF RowsOf
<1>11. /\ LogOf(gs) = Concat([n \in 1..(m + 1) |-> RowsOf(gs, n)]) \o RowsOf(gs, (m + 1) + 1)
       /\ Concat([n \in 1..(m + 1) |-> RowsOf(gs, n)]) \in Seq(Row)
  BY <1>2, <1>5, <1>6, LogLast, Zenon
<1>12. LogOf(gs) = LogOf(fs) \o <<>> /\ LogOf(fs) \in Seq(Row)
  BY <1>8, <1>9, <1>10, <1>11, Zenon
<1>13. LogOf(fs) \o <<>> = LogOf(fs)
  BY <1>12
<1> QED
  BY <1>6, <1>12, <1>13

\* The log is in the rows, whatever lies between them.
LEMMA LogSame ==
  ASSUME NEW fs, NEW gs, DOMAIN gs = DOMAIN fs, \A n \in DOMAIN fs : gs[n].rows = fs[n].rows
  PROVE  LogOf(gs) = LogOf(fs)
<1>1. \A n : RowsOf(gs, n) = RowsOf(fs, n)
  BY DEF RowsOf
<1> QED
  BY <1>1, Zenon DEF LogOf
-----------------------------------------------------------------------------
(***************************************************************************)
(* The rows that a call of Write has still to put.  No row is in two       *)
(* calls, twice in one, or in a call and in the log: so the LSNs of the    *)
(* log stay distinct.                                                      *)
(***************************************************************************)
Ahead(call) ==
  IF call.pc = "cut" THEN call.chunk ELSE IF call.pc = "rotate" THEN <<>> ELSE call.left

Pending(call) == Ahead(call) \o call.batch

Once(s) == \A i, j \in 1..Len(s) : s[i] = s[j] => i = j

PendInv ==
  /\ \A p \in Writers : Range(Pending(w[p])) \subseteq used /\ Once(Pending(w[p]))
  /\ \A p, q \in Writers : p # q => Range(Pending(w[p])) \cap Range(Pending(w[q])) = {}

LsnsOf(rows) == {rows[i].lsn : i \in 1..Len(rows)}

LogInv ==
  back = None =>
    /\ cur = Max(DOMAIN files) /\ DiskLog!LsnUnique(LogOf(files))
    /\ LsnsOf(LogOf(files)) \subseteq used
    /\ \A p \in Writers : LsnsOf(LogOf(files)) \cap Range(Pending(w[p])) = {}

\* The rows of a call are a sequence.
LEMMA PendingType == ASSUME NEW c \in Call PROVE Pending(c) \in Seq(Lsns)
  BY DEF Pending, Ahead, Call

\* Nothing is left to put.
LEMMA NoneLeft == Range(<<>>) = {} /\ Once(<<>>)
  BY DEF Range, Once

\* The log of a row more.
LEMMA LsnsMore ==
  ASSUME NEW rows \in Seq(Row), NEW row \in Row
  PROVE  LsnsOf(Append(rows, row)) = LsnsOf(rows) \cup {row.lsn}
<1> DEFINE a == Append(rows, row)
<1>1. PICK n \in Nat : n = Len(rows)
  OBVIOUS
<1>2. Len(a) = n + 1 /\ a[n + 1] = row /\ \A i \in 1..n : a[i] = rows[i]
  BY <1>1
<1>3. 1..(n + 1) = 1..n \cup {n + 1}
  OBVIOUS
<1> HIDE DEF a
<1>4. LsnsOf(a) = {a[i].lsn : i \in 1..(n + 1)} /\ LsnsOf(rows) = {rows[i].lsn : i \in 1..n}
  BY <1>1, <1>2 DEF LsnsOf
<1>5. {a[i].lsn : i \in 1..(n + 1)} = {rows[i].lsn : i \in 1..n} \cup {row.lsn}
  BY <1>2, <1>3
<1> QED
  BY <1>4, <1>5, Zenon DEF a

\* A new LSN at the end keeps the LSNs distinct.
LEMMA UniqueMore ==
  ASSUME NEW rows \in Seq(Row), NEW row \in Row, DiskLog!LsnUnique(rows),
         row.lsn \notin LsnsOf(rows)
  PROVE  DiskLog!LsnUnique(Append(rows, row))
<1> DEFINE a == Append(rows, row)
<1>1. PICK n \in Nat : n = Len(rows)
  OBVIOUS
<1>2. DOMAIN a = 1..(n + 1) /\ a[n + 1] = row /\ \A i \in 1..n : a[i] = rows[i]
  BY <1>1
<1>3. DOMAIN rows = 1..n
  BY <1>1
<1> HIDE DEF a
<1>4. \A i \in 1..n : a[i].lsn # row.lsn
  BY <1>1, <1>2 DEF LsnsOf
<1>5. \A i, j \in 1..n : a[i].lsn = a[j].lsn => i = j
  BY <1>2, <1>3 DEF DiskLog!LsnUnique
<1>6. \A i \in 1..(n + 1) : i \in 1..n \/ i = n + 1
  OBVIOUS
<1>7. \A i, j \in 1..(n + 1) : a[i].lsn = a[j].lsn => i = j
  BY <1>2, <1>4, <1>5, <1>6
<1>8. DiskLog!LsnUnique(a)
  BY <1>2, <1>7 DEF DiskLog!LsnUnique
<1> QED
  BY <1>8 DEF a

\* The first of some distinct rows, and the others.
LEMMA OnceTail ==
  ASSUME NEW S, NEW s \in Seq(S), s # <<>>, Once(s)
  PROVE  /\ Once(Tail(s)) /\ Range(Tail(s)) \subseteq Range(s)
         /\ Head(s) \in Range(s) /\ Head(s) \notin Range(Tail(s))
<1>1. PICK n \in Nat : Len(s) = n + 1
  <2>1. Len(s) \in Nat /\ Len(s) # 0
    OBVIOUS
  <2>2. Len(s) - 1 \in Nat /\ Len(s) = (Len(s) - 1) + 1
    BY <2>1
  <2> QED
    BY <2>2, Zenon
<1> DEFINE t == Tail(s)
<1>2. Len(t) = n /\ DOMAIN t = 1..n /\ \A i \in 1..n : t[i] = s[i + 1]
  BY <1>1
<1>3. Head(s) = s[1] /\ DOMAIN s = 1..(n + 1)
  BY <1>1
<1> HIDE DEF t
<1>4. \A i \in 1..n : i + 1 \in 1..(n + 1) /\ i + 1 # 1
  OBVIOUS
<1>5. 1 \in 1..(n + 1) /\ \A i, j \in 1..n : i + 1 = j + 1 => i = j
  OBVIOUS
<1>6. \A i, j \in 1..(n + 1) : s[i] = s[j] => i = j
  BY <1>1 DEF Once
<1>7. Once(t)
  <2>1. ASSUME NEW i \in 1..n, NEW j \in 1..n, t[i] = t[j] PROVE i = j
    <3>1. i + 1 \in 1..(n + 1) /\ j + 1 \in 1..(n + 1) /\ s[i + 1] = s[j + 1]
      BY <1>2, <1>4, <2>1
    <3>2. i + 1 = j + 1
      BY <1>6, <3>1
    <3> QED
      BY <3>2
  <2> QED
    BY <1>2, <2>1 DEF Once
<1>8. Range(t) \subseteq Range(s) /\ s[1] \in Range(s)
  BY <1>2, <1>3, <1>4, <1>5 DEF Range
<1>9. s[1] \notin Range(t)
  BY <1>2, <1>4, <1>5, <1>6 DEF Range
<1> QED
  BY <1>3, <1>7, <1>8, <1>9 DEF t

\* A call takes a step: it keeps or drops rows that it has to put.
LEMMA PendMoves ==
  ASSUME TypeInv, PendInv, NEW p \in Writers, NEW c \in Call, w' = [w EXCEPT ![p] = c],
         Range(Pending(c)) \subseteq Range(Pending(w[p])), Once(Pending(c)), used' = used
  PROVE  /\ PendInv'
         /\ \A q \in Writers : Range(Pending(w'[q])) \subseteq Range(Pending(w[q]))
<1>1. w'[p] = c /\ \A q \in Writers \ {p} : w'[q] = w[q]
  BY DEF TypeInv, WriteType
<1>2. \A q \in Writers : /\ Range(Pending(w'[q])) \subseteq Range(Pending(w[q]))
                         /\ Once(Pending(w'[q]))
  BY <1>1 DEF PendInv
<1> QED
  BY <1>2 DEF PendInv

\* Nothing is written meanwhile.
LEMMA LogStays ==
  ASSUME LogInv, UNCHANGED <<files, cur, back, used>>,
         \A q \in Writers : Range(Pending(w'[q])) \subseteq Range(Pending(w[q]))
  PROVE  LogInv'
  BY DEF LogInv

\* A chunk is cut off the batch, located, or synced: the same rows are left.
LEMMA CallCuts ==
  ASSUME TypeInv, NEW p \in Writers, Cut(p)
  PROVE  \E c \in Call : w' = [w EXCEPT ![p] = c] /\ Pending(c) = Pending(w[p])
<1>1. w[p] \in Call /\ w[p].pc = "cut"
  BY DEF TypeInv, WriteType, Cut
<1>2. Pending(w[p]) = w[p].chunk \o w[p].batch
  BY <1>1 DEF Pending, Ahead
<1>3. CASE w[p].batch # <<>> /\ Fits(Bytes(w[p].chunk) + Size[Head(w[p].batch)])
  <2>1. PICK c : c = [w[p] EXCEPT !.chunk = Append(w[p].chunk, Head(w[p].batch)),
                                  !.batch = Tail(w[p].batch)]
    OBVIOUS
  <2>2. w' = [w EXCEPT ![p] = c]
    BY <1>3, <2>1 DEF Cut
  <2>3. Append(w[p].chunk, Head(w[p].batch)) \in Seq(Lsns) /\ Tail(w[p].batch) \in Seq(Lsns)
    BY <1>1, <1>3 DEF Call
  <2>4. /\ c \in Call /\ c.pc = "cut" /\ c.batch = Tail(w[p].batch)
        /\ c.chunk = Append(w[p].chunk, Head(w[p].batch))
    BY <1>1, <2>1, <2>3, Zenon DEF Call
  <2>5. Append(w[p].chunk, Head(w[p].batch)) \o Tail(w[p].batch) = w[p].chunk \o w[p].batch
    <3>1. PICK s \in Seq(Lsns), t \in Seq(Lsns) : s = w[p].chunk /\ t = w[p].batch
      BY <1>1 DEF Call
    <3>2. t # <<>> => Append(s, Head(t)) \o Tail(t) = s \o t
      OBVIOUS
    <3> QED
      BY <1>3, <3>1, <3>2, Zenon
  <2>6. Pending(c) = Append(w[p].chunk, Head(w[p].batch)) \o Tail(w[p].batch)
    BY <2>4 DEF Pending, Ahead
  <2> QED
    BY <1>2, <2>2, <2>4, <2>5, <2>6, Zenon
<1>4. CASE ~(w[p].batch # <<>> /\ Fits(Bytes(w[p].chunk) + Size[Head(w[p].batch)]))
  <2>1. PICK c : c = [w[p] EXCEPT !.pc = "locate", !.left = w[p].chunk]
    OBVIOUS
  <2>2. w' = [w EXCEPT ![p] = c]
    BY <1>4, <2>1, Zenon DEF Cut
  <2>3. c \in Call /\ c.pc = "locate" /\ c.left = w[p].chunk /\ c.batch = w[p].batch
    BY <1>1, <2>1, Zenon DEF Call
  <2>4. Pending(c) = w[p].chunk \o w[p].batch
    BY <2>3 DEF Pending, Ahead
  <2> QED
    BY <1>2, <2>2, <2>3, <2>4, Zenon
<1> QED
  BY <1>3, <1>4

\* writeBatch reads name and offset; an error drops the call.
LEMMA CallLocates ==
  ASSUME TypeInv, NEW p \in Writers, Locate(p)
  PROVE  \E c \in Call : w' = [w EXCEPT ![p] = c] /\ Pending(c) = Pending(w[p])
<1>1. w[p] \in Call /\ w[p].pc = "locate" /\ cur \in Nat /\ size \in Nat
  BY DEF TypeInv, WriteType, DiskType, FilesOK, Locate
<1>2. PICK c : c = [w[p] EXCEPT !.pc = "put", !.name = cur, !.off = size]
  OBVIOUS
<1>3. w' = [w EXCEPT ![p] = c]
  BY <1>2, Zenon DEF Locate
<1>4. c \in Call /\ c.pc = "put" /\ c.left = w[p].left /\ c.batch = w[p].batch
  BY <1>1, <1>2, Zenon DEF Call
<1>5. Pending(c) = Pending(w[p])
  BY <1>1, <1>4 DEF Pending, Ahead
<1> QED
  BY <1>3, <1>4, <1>5, Zenon

\* The chunk is complete.
LEMMA CallSyncs ==
  ASSUME TypeInv, NEW p \in Writers, Sync(p)
  PROVE  \E c \in Call : w' = [w EXCEPT ![p] = c] /\ Pending(c) = Pending(w[p])
<1>1. w[p] \in Call /\ w[p].pc = "put" /\ w[p].left = <<>> /\ w[p].batch \in Seq(Lsns)
  BY DEF TypeInv, WriteType, Sync, Call
<1>2. Pending(w[p]) = <<>> \o w[p].batch /\ <<>> \o w[p].batch = w[p].batch
  BY <1>1 DEF Pending, Ahead
<1>3. CASE w[p].batch = <<>>
  <2>1. w' = [w EXCEPT ![p] = Idle]
    BY <1>3 DEF Sync
  <2>2. Pending(Idle) = <<>>
    BY DEF Pending, Ahead, Idle
  <2> QED
    BY <1>2, <1>3, <2>1, <2>2, IdleType, Zenon
<1>4. CASE w[p].batch # <<>>
  <2>1. PICK c : c = [w[p] EXCEPT !.pc = "rotate"]
    BY Zenon
  <2>2. c \in Call /\ c.pc = "rotate" /\ c.batch = w[p].batch
    BY <1>1, <2>1 DEF Call
  <2>3. w' = [w EXCEPT ![p] = c]
    BY <1>4, <2>1 DEF Sync
  <2>4. Pending(c) = <<>> \o w[p].batch
    BY <2>2 DEF Pending, Ahead
  <2> QED
    BY <1>2, <2>2, <2>3, <2>4, Zenon
<1> QED
  BY <1>3, <1>4

\* The first row after a rotation joins the chunk.
LEMMA CallRotates ==
  ASSUME TypeInv, NEW p \in Writers, Rotate(p)
  PROVE  \E c \in Call : w' = [w EXCEPT ![p] = c] /\ Pending(c) = Pending(w[p])
<1>1. /\ w[p] \in Call /\ w[p].pc = "rotate" /\ w[p].batch \in Seq(Lsns) /\ w[p].batch # <<>>
  BY DEF TypeInv, WriteType, LockInv, Rotate, Call
<1>2. Pending(w[p]) = <<>> \o w[p].batch
  BY <1>1 DEF Pending, Ahead
<1>3. PICK b \in Seq(Lsns) : b = w[p].batch
  BY <1>1
<1>4. <<Head(b)>> \in Seq(Lsns) /\ Tail(b) \in Seq(Lsns)
  BY <1>1, <1>3
<1>5. PICK c : c = [Idle EXCEPT !.pc = "cut", !.chunk = <<Head(b)>>, !.batch = Tail(b)]
  OBVIOUS
<1>6. c \in Call /\ c.pc = "cut" /\ c.chunk = <<Head(b)>> /\ c.batch = Tail(b)
  BY <1>4, <1>5, IdleType, Zenon DEF Call
<1>7. w' = [w EXCEPT ![p] = c]
  BY <1>3, <1>5 DEF Rotate
<1>8. Pending(c) = <<Head(b)>> \o Tail(b)
  BY <1>6 DEF Pending, Ahead
<1>9. b # <<>> => <<Head(b)>> \o Tail(b) = <<>> \o b
  OBVIOUS
<1> QED
  BY <1>1, <1>2, <1>3, <1>6, <1>7, <1>8, <1>9, Zenon

\* A row leaves the call for the file.
LEMMA CallPutsRow ==
  ASSUME TypeInv, NEW p \in Writers, PutRow(p)
  PROVE  \E c \in Call : /\ w' = [w EXCEPT ![p] = c] /\ Pending(w[p]) # <<>>
                         /\ Pending(c) = Tail(Pending(w[p]))
                         /\ Head(Pending(w[p])) = Head(w[p].left)
<1>1. /\ w[p] \in Call /\ w[p].pc = "put" /\ w[p].left \in Seq(Lsns) /\ w[p].left # <<>>
      /\ w[p].batch \in Seq(Lsns)
  BY DEF TypeInv, WriteType, PutRow, Call
<1>2. PICK s \in Seq(Lsns), t \in Seq(Lsns) : s = w[p].left /\ t = w[p].batch
  BY <1>1
<1>3. Pending(w[p]) = s \o t
  BY <1>1, <1>2 DEF Pending, Ahead
<1>4. PICK c : c = [w[p] EXCEPT !.left = Tail(s)]
  BY Zenon
<1>5. Tail(s) \in Seq(Lsns)
  BY <1>1, <1>2
<1>6. c \in Call /\ c.pc = "put" /\ c.left = Tail(s) /\ c.batch = t
  BY <1>1, <1>2, <1>4, <1>5, Zenon DEF Call
<1>7. w' = [w EXCEPT ![p] = c]
  BY <1>2, <1>4 DEF PutRow
<1>8. Pending(c) = Tail(s) \o t
  BY <1>6 DEF Pending, Ahead
<1>9. s # <<>> => s \o t # <<>> /\ Tail(s \o t) = Tail(s) \o t /\ Head(s \o t) = Head(s)
  OBVIOUS
<1> QED
  BY <1>1, <1>2, <1>3, <1>6, <1>7, <1>8, <1>9, Zenon

\* An error drops the rows of the call.
LEMMA CallFails ==
  ASSUME TypeInv, NEW p \in Writers, IOError(p)
  PROVE  \E c \in Call : w' = [w EXCEPT ![p] = c] /\ Pending(c) = <<>>
<1>1. PICK c : c = [Idle EXCEPT !.pc = "failed"]
  BY Zenon
<1>2. c \in Call /\ w' = [w EXCEPT ![p] = c]
  BY <1>1, IdleType, Zenon DEF IOError, Call
<1>3. c.pc = "failed" /\ c.left = <<>> /\ c.batch = <<>>
  BY <1>1 DEF Idle
<1>4. Pending(c) = <<>>
  BY <1>3 DEF Pending, Ahead
<1> QED
  BY <1>2, <1>4, Zenon

\* A call of Write begins with all the rows of its batch.
LEMMA CallBegins ==
  ASSUME TypeInv, NEW p \in Writers, NEW b \in Seq(Lsns), Write(p, b)
  PROVE  \E c \in Call : w' = [w EXCEPT ![p] = c] /\ Pending(c) = b
<1>1. CASE Fits(Bytes(b) + Len(b))
  <2>1. PICK c : c = [Idle EXCEPT !.pc = "locate", !.chunk = b, !.left = b]
    OBVIOUS
  <2>2. c \in Call /\ w' = [w EXCEPT ![p] = c]
    BY <1>1, <2>1, IdleType, Zenon DEF Write, Call
  <2>3. c.pc = "locate" /\ c.left = b /\ c.batch = <<>>
    BY <2>1 DEF Idle
  <2>4. Pending(c) = b \o <<>> /\ b \o <<>> = b
    BY <2>3 DEF Pending, Ahead
  <2> QED
    BY <2>2, <2>4, Zenon
<1>2. CASE ~Fits(Bytes(b) + Len(b))
  <2>1. PICK c : c = [Idle EXCEPT !.pc = "cut", !.batch = b]
    OBVIOUS
  <2>2. c \in Call /\ w' = [w EXCEPT ![p] = c]
    BY <1>2, <2>1, IdleType, Zenon DEF Write, Call
  <2>3. c.pc = "cut" /\ c.chunk = <<>> /\ c.batch = b
    BY <2>1 DEF Idle
  <2>4. Pending(c) = <<>> \o b /\ <<>> \o b = b
    BY <2>3 DEF Pending, Ahead
  <2> QED
    BY <2>2, <2>4, Zenon
<1> QED
  BY <1>1, <1>2
-----------------------------------------------------------------------------
(***************************************************************************)
(* What a step does to the log: nothing, or a row at its end, or the clock *)
(* was set back and the log is kept in back from now on.                   *)
(***************************************************************************)
Grows ==
  \/ back # None /\ back' = back
  \/ back = None /\ back' = None /\ LogOf(files') = LogOf(files)
  \/ back = None /\ back' = None /\ \E row \in Row : LogOf(files') = Append(LogOf(files), row)
  \/ back = None /\ back' = LogOf(files)

\* The rows of a new call were in no call and not in the log.
LEMMA LogWrite ==
  ASSUME TypeInv, PendInv, LogInv, NEW p \in Writers, NEW b \in Batches, Write(p, b)
  PROVE  PendInv' /\ LogInv' /\ Grows
<1>1. node.lsns \subseteq Lsns
  BY SegmentsAssumption DEF TypeInv, DiskType
<1>2. b \in Seq(Lsns) /\ Range(b) \cap used = {} /\ Once(b)
  BY <1>1, BatchType DEF Once
<1>3. PICK c \in Call : w' = [w EXCEPT ![p] = c] /\ Pending(c) = b
  BY <1>2, CallBegins
<1>4. Pending(w'[p]) = b /\ \A q \in Writers \ {p} : w'[q] = w[q]
  BY <1>3 DEF TypeInv, WriteType
<1>5. used' = used \cup Range(b) /\ UNCHANGED <<files, cur, back>>
  BY DEF Write, diskVars
<1>6. PendInv'
  <2>1. \A q \in Writers : Range(Pending(w'[q])) \subseteq used' /\ Once(Pending(w'[q]))
    BY <1>2, <1>4, <1>5 DEF PendInv
  <2>2. \A q \in Writers \ {p} : Range(b) \cap Range(Pending(w[q])) = {}
    BY <1>2 DEF PendInv
  <2>3. ASSUME NEW q \in Writers, NEW r \in Writers, q # r
        PROVE  Range(Pending(w'[q])) \cap Range(Pending(w'[r])) = {}
    <3>1. CASE q = p
      BY <1>4, <2>2, <2>3, <3>1
    <3>2. CASE r = p
      BY <1>4, <2>2, <2>3, <3>2
    <3>3. CASE q # p /\ r # p
      BY <1>4, <2>3, <3>3 DEF PendInv
    <3> QED
      BY <3>1, <3>2, <3>3
  <2> QED
    BY <2>1, <2>3 DEF PendInv
<1>7. LogInv'
  BY <1>2, <1>4, <1>5 DEF LogInv
<1>8. Grows
  BY <1>5 DEF Grows
<1> QED
  BY <1>6, <1>7, <1>8

\* A call goes on without writing, or fails.
LEMMA LogCalls ==
  ASSUME TypeInv, PendInv, LogInv, NEW p \in Writers, Cut(p) \/ Locate(p) \/ Sync(p) \/ IOError(p)
  PROVE  PendInv' /\ LogInv' /\ Grows
<1>1. UNCHANGED <<files, cur, back, used>>
  BY DEF Cut, Locate, Sync, IOError, diskVars
<1>2. PICK c \in Call : /\ w' = [w EXCEPT ![p] = c]
                        /\ Pending(c) = Pending(w[p]) \/ Pending(c) = <<>>
  BY CallCuts, CallLocates, CallSyncs, CallFails
<1>3. Range(Pending(c)) \subseteq Range(Pending(w[p])) /\ Once(Pending(c))
  BY <1>2, NoneLeft DEF PendInv
<1>4. PendInv' /\ \A q \in Writers : Range(Pending(w'[q])) \subseteq Range(Pending(w[q]))
  BY <1>1, <1>2, <1>3, PendMoves, Zenon
<1>5. LogInv'
  BY <1>1, <1>4, LogStays
<1>6. Grows
  BY <1>1 DEF Grows
<1> QED
  BY <1>4, <1>5, <1>6

\* A row is put: at the end of the log, unless the clock was set back.
LEMMA LogPutRow ==
  ASSUME DataFacts, TypeInv, PendInv, LogInv, NEW p \in Writers, PutRow(p)
  PROVE  PendInv' /\ LogInv' /\ Grows
<1>1. PICK c \in Call : /\ w' = [w EXCEPT ![p] = c] /\ Pending(w[p]) # <<>>
                        /\ Pending(c) = Tail(Pending(w[p]))
                        /\ Head(Pending(w[p])) = Head(w[p].left)
  BY CallPutsRow
<1>2. PICK l \in Lsns, f \in File :
        /\ l = Head(w[p].left) /\ files' = [files EXCEPT ![cur] = f]
        /\ f.rows = Append(files[cur].rows, [lsn |-> l, off |-> files[cur].end])
  BY PutFile, Zenon
<1>3. UNCHANGED <<cur, back, used>>
  BY DEF PutRow
<1>4. Pending(w[p]) \in Seq(Lsns) /\ Once(Pending(w[p]))
  BY PendingType DEF TypeInv, WriteType, PendInv
<1>5. /\ Once(Pending(c)) /\ Range(Pending(c)) \subseteq Range(Pending(w[p]))
      /\ l \in Range(Pending(w[p])) /\ l \notin Range(Pending(c))
  BY <1>1, <1>2, <1>4, OnceTail
<1>6. PendInv' /\ \A q \in Writers : Range(Pending(w'[q])) \subseteq Range(Pending(w[q]))
  BY <1>1, <1>3, <1>5, PendMoves, Zenon
<1>7. CASE back # None
  BY <1>3, <1>6, <1>7 DEF LogInv, Grows
<1>8. CASE back = None
  <2>1. /\ FilesOK(files) /\ cur \in DOMAIN files /\ cur = Max(DOMAIN files)
        /\ files[cur].end \in Nat
    BY <1>8 DEF TypeInv, DiskType, LogInv, FilesOK, File
  <2>2. PICK row \in Row : row = [lsn |-> l, off |-> files[cur].end]
    BY <2>1, Zenon DEF Row
  <2>3. row.lsn = l
    BY <2>2
  <2>4. LogOf(files) \in Seq(Row)
    BY <2>1, LogType
  <2>5. LogOf(files') = Append(LogOf(files), row)
    BY <1>2, <2>1, <2>2, LogPut, Zenon
  <2>6. DOMAIN files' = DOMAIN files
    BY <1>2
  <2>7. l \notin LsnsOf(LogOf(files)) /\ DiskLog!LsnUnique(LogOf(files)) /\ l \in used
    BY <1>5, <1>8 DEF LogInv, PendInv
  <2>8. LsnsOf(LogOf(files')) = LsnsOf(LogOf(files)) \cup {l} /\ DiskLog!LsnUnique(LogOf(files'))
    BY <2>3, <2>4, <2>5, <2>7, LsnsMore, UniqueMore
  <2>9. ASSUME NEW q \in Writers PROVE l \notin Range(Pending(w'[q]))
    <3>1. CASE q = p
      BY <1>1, <1>5, <3>1, Zenon DEF TypeInv, WriteType
    <3>2. CASE q # p
      BY <1>5, <1>6, <3>2 DEF PendInv
    <3> QED
      BY <3>1, <3>2
  <2>10. /\ LsnsOf(LogOf(files')) \subseteq used'
         /\ \A q \in Writers : LsnsOf(LogOf(files')) \cap Range(Pending(w'[q])) = {}
    BY <1>3, <1>6, <1>8, <2>7, <2>8, <2>9 DEF LogInv
  <2>11. LogInv'
    BY <1>3, <2>1, <2>6, <2>8, <2>10 DEF LogInv
  <2>12. Grows
    BY <1>3, <1>8, <2>5 DEF Grows
  <2> QED
    BY <1>6, <2>11, <2>12
<1> QED
  BY <1>7, <1>8

\* A new file is the last one, or the clock was set back.
LEMMA LogRotate ==
  ASSUME DataFacts, TypeInv, PendInv, LogInv, NEW p \in Writers, Rotate(p)
  PROVE  PendInv' /\ LogInv' /\ Grows
<1>1. PICK c \in Call : w' = [w EXCEPT ![p] = c] /\ Pending(c) = Pending(w[p])
  BY CallRotates
<1>2. used' = used
  BY DEF Rotate
<1>3. PendInv' /\ \A q \in Writers : Range(Pending(w'[q])) \subseteq Range(Pending(w[q]))
  <2>1. Range(Pending(c)) \subseteq Range(Pending(w[p])) /\ Once(Pending(c))
    BY <1>1 DEF PendInv
  <2> QED
    BY <1>1, <1>2, <2>1, PendMoves, Zenon
<1>4. FilesOK(files) /\ cur \in DOMAIN files
  BY DEF TypeInv, DiskType
<1>5. PICK name \in NewNames :
        /\ files' = [n \in DOMAIN files \cup {name} |-> IF n = name THEN EmptyFile ELSE files[n]]
        /\ cur' = name /\ back' = IF back = None /\ name < Max(DOMAIN files) THEN Log ELSE back
  BY DEF Rotate
<1>6. LogOf(files) \in Seq(Row) /\ Log = LogOf(files) /\ LogOf(files) # None
  <2>1. None \notin Seq(Row)
    BY SegmentsAssumption DEF Row
  <2> QED
    BY <1>4, <2>1, LogType, LogIs
<1>7. CASE back # None
  BY <1>3, <1>5, <1>7 DEF LogInv, Grows
<1>8. CASE back = None /\ name < Max(DOMAIN files)
  BY <1>3, <1>5, <1>6, <1>8 DEF LogInv, Grows
<1>9. CASE back = None /\ ~(name < Max(DOMAIN files))
  <2>1. PICK m \in Nat \ {0} : m = Max(DOMAIN files) /\ m \in DOMAIN files
    BY <1>4, LastName
  <2>2. name = m + 1 \/ name \in 1..m \ DOMAIN files
    BY <2>1 DEF NewNames
  <2>3. name = m + 1
    BY <1>9, <2>1, <2>2
  <2>4. LogOf(files') = LogOf(files) /\ Max(DOMAIN files') = name
    BY <1>4, <1>5, <2>1, <2>3, LogNew, SMTT(30)
  <2>5. LogInv'
    <3>1. PICK log : log = LogOf(files) /\ log = LogOf(files')
      BY <2>4
    <3>2. /\ DiskLog!LsnUnique(log) /\ LsnsOf(log) \subseteq used
          /\ \A q \in Writers : LsnsOf(log) \cap Range(Pending(w[q])) = {}
      BY <1>9, <3>1, Zenon DEF LogInv
    <3>3. \A q \in Writers : LsnsOf(log) \cap Range(Pending(w'[q])) = {}
      BY <1>3, <3>2
    <3>4. cur' = Max(DOMAIN files')
      BY <1>5, <2>4, Zenon
    <3> QED
      BY <1>2, <3>1, <3>2, <3>3, <3>4, Zenon DEF LogInv
  <2>6. Grows
    BY <1>5, <1>9, <2>4 DEF Grows
  <2> QED
    BY <1>3, <2>5, <2>6
<1> QED
  BY <1>7, <1>8, <1>9

\* The process ends, with a part of a row in the file or not: the log is the
\* same, and the rows of the calls are gone.
LEMMA LogCrash ==
  ASSUME TypeInv, PendInv, LogInv, Crash
  PROVE  PendInv' /\ LogInv' /\ Grows
<1>1. UNCHANGED <<cur, back, used>> /\ w' = [p \in Writers |-> Idle]
  BY DEF Crash
<1>2. Pending(Idle) = <<>>
  BY DEF Pending, Ahead, Idle
<1>3. \A p \in Writers : Range(Pending(w'[p])) = {} /\ Once(Pending(w'[p]))
  BY <1>1, <1>2, NoneLeft
<1>4. PendInv'
  BY <1>3 DEF PendInv
<1>5. DOMAIN files' = DOMAIN files /\ \A n \in DOMAIN files : files'[n].rows = files[n].rows
  <2>1. CASE UNCHANGED files
    BY <2>1
  <2>2. CASE files' = [files EXCEPT ![cur].end = @ + 1, ![cur].shared = @ \/ raced]
    <3>1. PICK f \in File : files' = [files EXCEPT ![cur] = f] /\ f.rows = files[cur].rows
      BY <2>2, TornFile, Zenon
    <3> QED
      BY <3>1 DEF TypeInv, DiskType
  <2> QED
    BY <2>1, <2>2 DEF Crash
<1>6. LogOf(files') = LogOf(files)
  BY <1>5, LogSame
<1>7. LogInv'
  BY <1>1, <1>3, <1>5, <1>6 DEF LogInv
<1>8. Grows
  BY <1>1, <1>6 DEF Grows
<1> QED
  BY <1>4, <1>7, <1>8

\* Nothing is written.  A restart goes on with the last file.
LEMMA LogRest ==
  ASSUME TypeInv, PendInv, LogInv,
         AddBatch \/ GetIndexAny \/ ReadDirsFrom \/ ReadFile \/ Reply
           \/ Restart \/ RestoreFile \/ RestoreDone \/ UNCHANGED vars
  PROVE  PendInv' /\ LogInv' /\ Grows
<1>1. UNCHANGED <<files, back, used, w>>
  BY Zenon DEF AddBatch, GetIndexAny, GetIndex, ReadDirsFrom, ReadFile, Reply, Restart, RestoreFile,
         RestoreDone, vars, diskVars, writeVars
<1>2. cur' = cur \/ cur' = Max(DOMAIN files)
  BY Zenon DEF AddBatch, GetIndexAny, GetIndex, ReadDirsFrom, ReadFile, Reply, Restart, RestoreFile,
         RestoreDone, vars, diskVars
<1>3. PendInv'
  BY <1>1 DEF PendInv
<1>4. LogInv'
  BY <1>1, <1>2 DEF LogInv
<1>5. Grows
  BY <1>1 DEF Grows
<1> QED
  BY <1>3, <1>4, <1>5

\* Every step keeps the log and the rows that are to be put apart.
LEMMA LogStep ==
  ASSUME DataFacts, TypeInv, PendInv, LogInv, [Next]_vars
  PROVE  PendInv' /\ LogInv' /\ Grows
<1>1. CASE WriteAny
  BY <1>1, LogWrite DEF WriteAny
<1>2. CASE \E p \in Writers : Cut(p) \/ Locate(p) \/ Sync(p) \/ IOError(p)
  BY <1>2, LogCalls
<1>3. CASE \E p \in Writers : PutRow(p) \/ Rotate(p)
  BY <1>3, LogPutRow, LogRotate
<1>4. CASE Crash
  BY <1>4, LogCrash
<1>5. CASE AddBatch \/ GetIndexAny \/ ReadDirsFrom \/ ReadFile \/ Reply
             \/ Restart \/ RestoreFile \/ RestoreDone \/ UNCHANGED vars
  BY <1>5, LogRest
<1> QED
  BY <1>1, <1>2, <1>3, <1>4, <1>5 DEF Next

\* The log starts empty.
LEMMA LogInit == ASSUME DataFacts, Init PROVE PendInv /\ LogInv /\ LogOf(files) = <<>>
<1>1. DOMAIN files = {2} /\ files[2] = EmptyFile /\ cur = 2 /\ back = None /\ EmptyFile.rows = <<>>
  BY DEF Init, EmptyFile
<1>2. Pending(Idle) = <<>>
  BY DEF Pending, Ahead, Idle
<1>3. \A p \in Writers : Range(Pending(w[p])) = {} /\ Once(Pending(w[p]))
  BY <1>2, NoneLeft DEF Init
<1>4. FilesOK(files)
  BY TypeInit DEF TypeInv, DiskType
<1>5. Max(DOMAIN files) = 2
  BY <1>1, <1>4, LastName
<1>6. LogOf(files) = <<>>
  <2>1. 1 + 1 = Max(DOMAIN files) /\ 1 \in Nat /\ 0 + 1 = 1 /\ 0 \in Nat
    BY <1>5
  <2> DEFINE f == [n \in 1..1 |-> RowsOf(files, n)]
  <2>2. RowsOf(files, 1 + 1) = <<>> /\ RowsOf(files, 1) = <<>>
    BY <1>1 DEF RowsOf
  <2>3. LogOf(files) = Concat(f) \o <<>> /\ Concat(f) \in Seq(Row)
    BY <1>4, <2>1, <2>2, LogLast, Zenon
  <2>4. f = <<<<>>>> /\ Append(<<>>, <<>>) = <<<<>>>>
    BY <2>2
  <2>5. <<>> \in Seq(Row) /\ <<>> \in Seq(Seq(Row))
    OBVIOUS
  <2>6. Concat(<<<<>>>>) = <<>> \o <<>>
    BY <2>4, <2>5, ConcatMore, ConcatEmpty, Zenon
  <2> QED
    BY <2>3, <2>4, <2>6
<1>7. LogInv
  BY <1>1, <1>3, <1>5, <1>6 DEF LogInv, LsnsOf, DiskLog!LsnUnique
<1>8. PendInv
  BY <1>3 DEF PendInv
<1> QED
  BY <1>6, <1>7, <1>8

\* A log that grows by a row extends the abstract log; otherwise nothing happens
\* to it, also when the clock is set back.
LEMMA GrowsExtends ==
  ASSUME DataFacts, TypeInv, TypeInv', LogInv', Grows
  PROVE  [DiskLog!Extend]_(IF back = None THEN Log ELSE back)
<1> DEFINE before == LogOf(files)
           after == LogOf(files')
<1>1. Log = before /\ Log' = after
  BY LogIs DEF Log, LogOf, RowsOf
<1>2. before \in Seq(Row) /\ after \in Seq(Row)
  BY LogType DEF TypeInv, DiskType
<1>3. before # None
  BY <1>2, SegmentsAssumption DEF Row
<1> HIDE DEF before, after
<1>4. CASE back # None /\ back' = back
  BY <1>4
<1>5. CASE back = None /\ back' = None /\ after = before
  BY <1>1, <1>5
<1>6. CASE back = None /\ back' = None /\ \E row \in Row : after = Append(before, row)
  <2>1. PICK row \in Row : after = Append(before, row)
    BY <1>6
  <2>2. PICK n \in Nat : n = Len(before)
    BY <1>2
  <2>3. Len(after) = n + 1 /\ \A i \in 1..n : after[i] = before[i]
    BY <1>2, <2>1, <2>2
  <2>4. n \in 0..(n + 1) /\ n <= n + 1
    OBVIOUS
  <2>5. /\ SubSeq(after, 1, n) \in Seq(Row) /\ Len(SubSeq(after, 1, n)) = n
        /\ \A i \in 1..n : SubSeq(after, 1, n)[i] = after[i]
    BY <1>2, <2>3, <2>4
  <2>6. SubSeq(after, 1, n) = before
    BY <1>2, <2>2, <2>3, <2>5
  <2>7. DiskLog!LsnUnique(after)
    BY <1>6 DEF LogInv, after
  <2>8. DiskLog!Extend
    BY <1>1, <1>6, <2>2, <2>3, <2>4, <2>6, <2>7 DEF DiskLog!Extend
  <2> QED
    BY <2>8
<1>7. CASE back = None /\ back' = before
  BY <1>1, <1>3, <1>7
<1> QED
  BY <1>4, <1>5, <1>6, <1>7 DEF Grows, before, after
-----------------------------------------------------------------------------
(***************************************************************************)
(* What is in a concatenation.                                             *)
(***************************************************************************)
\* Two sequences one after the other.
LEMMA RangeBoth ==
  ASSUME NEW S, NEW s \in Seq(S), NEW t \in Seq(S), NEW x
  PROVE  x \in Range(s \o t) <=> x \in Range(s) \/ x \in Range(t)
<1>1. PICK a, b \in Nat : a = Len(s) /\ b = Len(t)
  OBVIOUS
<1>2. DOMAIN s = 1..a /\ DOMAIN t = 1..b /\ DOMAIN (s \o t) = 1..(a + b)
  BY <1>1
<1>3. \A i \in 1..a : (s \o t)[i] = s[i]
  BY <1>1
<1>4. \A i \in 1..b : (s \o t)[a + i] = t[i]
  BY <1>1
<1> DEFINE u == s \o t
<1> HIDE DEF u
<1>5. ASSUME NEW i \in 1..(a + b) PROVE i \in 1..a \/ \E j \in 1..b : i = a + j
  <2>1. CASE i <= a
    BY <2>1
  <2>2. CASE ~(i <= a)
    <3>1. i - a \in 1..b /\ i = a + (i - a)
      BY <2>2
    <3> QED
      BY <3>1
  <2> QED
    BY <2>1, <2>2
<1>6. (\A i \in 1..a : i \in 1..(a + b)) /\ \A j \in 1..b : a + j \in 1..(a + b)
  OBVIOUS
<1>7. x \in Range(u) <=> \E i \in 1..(a + b) : x = u[i]
  BY <1>2, Zenon DEF Range, u
<1>8. (x \in Range(s) <=> \E i \in 1..a : x = s[i]) /\ (x \in Range(t) <=> \E i \in 1..b : x = t[i])
  BY <1>2 DEF Range
<1>9. (\A i \in 1..a : u[i] = s[i]) /\ \A i \in 1..b : u[a + i] = t[i]
  BY <1>3, <1>4, Zenon DEF u
<1>10. x \in Range(u) => x \in Range(s) \/ x \in Range(t)
  BY <1>5, <1>7, <1>8, <1>9
<1>11. x \in Range(s) \/ x \in Range(t) => x \in Range(u)
  BY <1>6, <1>7, <1>8, <1>9
<1> QED
  BY <1>10, <1>11 DEF u

\* What is in one of the sequences is in the concatenation, and nothing else.
LEMMA ConcatRange ==
  ASSUME DataFacts, NEW S, NEW m \in Nat, NEW f \in [1..m -> Seq(S)], NEW x
  PROVE  x \in Range(Concat(f)) <=> \E i \in 1..m : x \in Range(f[i])
<1> DEFINE T == {n \in Nat : \A g \in [1..n -> Seq(S)] :
                               x \in Range(Concat(g)) <=> \E i \in 1..n : x \in Range(g[i])}
<1>1. 0 \in T
  <2>1. ASSUME NEW g \in [1..0 -> Seq(S)] PROVE x \notin Range(Concat(g))
    <3>1. g = <<>>
      OBVIOUS
    <3> QED
      BY <3>1, ConcatEmpty, NoneLeft
  <2> QED
    BY <2>1
<1>2. ASSUME NEW n \in T \cap Nat PROVE n + 1 \in T
  <2>1. \A h \in [1..n -> Seq(S)] : x \in Range(Concat(h)) <=> \E i \in 1..n : x \in Range(h[i])
    BY Zenon
  <2>2. n \in Nat
    OBVIOUS
  <2> HIDE DEF T
  <2>3. ASSUME NEW g \in [1..(n + 1) -> Seq(S)]
        PROVE  x \in Range(Concat(g)) <=> \E i \in 1..(n + 1) : x \in Range(g[i])
    <3>1. PICK h : h = [i \in 1..n |-> g[i]]
      BY Zenon
    <3>2. Concat(g) = Concat(h) \o g[n + 1] /\ Concat(h) \in Seq(S)
      BY <2>2, <3>1, ConcatLast, Zenon
    <3>3. /\ h \in [1..n -> Seq(S)] /\ (\A i \in 1..n : h[i] = g[i]) /\ g[n + 1] \in Seq(S)
      BY <2>2, <3>1
    <3>4. PICK s \in Seq(S), t \in Seq(S) : s = Concat(h) /\ t = g[n + 1] /\ Concat(g) = s \o t
      BY <3>2, <3>3, Zenon
    <3>5. x \in Range(Concat(g)) <=> x \in Range(Concat(h)) \/ x \in Range(g[n + 1])
      BY <3>4, RangeBoth
    <3>6. x \in Range(Concat(h)) <=> \E i \in 1..n : x \in Range(h[i])
      BY <2>1, <3>3, Zenon
    <3>7. \A i : i \in 1..(n + 1) <=> i \in 1..n \/ i = n + 1
      BY <2>2
    <3> QED
      BY <3>3, <3>5, <3>6, <3>7, Zenon
  <2> QED
    BY <2>2, <2>3 DEF T
<1> HIDE DEF T
<1>3. Nat \subseteq T
  BY <1>1, <1>2 DEF DataFacts
<1> QED
  BY <1>3 DEF T

\* ReadDir lists every file.
LEMMA DirsAll ==
  ASSUME DataFacts, FilesOK(files), NEW n \in DOMAIN files
  PROVE  n \in Range(Dirs)
<1> DEFINE m == Max(DOMAIN files)
           f == [i \in 1..m |-> IF i \in DOMAIN files THEN <<i>> ELSE <<>>]
<1>1. m \in Nat /\ n \in 1..m
  BY LastName
<1> HIDE DEF m
<1>2. ASSUME NEW i \in 1..m
      PROVE  (IF i \in DOMAIN files THEN <<i>> ELSE <<>>) \in Seq(DOMAIN files)
  <2>1. i \in DOMAIN files => <<i>> \in Seq(DOMAIN files)
    OBVIOUS
  <2>2. <<>> \in Seq(DOMAIN files)
    OBVIOUS
  <2> QED
    BY <2>1, <2>2, Zenon
<1>3. f \in [1..m -> Seq(DOMAIN files)] /\ f[n] = <<n>>
  BY <1>1, <1>2
<1> HIDE DEF f
<1>4. n \in Range(f[n])
  BY <1>3 DEF Range
<1>5. n \in Range(Concat(f))
  BY <1>1, <1>3, <1>4, ConcatRange, Zenon
<1> QED
  BY <1>5 DEF Dirs, f, m

\* Every row of the log is in a file.
LEMMA LogRows ==
  ASSUME DataFacts, FilesOK(files), cur \in DOMAIN files, NEW row \in Range(Log)
  PROVE  \E n \in DOMAIN files : row \in Range(files[n].rows)
<1> DEFINE m == Max(DOMAIN files)
           f == [n \in 1..m |-> RowsOf(files, n)]
<1>1. m \in Nat
  BY LastName
<1> HIDE DEF m
<1>2. f \in [1..m -> Seq(Row)] /\ \A n \in 1..m : f[n] = RowsOf(files, n)
  BY RowsType
<1>3. row \in Range(Concat(f))
  BY LogIs DEF LogOf, m
<1> HIDE DEF f
<1>4. PICK n \in 1..m : row \in Range(f[n])
  BY <1>1, <1>2, <1>3, ConcatRange, Zenon
<1> QED
  BY <1>2, <1>4, NoneLeft DEF RowsOf
-----------------------------------------------------------------------------
(***************************************************************************)
(* ReadDirsFrom: the names are sorted, so the search finds the file of the *)
(* index entry, and the names after it are those of the later files.       *)
(***************************************************************************)
Sorted(s) == \A i, j \in 1..Len(s) : i < j => s[i] < s[j]

\* The first n of some sequences.
Front(f, n) == Concat([i \in 1..n |-> f[i]])

\* None of them, and all of them.
LEMMA FrontEnds ==
  ASSUME DataFacts, NEW S, NEW m \in Nat, NEW f \in [1..m -> Seq(S)]
  PROVE  Front(f, 0) = <<>> /\ Front(f, m) = Concat(f)
<1>1. Front(f, 0) = <<>>
  <2>1. [i \in 1..0 |-> f[i]] = <<>>
    OBVIOUS
  <2> QED
    BY <2>1, ConcatEmpty DEF Front
<1>2. [i \in 1..m |-> f[i]] = f
  OBVIOUS
<1> QED
  BY <1>1, <1>2, Zenon DEF Front

\* One more.
LEMMA FrontStep ==
  ASSUME DataFacts, NEW S, NEW m \in Nat, NEW f \in [1..m -> Seq(S)], NEW n \in Nat, n + 1 <= m
  PROVE  Front(f, n + 1) = Front(f, n) \o f[n + 1]
<1>1. PICK g : g = [i \in 1..(n + 1) |-> f[i]]
  BY Zenon
<1>2. n + 1 \in 1..m /\ \A i \in 1..(n + 1) : i \in 1..m
  OBVIOUS
<1>3. g \in [1..(n + 1) -> Seq(S)] /\ g[n + 1] = f[n + 1]
  BY <1>1, <1>2
<1>4. [i \in 1..n |-> g[i]] = [i \in 1..n |-> f[i]]
  BY <1>1
<1>5. Concat(g) = Concat([i \in 1..n |-> g[i]]) \o g[n + 1]
  BY <1>3, ConcatLast, Zenon
<1> QED
  BY <1>1, <1>3, <1>4, <1>5, Zenon DEF Front

\* One name more, after smaller ones.
LEMMA SortedMore ==
  ASSUME NEW n \in Nat, NEW s \in Seq(1..n), Sorted(s)
  PROVE  Append(s, n + 1) \in Seq(1..(n + 1)) /\ Sorted(Append(s, n + 1))
<1>1. PICK k \in Nat : k = Len(s)
  OBVIOUS
<1>2. PICK a : a = Append(s, n + 1)
  BY Zenon
<1>3. \A i \in 1..k : s[i] \in 1..n
  BY <1>1
<1>4. Len(a) = k + 1 /\ a[k + 1] = n + 1 /\ (\A i \in 1..k : a[i] = s[i]) /\ a \in Seq(1..(n + 1))
  <2>1. s \in Seq(1..(n + 1)) /\ n + 1 \in 1..(n + 1)
    <3>1. \A i \in 1..k : s[i] \in 1..(n + 1)
      BY <1>3
    <3> QED
      BY <1>1, <3>1
  <2> QED
    BY <1>1, <1>2, <2>1
<1>5. ASSUME NEW i \in 1..(k + 1), NEW j \in 1..(k + 1), i < j PROVE a[i] < a[j]
  <2>1. i \in 1..k /\ (j \in 1..k \/ j = k + 1)
    BY <1>5
  <2>2. CASE j \in 1..k
    BY <1>1, <1>4, <1>5, <2>1, <2>2 DEF Sorted
  <2>3. CASE j = k + 1
    <3>1. a[i] \in 1..n /\ a[j] = n + 1
      BY <1>3, <1>4, <2>1, <2>3, Zenon
    <3> QED
      BY <3>1
  <2> QED
    BY <2>1, <2>2, <2>3
<1> QED
  BY <1>2, <1>4, <1>5, Zenon DEF Sorted

\* ReadDir sorts the names.
LEMMA DirsSorted ==
  ASSUME DataFacts, FilesOK(files), NEW c \in DOMAIN files
  PROVE  Dirs \in Seq(DOMAIN files) /\ Sorted(Dirs) /\ Range(Dirs) = DOMAIN files
<1> DEFINE f == [n \in 1..Max(DOMAIN files) |-> IF n \in DOMAIN files THEN <<n>> ELSE <<>>]
<1>1. PICK m \in Nat : m = Max(DOMAIN files)
  BY LastName
<1>2. ASSUME NEW n \in 1..m
      PROVE  f[n] \in Seq(Nat) /\ (f[n] = <<>> \/ f[n] = <<n>>)
  <2>1. f[n] = IF n \in DOMAIN files THEN <<n>> ELSE <<>>
    BY <1>1
  <2>2. <<>> \in Seq(Nat) /\ <<n>> \in Seq(Nat)
    OBVIOUS
  <2> QED
    BY <2>1, <2>2, Zenon
<1>3. DOMAIN f = 1..m /\ Dirs = Concat(f)
  BY <1>1 DEF Dirs
<1>4. f = [n \in 1..m |-> f[n]]
  BY <1>1
<1> HIDE DEF f
<1>5. f \in [1..m -> Seq(Nat)]
  BY <1>2, <1>4
<1>6. PICK g \in [1..m -> Seq(Nat)] : g = f
  BY <1>5, Zenon
<1> DEFINE T == {n \in Nat : n <= m => Front(g, n) \in Seq(1..n) /\ Sorted(Front(g, n))}
<1>7. 0 \in T
  <2>1. Front(g, 0) = <<>>
    BY FrontEnds
  <2>2. <<>> \in Seq(1..0) /\ Sorted(<<>>)
    BY DEF Sorted
  <2> QED
    BY <2>1, <2>2, Zenon
<1>8. ASSUME NEW n \in T \cap Nat PROVE n + 1 \in T
  <2>1. n \in Nat /\ (n <= m => Front(g, n) \in Seq(1..n) /\ Sorted(Front(g, n)))
    OBVIOUS
  <2> HIDE DEF T
  <2>2. ASSUME n + 1 <= m
        PROVE  Front(g, n + 1) \in Seq(1..(n + 1)) /\ Sorted(Front(g, n + 1))
    <3>1. n <= m /\ n + 1 \in 1..m
      BY <2>1, <2>2
    <3>2. Front(g, n + 1) = Front(g, n) \o g[n + 1]
      BY <2>1, <2>2, FrontStep, Zenon
    <3>3. PICK s \in Seq(1..n) : s = Front(g, n) /\ Sorted(s)
      BY <2>1, <3>1
    <3>4. s \o <<n + 1>> = Append(s, n + 1) /\ s \o <<>> = s /\ s \in Seq(1..(n + 1))
      <4>1. \A x \in 1..n : x \in 1..(n + 1)
        BY <2>1
      <4>2. s \in Seq(1..(n + 1)) /\ n + 1 \in 1..(n + 1)
        BY <2>1, <4>1
      <4> QED
        BY <4>2
    <3>5. Append(s, n + 1) \in Seq(1..(n + 1)) /\ Sorted(Append(s, n + 1))
      BY <2>1, <3>3, SortedMore
    <3>6. g[n + 1] = <<>> \/ g[n + 1] = <<n + 1>>
      BY <1>2, <1>6, <3>1
    <3> QED
      BY <3>2, <3>3, <3>4, <3>5, <3>6, Zenon
  <2> QED
    BY <2>1, <2>2 DEF T
<1> HIDE DEF T
<1>9. m \in T
  BY <1>7, <1>8 DEF DataFacts
<1>10. Sorted(Dirs)
  <2>1. Front(g, m) = Concat(g)
    BY FrontEnds
  <2>2. m <= m
    OBVIOUS
  <2> QED
    BY <1>3, <1>6, <1>9, <2>1, <2>2 DEF T
<1>11. Dirs \in Seq(DOMAIN files)
  BY DirsType
<1>12. Range(Dirs) \subseteq DOMAIN files
  BY <1>11 DEF Range
<1>13. DOMAIN files \subseteq Range(Dirs)
  BY DirsAll
<1> QED
  BY <1>10, <1>11, <1>12, <1>13

\* The names from place i on.
LEMMA NamesFrom ==
  ASSUME NEW S, S \subseteq Nat, NEW s \in Seq(S), Sorted(s), NEW i \in 1..Len(s),
         NEW t, t = SubSeq(s, i, Len(s))
  PROVE  /\ t \in Seq(S) /\ Sorted(t) /\ t # <<>> /\ t[1] = s[i]
         /\ Range(t) = {n \in Range(s) : s[i] <= n}
<1>1. PICK k \in Nat : k = Len(s)
  OBVIOUS
<1>2. /\ t \in Seq(S) /\ Len(t) = k - i + 1 /\ k - i + 1 \in Nat \ {0}
      /\ \A j \in 1..(k - i + 1) : t[j] = s[i + j - 1]
  BY <1>1
<1>3. \A j \in 1..(k - i + 1) : i + j - 1 \in 1..k
  BY <1>1
<1>4. \A j \in 1..k : s[j] \in Nat
  <2>1. \A j \in 1..k : s[j] \in S
    BY <1>1
  <2> QED
    BY <2>1, Zenon
<1>5. t # <<>> /\ t[1] = s[i]
  <2>1. 1 \in 1..(k - i + 1) /\ i + 1 - 1 = i
    BY <1>1
  <2> QED
    BY <1>2, <2>1, Zenon
<1>6. Sorted(t)
  <2>1. ASSUME NEW a \in 1..(k - i + 1), NEW b \in 1..(k - i + 1), a < b PROVE t[a] < t[b]
    <3>1. i + a - 1 \in 1..k /\ i + b - 1 \in 1..k /\ i + a - 1 < i + b - 1
      BY <1>1, <2>1
    <3> QED
      BY <1>1, <1>2, <3>1 DEF Sorted
  <2> QED
    BY <1>2, <2>1 DEF Sorted
<1>7. DOMAIN s = 1..k /\ DOMAIN t = 1..(k - i + 1)
  BY <1>1, <1>2
<1>8. ASSUME NEW n \in Range(t) PROVE n \in Range(s) /\ s[i] <= n
  <2>1. PICK j \in 1..(k - i + 1) : n = t[j]
    BY <1>7, Zenon DEF Range
  <2>2. n = s[i + j - 1] /\ i + j - 1 \in 1..k /\ i \in 1..k
    BY <1>1, <1>2, <1>3, <2>1
  <2>3. i + j - 1 = i \/ i < i + j - 1
    BY <1>1, <2>1
  <2>4. s[i] \in Nat /\ (n = s[i] \/ s[i] < n) /\ n \in Nat
    BY <1>1, <1>4, <2>2, <2>3 DEF Sorted
  <2> QED
    BY <1>7, <2>2, <2>4 DEF Range
<1>9. ASSUME NEW n \in Range(s), s[i] <= n PROVE n \in Range(t)
  <2>1. PICK j \in 1..k : n = s[j]
    BY <1>7, Zenon DEF Range
  <2>2. i \in 1..k /\ s[i] \in Nat /\ s[j] \in Nat
    BY <1>1, <1>4
  <2>3. ~(j < i)
    <3>1. j < i => s[j] < s[i]
      BY <1>1, <2>2 DEF Sorted
    <3> QED
      BY <1>9, <2>1, <2>2, <3>1
  <2>4. j - i + 1 \in 1..(k - i + 1) /\ i + (j - i + 1) - 1 = j
    BY <1>1, <2>3
  <2> QED
    BY <1>2, <1>7, <2>1, <2>4, Zenon DEF Range
<1> QED
  BY <1>2, <1>5, <1>6, <1>8, <1>9

\* BinarySearch as a function of the bounds.
Bounds(array) == (1..(Len(array) + 1)) \X (0..Len(array))

Search(array, target) ==
  [r \in Bounds(array) |->
     IF \E i \in r[1]..r[2] : array[i] = target
     THEN CHOOSE i \in r[1]..r[2] : array[i] = target ELSE 0]

Halve(search, array, target, low, high, mid) ==
  IF low > high THEN 0
  ELSE CASE array[mid] = target -> mid
         [] array[mid] < target -> search[<<mid + 1, high>>]
         [] OTHER               -> search[<<low, mid - 1>>]

Halves(search, array, target) ==
  search = [r \in Bounds(array) |->
              Halve(search, array, target, r[1], r[2], (r[1] + r[2]) \div 2)]

\* The middle lies between the bounds.
LEMMA Middle ==
  ASSUME NEW low \in Nat, NEW high \in Nat, low <= high
  PROVE  (low + high) \div 2 \in low..high
  OBVIOUS

\* A name is at one place.
LEMMA OnePlace ==
  ASSUME NEW array \in Seq(Nat), Sorted(array), NEW i \in 1..Len(array), NEW j \in 1..Len(array)
  PROVE  /\ array[i] \in Nat /\ array[j] \in Nat /\ (array[i] = array[j] => i = j)
         /\ (array[i] < array[j] => i < j)
<1>1. array[i] \in Nat /\ array[j] \in Nat
  OBVIOUS
<1>2. (i < j => array[i] < array[j]) /\ (j < i => array[j] < array[i])
  BY DEF Sorted
<1>3. i \in Nat /\ j \in Nat
  OBVIOUS
<1> QED
  BY <1>1, <1>2, <1>3

\* What the search is to give.
LEMMA SearchIs ==
  ASSUME NEW array \in Seq(Nat), Sorted(array), NEW target \in Nat,
         NEW low \in 1..(Len(array) + 1), NEW high \in 0..Len(array)
  PROVE  /\ \A i \in low..high : array[i] = target => Search(array, target)[<<low, high>>] = i
         /\ (\A i \in low..high : array[i] # target) => Search(array, target)[<<low, high>>] = 0
<1>1. Search(array, target)[<<low, high>>]
        = IF \E i \in low..high : array[i] = target
          THEN CHOOSE i \in low..high : array[i] = target ELSE 0
  BY Zenon DEF Search, Bounds
<1>2. ASSUME NEW i \in low..high, array[i] = target PROVE Search(array, target)[<<low, high>>] = i
  <2>1. PICK c : c = CHOOSE j \in low..high : array[j] = target
    OBVIOUS
  <2>2. c \in low..high /\ array[c] = target
    BY <1>2, <2>1, Zenon
  <2>3. c \in 1..Len(array) /\ i \in 1..Len(array)
    BY <2>2
  <2>4. c = i
    BY <1>2, <2>2, <2>3, OnePlace
  <2> QED
    BY <1>1, <1>2, <2>1, <2>4
<1> QED
  BY <1>1, <1>2

\* It is a solution of the recursion.
LEMMA SearchHalves ==
  ASSUME NEW array \in Seq(Nat), Sorted(array), NEW target \in Nat
  PROVE  Halves(Search(array, target), array, target)
<1>1. PICK n \in Nat : n = Len(array)
  OBVIOUS
<1>2. PICK search : search = Search(array, target)
  OBVIOUS
<1>3. search = [r \in Bounds(array) |-> search[r]]
  BY <1>2 DEF Search
<1>4. ASSUME NEW a \in 1..(n + 1), NEW b \in 0..n
      PROVE  /\ \A i \in a..b : array[i] = target => search[<<a, b>>] = i
             /\ (\A i \in a..b : array[i] # target) => search[<<a, b>>] = 0
  <2>1. a \in 1..(Len(array) + 1) /\ b \in 0..Len(array)
    BY <1>1
  <2>2. /\ \A i \in a..b : array[i] = target => Search(array, target)[<<a, b>>] = i
        /\ (\A i \in a..b : array[i] # target) => Search(array, target)[<<a, b>>] = 0
    BY <2>1, SearchIs
  <2> QED
    BY <1>2, <2>2, Zenon
<1>5. ASSUME NEW low \in 1..(n + 1), NEW high \in 0..n
      PROVE  search[<<low, high>>]
               = Halve(search, array, target, low, high, (low + high) \div 2)
  <2>1. /\ \A i \in low..high : array[i] = target => search[<<low, high>>] = i
        /\ (\A i \in low..high : array[i] # target) => search[<<low, high>>] = 0
    BY <1>4, Zenon
  <2>2. CASE low > high
    <3>1. ~\E i : i \in low..high
      BY <2>2
    <3>2. Halve(search, array, target, low, high, (low + high) \div 2) = 0
      BY <2>2 DEF Halve
    <3> QED
      BY <2>1, <3>1, <3>2, Zenon
  <2>3. CASE low <= high
    <3>1. PICK mid \in low..high : mid = (low + high) \div 2
      BY <2>3, Middle
    <3>2. /\ mid \in 1..n /\ mid + 1 \in 1..(n + 1) /\ mid - 1 \in 0..n /\ array[mid] \in Nat
          /\ ~(low > high)
      BY <1>1, <2>3, <3>1
    <3>3. Halve(search, array, target, low, high, mid)
            = IF array[mid] = target THEN mid
              ELSE IF array[mid] < target THEN search[<<mid + 1, high>>]
              ELSE search[<<low, mid - 1>>]
      <4>1. CASE array[mid] = target
        <5>1. ~(array[mid] < target)
          BY <3>2, <4>1
        <5> QED
          BY <3>2, <4>1, <5>1, Zenon DEF Halve
      <4>2. CASE array[mid] < target /\ array[mid] # target
        BY <3>2, <4>2, Zenon DEF Halve
      <4>3. CASE ~(array[mid] < target) /\ array[mid] # target
        BY <3>2, <4>3, Zenon DEF Halve
      <4> QED
        BY <4>1, <4>2, <4>3, Zenon
    <3>4. ASSUME NEW i \in low..high
          PROVE  i \in 1..n /\ array[i] \in Nat /\ (array[i] < array[mid] => i < mid)
                 /\ (array[mid] < array[i] => mid < i)
      <4>1. i \in 1..n
        BY <1>1
      <4> QED
        BY <1>1, <3>2, <4>1, OnePlace
    <3>5. CASE array[mid] = target
      BY <2>1, <3>1, <3>3, <3>5
    <3>6. CASE array[mid] < target
      <4>1. /\ \A i \in (mid + 1)..high : array[i] = target => search[<<mid + 1, high>>] = i
            /\ (\A i \in (mid + 1)..high : array[i] # target) => search[<<mid + 1, high>>] = 0
        <5>1. PICK a \in 1..(n + 1) : a = mid + 1
          BY <3>2
        <5>2. /\ \A i \in a..high : array[i] = target => search[<<a, high>>] = i
              /\ (\A i \in a..high : array[i] # target) => search[<<a, high>>] = 0
          BY <1>4, Zenon
        <5> QED
          BY <5>1, <5>2, Zenon
      <4>2. \A i \in low..high : array[i] = target => i \in (mid + 1)..high
        BY <3>1, <3>4, <3>6
      <4>3. \A i \in (mid + 1)..high : i \in low..high
        BY <3>1
      <4>4. search[<<low, high>>] = search[<<mid + 1, high>>]
        BY <2>1, <4>1, <4>2, <4>3, Zenon
      <4>5. array[mid] # target
        BY <3>2, <3>6
      <4> QED
        BY <3>1, <3>3, <3>6, <4>4, <4>5
    <3>7. CASE array[mid] # target /\ ~(array[mid] < target)
      <4>1. /\ \A i \in low..(mid - 1) : array[i] = target => search[<<low, mid - 1>>] = i
            /\ (\A i \in low..(mid - 1) : array[i] # target) => search[<<low, mid - 1>>] = 0
        <5>1. PICK b \in 0..n : b = mid - 1
          BY <3>2
        <5>2. /\ \A i \in low..b : array[i] = target => search[<<low, b>>] = i
              /\ (\A i \in low..b : array[i] # target) => search[<<low, b>>] = 0
          BY <1>4, Zenon
        <5> QED
          BY <5>1, <5>2, Zenon
      <4>2. \A i \in low..high : array[i] = target => i \in low..(mid - 1)
        BY <3>1, <3>2, <3>4, <3>7
      <4>3. \A i \in low..(mid - 1) : i \in low..high
        BY <3>1
      <4>4. search[<<low, high>>] = search[<<low, mid - 1>>]
        BY <2>1, <4>1, <4>2, <4>3, Zenon
      <4> QED
        BY <3>1, <3>3, <3>7, <4>4
    <3> QED
      BY <3>2, <3>5, <3>6, <3>7
  <2>4. low > high \/ low <= high
    OBVIOUS
  <2> QED
    BY <2>2, <2>3, <2>4
<1>6. ASSUME NEW r \in Bounds(array)
      PROVE  search[r] = Halve(search, array, target, r[1], r[2], (r[1] + r[2]) \div 2)
  <2>1. r[1] \in 1..(n + 1) /\ r[2] \in 0..n /\ r = <<r[1], r[2]>>
    BY <1>1 DEF Bounds
  <2> QED
    BY <1>5, <2>1
<1>7. search = [r \in Bounds(array) |->
                  Halve(search, array, target, r[1], r[2], (r[1] + r[2]) \div 2)]
  BY <1>3, <1>6
<1> QED
  BY <1>2, <1>7 DEF Halves

\* A solution finds the target.
LEMMA HalvesFind ==
  ASSUME DataFacts, NEW array \in Seq(Nat), Sorted(array), NEW i \in 1..Len(array), NEW search,
         Halves(search, array, array[i])
  PROVE  search[<<1, Len(array)>>] = i
<1>1. PICK n \in Nat : n = Len(array)
  OBVIOUS
<1> DEFINE T == {d \in Nat : \A low \in 1..i, high \in i..n :
                               high - low <= d => search[<<low, high>>] = i}
<1>2. ASSUME NEW low \in 1..i, NEW high \in i..n
      PROVE  \/ search[<<low, high>>] = i
             \/ \E a \in 1..i : a > low /\ search[<<low, high>>] = search[<<a, high>>]
             \/ \E b \in i..n : b < high /\ search[<<low, high>>] = search[<<low, b>>]
  <2>1. PICK mid \in low..high : mid = (low + high) \div 2
    BY <1>1, Middle
  <2>2. mid \in 1..n /\ ~(low > high) /\ <<low, high>> \in Bounds(array)
    BY <1>1, <2>1 DEF Bounds
  <2>3. search[<<low, high>>] = Halve(search, array, array[i], low, high, mid)
    BY <2>1, <2>2 DEF Halves
  <2>4. /\ array[mid] \in Nat /\ array[i] \in Nat /\ (array[mid] = array[i] => mid = i)
        /\ (array[mid] < array[i] => mid < i) /\ (array[i] < array[mid] => i < mid)
    BY <1>1, <2>2, OnePlace
  <2>5. search[<<low, high>>]
          = IF array[mid] = array[i] THEN mid
            ELSE IF array[mid] < array[i] THEN search[<<mid + 1, high>>]
            ELSE search[<<low, mid - 1>>]
    BY <2>2, <2>3 DEF Halve
  <2>6. CASE array[mid] = array[i]
    BY <2>4, <2>5, <2>6
  <2>7. CASE array[mid] # array[i] /\ array[mid] < array[i]
    <3>1. mid + 1 \in 1..i /\ mid + 1 > low
      BY <2>1, <2>2, <2>4, <2>7
    <3> QED
      BY <2>5, <2>7, <3>1, Zenon
  <2>8. CASE array[mid] # array[i] /\ ~(array[mid] < array[i])
    <3>1. i < mid
      BY <2>4, <2>8
    <3>2. mid - 1 \in i..n /\ mid - 1 < high
      BY <1>1, <2>1, <2>2, <3>1
    <3> QED
      BY <2>5, <2>8, <3>2, Zenon
  <2> QED
    BY <2>6, <2>7, <2>8, Zenon
<1>3. 0 \in T
  <2>1. ASSUME NEW low \in 1..i, NEW high \in i..n, high - low <= 0
        PROVE  search[<<low, high>>] = i
    <3>1. (~\E a \in 1..i : a > low) /\ ~\E b \in i..n : b < high
      BY <1>1, <2>1
    <3> QED
      BY <1>2, <3>1, Zenon
  <2> QED
    BY <2>1
<1>4. ASSUME NEW d \in T \cap Nat PROVE d + 1 \in T
  <2>1. d \in Nat /\ \A low \in 1..i, high \in i..n :
                       high - low <= d => search[<<low, high>>] = i
    OBVIOUS
  <2> HIDE DEF T
  <2>2. ASSUME NEW low \in 1..i, NEW high \in i..n, high - low <= d + 1
        PROVE  search[<<low, high>>] = i
    <3>1. ASSUME NEW a \in 1..i, a > low PROVE search[<<a, high>>] = i
      <4>1. high - a <= d
        BY <1>1, <2>1, <2>2, <3>1
      <4> QED
        BY <2>1, <4>1
    <3>2. ASSUME NEW b \in i..n, b < high PROVE search[<<low, b>>] = i
      <4>1. b - low <= d
        BY <1>1, <2>1, <2>2, <3>2
      <4> QED
        BY <2>1, <4>1
    <3> QED
      BY <1>2, <3>1, <3>2, Zenon
  <2> QED
    BY <2>1, <2>2 DEF T
<1> HIDE DEF T
<1>5. n \in T
  BY <1>3, <1>4 DEF DataFacts
<1>6. 1 \in 1..i /\ n \in i..n /\ n - 1 <= n
  BY <1>1
<1> QED
  BY <1>1, <1>5, <1>6 DEF T

\* BinarySearch finds a name that is in the directory.
LEMMA BinarySearchFinds ==
  ASSUME DataFacts, NEW array \in Seq(Nat), Sorted(array), NEW i \in 1..Len(array)
  PROVE  BinarySearch(array, array[i]) = i
<1> DEFINE search == CHOOSE s : Halves(s, array, array[i])
<1>1. array[i] \in Nat
  OBVIOUS
<1>2. BinarySearch(array, array[i]) = search[<<1, Len(array)>>]
  BY Zenon DEF BinarySearch, Halves, Halve, Bounds
<1>3. Halves(search, array, array[i])
  BY <1>1, SearchHalves
<1> HIDE DEF search
<1> QED
  BY <1>2, <1>3, HalvesFind
-----------------------------------------------------------------------------
(***************************************************************************)
(* What a file holds: rows one after the other, and only ever more of      *)
(* them, each at the place that an index entry names.                      *)
(***************************************************************************)
\* The byte where row j starts if there is no gap before it.
Before(rows, j) == IF j = 1 THEN 0 ELSE rows[j - 1].off + Size[rows[j - 1].lsn]

Solid(file) ==
  /\ \A j \in 1..Len(file.rows) : file.rows[j].off >= Before(file.rows, j)
  /\ file.end >= Before(file.rows, Len(file.rows) + 1)

\* The row with LSN l starts at byte off.
Holds(rows, l, off) == \E j \in 1..Len(rows) : rows[j] = [lsn |-> l, off |-> off]

\* The rows of a chunk follow each other from byte off.
Placed(rows, done, off) ==
  \A i \in 1..Len(done) : Holds(rows, done[i], off + Bytes(SubSeq(done, 1, i - 1)))

More(rows, new) == Len(rows) <= Len(new) /\ \A j \in 1..Len(rows) : new[j] = rows[j]

\* Files that stay as they are keep their rows.
LEMMA MoreSame == ASSUME NEW rows \in Seq(Row) PROVE More(rows, rows)
  BY DEF More

\* A row stays where it is.
LEMMA HoldsMore ==
  ASSUME NEW rows \in Seq(Row), NEW new \in Seq(Row), More(rows, new), NEW l, NEW off,
         Holds(rows, l, off)
  PROVE  Holds(new, l, off)
<1>1. PICK a, b \in Nat : a = Len(rows) /\ b = Len(new)
  OBVIOUS
<1>2. a <= b /\ \A j \in 1..a : new[j] = rows[j]
  BY <1>1 DEF More
<1>3. \A j \in 1..a : j \in 1..b
  BY <1>2
<1> QED
  BY <1>1, <1>2, <1>3 DEF Holds

\* One row more of a chunk, at the byte where the others end.
LEMMA PlacedMore ==
  ASSUME NEW rows \in Seq(Row), NEW new \in Seq(Row), More(rows, new),
         NEW done \in Seq(Lsns), NEW l \in Lsns, NEW off,
         Placed(rows, done, off), Holds(new, l, off + Bytes(done))
  PROVE  Placed(new, Append(done, l), off)
<1>1. PICK n \in Nat : n = Len(done)
  OBVIOUS
<1> DEFINE a == Append(done, l)
<1>2. a \in Seq(Lsns) /\ Len(a) = n + 1 /\ a[n + 1] = l /\ \A i \in 1..n : a[i] = done[i]
  BY <1>1
<1> HIDE DEF a
<1>3. ASSUME NEW k \in 0..n PROVE SubSeq(a, 1, k) = SubSeq(done, 1, k)
  <2>1. /\ SubSeq(a, 1, k) \in Seq(Lsns) /\ Len(SubSeq(a, 1, k)) = k
        /\ \A i \in 1..k : SubSeq(a, 1, k)[i] = a[i]
    BY <1>2
  <2>2. /\ SubSeq(done, 1, k) \in Seq(Lsns) /\ Len(SubSeq(done, 1, k)) = k
        /\ \A i \in 1..k : SubSeq(done, 1, k)[i] = done[i]
    BY <1>1
  <2>3. \A i \in 1..k : i \in 1..n
    OBVIOUS
  <2> QED
    BY <1>2, <2>1, <2>2, <2>3
<1>4. SubSeq(done, 1, n) = done
  <2>1. /\ SubSeq(done, 1, n) \in Seq(Lsns) /\ Len(SubSeq(done, 1, n)) = n
        /\ \A i \in 1..n : SubSeq(done, 1, n)[i] = done[i]
    BY <1>1
  <2> QED
    BY <1>1, <2>1
<1>5. ASSUME NEW i \in 1..(n + 1) PROVE Holds(new, a[i], off + Bytes(SubSeq(a, 1, i - 1)))
  <2>1. CASE i \in 1..n
    <3>1. i - 1 \in 0..n
      BY <2>1
    <3>2. Holds(rows, done[i], off + Bytes(SubSeq(done, 1, i - 1)))
      BY <1>1, <2>1 DEF Placed
    <3>3. Holds(new, done[i], off + Bytes(SubSeq(done, 1, i - 1)))
      BY <3>2, HoldsMore
    <3> QED
      BY <1>2, <1>3, <2>1, <3>1, <3>3, Zenon
  <2>2. CASE i = n + 1
    <3>1. i - 1 = n /\ n \in 0..n
      BY <2>2
    <3>2. SubSeq(a, 1, i - 1) = done
      BY <1>3, <1>4, <3>1
    <3> QED
      BY <1>2, <2>2, <3>2, Zenon
  <2> QED
    BY <2>1, <2>2
<1> QED
  BY <1>2, <1>5 DEF Placed, a
-----------------------------------------------------------------------------
(***************************************************************************)
(* LogReader.read of a whole file: the rows up to the first gap, each at   *)
(* the sum of the sizes of the rows before it.                             *)
(***************************************************************************)
\* There is no gap up to row j.
Good(file, j) == \A i \in 1..j : ~Gap(file, i)

RowAt(file, j) == IF Good(file, j) THEN <<file.rows[j].lsn>> ELSE <<>>
UpTo(file, n) == Concat([j \in 1..n |-> RowAt(file, j)])

\* A gap is where a row starts later than the one before it ends.
LEMMA GapIs ==
  ASSUME NEW file \in File, Solid(file), NEW j \in 1..Len(file.rows)
  PROVE  /\ file.rows[j].off \in Nat /\ file.rows[j].lsn \in Lsns /\ Before(file.rows, j) \in Nat
         /\ Gap(file, j) => file.rows[j].off > 0
         /\ ~Gap(file, j) => file.rows[j].off = Before(file.rows, j)
<1>1. file.rows \in Seq(Row)
  BY DEF File
<1>2. \A i \in 1..Len(file.rows) : file.rows[i].off \in Nat /\ file.rows[i].lsn \in Lsns
  <2>1. \A i \in 1..Len(file.rows) : file.rows[i] \in Row
    BY <1>1
  <2> QED
    BY <2>1 DEF Row
<1>3. Before(file.rows, j) \in Nat
  <2>1. CASE j = 1
    BY <2>1 DEF Before
  <2>2. CASE j # 1
    <3>1. j - 1 \in 1..Len(file.rows)
      BY <1>1, <2>2
    <3>2. PICK r : r = file.rows[j - 1]
      OBVIOUS
    <3>3. r.off \in Nat /\ Size[r.lsn] \in Nat
      BY <1>2, <3>1, <3>2, SegmentsAssumption
    <3>4. Before(file.rows, j) = r.off + Size[r.lsn]
      BY <2>2, <3>2 DEF Before
    <3> QED
      BY <3>3, <3>4
  <2> QED
    BY <2>1, <2>2
<1>4. file.rows[j].off >= Before(file.rows, j)
  BY DEF Solid
<1>5. Gap(file, j) <=> file.rows[j].off > Before(file.rows, j)
  BY DEF Gap, Before
<1>6. PICK a, b \in Nat : a = file.rows[j].off /\ b = Before(file.rows, j)
  BY <1>2, <1>3
<1>7. a >= b /\ (Gap(file, j) <=> a > b)
  BY <1>4, <1>5, <1>6
<1>8. (Gap(file, j) => a > 0) /\ (~Gap(file, j) => a = b)
  BY <1>7
<1> QED
  BY <1>2, <1>6, <1>8

\* From byte 0, the rows that are read are those before the first gap.
LEMMA ParseIs ==
  ASSUME NEW file \in File, Solid(file)
  PROVE  Parse(file, 0) = UpTo(file, Len(file.rows))
<1> DEFINE good(j) == /\ file.rows[j].off >= 0
                      /\ \A i \in 1..j : file.rows[i].off > 0 => ~Gap(file, i)
<1>1. file.rows \in Seq(Row)
  BY DEF File
<1>2. DOMAIN file.rows = 1..Len(file.rows) /\ Len(file.rows) \in Nat
  BY <1>1
<1>3. ASSUME NEW j \in 1..Len(file.rows) PROVE good(j) <=> Good(file, j)
  <2>1. \A i \in 1..j : i \in 1..Len(file.rows)
    BY <1>2
  <2>2. \A i \in 1..j : Gap(file, i) => file.rows[i].off > 0
    BY <2>1, GapIs
  <2>3. file.rows[j].off >= 0
    BY GapIs
  <2> QED
    BY <2>2, <2>3 DEF Good
<1>4. Parse(file, 0) =
        Concat([j \in DOMAIN file.rows |-> IF good(j) THEN <<file.rows[j].lsn>> ELSE <<>>])
  BY DEF Parse
<1> HIDE DEF good
<1>5. [j \in DOMAIN file.rows |-> IF good(j) THEN <<file.rows[j].lsn>> ELSE <<>>]
        = [j \in 1..Len(file.rows) |-> RowAt(file, j)]
  BY <1>2, <1>3 DEF RowAt
<1> QED
  BY <1>4, <1>5 DEF UpTo

\* What is read of the first n rows lies where the index says it does; without a
\* gap it is all of them.
Reads(file, n) ==
  /\ UpTo(file, n) \in Seq(Lsns) /\ Placed(file.rows, UpTo(file, n), 0)
  /\ Good(file, n) => /\ Len(UpTo(file, n)) = n /\ Bytes(UpTo(file, n)) = Before(file.rows, n + 1)
                      /\ \A i \in 1..n : UpTo(file, n)[i] = file.rows[i].lsn

\* The next row of the file.
LEMMA ReadsNext ==
  ASSUME DataFacts, NEW file \in File, Solid(file), NEW n \in Nat, n + 1 \in 1..Len(file.rows),
         Reads(file, n)
  PROVE  Reads(file, n + 1)
<1> DEFINE s == UpTo(file, n)
           row == file.rows[n + 1]
<1>1. s \in Seq(Lsns) /\ Placed(file.rows, s, 0)
  BY DEF Reads
<1>2. file.rows \in Seq(Row)
  BY DEF File
<1>3. \A j \in 1..(n + 1) : j \in 1..Len(file.rows)
  BY <1>2
<1>4. /\ row.lsn \in Lsns /\ row.off \in Nat
      /\ ~Gap(file, n + 1) => row.off = Before(file.rows, n + 1)
  BY GapIs
<1>5. UpTo(file, n + 1) = s \o RowAt(file, n + 1)
  <2>1. PICK f : f = [j \in 1..(n + 1) |-> RowAt(file, j)]
    BY Zenon
  <2>2. \A j \in 1..(n + 1) : RowAt(file, j) \in Seq(Lsns)
    <3>1. \A j \in 1..(n + 1) : file.rows[j].lsn \in Lsns
      BY <1>3, GapIs
    <3> QED
      BY <3>1 DEF RowAt
  <2>3. f \in [1..(n + 1) -> Seq(Lsns)] /\ f[n + 1] = RowAt(file, n + 1)
    BY <2>1, <2>2
  <2>4. [j \in 1..n |-> f[j]] = [j \in 1..n |-> RowAt(file, j)]
    BY <2>1
  <2>5. Concat(f) = Concat([j \in 1..n |-> f[j]]) \o f[n + 1]
    BY <2>3, ConcatLast, ZenonT(30)
  <2> QED
    BY <2>1, <2>3, <2>4, <2>5, Zenon DEF UpTo
<1> HIDE DEF s, row
<1>6. CASE ~Good(file, n + 1)
  <2>1. RowAt(file, n + 1) = <<>> /\ s \o <<>> = s
    BY <1>1, <1>6 DEF RowAt
  <2>2. UpTo(file, n + 1) = s
    BY <1>5, <2>1, Zenon
  <2> QED
    BY <1>1, <1>6, <2>2, Zenon DEF Reads
<1>7. CASE Good(file, n + 1)
  <2>1. RowAt(file, n + 1) = <<row.lsn>> /\ s \o <<row.lsn>> = Append(s, row.lsn)
    BY <1>1, <1>4, <1>7 DEF RowAt, row
  <2>2. UpTo(file, n + 1) = Append(s, row.lsn)
    BY <1>5, <2>1, Zenon
  <2>3. Good(file, n) /\ ~Gap(file, n + 1)
    BY <1>7 DEF Good
  <2>4. /\ Len(s) = n /\ Bytes(s) = Before(file.rows, n + 1)
        /\ \A i \in 1..n : s[i] = file.rows[i].lsn
    BY <2>3 DEF Reads, s
  <2>5. Bytes(s) = row.off /\ 0 + Bytes(s) = row.off
    BY <1>4, <2>3, <2>4
  <2>6. Holds(file.rows, row.lsn, 0 + Bytes(s))
    <3>1. row \in Row
      BY <1>2 DEF row
    <3>2. row = [lsn |-> row.lsn, off |-> row.off]
      BY <3>1 DEF Row
    <3> QED
      BY <2>5, <3>2 DEF Holds, row
  <2>7. More(file.rows, file.rows)
    BY <1>2 DEF More
  <2>8. Placed(file.rows, Append(s, row.lsn), 0)
    BY <1>1, <1>2, <1>4, <2>6, <2>7, PlacedMore
  <2>9. Bytes(Append(s, row.lsn)) = row.off + Size[row.lsn]
    BY <1>1, <1>4, <2>5, BytesAppend, Zenon
  <2>10. Before(file.rows, (n + 1) + 1) = row.off + Size[row.lsn]
    <3>1. (n + 1) + 1 # 1 /\ ((n + 1) + 1) - 1 = n + 1
      OBVIOUS
    <3> QED
      BY <3>1 DEF Before, row
  <2>11. /\ Append(s, row.lsn) \in Seq(Lsns) /\ Len(Append(s, row.lsn)) = n + 1
         /\ Append(s, row.lsn)[n + 1] = row.lsn
         /\ \A i \in 1..n : Append(s, row.lsn)[i] = s[i]
    BY <1>1, <1>4, <2>4
  <2>12. \A i \in 1..(n + 1) : Append(s, row.lsn)[i] = file.rows[i].lsn
    <3>1. \A i \in 1..(n + 1) : i \in 1..n \/ i = n + 1
      OBVIOUS
    <3> QED
      BY <2>4, <2>11, <3>1 DEF row
  <2> QED
    BY <2>2, <2>8, <2>9, <2>10, <2>11, <2>12, Zenon DEF Reads
<1> QED
  BY <1>6, <1>7

\* The whole file.
LEMMA ParseReads ==
  ASSUME DataFacts, NEW file \in File, Solid(file)
  PROVE  /\ Parse(file, 0) \in Seq(Lsns) /\ Placed(file.rows, Parse(file, 0), 0)
         /\ (\E j \in 1..Len(file.rows) : Gap(file, j))
            \/ \A j \in 1..Len(file.rows) : file.rows[j].lsn \in Range(Parse(file, 0))
<1>1. PICK k \in Nat : k = Len(file.rows)
  BY DEF File
<1> DEFINE T == {n \in Nat : n <= k => Reads(file, n)}
<1>2. 0 \in T
  <2>1. [j \in 1..0 |-> RowAt(file, j)] = <<>>
    OBVIOUS
  <2>2. UpTo(file, 0) = <<>>
    BY <2>1, ConcatEmpty DEF UpTo
  <2>3. Placed(file.rows, <<>>, 0) /\ Before(file.rows, 0 + 1) = 0
    BY DEF Placed, Before
  <2>4. <<>> \in Seq(Lsns) /\ Len(<<>>) = 0 /\ ~\E i : i \in 1..0
    OBVIOUS
  <2>5. Reads(file, 0)
    BY <2>2, <2>3, <2>4, BytesEmpty, Zenon DEF Reads
  <2> QED
    BY <2>5
<1>3. ASSUME NEW n \in T \cap Nat PROVE n + 1 \in T
  <2>1. n \in Nat /\ (n <= k => Reads(file, n))
    OBVIOUS
  <2> HIDE DEF T
  <2>2. ASSUME n + 1 <= k PROVE Reads(file, n + 1)
    <3>1. n <= k /\ n + 1 \in 1..Len(file.rows)
      BY <1>1, <2>1, <2>2
    <3> QED
      BY <2>1, <3>1, ReadsNext
  <2> QED
    BY <2>1, <2>2 DEF T
<1> HIDE DEF T
<1>4. Nat \subseteq T
  BY <1>2, <1>3 DEF DataFacts
<1>5. Reads(file, k)
  BY <1>4 DEF T
<1>6. PICK s : s = UpTo(file, k) /\ s = Parse(file, 0)
  BY <1>1, ParseIs
<1>7. /\ s \in Seq(Lsns) /\ Placed(file.rows, s, 0)
      /\ Good(file, k) => Len(s) = k /\ \A i \in 1..k : s[i] = file.rows[i].lsn
  BY <1>5, <1>6 DEF Reads
<1>8. CASE Good(file, k)
  <2>1. DOMAIN s = 1..k
    BY <1>7, <1>8
  <2>2. \A j \in 1..k : file.rows[j].lsn \in Range(s)
    BY <1>7, <1>8, <2>1 DEF Range
  <2> QED
    BY <1>1, <1>6, <1>7, <2>2
<1>9. CASE ~Good(file, k)
  BY <1>1, <1>6, <1>7, <1>9 DEF Good
<1> QED
  BY <1>8, <1>9, Zenon
-----------------------------------------------------------------------------
(***************************************************************************)
(* LogReader.read of a file without a gap, from a row on.                  *)
(***************************************************************************)
\* The first n of the values from place j on.
FromPlace(s, v, j, n) ==
  /\ Len(s) = IF n < j THEN 0 ELSE (n - j) + 1
  /\ \A i \in 1..Len(s) : s[i] = v[(j + i) - 1]

\* Nothing before place j, then one value at each place.
LEMMA ConcatFrom ==
  ASSUME DataFacts, NEW S, NEW m \in Nat, NEW j \in Nat \ {0}, NEW v \in [1..m -> S],
         NEW f \in [1..m -> Seq(S)], \A i \in 1..m : f[i] = IF i < j THEN <<>> ELSE <<v[i]>>
  PROVE  Concat(f) \in Seq(S) /\ FromPlace(Concat(f), v, j, m)
<1> DEFINE T == {n \in Nat : n <= m => Front(f, n) \in Seq(S) /\ FromPlace(Front(f, n), v, j, n)}
<1>1. 0 \in T
  <2>1. Front(f, 0) = <<>>
    BY FrontEnds
  <2>2. <<>> \in Seq(S) /\ FromPlace(<<>>, v, j, 0)
    BY DEF FromPlace
  <2> QED
    BY <2>1, <2>2, Zenon
<1>2. ASSUME NEW n \in T \cap Nat PROVE n + 1 \in T
  <2>1. n \in Nat /\ (n <= m => Front(f, n) \in Seq(S) /\ FromPlace(Front(f, n), v, j, n))
    OBVIOUS
  <2> HIDE DEF T
  <2>2. ASSUME n + 1 <= m
        PROVE  Front(f, n + 1) \in Seq(S) /\ FromPlace(Front(f, n + 1), v, j, n + 1)
    <3>1. n <= m /\ n + 1 \in 1..m
      BY <2>1, <2>2
    <3>2. Front(f, n + 1) = Front(f, n) \o f[n + 1]
      BY <2>1, <2>2, FrontStep, Zenon
    <3>3. PICK s \in Seq(S) : s = Front(f, n) /\ FromPlace(s, v, j, n)
      BY <2>1, <3>1
    <3>4. CASE n + 1 < j
      <4>1. f[n + 1] = <<>> /\ s \o <<>> = s
        BY <3>1, <3>4
      <4>2. FromPlace(s, v, j, n + 1)
        BY <2>1, <3>3, <3>4 DEF FromPlace
      <4> QED
        BY <3>2, <3>3, <4>1, <4>2, Zenon
    <3>5. CASE ~(n + 1 < j)
      <4>1. PICK e \in S : e = v[n + 1]
        BY <3>1
      <4>2. f[n + 1] = <<e>> /\ s \o <<e>> = Append(s, e)
        BY <3>1, <3>5, <4>1
      <4>3. PICK k \in Nat : k = Len(s)
        OBVIOUS
      <4>4. k + 1 = ((n + 1) - j) + 1 /\ (j + (k + 1)) - 1 = n + 1
        BY <2>1, <3>3, <3>5, <4>3 DEF FromPlace
      <4>5. PICK a : a = Append(s, e)
        BY Zenon
      <4>6. a \in Seq(S) /\ Len(a) = k + 1 /\ a[k + 1] = e /\ \A i \in 1..k : a[i] = s[i]
        BY <4>3, <4>5
      <4>7. ASSUME NEW i \in 1..(k + 1) PROVE a[i] = v[(j + i) - 1]
        <5>1. i \in 1..k \/ i = k + 1
          OBVIOUS
        <5>2. CASE i \in 1..k
          BY <3>3, <4>3, <4>6, <5>2 DEF FromPlace
        <5>3. CASE i = k + 1
          BY <4>1, <4>4, <4>6, <5>3
        <5> QED
          BY <5>1, <5>2, <5>3
      <4>8. FromPlace(a, v, j, n + 1)
        BY <3>5, <4>4, <4>6, <4>7 DEF FromPlace
      <4> QED
        BY <3>2, <3>3, <4>2, <4>5, <4>6, <4>8, Zenon
    <3> QED
      BY <3>4, <3>5
  <2> QED
    BY <2>1, <2>2 DEF T
<1> HIDE DEF T
<1>3. m \in T
  BY <1>1, <1>2 DEF DataFacts
<1>4. m <= m /\ Front(f, m) = Concat(f)
  BY FrontEnds
<1> QED
  BY <1>3, <1>4 DEF T

\* A row starts after the rows before it.
LEMMA OffsetsGrow ==
  ASSUME DataFacts, NEW file \in File, Solid(file), NEW i \in 1..Len(file.rows),
         NEW j \in 1..Len(file.rows), i < j
  PROVE  file.rows[i].off < file.rows[j].off
<1>1. PICK k \in Nat : k = Len(file.rows)
  BY DEF File
<1>2. \A n \in 1..k : file.rows[n].off \in Nat /\ file.rows[n].lsn \in Lsns
  BY <1>1, GapIs
<1>3. ASSUME NEW n \in 1..k, n + 1 \in 1..k PROVE file.rows[n].off < file.rows[n + 1].off
  <2>1. Before(file.rows, n + 1) = file.rows[n].off + Size[file.rows[n].lsn]
    <3>1. n + 1 # 1 /\ (n + 1) - 1 = n
      OBVIOUS
    <3> QED
      BY <3>1 DEF Before
  <2>2. file.rows[n + 1].off >= Before(file.rows, n + 1)
    BY <1>1, <1>3 DEF Solid
  <2>3. PICK a, b, c \in Nat : /\ a = file.rows[n].off /\ b = file.rows[n + 1].off
                              /\ c = Size[file.rows[n].lsn] /\ c # 0
    BY <1>2, <1>3, SegmentsAssumption, Zenon
  <2>4. b >= a + c
    BY <2>1, <2>2, <2>3
  <2>5. a < b
    <3>1. \A x, y, z \in Nat : z # 0 /\ y >= x + z => x < y
      OBVIOUS
    <3> QED
      BY <2>3, <2>4, <3>1, Zenon
  <2> QED
    BY <2>3, <2>5
<1> DEFINE T == {d \in Nat : i + d + 1 <= k => file.rows[i].off < file.rows[i + d + 1].off}
<1>4. 0 \in T
  <2>1. i + 0 + 1 = i + 1 /\ i \in 1..k /\ (i + 0 + 1 <= k => i + 1 \in 1..k)
    BY <1>1
  <2> QED
    BY <1>3, <2>1
<1>5. ASSUME NEW d \in T \cap Nat PROVE d + 1 \in T
  <2>1. d \in Nat /\ (i + d + 1 <= k => file.rows[i].off < file.rows[i + d + 1].off)
    OBVIOUS
  <2> HIDE DEF T
  <2>2. ASSUME i + (d + 1) + 1 <= k PROVE file.rows[i].off < file.rows[i + (d + 1) + 1].off
    <3>1. PICK n \in 1..k : n = i + d + 1 /\ n + 1 \in 1..k /\ i + (d + 1) + 1 = n + 1
      BY <1>1, <2>1, <2>2
    <3>2. file.rows[i].off < file.rows[n].off /\ file.rows[n].off < file.rows[n + 1].off
      BY <1>3, <2>1, <3>1
    <3>3. PICK a, b, c \in Nat : /\ a = file.rows[i].off /\ b = file.rows[n].off
                                /\ c = file.rows[n + 1].off
      <4>1. i \in 1..k /\ n \in 1..k /\ n + 1 \in 1..k
        BY <1>1, <3>1
      <4>2. file.rows[i].off \in Nat /\ file.rows[n].off \in Nat /\ file.rows[n + 1].off \in Nat
        BY <1>2, <4>1
      <4> QED
        BY <4>2
    <3>4. a < b /\ b < c
      BY <3>2, <3>3, Zenon
    <3>5. a < c
      BY <3>4
    <3> QED
      BY <3>1, <3>3, <3>5, Zenon
  <2> QED
    BY <2>1, <2>2 DEF T
<1> HIDE DEF T
<1>6. Nat \subseteq T
  BY <1>4, <1>5 DEF DataFacts
<1>7. j - i - 1 \in Nat /\ i + (j - i - 1) + 1 = j /\ j <= k
  BY <1>1
<1>8. j - i - 1 \in T
  BY <1>6, <1>7
<1> QED
  BY <1>7, <1>8 DEF T

\* Row j starts at byte off; byte 0 is also where an empty file starts.
StartAt(rows, j, off) ==
  (j = 1 /\ off = 0) \/ (j \in 1..Len(rows) /\ rows[j].off = off)

\* The rows that are read are those from row j on.
LEMMA ParseFrom ==
  ASSUME DataFacts, NEW file \in File, Solid(file), Good(file, Len(file.rows)),
         NEW j \in Nat \ {0}, NEW off \in Nat, StartAt(file.rows, j, off)
  PROVE  /\ Parse(file, off) \in Seq(Lsns) /\ (Len(file.rows) - j) + 1 \in Nat
         /\ Len(Parse(file, off)) = (Len(file.rows) - j) + 1
         /\ \A i \in 1..Len(Parse(file, off)) :
              Parse(file, off)[i] = file.rows[(j + i) - 1].lsn
<1> DEFINE good(i) == /\ file.rows[i].off >= off
                      /\ \A n \in 1..i : file.rows[n].off > off => ~Gap(file, n)
           f == [i \in DOMAIN file.rows |-> IF good(i) THEN <<file.rows[i].lsn>> ELSE <<>>]
<1>1. Parse(file, off) = Concat(f)
  BY DEF Parse
<1>2. PICK k \in Nat : k = Len(file.rows) /\ DOMAIN file.rows = 1..k
  BY DEF File
<1>3. \A i \in 1..k : file.rows[i].off \in Nat /\ file.rows[i].lsn \in Lsns
  BY <1>2, GapIs
<1>4. ASSUME NEW i \in 1..k PROVE good(i) <=> ~(i < j)
  <2>1. \A n \in 1..i : ~Gap(file, n)
    BY <1>2 DEF Good
  <2>2. good(i) <=> file.rows[i].off >= off
    BY <2>1
  <2>3. CASE j = 1 /\ off = 0
    BY <1>3, <2>2, <2>3
  <2>4. CASE j \in 1..k /\ file.rows[j].off = off
    <3>1. (i < j => file.rows[i].off < off) /\ (j < i => off < file.rows[i].off)
      BY <1>2, <2>4, OffsetsGrow
    <3>2. file.rows[i].off \in Nat /\ (i = j => file.rows[i].off = off)
      BY <1>3, <2>4
    <3>3. PICK a \in Nat : a = file.rows[i].off
      BY <3>2
    <3>4. a >= off <=> ~(i < j)
      BY <2>4, <3>1, <3>2, <3>3
    <3> HIDE DEF good
    <3> QED
      BY <2>2, <3>3, <3>4
  <2> QED
    BY <1>2, <2>3, <2>4 DEF StartAt
<1> HIDE DEF good
<1>5. PICK v : v = [i \in 1..k |-> file.rows[i].lsn]
  BY Zenon
<1>6. v \in [1..k -> Lsns] /\ \A i \in 1..k : v[i] = file.rows[i].lsn
  BY <1>3, <1>5
<1>7. \A i \in 1..k : f[i] = IF i < j THEN <<>> ELSE <<v[i]>>
  BY <1>2, <1>4, <1>6
<1>8. DOMAIN f = 1..k /\ f = [i \in 1..k |-> f[i]]
  BY <1>2
<1> HIDE DEF f
<1>9. ASSUME NEW i \in 1..k PROVE f[i] \in Seq(Lsns)
  <2>1. v[i] \in Lsns
    BY <1>6
  <2>2. <<>> \in Seq(Lsns) /\ <<v[i]>> \in Seq(Lsns)
    BY <2>1
  <2> QED
    BY <1>7, <2>2, Zenon
<1>10. f \in [1..k -> Seq(Lsns)]
  BY <1>8, <1>9
<1>11. PICK s : s = Concat(f) /\ s \in Seq(Lsns) /\ FromPlace(s, v, j, k)
  BY <1>6, <1>7, <1>10, ConcatFrom, Zenon
<1>12. j <= k + 1
  BY <1>2 DEF StartAt
<1>13. (k - j) + 1 \in Nat /\ Len(s) = (k - j) + 1
  BY <1>11, <1>12 DEF FromPlace
<1>14. ASSUME NEW i \in 1..Len(s) PROVE s[i] = file.rows[(j + i) - 1].lsn
  <2>1. (j + i) - 1 \in 1..k
    BY <1>12, <1>13
  <2> QED
    BY <1>6, <1>11, <2>1 DEF FromPlace
<1> QED
  BY <1>1, <1>2, <1>11, <1>13, <1>14
=============================================================================
