------------------------ MODULE SegmentsIndexProofs ------------------------
(***************************************************************************)
(* The LSN index: every entry leads to its row, and a restart finds every  *)
(* row that no torn write hides.  Then the handler that streams the log:   *)
(* what it reads, file by file while others write, is one piece of the     *)
(* log.  The theorems about Segments are at the end of this module.        *)
(***************************************************************************)
EXTENDS SegmentsProofs

-----------------------------------------------------------------------------
(***************************************************************************)
(* What the index says.  The files keep their rows, so an entry that leads *)
(* to its row goes on to do so.                                            *)
(***************************************************************************)
Leads(fs, m) ==
  \A l \in Lsns : m[l] # None => m[l].file \in DOMAIN fs /\ Holds(fs[m[l].file].rows, l, m[l].off)

Keeps(fs, gs) == \A n \in DOMAIN fs : n \in DOMAIN gs /\ More(fs[n].rows, gs[n].rows)

SolidInv == \A n \in DOMAIN files : Solid(files[n])

LeadInv ==
  ~raced => /\ Leads(files, index)
            /\ \A a \in adds : Leads(files, a.entries) /\ (a.old # None => Leads(files, a.old))

PlaceInv ==
  ~raced => \A p \in Writers : w[p].pc = "put" =>
    /\ w[p].name = cur /\ w[p].off = size
    /\ \E done \in Seq(Lsns) : /\ Put(w[p], done, mutex = p, files[cur].end, size)
                               /\ Placed(files[cur].rows, done, size)

\* The restart has read a file: its rows are indexed, unless one was torn.
Found(file, m) ==
  \/ \A j \in 1..Len(file.rows) : m[file.rows[j].lsn] # None
  \/ \E j \in 1..Len(file.rows) : Gap(file, j)

RestoreInv ==
  phase = "restoring" => \A n \in DOMAIN files : n \in Range(restore) \/ Found(files[n], index)

IndexInv == SolidInv /\ LeadInv /\ PlaceInv /\ RestoreInv

\* An entry goes on to lead to its row.
LEMMA LeadsStay ==
  ASSUME NEW fs, NEW gs, FilesOK(fs), FilesOK(gs), Keeps(fs, gs), NEW m, Leads(fs, m)
  PROVE  Leads(gs, m)
<1> SUFFICES ASSUME NEW l \in Lsns, m[l] # None
             PROVE  m[l].file \in DOMAIN gs /\ Holds(gs[m[l].file].rows, l, m[l].off)
  BY DEF Leads
<1>1. PICK n : n = m[l].file
  OBVIOUS
<1>2. n \in DOMAIN fs /\ Holds(fs[n].rows, l, m[l].off)
  BY <1>1 DEF Leads
<1>3. n \in DOMAIN gs /\ More(fs[n].rows, gs[n].rows)
  BY <1>2 DEF Keeps
<1>4. fs[n].rows \in Seq(Row) /\ gs[n].rows \in Seq(Row)
  BY <1>2, <1>3 DEF FilesOK, File
<1> QED
  BY <1>1, <1>2, <1>3, <1>4, HoldsMore

\* AddBatchIndex and restoreIndex put entries into the map.
LEMMA LeadsMerge ==
  ASSUME NEW fs, NEW m, NEW new, Leads(fs, m), Leads(fs, new)
  PROVE  Leads(fs, Merge(m, new))
  BY DEF Leads, Merge

\* The entries of rows that follow each other from byte off lead to them.
LEMMA LeadsEntries ==
  ASSUME DataFacts, NEW fs, NEW name \in DOMAIN fs, NEW rows \in Seq(Lsns), NEW off,
         Placed(fs[name].rows, rows, off)
  PROVE  Leads(fs, EntriesOf(rows, name, off))
<1> SUFFICES ASSUME NEW l \in Lsns, NEW e, e = EntriesOf(rows, name, off)[l], e # None
             PROVE  e.file \in DOMAIN fs /\ Holds(fs[e.file].rows, l, e.off)
  BY DEF Leads
<1>1. l \in Range(rows)
  BY EntriesAre, Zenon
<1>2. PICK i : i = First(rows, l)
  OBVIOUS
<1>3. i \in 1..Len(rows) /\ rows[i] = l
  BY <1>1, <1>2, FirstOf
<1>4. e = [file |-> name, off |-> off + Bytes(SubSeq(rows, 1, i - 1))]
  BY <1>1, <1>2, EntriesAre
<1>5. Holds(fs[name].rows, l, off + Bytes(SubSeq(rows, 1, i - 1)))
  BY <1>3 DEF Placed
<1> QED
  BY <1>4, <1>5

-----------------------------------------------------------------------------
(***************************************************************************)
(* The steps.                                                              *)
(***************************************************************************)
\* The directory does not change.
LEMMA KeepsSame == ASSUME FilesOK(files), files' = files PROVE Keeps(files, files')
<1>1. \A n \in DOMAIN files : files[n].rows \in Seq(Row)
  BY DEF FilesOK, File
<1> QED
  BY <1>1, MoreSame DEF Keeps

\* A row is put at the end of the file: the rows are solid, and the others stay.
LEMMA PutKeeps ==
  ASSUME TypeInv, SolidInv, NEW p \in Writers, PutRow(p)
  PROVE  /\ SolidInv' /\ Keeps(files, files')
         /\ Holds(files'[cur].rows, Head(w[p].left), files[cur].end)
<1>1. PICK l \in Lsns, f \in File :
        /\ l = Head(w[p].left) /\ files' = [files EXCEPT ![cur] = f]
        /\ f.rows = Append(files[cur].rows, [lsn |-> l, off |-> files[cur].end])
        /\ f.end = files[cur].end + Size[l]
  BY PutFile, Zenon
<1>2. FilesOK(files) /\ cur \in DOMAIN files /\ files[cur] \in File
  BY DEF TypeInv, DiskType, FilesOK
<1>3. /\ DOMAIN files' = DOMAIN files /\ files'[cur] = f
      /\ \A n \in DOMAIN files : n # cur => files'[n] = files[n]
  BY <1>1, <1>2, FilesSet
<1>4. PICK rows \in Seq(Row), e \in Nat : rows = files[cur].rows /\ e = files[cur].end
  BY <1>2 DEF File
<1>5. PICK row \in Row : row = [lsn |-> l, off |-> e]
  BY Zenon DEF Row
<1>6. PICK k \in Nat : k = Len(rows)
  OBVIOUS
<1>7. f.rows = Append(rows, row) /\ f.end = e + Size[l] /\ Size[l] \in Nat
  BY <1>1, <1>4, <1>5, SegmentsAssumption
<1>8. Len(f.rows) = k + 1 /\ f.rows[k + 1] = row /\ \A j \in 1..k : f.rows[j] = rows[j]
  BY <1>6, <1>7
<1>9. Solid(files[cur])
  BY <1>2 DEF SolidInv
<1>10. (\A j \in 1..k : rows[j].off >= Before(rows, j)) /\ e >= Before(rows, k + 1)
  BY <1>4, <1>6, <1>9 DEF Solid
<1>11. ASSUME NEW j \in 1..(k + 1) PROVE Before(f.rows, j) = Before(rows, j)
  <2>1. j # 1 => j - 1 \in 1..k
    OBVIOUS
  <2> QED
    BY <1>8, <2>1 DEF Before
<1>12. Before(f.rows, (k + 1) + 1) = e + Size[l]
  <2>1. (k + 1) + 1 # 1 /\ ((k + 1) + 1) - 1 = k + 1
    OBVIOUS
  <2> QED
    BY <1>5, <1>8, <2>1 DEF Before
<1>13. ASSUME NEW j \in 1..(k + 1) PROVE f.rows[j].off >= Before(f.rows, j)
  <2>1. j \in 1..k \/ j = k + 1
    OBVIOUS
  <2> QED
    BY <1>5, <1>8, <1>10, <1>11, <2>1
<1>14. f.end >= Before(f.rows, (k + 1) + 1)
  BY <1>4, <1>7, <1>12
<1>15. Solid(f)
  BY <1>8, <1>13, <1>14 DEF Solid
<1>16. SolidInv'
  BY <1>3, <1>15 DEF SolidInv
<1>17. More(rows, f.rows)
  <2>1. k <= k + 1
    OBVIOUS
  <2> QED
    BY <1>6, <1>8, <2>1 DEF More
<1>18. \A n \in DOMAIN files : More(files[n].rows, files'[n].rows)
  <2>1. \A n \in DOMAIN files : files[n].rows \in Seq(Row)
    BY <1>2 DEF FilesOK, File
  <2> QED
    BY <1>3, <1>4, <1>17, <2>1, MoreSame
<1>19. Keeps(files, files')
  BY <1>3, <1>18 DEF Keeps
<1>20. Holds(f.rows, l, e)
  <2>1. k + 1 \in 1..(k + 1)
    OBVIOUS
  <2> QED
    BY <1>5, <1>8, <2>1 DEF Holds
<1> QED
  BY <1>1, <1>3, <1>4, <1>16, <1>19, <1>20, Zenon

\* A new file is empty.
LEMMA RotateKeeps ==
  ASSUME DataFacts, TypeInv, SolidInv, NEW p \in Writers, Rotate(p)
  PROVE  SolidInv' /\ Keeps(files, files')
<1>1. FilesOK(files) /\ cur \in DOMAIN files
  BY DEF TypeInv, DiskType
<1>2. PICK name \in NewNames :
        files' = [n \in DOMAIN files \cup {name} |-> IF n = name THEN EmptyFile ELSE files[n]]
  BY DEF Rotate
<1>3. name \notin DOMAIN files
  <2>1. PICK m \in Nat \ {0} : m = Max(DOMAIN files) /\ \A n \in DOMAIN files : n \in 1..m
    BY <1>1, LastName
  <2>2. name = m + 1 \/ name \in 1..m \ DOMAIN files
    BY <2>1 DEF NewNames
  <2> QED
    BY <2>1, <2>2
<1>4. /\ DOMAIN files' = DOMAIN files \cup {name} /\ files'[name] = EmptyFile
      /\ \A n \in DOMAIN files : files'[n] = files[n]
  BY <1>2, <1>3
<1>5. Solid(EmptyFile)
  BY DEF Solid, EmptyFile, Before
<1>6. SolidInv'
  BY <1>4, <1>5 DEF SolidInv
<1>7. \A n \in DOMAIN files : files[n].rows \in Seq(Row)
  BY <1>1 DEF FilesOK, File
<1>8. Keeps(files, files')
  BY <1>4, <1>7, MoreSame DEF Keeps
<1> QED
  BY <1>6, <1>8

\* A torn write makes the file longer; its rows stay.
LEMMA CrashKeeps ==
  ASSUME TypeInv, SolidInv, Crash PROVE SolidInv'
<1>1. CASE UNCHANGED files
  BY <1>1 DEF SolidInv
<1>2. CASE files' = [files EXCEPT ![cur].end = @ + 1, ![cur].shared = @ \/ raced]
  <2>1. PICK f \in File : /\ files' = [files EXCEPT ![cur] = f] /\ f.rows = files[cur].rows
                          /\ f.end = files[cur].end + 1
    BY <1>2, TornFile, Zenon
  <2>2. cur \in DOMAIN files /\ files[cur] \in File /\ Solid(files[cur])
    BY DEF TypeInv, DiskType, FilesOK, SolidInv
  <2>3. PICK e \in Nat : e = files[cur].end
    BY <2>2 DEF File
  <2>4. PICK k \in Nat : k = Len(f.rows)
    BY DEF File
  <2>5. Before(f.rows, k + 1) \in Nat
    <3>1. CASE k = 0
      BY <3>1 DEF Before
    <3>2. CASE k # 0
      <4>1. k + 1 # 1 /\ (k + 1) - 1 = k /\ k \in 1..k
        BY <3>2
      <4>2. f.rows[k] \in Row
        BY <2>4, <4>1 DEF File
      <4>3. f.rows[k].off \in Nat /\ Size[f.rows[k].lsn] \in Nat
        BY <4>2, SegmentsAssumption DEF Row
      <4>4. Before(f.rows, k + 1) = f.rows[k].off + Size[f.rows[k].lsn]
        BY <4>1 DEF Before
      <4> QED
        BY <4>3, <4>4
    <3> QED
      BY <3>1, <3>2
  <2>6. PICK b \in Nat : b = Before(f.rows, k + 1)
    BY <2>5
  <2>7. e >= b
    BY <2>1, <2>2, <2>3, <2>4, <2>6 DEF Solid
  <2>8. f.end >= Before(f.rows, k + 1)
    <3>1. e + 1 >= b
      BY <2>7
    <3> QED
      BY <2>1, <2>3, <2>6, <3>1
  <2>9. Solid(f)
    BY <2>1, <2>2, <2>4, <2>8 DEF Solid
  <2> QED
    BY <2>1, <2>2, <2>9 DEF SolidInv
<1> QED
  BY <1>1, <1>2 DEF Crash

\* The entries stay, while rows are added to the files.
LEMMA LeadStays ==
  ASSUME TypeInv, TypeInv', LeadInv, Keeps(files, files'), UNCHANGED indexVars, ~raced' => ~raced
  PROVE  LeadInv'
<1>1. FilesOK(files) /\ FilesOK(files') /\ index' = index /\ adds' = adds
  BY DEF TypeInv, DiskType, indexVars
<1>2. ASSUME NEW m, Leads(files, m) PROVE Leads(files', m)
  BY <1>1, <1>2, LeadsStay
<1> QED
  BY <1>1, <1>2 DEF LeadInv

\* No call is about to put a row.
LEMMA PlaceNone ==
  ASSUME TypeInv, NEW p \in Writers, w'[p].pc # "put", \A q \in Writers \ {p} : w'[q] = w[q],
         ~raced' => \A q \in Writers \ {p} : w[q].pc = "idle"
  PROVE  PlaceInv'
  BY DEF PlaceInv

\* The other calls, when they have not overlapped.
LEMMA OthersIdle ==
  ASSUME BoundInv, NEW p \in Writers, w[p].pc # "idle", ~raced
  PROVE  \A q \in Writers \ {p} : w[q].pc = "idle"
  BY DEF BoundInv, Alone

\* A call begins, cuts its batch, or fails: no row is put, and nothing indexed.
LEMMA IndexCalls ==
  ASSUME TypeInv, TypeInv', BoundInv, IndexInv, NEW p \in Writers,
         (\E b \in Batches : Write(p, b)) \/ Cut(p) \/ IOError(p)
  PROVE  IndexInv'
<1>1. UNCHANGED <<files, cur, size, indexVars>> /\ phase' = "up" /\ (~raced' => ~raced)
  <2>1. CASE \E b \in Batches : Write(p, b)
    BY <2>1, Zenon DEF Write, diskVars
  <2>2. CASE Cut(p)
    BY <2>2 DEF Cut, diskVars
  <2>3. CASE IOError(p)
    BY <2>3 DEF IOError, diskVars
  <2> QED
    BY <2>1, <2>2, <2>3
<1>2. w \in [Writers -> Call]
  BY DEF TypeInv, WriteType
<1>3. w'[p].pc # "put" /\ \A q \in Writers \ {p} : w'[q] = w[q]
  <2>1. CASE \E b \in Batches : Write(p, b)
    BY <1>2, <2>1, Zenon DEF Write, Idle
  <2>2. CASE Cut(p)
    <3>1. w[p] \in Call /\ w[p].pc = "cut"
      BY <1>2, <2>2 DEF Cut
    <3>2. PICK c, d : c = [w[p] EXCEPT !.chunk = Append(@, Head(w[p].batch)), !.batch = Tail(@)]
                      /\ d = [w[p] EXCEPT !.pc = "locate", !.left = w[p].chunk]
      OBVIOUS
    <3>3. c.pc = "cut" /\ d.pc = "locate"
      BY <3>1, <3>2 DEF Call
    <3>4. w' = [w EXCEPT ![p] = c] \/ w' = [w EXCEPT ![p] = d]
      BY <2>2, <3>2, Zenon DEF Cut
    <3> QED
      BY <1>2, <3>3, <3>4
  <2>3. CASE IOError(p)
    BY <1>2, <2>3 DEF IOError, Idle
  <2> QED
    BY <2>1, <2>2, <2>3
<1>4. ~raced' => \A q \in Writers \ {p} : w[q].pc = "idle"
  <2>1. CASE \E b \in Batches : Write(p, b)
    BY <2>1, Zenon DEF Write
  <2>2. CASE Cut(p) \/ IOError(p)
    BY <1>1, <2>2, OthersIdle DEF Cut, IOError
  <2> QED
    BY <2>1, <2>2
<1>5. PlaceInv'
  BY <1>3, <1>4, PlaceNone
<1>6. LeadInv'
  <2>1. Keeps(files, files')
    BY <1>1, KeepsSame DEF TypeInv, DiskType
  <2> QED
    BY <1>1, <2>1, LeadStays DEF IndexInv
<1>7. SolidInv' /\ RestoreInv'
  BY <1>1 DEF IndexInv, SolidInv, RestoreInv
<1> QED
  BY <1>5, <1>6, <1>7 DEF IndexInv

\* A chunk of which no row was put.
LEMMA PlacedNone == ASSUME NEW rows, NEW off PROVE Placed(rows, <<>>, off)
  BY DEF Placed

\* GetName and CurrentOffset: with one call at a time they are where the chunk
\* will be.
LEMMA IndexLocate ==
  ASSUME TypeInv, TypeInv', BoundInv, IndexInv, NEW p \in Writers, Locate(p)
  PROVE  IndexInv'
<1>1. UNCHANGED <<files, cur, size, raced, mutex, indexVars>> /\ phase' = "up"
  BY DEF Locate, diskVars
<1>2. w[p] \in Call /\ w \in [Writers -> Call] /\ w[p].pc = "locate" /\ w[p].left = w[p].chunk
  BY DEF TypeInv, WriteType, LockInv, Locate
<1>3. PICK c : c = [w[p] EXCEPT !.pc = "put", !.name = cur, !.off = size]
  OBVIOUS
<1>4. w' = [w EXCEPT ![p] = c]
  BY <1>3, Zenon DEF Locate
<1>5. c.pc = "put" /\ c.name = cur /\ c.off = size /\ c.left = c.chunk /\ c.chunk \in Seq(Lsns)
  BY <1>2, <1>3 DEF Call
<1>6. w'[p] = c /\ \A q \in Writers \ {p} : w'[q] = w[q]
  BY <1>2, <1>4
<1>7. mutex # p
  BY <1>2 DEF TypeInv, LockInv
<1>8. c.chunk = <<>> \o c.left /\ <<>> \in Seq(Lsns)
  BY <1>5
<1>9. Put(c, <<>>, mutex' = p, files'[cur'].end, size')
  BY <1>1, <1>7, <1>8 DEF Put
<1>10. Placed(files'[cur'].rows, <<>>, size')
  BY PlacedNone
<1>11. ASSUME ~raced', NEW q \in Writers, w'[q].pc = "put" PROVE q = p
  BY <1>1, <1>2, <1>6, <1>11, OthersIdle
<1>12. PlaceInv'
  <2>1. \E done \in Seq(Lsns) : /\ Put(w'[p], done, mutex' = p, files'[cur'].end, size')
                                /\ Placed(files'[cur'].rows, done, size')
    BY <1>6, <1>8, <1>9, <1>10, Zenon
  <2> QED
    BY <1>1, <1>5, <1>6, <1>11, <2>1 DEF PlaceInv
<1>13. LeadInv'
  <2>1. Keeps(files, files')
    BY <1>1, KeepsSame DEF TypeInv, DiskType
  <2> QED
    BY <1>1, <2>1, LeadStays DEF IndexInv
<1>14. SolidInv' /\ RestoreInv'
  BY <1>1 DEF IndexInv, SolidInv, RestoreInv
<1> QED
  BY <1>12, <1>13, <1>14 DEF IndexInv

\* The row is put where the index entry of it will say.
LEMMA IndexPutRow ==
  ASSUME DataFacts, TypeInv, TypeInv', BoundInv, IndexInv, NEW p \in Writers, PutRow(p)
  PROVE  IndexInv'
<1>1. UNCHANGED <<cur, size, raced, indexVars>> /\ phase' = "up" /\ mutex' = p
  BY DEF PutRow
<1>2. /\ SolidInv' /\ Keeps(files, files')
      /\ Holds(files'[cur].rows, Head(w[p].left), files[cur].end)
  BY PutKeeps DEF IndexInv
<1>3. LeadInv'
  BY <1>1, <1>2, LeadStays DEF IndexInv
<1>4. /\ w[p] \in Call /\ w \in [Writers -> Call] /\ w[p].pc = "put" /\ w[p].left # <<>>
      /\ mutex \in {None, p} /\ phase = "up"
  BY DEF TypeInv, WriteType, PutRow
<1>5. PICK c : c = [w[p] EXCEPT !.left = Tail(w[p].left)]
  BY Zenon
<1>6. w' = [w EXCEPT ![p] = c]
  BY <1>5 DEF PutRow
<1>7. /\ c.pc = "put" /\ c.name = w[p].name /\ c.off = w[p].off /\ c.chunk = w[p].chunk
      /\ c.left = Tail(w[p].left)
  BY <1>4, <1>5 DEF Call
<1>8. w'[p] = c /\ \A q \in Writers \ {p} : w'[q] = w[q]
  BY <1>4, <1>6
<1>9. ASSUME ~raced
      PROVE  /\ c.name = cur /\ c.off = size
             /\ \E d \in Seq(Lsns) : /\ Put(c, d, mutex' = p, files'[cur].end, size)
                                     /\ Placed(files'[cur].rows, d, size)
  <2>1. PICK done \in Seq(Lsns) : /\ Put(w[p], done, mutex = p, files[cur].end, size)
                                  /\ Placed(files[cur].rows, done, size)
    BY <1>4, <1>9 DEF IndexInv, PlaceInv
  <2>2. size \in Nat /\ files[cur].end \in Nat /\ cur \in DOMAIN files /\ cur' \in DOMAIN files'
    BY DEF TypeInv, DiskType, FilesOK, File
  <2>3. w[p].chunk = done \o w[p].left /\ files[cur].end = size + Bytes(done)
    <3>1. CASE mutex = p
      BY <2>1, <3>1 DEF Put
    <3>2. CASE mutex # p
      <4>1. w[p].chunk = done \o w[p].left /\ done = <<>> /\ files[cur].end = size
        BY <1>4, <2>1, <3>2 DEF Put, TypeInv, LockInv
      <4> QED
        BY <2>2, <4>1, BytesEmpty
    <3> QED
      BY <3>1, <3>2
  <2>4. PICK l, t : l = Head(w[p].left) /\ t = Tail(w[p].left)
    BY Zenon
  <2>5. l \in Lsns /\ t \in Seq(Lsns) /\ w[p].left = <<l>> \o t
    <3>1. w[p].left \in Seq(Lsns)
      BY <1>4 DEF Call
    <3> QED
      BY <1>4, <2>4, <3>1
  <2>6. Append(done, l) \in Seq(Lsns) /\ done \o (<<l>> \o t) = Append(done, l) \o t
    BY <2>5
  <2>7. Bytes(Append(done, l)) = Bytes(done) + Size[l] /\ Bytes(done) \in Nat /\ Size[l] \in Nat
    BY <2>5, BytesAppend, BytesType, SegmentsAssumption
  <2>8. files'[cur].end = files[cur].end + Size[l]
    <3>1. PICK f : files' = [files EXCEPT ![cur] = f] /\ f.end = files[cur].end + Size[l]
      BY <2>4, PutFile, Zenon
    <3> QED
      BY <2>2, <3>1
  <2>9. files'[cur].end = size + Bytes(Append(done, l))
    BY <2>2, <2>3, <2>7, <2>8
  <2>10. Put(c, Append(done, l), mutex' = p, files'[cur].end, size)
    BY <1>1, <1>7, <2>3, <2>4, <2>5, <2>6, <2>9, Zenon DEF Put
  <2>11. files[cur].rows \in Seq(Row) /\ files'[cur].rows \in Seq(Row)
    BY <1>1, <2>2 DEF TypeInv, DiskType, FilesOK, File
  <2>12. More(files[cur].rows, files'[cur].rows) /\ Holds(files'[cur].rows, l, size + Bytes(done))
    BY <1>2, <2>2, <2>3, <2>4 DEF Keeps
  <2>13. Placed(files'[cur].rows, Append(done, l), size)
    BY <2>1, <2>5, <2>11, <2>12, PlacedMore
  <2>14. c.name = cur /\ c.off = size
    BY <1>4, <1>7, <1>9 DEF IndexInv, PlaceInv
  <2> QED
    BY <2>6, <2>10, <2>13, <2>14, Zenon
<1>10. ASSUME ~raced', NEW q \in Writers, w'[q].pc = "put" PROVE q = p
  BY <1>1, <1>4, <1>8, <1>10, OthersIdle
<1>11. PlaceInv'
  BY <1>1, <1>8, <1>9, <1>10 DEF PlaceInv
<1>12. RestoreInv'
  BY <1>1 DEF RestoreInv
<1> QED
  BY <1>2, <1>3, <1>11, <1>12 DEF IndexInv

\* The entries that writeBatch hands to its goroutine lead to the rows it put.
LEMMA IndexSync ==
  ASSUME DataFacts, TypeInv, TypeInv', BoundInv, IndexInv, NEW p \in Writers, Sync(p)
  PROVE  IndexInv'
<1>1. /\ UNCHANGED <<files, cur, raced, index>> /\ phase' = "up"
      /\ adds' = adds \cup {[entries |-> Entries(w[p]), old |-> None]}
  BY DEF Sync
<1>2. /\ w[p] \in Call /\ w \in [Writers -> Call] /\ w[p].pc = "put" /\ w[p].left = <<>>
      /\ cur \in DOMAIN files
  BY DEF TypeInv, WriteType, DiskType, Sync
<1>3. ASSUME ~raced PROVE Leads(files, Entries(w[p]))
  <2>1. PICK done \in Seq(Lsns) : /\ Put(w[p], done, mutex = p, files[cur].end, size)
                                  /\ Placed(files[cur].rows, done, size)
    BY <1>2, <1>3 DEF IndexInv, PlaceInv
  <2>2. w[p].chunk = done /\ w[p].name = cur /\ w[p].off = size
    BY <1>2, <1>3, <2>1 DEF Put, IndexInv, PlaceInv
  <2>3. Leads(files, EntriesOf(done, cur, size))
    BY <1>2, <2>1, LeadsEntries
  <2> QED
    BY <2>2, <2>3 DEF Entries
<1>4. LeadInv'
  <2> DEFINE new == [entries |-> Entries(w[p]), old |-> None]
  <2>1. new.entries = Entries(w[p]) /\ new.old = None
    OBVIOUS
  <2> HIDE DEF new
  <2>2. adds' = adds \cup {new}
    BY <1>1 DEF new
  <2> QED
    BY <1>1, <1>3, <2>1, <2>2 DEF IndexInv, LeadInv
<1>5. w'[p].pc # "put" /\ \A q \in Writers \ {p} : w'[q] = w[q]
  <2>1. PICK c : c = [w[p] EXCEPT !.pc = "rotate"]
    BY Zenon
  <2>2. c.pc = "rotate"
    BY <1>2, <2>1 DEF Call
  <2>3. w' = [w EXCEPT ![p] = Idle] \/ w' = [w EXCEPT ![p] = c]
    BY <2>1, Zenon DEF Sync
  <2> QED
    BY <1>2, <2>2, <2>3, IdleType
<1>6. ~raced' => \A q \in Writers \ {p} : w[q].pc = "idle"
  BY <1>1, <1>2, OthersIdle
<1>7. PlaceInv'
  BY <1>5, <1>6, PlaceNone
<1>8. SolidInv' /\ RestoreInv'
  BY <1>1 DEF IndexInv, SolidInv, RestoreInv
<1> QED
  BY <1>4, <1>7, <1>8 DEF IndexInv

\* A rotation moves no row.
LEMMA IndexRotate ==
  ASSUME DataFacts, TypeInv, TypeInv', BoundInv, IndexInv, NEW p \in Writers, Rotate(p)
  PROVE  IndexInv'
<1>1. UNCHANGED <<raced, indexVars>> /\ phase' = "up" /\ w[p].pc = "rotate"
  BY DEF Rotate
<1>2. SolidInv' /\ Keeps(files, files')
  BY RotateKeeps DEF IndexInv
<1>3. LeadInv'
  BY <1>1, <1>2, LeadStays DEF IndexInv
<1>4. w'[p].pc # "put" /\ \A q \in Writers \ {p} : w'[q] = w[q]
  BY DEF TypeInv, WriteType, Rotate, Idle
<1>5. ~raced' => \A q \in Writers \ {p} : w[q].pc = "idle"
  BY <1>1, OthersIdle
<1>6. PlaceInv'
  BY <1>4, <1>5, PlaceNone
<1>7. RestoreInv'
  BY <1>1 DEF RestoreInv
<1> QED
  BY <1>2, <1>3, <1>6, <1>7 DEF IndexInv

\* The goroutines of AddBatchIndex, with either index manager: a copy of an old
\* map may lack entries, but those it has lead to their rows.
LEMMA IndexAddBatch ==
  ASSUME TypeInv, IndexInv, AddBatch PROVE IndexInv'
<1>1. UNCHANGED <<phase, files, cur, size, w, mutex, raced>> /\ phase = "up"
  BY DEF AddBatch, diskVars, writeVars
<1>2. PICK a \in adds :
        \/ index' = Merge(index, a.entries) /\ adds' = adds \ {a}
        \/ adds' = (adds \ {a}) \cup {[a EXCEPT !.old = index]} /\ UNCHANGED index
        \/ a.old # None /\ index' = Merge(a.old, a.entries) /\ adds' = adds \ {a}
  BY DEF AddBatch
<1>3. ASSUME ~raced
      PROVE  /\ Leads(files, index')
             /\ \A b \in adds' : Leads(files, b.entries) /\ (b.old # None => Leads(files, b.old))
  <2>1. /\ Leads(files, index)
        /\ \A b \in adds : Leads(files, b.entries) /\ (b.old # None => Leads(files, b.old))
    BY <1>3 DEF IndexInv, LeadInv
  <2>2. CASE index' = Merge(index, a.entries) /\ adds' = adds \ {a}
    BY <2>1, <2>2, LeadsMerge
  <2>3. CASE adds' = (adds \ {a}) \cup {[a EXCEPT !.old = index]} /\ UNCHANGED index
    <3>1. PICK b : b = [a EXCEPT !.old = index]
      BY Zenon
    <3>2. b.entries = a.entries /\ b.old = index
      BY <3>1 DEF TypeInv, IndexType
    <3>3. adds' = (adds \ {a}) \cup {b} /\ index' = index
      BY <2>3, <3>1
    <3> QED
      BY <2>1, <3>2, <3>3
  <2>4. CASE a.old # None /\ index' = Merge(a.old, a.entries) /\ adds' = adds \ {a}
    BY <2>1, <2>4, LeadsMerge
  <2> QED
    BY <1>2, <2>2, <2>3, <2>4
<1>4. LeadInv'
  BY <1>1, <1>3 DEF LeadInv
<1>5. SolidInv' /\ PlaceInv' /\ RestoreInv'
  BY <1>1 DEF IndexInv, SolidInv, PlaceInv, RestoreInv
<1> QED
  BY <1>4, <1>5 DEF IndexInv

\* The index is gone with the process.
LEMMA IndexCrash == ASSUME TypeInv, IndexInv, Crash PROVE IndexInv'
<1>1. index' = NoEntries /\ adds' = {} /\ phase' = "down" /\ \A p \in Writers : w'[p] = Idle
  BY DEF Crash
<1>2. Leads(files', NoEntries)
  BY DEF Leads, NoEntries
<1>3. SolidInv'
  BY CrashKeeps DEF IndexInv
<1>4. LeadInv' /\ PlaceInv' /\ RestoreInv'
  BY <1>1, <1>2, IdleType DEF LeadInv, PlaceInv, RestoreInv
<1> QED
  BY <1>3, <1>4 DEF IndexInv

\* The restart lists every file.
LEMMA IndexRestart == ASSUME DataFacts, TypeInv, IndexInv, Restart PROVE IndexInv'
<1>1. UNCHANGED <<files, w, raced, index, adds>> /\ restore' = Dirs /\ phase = "down"
  BY DEF Restart, writeVars, indexVars
<1>2. \A n \in DOMAIN files : n \in Range(Dirs)
  BY DirsAll DEF TypeInv, DiskType
<1>3. \A p \in Writers : w'[p].pc # "put"
  BY <1>1, IdleType DEF TypeInv, LockInv
<1>4. SolidInv' /\ LeadInv' /\ PlaceInv'
  BY <1>1, <1>3 DEF IndexInv, SolidInv, LeadInv, PlaceInv
<1>5. RestoreInv'
  BY <1>1, <1>2 DEF RestoreInv
<1> QED
  BY <1>4, <1>5 DEF IndexInv

\* The rows of a file have LSNs.
LEMMA RowLsn ==
  ASSUME TypeInv, NEW n \in DOMAIN files, NEW j \in 1..Len(files[n].rows)
  PROVE  files[n].rows[j].lsn \in Lsns
<1>1. files[n].rows \in Seq(Row)
  BY DEF TypeInv, DiskType, FilesOK, File
<1>2. files[n].rows[j] \in Row
  BY <1>1
<1> QED
  BY <1>2 DEF Row

\* The restart reads a file, and indexes the rows up to the first gap.
LEMMA IndexRestore == ASSUME DataFacts, TypeInv, IndexInv, RestoreFile PROVE IndexInv'
<1>1. /\ UNCHANGED <<phase, files, cur, size, w, mutex, raced, adds>> /\ phase = "restoring"
      /\ restore # <<>> /\ restore' = Tail(restore)
  BY DEF RestoreFile, diskVars, writeVars
<1>2. PICK name : name = Head(restore)
  OBVIOUS
<1>3. restore \in Seq(DOMAIN files) /\ name \in DOMAIN files /\ name \in Nat
  BY <1>1, <1>2 DEF TypeInv, ReadType, DiskType, FilesOK
<1>4. files[name] \in File /\ Solid(files[name])
  BY <1>3 DEF TypeInv, DiskType, FilesOK, IndexInv, SolidInv
<1>5. PICK rows : rows = Parse(files[name], 0)
  OBVIOUS
<1>6. /\ rows \in Seq(Lsns) /\ Placed(files[name].rows, rows, 0)
      /\ (\E j \in 1..Len(files[name].rows) : Gap(files[name], j))
         \/ \A j \in 1..Len(files[name].rows) : files[name].rows[j].lsn \in Range(rows)
  BY <1>4, <1>5, ParseReads
<1>7. PICK new : new = EntriesOf(rows, name, 0)
  OBVIOUS
<1>8. index' = Merge(index, new)
  BY <1>2, <1>5, <1>7 DEF RestoreFile
<1>9. Leads(files, new)
  BY <1>3, <1>6, <1>7, LeadsEntries
<1>10. LeadInv'
  BY <1>1, <1>8, <1>9, LeadsMerge DEF IndexInv, LeadInv
<1>11. \A l \in Lsns : l \in Range(rows) => new[l] # None
  <2>1. ASSUME NEW l \in Lsns, l \in Range(rows) PROVE new[l] # None
    <3>1. First(rows, l) \in 1..Len(rows)
      BY <1>6, <2>1, FirstOf
    <3>2. PICK b : b = Bytes(SubSeq(rows, 1, First(rows, l) - 1))
      OBVIOUS
    <3>3. b \in Nat
      <4>1. First(rows, l) - 1 \in 0..Len(rows)
        BY <1>6, <3>1
      <4>2. SubSeq(rows, 1, First(rows, l) - 1) \in Seq(Lsns)
        BY <1>6, <4>1
      <4> QED
        BY <3>2, <4>2, BytesType, Zenon
    <3>4. new[l] = [file |-> name, off |-> 0 + b]
      BY <1>7, <2>1, <3>2, EntriesAre
    <3>5. new[l] \in [file : Nat, off : Nat]
      BY <1>3, <3>3, <3>4
    <3> QED
      BY <3>5, SegmentsAssumption
  <2> QED
    BY <2>1
<1>12. \A l \in Lsns : /\ index[l] # None => index'[l] # None
                       /\ l \in Range(rows) => index'[l] # None
  BY <1>8, <1>11 DEF Merge
<1>13. ASSUME NEW n \in DOMAIN files, Found(files[n], index) PROVE Found(files[n], index')
  BY <1>12, <1>13, RowLsn DEF Found
<1>14. Found(files[name], index')
  BY <1>3, <1>6, <1>12, RowLsn DEF Found
<1>15. \A n \in Range(restore) : n = name \/ n \in Range(Tail(restore))
  <2>1. PICK k \in Nat : k = Len(restore)
    BY <1>3
  <2>2. /\ Len(Tail(restore)) = k - 1 /\ DOMAIN Tail(restore) = 1..(k - 1) /\ DOMAIN restore = 1..k
        /\ \A i \in 1..(k - 1) : Tail(restore)[i] = restore[i + 1]
    BY <1>1, <1>3, <2>1
  <2>3. name = restore[1]
    BY <1>1, <1>2, <1>3
  <2>4. ASSUME NEW i \in 1..k PROVE i = 1 \/ (i - 1 \in 1..(k - 1) /\ (i - 1) + 1 = i)
    OBVIOUS
  <2>5. ASSUME NEW i \in 1..k PROVE restore[i] = name \/ restore[i] \in Range(Tail(restore))
    <3>1. CASE i = 1
      BY <2>3, <3>1
    <3>2. CASE i # 1
      <4>1. i - 1 \in 1..(k - 1) /\ (i - 1) + 1 = i
        BY <2>4, <3>2
      <4>2. Tail(restore)[i - 1] = restore[i]
        BY <2>2, <4>1
      <4> QED
        BY <2>2, <4>1, <4>2, Zenon DEF Range
    <3> QED
      BY <3>1, <3>2
  <2> QED
    BY <2>2, <2>5 DEF Range
<1>16. RestoreInv'
  BY <1>1, <1>13, <1>14, <1>15 DEF IndexInv, RestoreInv
<1>17. SolidInv' /\ PlaceInv'
  BY <1>1 DEF IndexInv, SolidInv, PlaceInv
<1> QED
  BY <1>10, <1>16, <1>17 DEF IndexInv

\* The handler only reads, and the end of the restart changes the phase.
LEMMA IndexRest ==
  ASSUME IndexInv, GetIndexAny \/ ReadDirsFrom \/ ReadFile \/ Reply \/ RestoreDone \/ UNCHANGED vars
  PROVE  IndexInv'
<1>1. UNCHANGED <<files, cur, size, w, mutex, raced, index, adds, restore>>
  BY Zenon DEF GetIndexAny, GetIndex, ReadDirsFrom, ReadFile, Reply, RestoreDone, vars, diskVars,
         writeVars, indexVars
<1>2. phase' = phase \/ phase' = "up"
  BY Zenon DEF GetIndexAny, GetIndex, ReadDirsFrom, ReadFile, Reply, RestoreDone, vars
<1> QED
  BY <1>1, <1>2 DEF IndexInv, SolidInv, LeadInv, PlaceInv, RestoreInv

\* Every step keeps the index sound and the restart complete.
LEMMA IndexStep ==
  ASSUME DataFacts, TypeInv, TypeInv', BoundInv, IndexInv, [Next]_vars PROVE IndexInv'
<1>1. CASE WriteAny
  BY <1>1, IndexCalls DEF WriteAny
<1>2. CASE \E p \in Writers : Cut(p) \/ IOError(p)
  BY <1>2, IndexCalls
<1>3. CASE \E p \in Writers : Locate(p) \/ PutRow(p)
  BY <1>3, IndexLocate, IndexPutRow
<1>4. CASE \E p \in Writers : Sync(p) \/ Rotate(p)
  BY <1>4, IndexSync, IndexRotate
<1>5. CASE AddBatch \/ Crash
  BY <1>5, IndexAddBatch, IndexCrash
<1>6. CASE Restart \/ RestoreFile
  BY <1>6, IndexRestart, IndexRestore
<1>7. CASE GetIndexAny \/ ReadDirsFrom \/ ReadFile \/ Reply \/ RestoreDone \/ UNCHANGED vars
  BY <1>7, IndexRest
<1> QED
  BY <1>1, <1>2, <1>3, <1>4, <1>5, <1>6, <1>7 DEF Next

\* No file has a row yet.
LEMMA IndexInit == Init => IndexInv
<1> SUFFICES ASSUME Init PROVE IndexInv
  OBVIOUS
<1>1. Solid(EmptyFile) /\ \A n \in DOMAIN files : files[n] = EmptyFile
  BY DEF Init, Solid, EmptyFile, Before
<1>2. Leads(files, NoEntries)
  BY DEF Leads, NoEntries
<1>3. \A p \in Writers : w[p].pc # "put"
  BY IdleType DEF Init
<1> QED
  BY <1>1, <1>2, <1>3 DEF Init, IndexInv, SolidInv, LeadInv, PlaceInv, RestoreInv

\* The entries of the index, by the invariant.
LEMMA LeadsSound == TypeInv /\ IndexInv => IndexSound
<1> SUFFICES ASSUME TypeInv, IndexInv, ~raced, NEW l \in Lsns, index[l] # None
             PROVE  \E j \in DOMAIN files[index[l].file].rows :
                      files[index[l].file].rows[j] = [lsn |-> l, off |-> index[l].off]
  BY DEF IndexSound
<1>1. PICK n : n = index[l].file
  OBVIOUS
<1>2. n \in DOMAIN files /\ Holds(files[n].rows, l, index[l].off)
  BY <1>1 DEF IndexInv, LeadInv, Leads
<1>3. DOMAIN files[n].rows = 1..Len(files[n].rows)
  BY <1>2 DEF TypeInv, DiskType, FilesOK, File
<1> QED
  BY <1>1, <1>2, <1>3 DEF Holds

\* The restart is over: every row is indexed.
LEMMA FoundAll ==
  ASSUME DataFacts, TypeInv, IndexInv, [Next]_vars, phase = "restoring", phase' = "up", ~Torn
  PROVE  \A row \in Range(Log) : index[row.lsn] # None
<1>1. restore = <<>>
  BY DEF Next, WriteAny, Write, Cut, Locate, PutRow, Sync, Rotate, IOError, AddBatch, GetIndexAny,
         GetIndex, ReadDirsFrom, ReadFile, Reply, Crash, Restart, RestoreFile, RestoreDone, vars
<1>2. \A n \in DOMAIN files : Found(files[n], index)
  BY <1>1, NoneLeft DEF IndexInv, RestoreInv
<1>3. FilesOK(files) /\ cur \in DOMAIN files
  BY DEF TypeInv, DiskType
<1>4. ASSUME NEW row \in Range(Log) PROVE index[row.lsn] # None
  <2>1. PICK n \in DOMAIN files : row \in Range(files[n].rows)
    BY <1>3, LogRows
  <2>2. DOMAIN files[n].rows = 1..Len(files[n].rows)
    BY <1>3 DEF FilesOK, File
  <2>3. PICK j \in 1..Len(files[n].rows) : row = files[n].rows[j]
    BY <2>1, <2>2 DEF Range
  <2>4. \A i \in 1..Len(files[n].rows) : ~Gap(files[n], i)
    BY <2>2 DEF Torn
  <2> QED
    BY <1>2, <2>3, <2>4 DEF Found
<1> QED
  BY <1>4
-----------------------------------------------------------------------------
(***************************************************************************)
(* Where the rows of a file are in the log.                                *)
(***************************************************************************)
\* The rows of the files up to name n.
LogTo(fs, n) == Concat([i \in 1..n |-> RowsOf(fs, i)])

\* The log up to the next name.
LEMMA LogToNext ==
  ASSUME DataFacts, NEW fs, FilesOK(fs), NEW n \in Nat
  PROVE  /\ LogTo(fs, n) \in Seq(Row) /\ LogTo(fs, 0) = <<>>
         /\ LogTo(fs, n + 1) = LogTo(fs, n) \o RowsOf(fs, n + 1)
<1>1. LogTo(fs, 0) = <<>>
  <2>1. [i \in 1..0 |-> RowsOf(fs, i)] = <<>>
    OBVIOUS
  <2> QED
    BY <2>1, ConcatEmpty DEF LogTo
<1>2. PICK f : f = [i \in 1..(n + 1) |-> RowsOf(fs, i)]
  BY Zenon
<1>3. f \in [1..(n + 1) -> Seq(Row)] /\ f[n + 1] = RowsOf(fs, n + 1)
  BY <1>2, RowsType
<1>4. [i \in 1..n |-> f[i]] = [i \in 1..n |-> RowsOf(fs, i)]
  BY <1>2
<1>5. /\ Concat(f) = Concat([i \in 1..n |-> f[i]]) \o f[n + 1]
      /\ Concat([i \in 1..n |-> f[i]]) \in Seq(Row)
  BY <1>3, ConcatLast, Zenon
<1> QED
  BY <1>1, <1>2, <1>3, <1>4, <1>5, Zenon DEF LogTo

\* A sequence with another one after it.
LEMMA MoreJoin ==
  ASSUME NEW a \in Seq(Row), NEW b \in Seq(Row), NEW c \in Seq(Row), More(a, b)
  PROVE  More(a, b \o c)
<1>1. PICK i, j, k \in Nat : i = Len(a) /\ j = Len(b) /\ k = Len(c)
  OBVIOUS
<1>2. Len(b \o c) = j + k /\ \A n \in 1..j : (b \o c)[n] = b[n]
  BY <1>1
<1>3. i <= j /\ \A n \in 1..i : b[n] = a[n]
  BY <1>1 DEF More
<1>4. i <= j + k /\ \A n \in 1..i : n \in 1..j
  BY <1>3
<1> QED
  BY <1>1, <1>2, <1>3, <1>4, Zenon DEF More

\* The log up to a name begins the log up to a later one.
LEMMA LogToMore ==
  ASSUME DataFacts, NEW fs, FilesOK(fs), NEW n \in Nat, NEW m \in Nat, n <= m
  PROVE  More(LogTo(fs, n), LogTo(fs, m))
<1> DEFINE T == {d \in Nat : More(LogTo(fs, n), LogTo(fs, n + d))}
<1>1. 0 \in T
  <2>1. n + 0 = n /\ LogTo(fs, n) \in Seq(Row)
    BY LogToNext
  <2> QED
    BY <2>1, MoreSame
<1>2. ASSUME NEW d \in T \cap Nat PROVE d + 1 \in T
  <2>1. d \in Nat /\ More(LogTo(fs, n), LogTo(fs, n + d))
    OBVIOUS
  <2> HIDE DEF T
  <2>2. PICK e \in Nat : e = n + d /\ n + (d + 1) = e + 1
    BY <2>1
  <2>3. LogTo(fs, n) \in Seq(Row) /\ LogTo(fs, e) \in Seq(Row) /\ RowsOf(fs, e + 1) \in Seq(Row)
    BY LogToNext, RowsType
  <2>4. LogTo(fs, e + 1) = LogTo(fs, e) \o RowsOf(fs, e + 1)
    BY LogToNext, Zenon
  <2>5. More(LogTo(fs, n), LogTo(fs, e + 1))
    BY <2>1, <2>2, <2>3, <2>4, MoreJoin, Zenon
  <2> QED
    BY <2>1, <2>2, <2>5 DEF T
<1> HIDE DEF T
<1>3. m - n \in Nat /\ n + (m - n) = m
  OBVIOUS
<1>4. m - n \in T
  BY <1>1, <1>2, <1>3 DEF DataFacts
<1> QED
  BY <1>3, <1>4 DEF T

\* Names without a file add nothing.
LEMMA LogToSkip ==
  ASSUME DataFacts, NEW fs, FilesOK(fs), NEW n \in Nat, NEW m \in Nat, n <= m,
         \A i \in DOMAIN fs : i <= n \/ i > m
  PROVE  LogTo(fs, m) = LogTo(fs, n)
<1> DEFINE T == {d \in Nat : n + d <= m => LogTo(fs, n + d) = LogTo(fs, n)}
<1>1. 0 \in T
  <2>1. n + 0 = n
    OBVIOUS
  <2> QED
    BY <2>1
<1>2. ASSUME NEW d \in T \cap Nat PROVE d + 1 \in T
  <2>1. d \in Nat /\ (n + d <= m => LogTo(fs, n + d) = LogTo(fs, n))
    OBVIOUS
  <2> HIDE DEF T
  <2>2. ASSUME n + (d + 1) <= m PROVE LogTo(fs, n + (d + 1)) = LogTo(fs, n)
    <3>1. PICK e \in Nat : e = n + d /\ n + (d + 1) = e + 1 /\ e <= m /\ e + 1 <= m /\ n < e + 1
      BY <2>1, <2>2
    <3>2. e + 1 \notin DOMAIN fs
      BY <3>1
    <3>3. LogTo(fs, e) \in Seq(Row) /\ LogTo(fs, e + 1) = LogTo(fs, e) \o RowsOf(fs, e + 1)
      BY LogToNext, Zenon
    <3>4. RowsOf(fs, e + 1) = <<>> /\ LogTo(fs, e) \o <<>> = LogTo(fs, e)
      BY <3>2, <3>3 DEF RowsOf
    <3> QED
      BY <2>1, <3>1, <3>3, <3>4
  <2> QED
    BY <2>1, <2>2 DEF T
<1> HIDE DEF T
<1>3. m - n \in Nat /\ n + (m - n) = m /\ m <= m
  OBVIOUS
<1>4. m - n \in T
  BY <1>1, <1>2, <1>3 DEF DataFacts
<1> QED
  BY <1>3, <1>4 DEF T

\* Files only grow, so the log up to a name does.
LEMMA LogToKeeps ==
  ASSUME DataFacts, NEW fs, FilesOK(fs), NEW gs, FilesOK(gs), Keeps(fs, gs), NEW n \in Nat
  PROVE  Len(LogTo(fs, n)) <= Len(LogTo(gs, n))
<1> DEFINE T == {m \in Nat : Len(LogTo(fs, m)) <= Len(LogTo(gs, m))}
<1>1. 0 \in T
  <2>1. LogTo(fs, 0) = <<>> /\ LogTo(gs, 0) = <<>> /\ Len(<<>>) = 0 /\ 0 <= 0
    BY LogToNext
  <2> QED
    BY <2>1
<1>2. ASSUME NEW m \in T \cap Nat PROVE m + 1 \in T
  <2>1. m \in Nat /\ Len(LogTo(fs, m)) <= Len(LogTo(gs, m))
    OBVIOUS
  <2> HIDE DEF T
  <2>2. PICK a, b, c, d \in Seq(Row) : /\ a = LogTo(fs, m) /\ b = RowsOf(fs, m + 1)
                                      /\ c = LogTo(gs, m) /\ d = RowsOf(gs, m + 1)
    BY <2>1, LogToNext, RowsType
  <2>3. Len(b) <= Len(d)
    <3>1. CASE m + 1 \in DOMAIN fs
      BY <2>2, <3>1 DEF Keeps, More, RowsOf
    <3>2. CASE m + 1 \notin DOMAIN fs
      <4>1. b = <<>> /\ Len(<<>>) = 0
        BY <2>2, <3>2 DEF RowsOf
      <4> QED
        BY <4>1
    <3> QED
      BY <3>1, <3>2
  <2>4. LogTo(fs, m + 1) = a \o b /\ LogTo(gs, m + 1) = c \o d
    BY <2>1, <2>2, LogToNext, Zenon
  <2>5. Len(a \o b) <= Len(c \o d)
    BY <2>1, <2>2, <2>3
  <2> QED
    BY <2>1, <2>4, <2>5 DEF T
<1> HIDE DEF T
<1>3. n \in T
  BY <1>1, <1>2 DEF DataFacts
<1> QED
  BY <1>3 DEF T

\* The rows of a file in the log.
LEMMA LogAt ==
  ASSUME DataFacts, NEW fs, FilesOK(fs), NEW h \in DOMAIN fs
  PROVE  /\ h \in Nat \ {0} /\ h <= Max(DOMAIN fs) /\ fs[h].rows \in Seq(Row)
         /\ LogOf(fs) \in Seq(Row)
         /\ Len(LogTo(fs, h - 1)) \in Nat
         /\ Len(LogTo(fs, h)) = Len(LogTo(fs, h - 1)) + Len(fs[h].rows)
         /\ Len(LogTo(fs, h)) <= Len(LogOf(fs))
         /\ \A x \in 1..Len(fs[h].rows) :
              LogOf(fs)[Len(LogTo(fs, h - 1)) + x] = fs[h].rows[x]
<1>1. PICK m \in Nat \ {0} : m = Max(DOMAIN fs) /\ h \in 1..m
  BY LastName
<1>2. PICK n \in Nat : n = h - 1 /\ n + 1 = h
  BY <1>1
<1>3. PICK a, b, c \in Seq(Row) : a = LogTo(fs, n) /\ b = fs[h].rows /\ c = LogOf(fs)
  <2>1. LogTo(fs, n) \in Seq(Row) /\ LogOf(fs) \in Seq(Row)
    BY LogToNext, LogType
  <2>2. fs[h].rows \in Seq(Row)
    BY DEF FilesOK, File
  <2> QED
    BY <2>1, <2>2
<1>4. LogTo(fs, h) = a \o b
  BY <1>2, <1>3, LogToNext, Zenon DEF RowsOf
<1>5. c = LogTo(fs, m)
  BY <1>1, <1>3 DEF LogOf, LogTo
<1>6. h <= m /\ h \in Nat /\ m \in Nat
  BY <1>1
<1>7. More(a \o b, c)
  BY <1>4, <1>5, <1>6, LogToMore, Zenon
<1>8. PICK i, j, k \in Nat : i = Len(a) /\ j = Len(b) /\ k = Len(c)
  OBVIOUS
<1>9. Len(a \o b) = i + j /\ \A x \in 1..j : (a \o b)[i + x] = b[x]
  BY <1>8
<1>10. i + j <= k /\ \A y \in 1..(i + j) : c[y] = (a \o b)[y]
  BY <1>7, <1>8, <1>9 DEF More
<1>11. ASSUME NEW x \in 1..j PROVE c[i + x] = b[x]
  <2>1. i + x \in 1..(i + j)
    OBVIOUS
  <2> QED
    BY <1>9, <1>10, <2>1, Zenon
<1>12. /\ Len(LogTo(fs, h - 1)) = i /\ Len(LogTo(fs, h)) = i + j /\ Len(LogOf(fs)) = k
       /\ Len(fs[h].rows) = j
  BY <1>2, <1>3, <1>4, <1>8, <1>9
<1>13. \A x \in 1..j : LogOf(fs)[i + x] = fs[h].rows[x]
  BY <1>3, <1>11
<1>14. /\ h \in Nat \ {0} /\ h <= Max(DOMAIN fs) /\ fs[h].rows \in Seq(Row)
       /\ LogOf(fs) \in Seq(Row)
  BY <1>1, <1>3
<1> QED
  BY <1>10, <1>12, <1>13, <1>14, Zenon
-----------------------------------------------------------------------------
(***************************************************************************)
(* The handler.  Files that it has listed are read in order while others   *)
(* are written: a file that is not the last one does not grow any more, so *)
(* what was read ends where the next file on the list begins; and the last *)
(* file on the list reaches as far as the log did at GetIndex.             *)
(***************************************************************************)
\* What was read are the rows k..m of the log.
Got(log, got, lsn, k, m) ==
  /\ k \in 1..Len(log) /\ log[k].lsn = lsn /\ m \in 0..Len(log)
  /\ got \in Seq(Lsns) /\ k + Len(got) = m + 1
  /\ \A i \in 1..Len(got) : got[i] = log[(k + i) - 1].lsn

\* The files from names[1] to hi are to be read, the first one from row j on.
Lists(fs, names, off, seen, hi, j, m) ==
  /\ names # <<>> /\ names \in Seq(DOMAIN fs) /\ Sorted(names)
  /\ Range(names) = {n \in DOMAIN fs : names[1] <= n /\ n <= hi}
  /\ hi \in DOMAIN fs /\ seen <= Len(LogTo(fs, hi))
  /\ j \in Nat \ {0} /\ off \in Nat /\ StartAt(fs[names[1]].rows, j, off)
  /\ m + 1 = Len(LogTo(fs, names[1] - 1)) + j

Listing ==
  /\ rd.rows = <<>> /\ rd.seen \in 0..Len(LogOf(files)) /\ rd.lsn \in Lsns /\ rd.off \in Nat
  /\ rd.names[1] \in DOMAIN files /\ Holds(files[rd.names[1]].rows, rd.lsn, rd.off)

Reading ==
  /\ rd.seen \in Nat
  /\ \E k, m \in Nat :
       /\ Got(LogOf(files), rd.rows, rd.lsn, k, m)
       /\ \/ rd.names = <<>> /\ rd.seen <= m
          \/ \E hi, j \in Nat : Lists(files, rd.names, rd.off, rd.seen, hi, j, m)

Read ==
  /\ rd.seen \in Nat
  /\ \E k, m \in Nat : Got(LogOf(files), rd.rows, rd.lsn, k, m) /\ rd.seen <= m

\* A master has one writer, so its calls of Write do not overlap.
MasterInv == node.master => ~raced /\ w["repl"].pc = "idle"

ReadInv ==
  ~Torn /\ back = None =>
    /\ rd.pc = "list" => Listing
    /\ rd.pc = "read" => Reading
    /\ rd.pc = "done" => Read

\* A master stays without a second writer.
LEMMA MasterStep == ASSUME TypeInv, MasterInv, [Next]_vars PROVE MasterInv'
<1>1. node' = node
  BY Zenon DEF Next, WriteAny, Write, Cut, Locate, PutRow, Sync, Rotate, IOError, AddBatch,
         GetIndexAny, GetIndex, ReadDirsFrom, ReadFile, Reply, Crash, Restart, RestoreFile,
         RestoreDone, vars
<1> SUFFICES ASSUME node.master PROVE ~raced' /\ w'["repl"].pc = "idle"
  BY <1>1 DEF MasterInv
<1>2. ~raced /\ w["repl"].pc = "idle"
  BY DEF MasterInv
<1>3. w \in [Writers -> Call] /\ "repl" \in Writers /\ "wal" # "repl"
  BY DEF TypeInv, WriteType, Writers
<1>4. CASE WriteAny
  <2>1. PICK p \in Writers, b \in Batches : Write(p, b)
    BY <1>4, Zenon DEF WriteAny
  <2>2. p = "wal" /\ \E c : w' = [w EXCEPT ![p] = c]
    BY <2>1, Zenon DEF Write
  <2>3. w'["repl"] = w["repl"]
    BY <1>3, <2>2
  <2>4. \A q \in Writers \ {p} : q = "repl"
    BY <2>2 DEF Writers
  <2>5. raced' = (raced \/ \E q \in Writers \ {p} : w[q].pc # "idle")
    BY <2>1 DEF Write
  <2> QED
    BY <1>2, <2>3, <2>4, <2>5, Zenon
<1>5. ASSUME NEW p \in Writers,
             Cut(p) \/ Locate(p) \/ PutRow(p) \/ Sync(p) \/ Rotate(p) \/ IOError(p)
      PROVE  ~raced' /\ w'["repl"].pc = "idle"
  <2>1. raced' = raced /\ w[p].pc # "idle"
    BY <1>5 DEF Cut, Locate, PutRow, Sync, Rotate, IOError
  <2>2. p # "repl"
    BY <1>2, <2>1
  <2>3. \A q \in Writers \ {p} : w'[q] = w[q]
    BY <1>3, <1>5 DEF Cut, Locate, PutRow, Sync, Rotate, IOError
  <2> QED
    BY <1>2, <1>3, <2>1, <2>2, <2>3
<1>6. CASE Crash
  BY <1>3, <1>6, IdleType DEF Crash
<1>7. CASE AddBatch \/ GetIndexAny \/ ReadDirsFrom \/ ReadFile \/ Reply
             \/ Restart \/ RestoreFile \/ RestoreDone \/ UNCHANGED vars
  <2>1. raced' = raced /\ w' = w
    BY <1>7, Zenon DEF AddBatch, GetIndexAny, GetIndex, ReadDirsFrom, ReadFile, Reply, Restart,
         RestoreFile, RestoreDone, vars, writeVars
  <2> QED
    BY <1>2, <2>1
<1> QED
  BY <1>4, <1>5, <1>6, <1>7 DEF Next

\* A row after a torn one stays there.
LEMMA TornStays ==
  ASSUME FilesOK(files), FilesOK(files'), Keeps(files, files'), Torn
  PROVE  Torn'
<1>1. PICK n \in DOMAIN files : \E j \in DOMAIN files[n].rows : Gap(files[n], j)
  BY Zenon DEF Torn
<1>2. PICK j \in DOMAIN files[n].rows : Gap(files[n], j)
  BY <1>1
<1>3. n \in DOMAIN files' /\ More(files[n].rows, files'[n].rows)
  BY DEF Keeps
<1>4. PICK a, b \in Seq(Row) : a = files[n].rows /\ b = files'[n].rows
  BY <1>3 DEF FilesOK, File
<1>5. PICK i, k \in Nat : i = Len(a) /\ k = Len(b)
  OBVIOUS
<1>6. i <= k /\ (\A x \in 1..i : b[x] = a[x]) /\ j \in 1..i /\ DOMAIN b = 1..k
  BY <1>2, <1>3, <1>4, <1>5 DEF More
<1>7. b[j] = a[j] /\ (j # 1 => b[j - 1] = a[j - 1]) /\ j \in DOMAIN b
  <2>1. j # 1 => j - 1 \in 1..i
    BY <1>6
  <2> QED
    BY <1>6, <2>1
<1>8. Gap(files'[n], j)
  BY <1>2, <1>4, <1>7 DEF Gap
<1>9. j \in DOMAIN files'[n].rows
  BY <1>4, <1>7
<1> QED
  BY <1>3, <1>8, <1>9, Zenon DEF Torn

\* The rows that were read keep their places.
LEMMA GotMore ==
  ASSUME NEW log \in Seq(Row), NEW new \in Seq(Row), More(log, new), NEW got, NEW lsn,
         NEW k \in Nat, NEW m \in Nat, Got(log, got, lsn, k, m)
  PROVE  Got(new, got, lsn, k, m)
<1>1. PICK a, b, c \in Nat : a = Len(log) /\ b = Len(new) /\ c = Len(got)
  BY DEF Got
<1>2. a <= b /\ \A i \in 1..a : new[i] = log[i]
  BY <1>1 DEF More
<1>3. k \in 1..a /\ m \in 0..a /\ k + c = m + 1
  BY <1>1 DEF Got
<1>4. k \in 1..b /\ m \in 0..b /\ new[k] = log[k]
  BY <1>2, <1>3
<1>5. \A i \in 1..c : (k + i) - 1 \in 1..a
  BY <1>3
<1>6. \A i \in 1..c : new[(k + i) - 1] = log[(k + i) - 1]
  BY <1>2, <1>5, Zenon
<1> QED
  BY <1>1, <1>4, <1>6, Zenon DEF Got

\* Only the last file grows, and new files come after it.
Further(fs, gs) ==
  /\ Keeps(fs, gs) /\ More(LogOf(fs), LogOf(gs))
  /\ \A n \in DOMAIN gs \ DOMAIN fs : n > Max(DOMAIN fs)
  /\ \A n \in DOMAIN fs : n < Max(DOMAIN fs) => gs[n] = fs[n]

\* The files on the list are the same, and start where they did.
LEMMA ListsStay ==
  ASSUME DataFacts, NEW fs, FilesOK(fs), NEW gs, FilesOK(gs), Further(fs, gs),
         NEW names, NEW off, NEW seen \in Nat, NEW hi \in Nat, NEW j \in Nat, NEW m \in Nat,
         Lists(fs, names, off, seen, hi, j, m)
  PROVE  Lists(gs, names, off, seen, hi, j, m)
<1>1. PICK h : h = names[1] /\ h \in Range(names)
  <2>1. 1 \in DOMAIN names
    BY DEF Lists
  <2> QED
    BY <2>1, Zenon DEF Range
<1>2. h \in DOMAIN fs /\ h <= hi /\ hi \in DOMAIN fs
  BY <1>1 DEF Lists
<1>3. PICK z \in Nat \ {0} : z = Max(DOMAIN fs) /\ \A n \in DOMAIN fs : n \in 1..z
  BY <1>2, LastName
<1>4. h \in Nat \ {0} /\ hi \in Nat /\ h <= z /\ hi <= z
  BY <1>2, <1>3
<1>5. \A n \in DOMAIN gs : n \in Nat
  BY DEF FilesOK
<1>6. \A n \in DOMAIN fs : n \in DOMAIN gs /\ More(fs[n].rows, gs[n].rows)
  BY DEF Further, Keeps
<1>7. names \in Seq(DOMAIN gs)
  <2>1. names \in Seq(DOMAIN fs)
    BY DEF Lists
  <2> QED
    BY <1>6, <2>1
<1>8. Range(names) = {n \in DOMAIN gs : h <= n /\ n <= hi}
  <2>1. Range(names) = {n \in DOMAIN fs : h <= n /\ n <= hi}
    BY <1>1 DEF Lists
  <2>2. ASSUME NEW n \in DOMAIN gs, n <= hi PROVE n \in DOMAIN fs
    <3>1. n \notin DOMAIN fs => n > z
      BY <1>3 DEF Further
    <3> QED
      BY <1>3, <1>4, <1>5, <2>2, <3>1
  <2> QED
    BY <1>6, <2>1, <2>2
<1>9. seen <= Len(LogTo(gs, hi))
  <2>1. Len(LogTo(fs, hi)) <= Len(LogTo(gs, hi))
    BY LogToKeeps DEF Further
  <2>2. LogTo(fs, hi) \in Seq(Row) /\ LogTo(gs, hi) \in Seq(Row)
    BY LogToNext
  <2>3. PICK a, b \in Nat : a = Len(LogTo(fs, hi)) /\ b = Len(LogTo(gs, hi))
    BY <2>2
  <2>4. seen <= a /\ a <= b
    BY <2>1, <2>3 DEF Lists
  <2>5. seen <= b
    BY <2>4
  <2> QED
    BY <2>3, <2>5
<1>10. StartAt(gs[h].rows, j, off)
  <2>1. StartAt(fs[h].rows, j, off) /\ More(fs[h].rows, gs[h].rows)
    BY <1>1, <1>2, <1>6 DEF Lists
  <2>2. PICK a, b \in Nat : a = Len(fs[h].rows) /\ b = Len(gs[h].rows)
    BY <1>2, <1>6 DEF FilesOK, File
  <2>3. a <= b /\ \A i \in 1..a : gs[h].rows[i] = fs[h].rows[i]
    BY <2>1, <2>2 DEF More
  <2>4. j \in 1..a => j \in 1..b
    BY <2>3
  <2> QED
    BY <2>1, <2>2, <2>3, <2>4 DEF StartAt
<1>11. LogTo(gs, h - 1) = LogTo(fs, h - 1)
  <2>1. ASSUME NEW i \in 1..(h - 1) PROVE RowsOf(gs, i) = RowsOf(fs, i)
    <3>1. i < z /\ ~(i > z)
      BY <1>3, <1>4
    <3>2. i \in DOMAIN gs => i \in DOMAIN fs
      BY <1>3, <3>1 DEF Further
    <3>3. i \in DOMAIN fs => gs[i] = fs[i]
      BY <1>3, <3>1 DEF Further
    <3> QED
      BY <1>6, <3>2, <3>3 DEF RowsOf
  <2>2. [i \in 1..(h - 1) |-> RowsOf(gs, i)] = [i \in 1..(h - 1) |-> RowsOf(fs, i)]
    BY <2>1
  <2> QED
    BY <2>2, Zenon DEF LogTo
<1> QED
  BY <1>1, <1>2, <1>6, <1>7, <1>8, <1>9, <1>10, <1>11, Zenon DEF Lists

\* The handler waits while files are written.
LEMMA ReadFrame ==
  ASSUME DataFacts, TypeInv, TypeInv', ReadInv, rd' = rd, Keeps(files, files'),
         back' = None => back = None /\ Further(files, files')
  PROVE  ReadInv'
<1> SUFFICES ASSUME ~Torn', back' = None
             PROVE  /\ rd'.pc = "list" => Listing'
                    /\ rd'.pc = "read" => Reading'
                    /\ rd'.pc = "done" => Read'
  BY DEF ReadInv
<1>1. /\ FilesOK(files) /\ FilesOK(files') /\ cur \in DOMAIN files /\ cur' \in DOMAIN files'
  BY DEF TypeInv, DiskType
<1>2. ~Torn /\ back = None /\ Further(files, files')
  BY <1>1, TornStays
<1>3. PICK log, new \in Seq(Row) : log = LogOf(files) /\ new = LogOf(files') /\ More(log, new)
  BY <1>1, <1>2, LogType DEF Further
<1>4. ASSUME rd.pc = "list" PROVE Listing'
  <2>1. Listing
    BY <1>2, <1>4 DEF ReadInv
  <2>2. PICK n \in DOMAIN files : n = rd.names[1] /\ Holds(files[n].rows, rd.lsn, rd.off)
    BY <2>1 DEF Listing
  <2>3. n \in DOMAIN files' /\ More(files[n].rows, files'[n].rows)
    BY DEF Keeps
  <2>4. Holds(files'[n].rows, rd.lsn, rd.off)
    <3>1. files[n].rows \in Seq(Row) /\ files'[n].rows \in Seq(Row)
      BY <1>1, <2>3 DEF FilesOK, File
    <3> QED
      BY <2>2, <2>3, <3>1, HoldsMore, Zenon
  <2>5. rd.seen \in 0..Len(new)
    <3>1. PICK a, b \in Nat : a = Len(log) /\ b = Len(new) /\ a <= b /\ rd.seen \in 0..a
      BY <1>3, <2>1 DEF Listing, More
    <3>2. rd.seen \in 0..b
      BY <3>1
    <3> QED
      BY <3>1, <3>2
  <2> QED
    BY <1>3, <2>1, <2>2, <2>3, <2>4, <2>5 DEF Listing
<1>5. \A k, m \in Nat : Got(log, rd.rows, rd.lsn, k, m) => Got(new, rd.rows, rd.lsn, k, m)
  BY <1>3, GotMore
<1>6. ASSUME rd.pc = "read" PROVE Reading'
  <2>1. Reading
    BY <1>2, <1>6 DEF ReadInv
  <2>2. PICK k, m \in Nat :
          /\ Got(log, rd.rows, rd.lsn, k, m)
          /\ \/ rd.names = <<>> /\ rd.seen <= m
             \/ \E hi, j \in Nat : Lists(files, rd.names, rd.off, rd.seen, hi, j, m)
    BY <1>3, <2>1, Zenon DEF Reading
  <2>3. rd.seen \in Nat
    BY <2>1 DEF Reading
  <2>4. \A hi, j \in Nat : Lists(files, rd.names, rd.off, rd.seen, hi, j, m)
                             => Lists(files', rd.names, rd.off, rd.seen, hi, j, m)
    BY <1>1, <1>2, <2>3, ListsStay
  <2> QED
    BY <1>3, <1>5, <2>2, <2>3, <2>4, Zenon DEF Reading
<1>7. ASSUME rd.pc = "done" PROVE Read'
  <2>1. Read
    BY <1>2, <1>7 DEF ReadInv
  <2> QED
    BY <1>3, <1>5, <2>1, Zenon DEF Read
<1> QED
  BY <1>4, <1>6, <1>7

\* The files are not touched.
LEMMA FurtherSame ==
  ASSUME DataFacts, NEW fs, FilesOK(fs), NEW c \in DOMAIN fs
  PROVE  Further(fs, fs)
<1>1. LogOf(fs) \in Seq(Row)
  BY LogType
<1>2. \A n \in DOMAIN fs : fs[n].rows \in Seq(Row)
  BY DEF FilesOK, File
<1> QED
  BY <1>1, <1>2, MoreSame DEF Further, Keeps

\* The log after a step that did not set the clock back.
LEMMA GrowsMore ==
  ASSUME DataFacts, TypeInv, TypeInv', Grows, back = None, back' = None
  PROVE  More(LogOf(files), LogOf(files'))
<1>1. PICK log \in Seq(Row) : log = LogOf(files)
  BY LogType DEF TypeInv, DiskType
<1>2. log # None
  BY SegmentsAssumption DEF Row
<1>3. CASE LogOf(files') = log
  BY <1>1, <1>3, MoreSame
<1>4. CASE \E row \in Row : LogOf(files') = Append(log, row)
  <2>1. PICK row \in Row : LogOf(files') = Append(log, row)
    BY <1>4
  <2>2. PICK k \in Nat : k = Len(log)
    OBVIOUS
  <2>3. /\ Len(Append(log, row)) = k + 1 /\ k <= k + 1
        /\ \A i \in 1..k : Append(log, row)[i] = log[i]
    BY <2>2
  <2> QED
    BY <1>1, <2>1, <2>2, <2>3 DEF More
<1> QED
  BY <1>1, <1>2, <1>3, <1>4 DEF Grows

\* PutRow and Rotate leave the files before the last one alone.
LEMMA FilesFurther ==
  ASSUME DataFacts, TypeInv, TypeInv', PendInv, LogInv, SolidInv, NEW p \in Writers,
         PutRow(p) \/ Rotate(p)
  PROVE  /\ rd' = rd /\ Keeps(files, files')
         /\ back' = None => back = None /\ Further(files, files')
<1>1. rd' = rd
  BY DEF PutRow, Rotate
<1>2. Keeps(files, files')
  BY PutKeeps, RotateKeeps
<1>3. Grows
  BY LogPutRow, LogRotate
<1>4. FilesOK(files) /\ cur \in DOMAIN files
  BY DEF TypeInv, DiskType
<1>5. ASSUME back' = None PROVE back = None
  <2>1. LogOf(files) \in Seq(Row)
    BY <1>4, LogType
  <2>2. None \notin Seq(Row)
    BY SegmentsAssumption DEF Row
  <2> QED
    BY <1>3, <1>5, <2>1, <2>2 DEF Grows
<1>6. ASSUME back' = None PROVE Further(files, files')
  <2>1. back = None /\ More(LogOf(files), LogOf(files')) /\ cur = Max(DOMAIN files)
    BY <1>3, <1>5, <1>6, GrowsMore DEF LogInv
  <2>2. CASE PutRow(p)
    <3>1. PICK f \in File : files' = [files EXCEPT ![cur] = f]
      BY <2>2, PutFile, Zenon
    <3>2. DOMAIN files' = DOMAIN files /\ \A n \in DOMAIN files : n # cur => files'[n] = files[n]
      BY <3>1
    <3>3. PICK z \in Nat : z = cur /\ \A n \in DOMAIN files : n < z => n # cur
      BY <1>4, <2>1, LastName
    <3> QED
      BY <1>2, <2>1, <3>2, <3>3 DEF Further
  <2>3. CASE Rotate(p)
    <3>1. PICK name \in NewNames :
            /\ files' = [n \in DOMAIN files \cup {name} |->
                           IF n = name THEN EmptyFile ELSE files[n]]
            /\ back' = IF back = None /\ name < Max(DOMAIN files) THEN Log ELSE back
      BY <2>3 DEF Rotate
    <3>2. PICK m \in Nat \ {0} : m = Max(DOMAIN files) /\ \A n \in DOMAIN files : n \in 1..m
      BY <1>4, LastName
    <3>3. LogOf(files) # None
      <4>1. None \notin Seq(Row) /\ LogOf(files) \in Seq(Row)
        BY <1>4, LogType, SegmentsAssumption, Zenon DEF Row
      <4> QED
        BY <4>1
    <3>4. ~(name < m)
      BY <1>6, <2>1, <3>1, <3>2, <3>3, LogIs
    <3>5. name = m + 1
      <4>1. name = m + 1 \/ name \in 1..m \ DOMAIN files
        BY <3>2 DEF NewNames
      <4>2. m \in DOMAIN files
        BY <1>4, <3>2, LastName
      <4> QED
        BY <3>4, <4>1, <4>2
    <3>6. name \notin DOMAIN files /\ name > m
      BY <3>2, <3>5
    <3>7. /\ \A n \in DOMAIN files' \ DOMAIN files : n > m
          /\ \A n \in DOMAIN files : files'[n] = files[n]
      BY <3>1, <3>6
    <3> QED
      BY <1>2, <2>1, <3>2, <3>7 DEF Further
  <2> QED
    BY <2>2, <2>3
<1> QED
  BY <1>1, <1>2, <1>5, <1>6

\* GetIndex: the entry leads to its row.
LEMMA ReadGetIndex ==
  ASSUME DataFacts, TypeInv, LeadInv, MasterInv, NEW l \in Lsns, GetIndex(l)
  PROVE  ReadInv'
<1>1. /\ FilesOK(files) /\ cur \in DOMAIN files /\ index \in Index /\ files' = files
      /\ node.master /\ index[l] # None
  BY DEF TypeInv, DiskType, IndexType, GetIndex, diskVars
<1>2. PICK e \in Entry : e = index[l]
  BY <1>1 DEF Index
<1>3. Leads(files, index)
  BY <1>1 DEF MasterInv, LeadInv
<1>4. e.file \in DOMAIN files /\ Holds(files[e.file].rows, l, e.off) /\ e.off \in Nat
  BY <1>1, <1>2, <1>3 DEF Leads, Entry
<1>5. rd' = [pc |-> "list", lsn |-> l, off |-> e.off, names |-> <<e.file>>, rows |-> <<>>,
             seen |-> Len(Log)]
  BY <1>2, Zenon DEF GetIndex, NoRead
<1>6. LogOf(files) \in Seq(Row) /\ Log = LogOf(files)
  BY <1>1, LogType, LogIs
<1>7. Len(Log) \in 0..Len(LogOf(files))
  BY <1>6
<1>8. /\ rd'.pc = "list" /\ rd'.rows = <<>> /\ rd'.lsn = l /\ rd'.off = e.off
      /\ rd'.names[1] = e.file /\ rd'.seen = Len(Log)
  BY <1>5
<1>9. Listing'
  BY <1>1, <1>4, <1>7, <1>8 DEF Listing
<1> QED
  BY <1>8, <1>9 DEF ReadInv

\* ReadDirsFrom: the files from that of the entry to the last one.
LEMMA ReadListed ==
  ASSUME DataFacts, TypeInv, ReadInv, ReadDirsFrom
  PROVE  ReadInv'
<1>1. /\ FilesOK(files) /\ cur \in DOMAIN files /\ files' = files /\ back' = back
      /\ rd.pc = "list"
  BY DEF TypeInv, DiskType, ReadDirsFrom, diskVars
<1>2. Torn' = Torn
  BY <1>1 DEF Torn, Gap
<1>3. PICK dirs : dirs = Dirs
  OBVIOUS
<1>4. PICK idx : idx = BinarySearch(dirs, rd.names[1])
  OBVIOUS
<1>5. /\ rd'.pc = "read" /\ rd'.lsn = rd.lsn /\ rd'.off = rd.off /\ rd'.rows = rd.rows
      /\ rd'.seen = rd.seen
      /\ rd'.names = IF idx = 0 THEN <<>> ELSE SubSeq(dirs, idx, Len(dirs))
  BY <1>3, <1>4 DEF ReadDirsFrom, TypeInv, ReadType
<1> SUFFICES ASSUME ~Torn, back = None PROVE Reading'
  BY <1>1, <1>2, <1>5 DEF ReadInv
<1>6. Listing
  BY <1>1 DEF ReadInv
<1>7. PICK n \in DOMAIN files : n = rd.names[1] /\ Holds(files[n].rows, rd.lsn, rd.off)
  BY <1>6 DEF Listing
<1>8. dirs \in Seq(DOMAIN files) /\ Sorted(dirs) /\ Range(dirs) = DOMAIN files
  BY <1>1, <1>3, DirsSorted
<1>9. DOMAIN files \subseteq Nat
  BY <1>1 DEF FilesOK
<1>10. PICK i \in 1..Len(dirs) : dirs[i] = n
  <2>1. DOMAIN dirs = 1..Len(dirs)
    BY <1>8
  <2> QED
    BY <1>8, <2>1 DEF Range
<1>11. idx = i /\ i # 0
  <2>1. dirs \in Seq(Nat)
    BY <1>8, <1>9
  <2>2. BinarySearch(dirs, dirs[i]) = i
    BY <1>8, <2>1, BinarySearchFinds
  <2> QED
    BY <1>4, <1>7, <1>10, <2>2
<1>12. PICK names : names = SubSeq(dirs, i, Len(dirs)) /\ rd'.names = names
  BY <1>5, <1>11
<1>13. /\ names \in Seq(DOMAIN files) /\ Sorted(names) /\ names # <<>> /\ names[1] = n
       /\ Range(names) = {x \in DOMAIN files : n <= x}
  <2>1. /\ names \in Seq(DOMAIN files) /\ Sorted(names) /\ names # <<>> /\ names[1] = dirs[i]
        /\ Range(names) = {x \in Range(dirs) : dirs[i] <= x}
    BY <1>8, <1>9, <1>12, NamesFrom, Zenon
  <2> QED
    BY <1>8, <1>10, <2>1, Zenon
<1>14. PICK hi \in Nat : hi = Max(DOMAIN files) /\ hi \in DOMAIN files
                         /\ \A x \in DOMAIN files : x <= hi
  BY <1>1, LastName
<1>15. rd.seen \in Nat /\ rd.seen <= Len(LogTo(files, hi))
  <2>1. LogTo(files, hi) = LogOf(files)
    BY <1>14 DEF LogOf, LogTo
  <2>2. LogOf(files) \in Seq(Row)
    BY <1>1, LogType
  <2> QED
    BY <1>6, <2>1, <2>2 DEF Listing
<1>16. PICK j \in 1..Len(files[n].rows) : files[n].rows[j] = [lsn |-> rd.lsn, off |-> rd.off]
  BY <1>7 DEF Holds
<1>17. /\ n \in Nat \ {0} /\ files[n].rows \in Seq(Row) /\ LogOf(files) \in Seq(Row)
       /\ Len(LogTo(files, n - 1)) \in Nat
       /\ Len(LogTo(files, n)) = Len(LogTo(files, n - 1)) + Len(files[n].rows)
       /\ Len(LogTo(files, n)) <= Len(LogOf(files))
       /\ LogOf(files)[Len(LogTo(files, n - 1)) + j] = files[n].rows[j]
  BY <1>1, LogAt, Zenon
<1>18. PICK a, b, c \in Nat : /\ a = Len(LogTo(files, n - 1)) /\ b = Len(files[n].rows)
                             /\ c = Len(LogOf(files)) /\ a + b <= c
  <2>1. Len(files[n].rows) \in Nat /\ Len(LogOf(files)) \in Nat
    BY <1>17
  <2> QED
    BY <1>17, <2>1, Zenon
<1>19. PICK k, m \in Nat : k = a + j /\ m + 1 = k /\ k \in 1..c /\ m \in 0..c
  <2>1. j \in 1..b /\ a + b <= c
    BY <1>16, <1>18, Zenon
  <2>2. a + j \in Nat /\ (a + j) - 1 \in Nat /\ ((a + j) - 1) + 1 = a + j
    BY <2>1
  <2>3. a + j \in 1..c /\ (a + j) - 1 \in 0..c
    BY <2>1
  <2> QED
    BY <2>2, <2>3
<1>20. Got(LogOf(files), <<>>, rd.lsn, k, m)
  <2>1. LogOf(files)[k].lsn = rd.lsn
    BY <1>16, <1>17, <1>18, <1>19
  <2>2. <<>> \in Seq(Lsns) /\ Len(<<>>) = 0 /\ k + 0 = k /\ ~\E x : x \in 1..0
    BY <1>19
  <2> QED
    BY <1>18, <1>19, <2>1, <2>2 DEF Got
<1>21. Lists(files, names, rd.off, rd.seen, hi, j, m)
  <2>1. StartAt(files[n].rows, j, rd.off)
    BY <1>16 DEF StartAt
  <2>2. {x \in DOMAIN files : n <= x} = {x \in DOMAIN files : n <= x /\ x <= hi}
    BY <1>14
  <2>3. j \in Nat \ {0} /\ rd.off \in Nat
    BY <1>6, <1>16 DEF Listing
  <2>4. m + 1 = Len(LogTo(files, n - 1)) + j
    BY <1>18, <1>19
  <2> QED
    BY <1>13, <1>14, <1>15, <2>1, <2>2, <2>3, <2>4, Zenon DEF Lists
<1>22. j \in Nat /\ rd.rows = <<>>
  BY <1>6, <1>16 DEF Listing
<1> QED
  BY <1>1, <1>5, <1>12, <1>15, <1>20, <1>21, <1>22, Zenon DEF Reading

\* More rows are read, and they come next in the log.
LEMMA GotNext ==
  ASSUME NEW log \in Seq(Row), NEW got, NEW lsn, NEW k \in Nat, NEW m \in Nat,
         Got(log, got, lsn, k, m), NEW p \in Seq(Lsns), m + Len(p) <= Len(log),
         \A i \in 1..Len(p) : p[i] = log[m + i].lsn
  PROVE  Got(log, got \o p, lsn, k, m + Len(p))
<1>1. got \in Seq(Lsns)
  BY DEF Got
<1>2. PICK a, b, c \in Nat : a = Len(got) /\ b = Len(p) /\ c = Len(log)
  BY <1>1
<1>3. k \in 1..c /\ log[k].lsn = lsn /\ m \in 0..c /\ k + a = m + 1
      /\ \A i \in 1..a : got[i] = log[(k + i) - 1].lsn
  BY <1>2 DEF Got
<1>4. PICK r : r = got \o p
  BY Zenon
<1>5. /\ r \in Seq(Lsns) /\ Len(r) = a + b /\ (\A i \in 1..a : r[i] = got[i])
      /\ \A i \in 1..b : r[a + i] = p[i]
  BY <1>1, <1>2, <1>4
<1>6. ASSUME NEW i \in 1..(a + b) PROVE r[i] = log[(k + i) - 1].lsn
  <2>1. CASE i <= a
    <3>1. i \in 1..a
      BY <2>1
    <3> QED
      BY <1>3, <1>5, <3>1, Zenon
  <2>2. CASE ~(i <= a)
    <3>1. PICK x \in 1..b : a + x = i
      <4>1. i - a \in 1..b /\ a + (i - a) = i
        BY <2>2
      <4> QED
        BY <4>1
    <3>2. (k + i) - 1 = m + x
      BY <1>3, <3>1
    <3>3. r[i] = p[x] /\ p[x] = log[m + x].lsn
      BY <1>2, <1>5, <3>1
    <3> QED
      BY <3>2, <3>3, Zenon
  <2> QED
    BY <2>1, <2>2
<1>7. m + b \in 0..c /\ k + (a + b) = (m + b) + 1
  BY <1>2, <1>3
<1>8. Got(log, r, lsn, k, m + b)
  BY <1>2, <1>3, <1>5, <1>6, <1>7 DEF Got
<1> QED
  BY <1>2, <1>4, <1>8

\* The list without its first name.
LEMMA NamesTail ==
  ASSUME NEW S, S \subseteq Nat, NEW s \in Seq(S), Sorted(s), s # <<>>
  PROVE  /\ s[1] \in S /\ Tail(s) \in Seq(S)
         /\ Tail(s) = <<>> => Range(s) = {s[1]}
         /\ Tail(s) # <<>> => /\ Sorted(Tail(s)) /\ Tail(s)[1] \in S /\ s[1] < Tail(s)[1]
                             /\ Range(Tail(s)) = {n \in Range(s) : Tail(s)[1] <= n}
                             /\ \A n \in Range(s) : n = s[1] \/ Tail(s)[1] <= n
<1>1. PICK k \in Nat \ {0} : k = Len(s) /\ DOMAIN s = 1..k
  OBVIOUS
<1>2. PICK t : t = Tail(s)
  BY Zenon
<1>3. t \in Seq(S) /\ Len(t) = k - 1 /\ \A i \in 1..(k - 1) : t[i] = s[i + 1]
  BY <1>1, <1>2
<1>4. \A i \in 1..k : s[i] \in S /\ s[i] \in Nat
  <2>1. \A i \in 1..k : s[i] \in S
    BY <1>1
  <2> QED
    BY <2>1, Zenon
<1>5. 1 \in 1..k
  BY <1>1
<1>6. ASSUME t = <<>> PROVE Range(s) = {s[1]}
  <2>1. k = 1
    <3>1. k - 1 = 0
      BY <1>3, <1>6
    <3> QED
      BY <3>1
  <2>2. DOMAIN s = {1}
    BY <1>1, <2>1
  <2> QED
    BY <2>2 DEF Range
<1>7. ASSUME t # <<>>
      PROVE  /\ Sorted(t) /\ t[1] \in S /\ s[1] < t[1]
             /\ Range(t) = {n \in Range(s) : t[1] <= n}
             /\ \A n \in Range(s) : n = s[1] \/ t[1] <= n
  <2>1. 2 \in 1..k
    BY <1>1, <1>3, <1>7
  <2>2. t[1] = s[2] /\ DOMAIN t = 1..(k - 1)
    BY <1>3, <2>1
  <2>3. Sorted(t)
    <3>1. ASSUME NEW a \in 1..(k - 1), NEW b \in 1..(k - 1), a < b PROVE t[a] < t[b]
      <4>1. a + 1 \in 1..k /\ b + 1 \in 1..k /\ a + 1 < b + 1
        BY <3>1
      <4> QED
        BY <1>1, <1>3, <4>1 DEF Sorted
    <3> QED
      BY <1>3, <3>1 DEF Sorted
  <2>4. s[1] < s[2]
    BY <1>1, <1>5, <2>1 DEF Sorted
  <2>5. ASSUME NEW n \in Range(s) PROVE n = s[1] \/ s[2] <= n
    <3>1. PICK i \in 1..k : n = s[i]
      BY <1>1 DEF Range
    <3>2. i = 1 \/ i = 2 \/ 2 < i
      BY <3>1
    <3>3. 2 < i => s[2] < s[i]
      BY <1>1, <2>1 DEF Sorted
    <3>4. s[2] \in Nat /\ s[i] \in Nat
      BY <1>4, <2>1
    <3> QED
      BY <3>1, <3>2, <3>3, <3>4
  <2>6. s[2] \in S
    BY <1>4, <2>1
  <2>7. ASSUME NEW n \in Range(t) PROVE n \in Range(s) /\ s[2] <= n
    <3>1. PICK i \in 1..(k - 1) : n = s[i + 1]
      BY <1>3, <2>2 DEF Range
    <3>2. i + 1 \in 1..k /\ (i + 1 = 2 \/ 2 < i + 1)
      BY <3>1
    <3>3. 2 < i + 1 => s[2] < s[i + 1]
      BY <1>1, <2>1, <3>2 DEF Sorted
    <3>4. s[2] \in Nat /\ s[i + 1] \in Nat
      BY <1>4, <2>1, <3>2
    <3> QED
      BY <1>1, <3>1, <3>2, <3>3, <3>4 DEF Range
  <2>8. ASSUME NEW n \in Range(s), s[2] <= n PROVE n \in Range(t)
    <3>1. PICK i \in 1..k : n = s[i]
      BY <1>1 DEF Range
    <3>2. i # 1
      <4>1. s[1] \in Nat /\ s[2] \in Nat
        BY <1>4, <1>5, <2>1
      <4> QED
        BY <2>4, <2>8, <3>1, <4>1
    <3>3. i - 1 \in 1..(k - 1) /\ (i - 1) + 1 = i
      BY <3>2
    <3> QED
      BY <1>3, <2>2, <3>1, <3>3, Zenon DEF Range
  <2>9. Range(t) = {n \in Range(s) : s[2] <= n}
    BY <2>7, <2>8
  <2> QED
    BY <2>2, <2>3, <2>4, <2>5, <2>6, <2>9
<1>8. s[1] \in S
  BY <1>4, <1>5
<1> QED
  BY <1>2, <1>3, <1>6, <1>7, <1>8, Zenon

\* What is left of the list, after its first file was read to the end.
LEMMA ListsNext ==
  ASSUME DataFacts, NEW fs, FilesOK(fs), NEW names, NEW off, NEW seen \in Nat, NEW hi \in Nat,
         NEW j \in Nat, NEW m \in Nat, Lists(fs, names, off, seen, hi, j, m),
         NEW n \in Nat, n = Len(LogTo(fs, names[1]))
  PROVE  \/ Tail(names) = <<>> /\ seen <= n
         \/ Lists(fs, Tail(names), 0, seen, hi, 1, n)
<1>1. PICK h, t : h = names[1] /\ t = Tail(names)
  BY Zenon
<1>2. /\ names \in Seq(DOMAIN fs) /\ Sorted(names) /\ names # <<>> /\ hi \in DOMAIN fs
      /\ Range(names) = {x \in DOMAIN fs : h <= x /\ x <= hi} /\ seen <= Len(LogTo(fs, hi))
  BY <1>1 DEF Lists
<1>3. DOMAIN fs \subseteq Nat \ {0}
  BY DEF FilesOK
<1>4. /\ h \in DOMAIN fs /\ t \in Seq(DOMAIN fs) /\ (t = <<>> => Range(names) = {h})
      /\ t # <<>> => /\ Sorted(t) /\ t[1] \in DOMAIN fs /\ h < t[1]
                     /\ Range(t) = {x \in Range(names) : t[1] <= x}
                     /\ \A x \in Range(names) : x = h \/ t[1] <= x
  <2>1. DOMAIN fs \subseteq Nat
    BY <1>3
  <2> QED
    BY <1>1, <1>2, <2>1, NamesTail, Zenon
<1>5. h <= hi
  <2>1. h \in Range(names)
    <3>1. 1 \in DOMAIN names
      BY <1>2
    <3> QED
      BY <1>1, <3>1 DEF Range
  <2> QED
    BY <1>2, <2>1
<1>6. CASE t = <<>>
  <2>1. hi \in Range(names)
    BY <1>2, <1>3, <1>5
  <2>2. hi = h
    BY <1>4, <1>6, <2>1
  <2> QED
    BY <1>1, <1>2, <1>6, <2>2
<1>7. CASE t # <<>>
  <2>1. PICK g \in DOMAIN fs : g = t[1] /\ h < g /\ g \in Nat \ {0} /\ h \in Nat
    BY <1>3, <1>4, <1>7
  <2>2. Range(t) = {x \in DOMAIN fs : g <= x /\ x <= hi}
    <3>1. \A x \in DOMAIN fs : g <= x => h <= x
      BY <1>3, <2>1
    <3> QED
      BY <1>2, <1>4, <1>7, <2>1, <3>1
  <2>3. g \in Range(t)
    <3>1. 1 \in DOMAIN t
      BY <1>4, <1>7
    <3> QED
      BY <2>1, <3>1 DEF Range
  <2>4. g \in Nat /\ g <= hi
    BY <2>1, <2>2, <2>3
  <2>5. \A x \in DOMAIN fs : x <= h \/ x > g - 1
    <3>1. ASSUME NEW x \in DOMAIN fs, ~(x <= h) PROVE x > g - 1
      <4>1. x \in Nat
        BY <1>3
      <4>2. CASE x <= hi
        <5>1. h <= x /\ x # h
          BY <2>1, <3>1, <4>1
        <5>2. x \in Range(names)
          BY <1>2, <4>2, <5>1
        <5>3. g <= x
          BY <1>4, <1>7, <2>1, <5>1, <5>2
        <5> QED
          BY <2>1, <4>1, <5>3
      <4>3. CASE ~(x <= hi)
        BY <2>1, <2>4, <4>1, <4>3
      <4> QED
        BY <4>2, <4>3
    <3> QED
      BY <3>1
  <2>6. LogTo(fs, g - 1) = LogTo(fs, h)
    <3>1. PICK q \in Nat : q = g - 1 /\ h <= q
      BY <2>1
    <3>2. \A x \in DOMAIN fs : x <= h \/ x > q
      BY <2>5, <3>1
    <3>3. LogTo(fs, q) = LogTo(fs, h)
      BY <2>1, <3>1, <3>2, LogToSkip
    <3> QED
      BY <3>1, <3>3
  <2>7. n + 1 = Len(LogTo(fs, g - 1)) + 1
    BY <1>1, <2>6
  <2>8. StartAt(fs[g].rows, 1, 0) /\ 1 \in Nat \ {0} /\ 0 \in Nat
    BY DEF StartAt
  <2>9. Lists(fs, t, 0, seen, hi, 1, n)
    BY <1>2, <1>4, <1>7, <2>1, <2>2, <2>7, <2>8, Zenon DEF Lists
  <2> QED
    BY <1>1, <2>9
<1> QED
  BY <1>6, <1>7

\* ReadFile: the rows of the first file on the list, from byte off to its end.
LEMMA ReadOne ==
  ASSUME DataFacts, TypeInv, SolidInv, ReadInv, ReadFile
  PROVE  ReadInv'
<1>1. /\ FilesOK(files) /\ cur \in DOMAIN files /\ files' = files /\ back' = back
      /\ rd.pc = "read"
  BY DEF TypeInv, DiskType, ReadFile, diskVars
<1>2. Torn' = Torn
  BY <1>1 DEF Torn, Gap
<1>3. rd' = IF rd.names = <<>> THEN [rd EXCEPT !.pc = "done"]
            ELSE [rd EXCEPT !.rows = @ \o Parse(files[Head(rd.names)], rd.off),
                            !.names = Tail(@), !.off = 0]
  BY DEF ReadFile, ReadSegment
<1>4. rd = [pc |-> rd.pc, lsn |-> rd.lsn, off |-> rd.off, names |-> rd.names, rows |-> rd.rows,
            seen |-> rd.seen]
  BY DEF TypeInv, ReadType
<1>5. rd'.lsn = rd.lsn /\ rd'.seen = rd.seen /\ rd'.pc \in {"read", "done"}
  BY <1>1, <1>3, <1>4
<1> SUFFICES ASSUME ~Torn, back = None
             PROVE  (rd'.pc = "read" => Reading') /\ (rd'.pc = "done" => Read')
  BY <1>1, <1>2, <1>5 DEF ReadInv
<1>6. Reading
  BY <1>1 DEF ReadInv
<1>7. PICK k, m \in Nat :
        /\ Got(LogOf(files), rd.rows, rd.lsn, k, m)
        /\ \/ rd.names = <<>> /\ rd.seen <= m
           \/ \E hi, j \in Nat : Lists(files, rd.names, rd.off, rd.seen, hi, j, m)
  BY <1>6, Zenon DEF Reading
<1>8. rd.seen \in Nat
  BY <1>6 DEF Reading
<1>9. CASE rd.names = <<>>
  <2>1. rd'.pc = "done" /\ rd'.rows = rd.rows
    BY <1>3, <1>4, <1>9
  <2>2. rd.seen <= m
    BY <1>7, <1>9 DEF Lists
  <2> QED
    BY <1>1, <1>5, <1>7, <1>8, <2>1, <2>2, Zenon DEF Read
<1>10. CASE rd.names # <<>>
  <2>1. PICK hi, j \in Nat : Lists(files, rd.names, rd.off, rd.seen, hi, j, m)
    BY <1>7, <1>10
  <2>2. PICK h \in DOMAIN files : h = rd.names[1] /\ h = Head(rd.names)
    <3>1. rd.names \in Seq(DOMAIN files) /\ 1 \in DOMAIN rd.names
      BY <1>10, <2>1 DEF Lists
    <3> QED
      BY <3>1
  <2>3. PICK file \in File : file = files[h] /\ Solid(file)
    BY <1>1 DEF FilesOK, SolidInv
  <2>4. PICK p : p = Parse(file, rd.off)
    OBVIOUS
  <2>5. rd'.pc = "read" /\ rd'.rows = rd.rows \o p /\ rd'.names = Tail(rd.names) /\ rd'.off = 0
    <3>1. rd' = [rd EXCEPT !.rows = rd.rows \o p, !.names = Tail(rd.names), !.off = 0]
      BY <1>3, <1>10, <2>2, <2>3, <2>4, Zenon
    <3> QED
      BY <1>1, <1>4, <3>1
  <2>6. Good(file, Len(file.rows))
    <3>1. DOMAIN file.rows = 1..Len(file.rows)
      BY DEF File
    <3> QED
      BY <2>3, <3>1 DEF Good, Torn
  <2>7. j \in Nat \ {0} /\ rd.off \in Nat /\ StartAt(file.rows, j, rd.off)
    BY <2>1, <2>2, <2>3 DEF Lists
  <2>8. /\ p \in Seq(Lsns) /\ (Len(file.rows) - j) + 1 \in Nat
        /\ Len(p) = (Len(file.rows) - j) + 1
        /\ \A i \in 1..Len(p) : p[i] = file.rows[(j + i) - 1].lsn
    <3>1. PICK off \in Nat : off = rd.off
      BY <2>7
    <3>2. StartAt(file.rows, j, off) /\ j \in Nat \ {0}
      BY <2>7, <3>1
    <3>3. /\ Parse(file, off) \in Seq(Lsns) /\ (Len(file.rows) - j) + 1 \in Nat
          /\ Len(Parse(file, off)) = (Len(file.rows) - j) + 1
          /\ \A i \in 1..Len(Parse(file, off)) :
               Parse(file, off)[i] = file.rows[(j + i) - 1].lsn
      BY <2>3, <2>6, <3>2, ParseFrom, Zenon
    <3>4. p = Parse(file, off)
      BY <2>4, <3>1
    <3> QED
      BY <3>3, <3>4, Zenon
  <2>9. /\ h \in Nat \ {0} /\ file.rows \in Seq(Row) /\ LogOf(files) \in Seq(Row)
        /\ Len(LogTo(files, h - 1)) \in Nat
        /\ Len(LogTo(files, h)) = Len(LogTo(files, h - 1)) + Len(file.rows)
        /\ Len(LogTo(files, h)) <= Len(LogOf(files))
        /\ \A x \in 1..Len(file.rows) :
             LogOf(files)[Len(LogTo(files, h - 1)) + x] = file.rows[x]
    <3>1. /\ h \in Nat \ {0} /\ files[h].rows \in Seq(Row) /\ LogOf(files) \in Seq(Row)
          /\ Len(LogTo(files, h - 1)) \in Nat
          /\ Len(LogTo(files, h)) = Len(LogTo(files, h - 1)) + Len(files[h].rows)
          /\ Len(LogTo(files, h)) <= Len(LogOf(files))
          /\ \A x \in 1..Len(files[h].rows) :
               LogOf(files)[Len(LogTo(files, h - 1)) + x] = files[h].rows[x]
      BY <1>1, LogAt, Zenon
    <3> QED
      BY <2>3, <3>1, Zenon
  <2>10. PICK a, b \in Nat : a = Len(LogTo(files, h - 1)) /\ b = Len(file.rows)
    BY <2>9
  <2>11. m + 1 = a + j
    BY <2>1, <2>2, <2>10 DEF Lists
  <2>12. m + Len(p) = a + b
    <3>1. Len(p) = (b - j) + 1
      BY <2>8, <2>10
    <3> QED
      BY <2>11, <3>1
  <2>13. ASSUME NEW i \in 1..Len(p) PROVE p[i] = LogOf(files)[m + i].lsn
    <3>1. (j + i) - 1 \in 1..b /\ a + ((j + i) - 1) = m + i
      <4>1. i \in Nat \ {0} /\ i <= (b - j) + 1
        BY <2>8, <2>10
      <4> QED
        BY <2>7, <2>11, <4>1
    <3>2. LogOf(files)[a + ((j + i) - 1)] = file.rows[(j + i) - 1]
      BY <2>9, <2>10, <3>1
    <3> QED
      BY <2>8, <3>1, <3>2, Zenon
  <2>14. a + b <= Len(LogOf(files)) /\ a + b \in Nat /\ a + b = Len(LogTo(files, h))
    <3>1. Len(LogTo(files, h)) = a + b /\ Len(LogTo(files, h)) <= Len(LogOf(files))
      BY <2>9, <2>10, Zenon
    <3> QED
      BY <3>1
  <2>15. Got(LogOf(files), rd.rows \o p, rd.lsn, k, a + b)
    <3>1. m + Len(p) <= Len(LogOf(files))
      BY <2>12, <2>14
    <3>2. Got(LogOf(files), rd.rows \o p, rd.lsn, k, m + Len(p))
      BY <1>7, <2>8, <2>9, <2>13, <3>1, GotNext, Zenon
    <3> QED
      BY <2>12, <3>2, Zenon
  <2>16. \/ Tail(rd.names) = <<>> /\ rd.seen <= a + b
         \/ Lists(files, Tail(rd.names), 0, rd.seen, hi, 1, a + b)
    BY <1>1, <1>8, <2>1, <2>2, <2>14, ListsNext, Zenon
  <2>17. Reading'
    <3>1. 1 \in Nat
      OBVIOUS
    <3> QED
      BY <1>1, <1>5, <1>8, <2>5, <2>14, <2>15, <2>16, <3>1, Zenon DEF Reading
  <2> QED
    BY <2>5, <2>17
<1> QED
  BY <1>9, <1>10

\* Every step keeps what was read a piece of the log.
LEMMA ReadStep ==
  ASSUME DataFacts, TypeInv, TypeInv', PendInv, LogInv, IndexInv, MasterInv, ReadInv, [Next]_vars
  PROVE  ReadInv'
<1>1. SolidInv /\ LeadInv
  BY DEF IndexInv
<1>2. CASE \E p \in Writers : PutRow(p) \/ Rotate(p)
  BY <1>1, <1>2, FilesFurther, ReadFrame
<1>3. CASE GetIndexAny
  BY <1>1, <1>3, ReadGetIndex DEF GetIndexAny
<1>4. CASE ReadDirsFrom \/ ReadFile
  BY <1>1, <1>4, ReadListed, ReadOne
<1>5. CASE Reply \/ Crash
  <2>1. rd'.pc = "idle"
    BY <1>5 DEF Reply, Crash, NoRead
  <2> QED
    BY <2>1 DEF ReadInv
<1>6. CASE \/ WriteAny \/ (\E p \in Writers : Cut(p) \/ Locate(p) \/ Sync(p) \/ IOError(p))
           \/ AddBatch \/ Restart \/ RestoreFile \/ RestoreDone \/ UNCHANGED vars
  <2>1. rd' = rd /\ files' = files /\ back' = back
    BY <1>6, Zenon DEF WriteAny, Write, Cut, Locate, Sync, IOError, AddBatch, Restart, RestoreFile,
       RestoreDone, vars, diskVars
  <2>2. FilesOK(files) /\ cur \in DOMAIN files
    BY DEF TypeInv, DiskType
  <2>3. Keeps(files, files') /\ Further(files, files')
    BY <2>1, <2>2, KeepsSame, FurtherSame
  <2> QED
    BY <2>1, <2>3, ReadFrame
<1> QED
  BY <1>2, <1>3, <1>4, <1>5, <1>6 DEF Next

\* Nothing has been read.
LEMMA ReadInit == Init => MasterInv /\ ReadInv
<1> SUFFICES ASSUME Init PROVE MasterInv /\ ReadInv
  OBVIOUS
<1>1. rd.pc = "idle" /\ ~raced
  BY DEF Init, NoRead
<1>2. w["repl"].pc = "idle"
  BY IdleType DEF Init, Writers
<1> QED
  BY <1>1, <1>2 DEF MasterInv, ReadInv

\* What the handler has read, by the invariant.
LEMMA ReadSuffix == ASSUME DataFacts, TypeInv, ReadInv PROVE ReadIsSuffix
<1> SUFFICES ASSUME rd.pc = "done", ~Torn, back = None
             PROVE  \E k \in DOMAIN Log :
                      /\ Log[k].lsn = rd.lsn
                      /\ k + Len(rd.rows) - 1 \in rd.seen..Len(Log)
                      /\ \A i \in DOMAIN rd.rows : rd.rows[i] = Log[k + i - 1].lsn
  BY DEF ReadIsSuffix
<1>1. Read
  BY DEF ReadInv
<1>2. PICK log \in Seq(Row) : log = Log /\ log = LogOf(files)
  BY LogIs, LogType DEF TypeInv, DiskType
<1>3. PICK k, m \in Nat : Got(log, rd.rows, rd.lsn, k, m) /\ rd.seen <= m
  BY <1>1, <1>2, Zenon DEF Read
<1>4. rd.rows \in Seq(Lsns) /\ rd.seen \in Nat
  BY <1>1, <1>3 DEF Read, Got
<1>5. PICK a, b \in Nat : /\ a = Len(rd.rows) /\ DOMAIN rd.rows = 1..a
                          /\ b = Len(log) /\ DOMAIN log = 1..b
  BY <1>4
<1>6. /\ k \in 1..b /\ log[k].lsn = rd.lsn /\ m \in 0..b /\ k + a = m + 1
      /\ \A i \in 1..a : rd.rows[i] = log[(k + i) - 1].lsn
  BY <1>3, <1>5 DEF Got
<1>7. k + a - 1 = m /\ m \in rd.seen..b
  BY <1>3, <1>4, <1>6
<1>8. k \in DOMAIN log /\ k + Len(rd.rows) - 1 \in rd.seen..Len(log)
  BY <1>5, <1>6, <1>7, Zenon
<1>9. \A i \in DOMAIN rd.rows : rd.rows[i] = log[k + i - 1].lsn
  BY <1>5, <1>6
<1> QED
  BY <1>2, <1>6, <1>8, <1>9, Zenon
-----------------------------------------------------------------------------
(***************************************************************************)
(* What holds throughout, given the facts.                                 *)
(***************************************************************************)
\* The invariants together.
LEMMA SegmentsInv ==
  ASSUME DataFacts PROVE Spec => [](TypeInv /\ BoundInv /\ PendInv /\ LogInv /\ IndexInv)
<1>1. Init => TypeInv /\ BoundInv /\ PendInv /\ LogInv /\ IndexInv
  BY TypeInit, BoundInit, LogInit, IndexInit
<1>2. TypeInv /\ BoundInv /\ PendInv /\ LogInv /\ [Next]_vars
        => TypeInv' /\ BoundInv' /\ PendInv' /\ LogInv'
  BY TypeStep, BoundStep, LogStep
<1>3. TypeInv /\ TypeInv' /\ BoundInv /\ IndexInv /\ [Next]_vars => IndexInv'
  BY IndexStep
<1> QED
  BY <1>1, <1>2, <1>3, PTL DEF Spec

\* The types, from the parts of the type invariant.
LEMMA TypesGiven == ASSUME DataFacts PROVE Spec => []TypeOK
  BY SegmentsInv, TypeParts, PTL

\* The bound on a segment.
LEMMA BoundGiven == ASSUME DataFacts PROVE Spec => []SegmentBound
<1>1. BoundInv => SegmentBound
  BY DEF BoundInv
<1> QED
  BY <1>1, SegmentsInv, PTL

\* Every step extends the log on disk, or leaves it.
LEMMA AppendLogGiven == ASSUME DataFacts PROVE Spec => ImplementsAppendLog
<1>1. Init => DiskLog!Init
  BY LogInit, LogIs, Zenon DEF Init, DiskLog!Init
<1>2. TypeInv /\ PendInv /\ LogInv /\ [Next]_vars
        => [DiskLog!Extend]_(IF back = None THEN Log ELSE back)
  <2> SUFFICES ASSUME TypeInv, PendInv, LogInv, [Next]_vars
               PROVE  [DiskLog!Extend]_(IF back = None THEN Log ELSE back)
    OBVIOUS
  <2>1. TypeInv' /\ LogInv' /\ Grows
    BY TypeStep, LogStep
  <2> QED
    BY <2>1, GrowsExtends
<1> QED
  BY <1>1, <1>2, SegmentsInv, PTL DEF Spec, ImplementsAppendLog, DiskLog!Spec

\* The entries of the index.
LEMMA IndexGiven == ASSUME DataFacts PROVE Spec => []IndexSound
  BY SegmentsInv, LeadsSound, PTL

\* The rows the handler has read.
LEMMA SuffixGiven == ASSUME DataFacts PROVE Spec => []ReadIsSuffix
<1>1. Init => MasterInv /\ ReadInv
  BY ReadInit
<1>2. TypeInv /\ MasterInv /\ [Next]_vars => MasterInv'
  BY MasterStep
<1>3. TypeInv /\ TypeInv' /\ PendInv /\ LogInv /\ IndexInv /\ MasterInv /\ ReadInv /\ [Next]_vars
        => ReadInv'
  BY ReadStep
<1>4. TypeInv /\ ReadInv => ReadIsSuffix
  BY ReadSuffix
<1> QED
  BY <1>1, <1>2, <1>3, <1>4, SegmentsInv, PTL DEF Spec

\* The rows a restart finds.
LEMMA RestartGiven == ASSUME DataFacts PROVE Spec => RestoreComplete
<1>1. TypeInv /\ IndexInv /\ [Next]_vars
        => [phase = "restoring" /\ phase' = "up" /\ ~Torn
              => \A row \in Range(Log) : index[row.lsn] # None]_vars
  BY FoundAll
<1> QED
  BY <1>1, SegmentsInv, PTL DEF Spec, RestoreComplete
-----------------------------------------------------------------------------
(***************************************************************************)
(* The facts that the lemmas assume, by induction over the naturals and    *)
(* over the sequences that are folded.                                     *)
(***************************************************************************)
Plus(n, l) == n + Size[l]
Join(s, t) == s \o t

BP == INSTANCE FoldProofs WITH Op <- Plus
CP == INSTANCE FoldProofs WITH Op <- Join

\* The sum of the model is the fold of FoldProofs.
LEMMA BytesIs == ASSUME NEW s PROVE Bytes(s) = BP!Fold(0, s)
  BY Zenon DEF Bytes, FoldLeft, MapThenFoldSet, Max, BP!Fold, BP!Greatest, Plus

\* So is the concatenation.
LEMMA ConcatIs == ASSUME NEW s PROVE Concat(s) = CP!Fold(<<>>, s)
  BY Zenon DEF Concat, FoldLeft, MapThenFoldSet, Max, CP!Fold, CP!Greatest, Join

\* The bytes of some rows.
LEMMA BytesFacts ==
  /\ Bytes(<<>>) = 0
  /\ \A s \in Seq(Lsns) : /\ Bytes(s) \in Nat
                         /\ \A l \in Lsns : Bytes(Append(s, l)) = Bytes(s) + Size[l]
<1>1. Bytes(<<>>) = 0
  BY BytesIs, BP!FoldEmpty
<1>2. ASSUME NEW s \in Seq(Lsns) PROVE Bytes(s) \in Nat
  <2>1. ASSUME NEW n \in Nat, NEW l \in Lsns PROVE Plus(n, l) \in Nat
    BY SegmentsAssumption DEF Plus
  <2>2. BP!Fold(0, s) \in Nat
    BY <2>1, BP!FoldType, Zenon
  <2> QED
    BY <2>2, BytesIs
<1>3. ASSUME NEW s \in Seq(Lsns), NEW l \in Lsns PROVE Bytes(Append(s, l)) = Bytes(s) + Size[l]
  <2>1. BP!Fold(0, Append(s, l)) = Plus(BP!Fold(0, s), l)
    BY BP!FoldAppend
  <2> QED
    BY <2>1, BytesIs DEF Plus
<1> QED
  BY <1>1, <1>2, <1>3

\* More rows have more bytes.
LEMMA BytesMore == ASSUME NEW s \in Seq(Lsns), NEW t \in Seq(Lsns) PROVE Bytes(s) <= Bytes(s \o t)
<1> DEFINE V == {n \in Nat : Bytes(s) <= n}
<1>1. Bytes(s) \in V
  BY BytesFacts
<1>2. ASSUME NEW n \in V, NEW l \in Lsns PROVE Plus(n, l) \in V
  BY SegmentsAssumption, BytesFacts DEF Plus
<1> HIDE DEF V
<1>3. BP!Fold(Bytes(s), t) \in V
  BY <1>1, <1>2, BP!FoldType, Zenon
<1>4. Bytes(s \o t) = BP!Fold(Bytes(s), t)
  BY BytesIs, BP!FoldConcat
<1> QED
  BY <1>3, <1>4 DEF V

\* The concatenation of some sequences.
LEMMA ConcatFacts ==
  ASSUME NEW S, NEW s \in Seq(Seq(S))
  PROVE  Concat(s) \in Seq(S) /\ \A t \in Seq(S) : Concat(Append(s, t)) = Concat(s) \o t
<1>1. ASSUME NEW a \in Seq(S), NEW b \in Seq(S) PROVE Join(a, b) \in Seq(S)
  BY DEF Join
<1>2. <<>> \in Seq(S)
  OBVIOUS
<1>3. CP!Fold(<<>>, s) \in Seq(S)
  BY <1>1, <1>2, CP!FoldType, Zenon
<1>4. ASSUME NEW t \in Seq(S) PROVE Concat(Append(s, t)) = Concat(s) \o t
  <2>1. CP!Fold(<<>>, Append(s, t)) = Join(CP!Fold(<<>>, s), t)
    BY CP!FoldAppend
  <2> QED
    BY <2>1, ConcatIs, Zenon DEF Join
<1> QED
  BY <1>3, <1>4, ConcatIs

\* All of them.
LEMMA DataFactsHold == DataFacts
<1>1. \A T : T \subseteq Nat /\ T # {} => \E x \in T : \A y \in T : x <= y
  BY CP!NatMin, Zenon
<1>2. \A N \in Nat : \A T : T \subseteq 0..N /\ T # {} => \E g \in T : \A x \in T : x <= g
  BY CP!BoundedMax, Zenon
<1>3. \A T : 0 \in T /\ (\A n \in T \cap Nat : n + 1 \in T) => Nat \subseteq T
  BY CP!NatsBySuccessor
<1>4. Concat(<<>>) = <<>>
  BY ConcatIs, CP!FoldEmpty
<1> QED
  BY <1>1, <1>2, <1>3, <1>4, BytesFacts, BytesMore, ConcatFacts, Zenon DEF DataFacts
-----------------------------------------------------------------------------
(***************************************************************************)
(* The theorems.                                                           *)
(***************************************************************************)
\* The types of the segments hold, whatever the sizes, faults and writers; so
\* curSeg.size, by which Fits decides, is never more than the length of the file
\* (segment.go:44-75), also after an error that left the mutex held.
THEOREM SegmentsTypeCorrect == Spec => []TypeOK
  BY DataFactsHold, TypesGiven

\* No segment outgrows max_segment_size (segment_manager.go:63-88), for any sizes
\* of rows and batches, any rotations, restarts and torn writes: but for a row
\* that is alone in its file, and a file that overlapping calls of Write put
\* bytes into.
THEOREM SegmentsAreBounded == Spec => []SegmentBound
  BY DataFactsHold, BoundGiven

\* The rows on disk, in the order of the files, implement the append-only log of
\* module AppendLog: a row once on disk stays at its place, and an LSN names one
\* row, with two writers that overlap, rotations, errors, torn writes and
\* restarts, until the clock is set back.
THEOREM SegmentsImplementAppendLog == Spec => ImplementsAppendLog
  BY DataFactsHold, AppendLogGiven

\* An index entry leads to its row (segment_manager.go:97-116, index.go:46-87),
\* with either index manager, across rotations, errors, torn writes and restarts,
\* and with the clock set back: unless two calls of Write have overlapped since
\* the start.
THEOREM IndexLeadsToRows == Spec => []IndexSound
  BY DataFactsHold, IndexGiven

\* What the master's handler has read for a replica is a piece of the log without
\* a hole, from the row asked for to at least the last one on disk at GetIndex
\* (dir.go:65-102, log_reader.go:31-68), for any number of files, whatever is
\* written and rotated between the listing and the reads: unless a row follows a
\* torn one, or the clock was set back.
THEOREM HandlerReadsSuffix == Spec => []ReadIsSuffix
  BY DataFactsHold, SuffixGiven

\* A restart finds every row on disk, also those of two writers at once and of a
\* file that ends in a torn row: unless a row follows a torn one
\* (log_reader.go:85-105, 189-225).
THEOREM RestartFindsEveryRow == Spec => RestoreComplete
  BY DataFactsHold, RestartGiven
=============================================================================
