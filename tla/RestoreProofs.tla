--------------------------- MODULE RestoreProofs ---------------------------
(***************************************************************************)
(* Proofs about Restore, for any directory, any files that cannot be read  *)
(* and any order of the three goroutines: a node that comes up has         *)
(* executed the files from the first to some one, in order, and continues  *)
(* after their greatest LSN; with no read error these are all the files.   *)
(*                                                                         *)
(* The invariant counts files.  Sent of them have left the reader, Taken   *)
(* the first stream, Queued the converter, and Executed are in memory: the *)
(* streams and the batch of the converter hold the files in between.       *)
(***************************************************************************)
EXTENDS Restore, TLAPS

\* The rows of the first n files, and the greatest LSN of some rows.
Upto(n) == Concat(SubSeq(files, 1, n))
Top(rows) == Max({0} \cup Range(rows))

ReaderPC == {"new", "list", "read", "put", "index", "done", "stopped"}
ConvertPC == {"new", "next", "put", "done", "stopped"}
MainPC == {"read", "readReturn", "stream", "streamReturn", "next", "up", "failed"}

StateType ==
  /\ files \in Seq(Seq(Nat)) /\ bad \subseteq Nat
  /\ reader \in [pc : ReaderPC, file : Nat]
  /\ convert \in [pc : ConvertPC, batch : Seq(Nat), last : Nat]
  /\ rowsCh \in Stream /\ queryCh \in Stream
  /\ main \in MainPC /\ store \in Seq(Nat) /\ index \subseteq Nat /\ lsnGen \in Nat

Ended == reader.pc \in {"done", "stopped"}

\* A stream has one slot.
Held(s) == IF s.ch = <<>> THEN 0 ELSE 1

Sent == IF reader.pc = "index" THEN reader.file
        ELSE IF Ended /\ ~rowsCh.err THEN Len(files) ELSE reader.file - 1
Indexed == IF reader.pc = "index" THEN Sent - 1 ELSE Sent
Taken == Sent - Held(rowsCh)
Queued == Taken - (IF convert.pc = "put" THEN 1 ELSE 0)
Executed == Queued - Held(queryCh)

\* Where the reader is, and what it has found readable by then.
ReaderInv ==
  /\ reader.file \in 1..(Len(files) + 1)
  /\ reader.pc \in {"new", "list"} => reader.file = 1
  /\ reader.pc \in {"read", "put", "index"} => reader.file <= Len(files) /\ 0 \notin bad
  /\ reader.pc \in {"put", "index"} => reader.file \notin bad
  /\ rowsCh.err => Ended /\ bad # {}
  /\ rowsCh.closed => reader.pc = "stopped"
  /\ Sent > 0 => 0 \notin bad
  /\ \A i \in 1..Sent : i \notin bad

\* The order in which the goroutines start, and how each of them ends.
OrderInv ==
  /\ main = "read" => reader.pc = "new"
  /\ main \in {"read", "readReturn", "stream"} => convert.pc = "new"
  /\ convert.pc \in {"new", "next", "put"} => lsnGen = 0 /\ ~queryCh.err
  /\ rowsCh.seen => rowsCh.err
  /\ queryCh.err => rowsCh.seen /\ lsnGen = 0
  /\ convert.pc \in {"done", "stopped"} /\ ~queryCh.err =>
       rowsCh.closed /\ rowsCh.ch = <<>> /\ lsnGen = convert.last
  /\ queryCh.closed => convert.pc = "stopped"
  /\ main = "up" => queryCh.closed /\ queryCh.ch = <<>>

\* The files are on their way in order.
FlowInv ==
  /\ Executed >= 0
  /\ rowsCh.ch # <<>> => rowsCh.ch = <<files[Sent]>>
  /\ convert.pc = "put" => convert.batch = files[Taken]
  /\ queryCh.ch # <<>> => queryCh.ch = <<files[Queued]>>
  /\ store = Upto(Executed)
  /\ convert.last = Top(Upto(Taken))
  /\ index = Range(Upto(Indexed))
  /\ rowsCh.seen \/ convert.pc = "new" => Taken = 0 

RestoreInv == StateType /\ ReaderInv /\ OrderInv /\ FlowInv
-----------------------------------------------------------------------------
(***************************************************************************)
(* Files and LSNs.                                                         *)
(***************************************************************************)
Join(s, t) == s \o t

FP == INSTANCE FoldProofs WITH Op <- Join

\* The concatenation of the model is the fold of FoldProofs.
LEMMA ConcatIs == ASSUME NEW s PROVE Concat(s) = FP!Fold(<<>>, s)
  BY Zenon DEF Concat, FoldLeft, MapThenFoldSet, Max, FP!Fold, FP!Greatest, Join

\* The concatenation of some sequences, and of one more.
LEMMA ConcatFacts ==
  ASSUME NEW s \in Seq(Seq(Nat))
  PROVE  Concat(s) \in Seq(Nat) /\ \A t \in Seq(Nat) : Concat(Append(s, t)) = Concat(s) \o t
<1>1. ASSUME NEW a \in Seq(Nat), NEW b \in Seq(Nat) PROVE Join(a, b) \in Seq(Nat)
  BY DEF Join
<1>2. <<>> \in Seq(Nat)
  OBVIOUS
<1>3. FP!Fold(<<>>, s) \in Seq(Nat)
  BY <1>1, <1>2, FP!FoldType, Zenon
<1>4. ASSUME NEW t \in Seq(Nat) PROVE Concat(Append(s, t)) = Concat(s) \o t
  <2>1. FP!Fold(<<>>, Append(s, t)) = Join(FP!Fold(<<>>, s), t)
    BY FP!FoldAppend
  <2> QED
    BY <2>1, ConcatIs, Zenon DEF Join
<1> QED
  BY <1>3, <1>4, ConcatIs

\* The rows of no file, and of all files.
LEMMA UptoEnds ==
  ASSUME files \in Seq(Seq(Nat))
  PROVE  Upto(0) = <<>> /\ Upto(Len(files)) = Concat(files)
<1>1. SubSeq(files, 1, 0) = <<>> /\ SubSeq(files, 1, Len(files)) = files
  OBVIOUS
<1>2. Concat(<<>>) = <<>>
  BY ConcatIs, FP!FoldEmpty
<1> QED
  BY <1>1, <1>2, Zenon DEF Upto

\* The rows of some files.
LEMMA UptoType ==
  ASSUME files \in Seq(Seq(Nat)), NEW n \in 0..Len(files)
  PROVE  Upto(n) \in Seq(Nat)
<1>1. SubSeq(files, 1, n) \in Seq(Seq(Nat))
  OBVIOUS
<1> QED
  BY <1>1, ConcatFacts, Zenon DEF Upto

\* One file more.
LEMMA UptoNext ==
  ASSUME files \in Seq(Seq(Nat)), NEW n \in 1..Len(files)
  PROVE  files[n] \in Seq(Nat) /\ Upto(n) = Upto(n - 1) \o files[n]
<1> DEFINE s == SubSeq(files, 1, n - 1)
           t == SubSeq(files, 1, n)
<1>1. s \in Seq(Seq(Nat)) /\ Len(s) = n - 1 /\ \A i \in 1..(n - 1) : s[i] = files[i]
  OBVIOUS
<1>2. t \in Seq(Seq(Nat)) /\ Len(t) = n /\ \A i \in 1..n : t[i] = files[i]
  OBVIOUS
<1>3. files[n] \in Seq(Nat)
  OBVIOUS
<1> DEFINE a == Append(s, files[n])
<1> HIDE DEF s, t
<1>4. a \in Seq(Seq(Nat)) /\ Len(a) = n /\ a[n] = files[n] /\ \A i \in 1..(n - 1) : a[i] = s[i]
  BY <1>1, <1>3
<1> HIDE DEF a
<1>5. ASSUME NEW i \in 1..n PROVE t[i] = a[i]
  <2>1. i \in 1..(n - 1) \/ i = n
    OBVIOUS
  <2> QED
    BY <1>1, <1>2, <1>4, <2>1, Zenon
<1>6. t = a
  BY <1>2, <1>4, <1>5
<1>7. Concat(t) = Concat(s) \o files[n]
  BY <1>1, <1>3, <1>6, ConcatFacts, Zenon DEF a
<1> QED
  BY <1>3, <1>7, Zenon DEF Upto, s, t

\* The rows of two sequences.
LEMMA RangeJoin ==
  ASSUME NEW s \in Seq(Nat), NEW t \in Seq(Nat)
  PROVE  Range(s \o t) = Range(s) \cup Range(t)
<1> DEFINE u == s \o t
<1>1. /\ u \in Seq(Nat) /\ Len(u) = Len(s) + Len(t) /\ Len(s) \in Nat /\ Len(t) \in Nat
      /\ \A i \in 1..Len(s) : u[i] = s[i]
      /\ \A i \in 1..Len(t) : u[Len(s) + i] = t[i]
  OBVIOUS
<1>2. Range(s) = {s[i] : i \in 1..Len(s)} /\ Range(t) = {t[i] : i \in 1..Len(t)}
  BY DEF Range
<1> HIDE DEF u
<1>3. Range(u) = {u[i] : i \in 1..Len(u)}
  <2>1. DOMAIN u = 1..Len(u)
    BY <1>1
  <2> QED
    BY <2>1, Zenon DEF Range
<1>4. ASSUME NEW i \in 1..Len(u) PROVE u[i] \in Range(s) \cup Range(t)
  <2>1. CASE i <= Len(s)
    <3>1. i \in 1..Len(s)
      BY <1>1, <2>1
    <3> QED
      BY <1>1, <1>2, <3>1, Zenon
  <2>2. CASE i > Len(s)
    <3>1. i - Len(s) \in 1..Len(t) /\ Len(s) + (i - Len(s)) = i
      BY <1>1, <2>2
    <3> QED
      BY <1>1, <1>2, <3>1, Zenon
  <2> QED
    BY <1>1, <2>1, <2>2
<1>5. ASSUME NEW i \in 1..Len(s) PROVE s[i] \in Range(u)
  <2>1. i \in 1..Len(u)
    BY <1>1
  <2> QED
    BY <1>1, <1>3, <2>1
<1>6. ASSUME NEW i \in 1..Len(t) PROVE t[i] \in Range(u)
  <2>1. Len(s) + i \in 1..Len(u)
    BY <1>1
  <2> QED
    BY <1>1, <1>3, <2>1, Zenon
<1> QED
  BY <1>2, <1>3, <1>4, <1>5, <1>6, Zenon DEF u
\* Some rows have a greatest LSN.
LEMMA RowsBounded == ASSUME NEW s \in Seq(Nat) PROVE \E b \in Nat : \A x \in Range(s) : x <= b
<1> DEFINE T == {n \in Nat : \A r \in Seq(Nat) :
                            Len(r) = n => \E b \in Nat : \A i \in 1..n : r[i] <= b}
<1>1. 0 \in T
  OBVIOUS
<1>2. ASSUME NEW n \in T \cap Nat PROVE n + 1 \in T
  <2> SUFFICES ASSUME NEW r \in Seq(Nat), Len(r) = n + 1
               PROVE  \E b \in Nat : \A i \in 1..(n + 1) : r[i] <= b
    OBVIOUS
  <2>1. PICK q \in Seq(Nat), e \in Nat : r = Append(q, e) /\ Len(q) = n
    BY FP!SplitLast, Zenon
  <2>2. PICK b \in Nat : \A i \in 1..n : q[i] <= b
    BY <2>1, Zenon
  <2>3. r[n + 1] = e /\ \A i \in 1..n : r[i] = q[i] /\ q[i] \in Nat
    BY <2>1
  <2>4. ASSUME NEW i \in 1..(n + 1) PROVE r[i] <= b + e
    <3>1. CASE i \in 1..n
      <4>1. r[i] \in Nat /\ r[i] <= b
        BY <2>2, <2>3, <3>1, Zenon
      <4> QED
        BY <4>1
    <3>2. CASE i = n + 1
      BY <2>3, <3>2
    <3> QED
      BY <3>1, <3>2
  <2>5. b + e \in Nat
    OBVIOUS
  <2> QED
    BY <2>4, <2>5, Zenon
<1> HIDE DEF T
<1>3. Len(s) \in T
  BY <1>1, <1>2, FP!NatsBySuccessor
<1>4. Range(s) = {s[i] : i \in 1..Len(s)}
  BY DEF Range
<1> QED
  BY <1>3, <1>4, Zenon DEF T

\* The greatest of a last LSN and some rows.
LEMMA MaxIs ==
  ASSUME NEW n \in Nat, NEW s \in Seq(Nat)
  PROVE  LET m == Max({n} \cup Range(s)) IN
         /\ m \in Nat /\ m \in {n} \cup Range(s) /\ n <= m /\ \A x \in Range(s) : x <= m
<1> DEFINE T == {n} \cup Range(s)
<1>1. Range(s) \subseteq Nat
  BY DEF Range
<1>2. PICK b \in Nat : \A x \in Range(s) : x <= b
  BY RowsBounded
<1>3. T \subseteq Nat /\ T \subseteq 0..(b + n) /\ T # {} /\ b + n \in Nat
  BY <1>1, <1>2
<1>4. \E x \in T : \A y \in T : y <= x
  BY <1>3, FP!BoundedMax, Zenon
<1>5. \E x \in T : \A y \in T : x >= y
  BY <1>3, <1>4
<1>6. Max(T) \in T /\ \A y \in T : Max(T) >= y
  BY <1>5, Zenon DEF Max
<1> QED
  BY <1>3, <1>6, Zenon

\* The last LSN of no rows, and of some more rows: what the converter keeps in
\* lastLSNID batch by batch is the greatest LSN of all rows it has taken.
LEMMA TopNext ==
  ASSUME NEW s \in Seq(Nat), NEW t \in Seq(Nat)
  PROVE  Top(<<>>) = 0 /\ Top(s) \in Nat /\ Max({Top(s)} \cup Range(t)) = Top(s \o t)
<1>1. Range(<<>>) = {} /\ <<>> \in Seq(Nat)
  BY DEF Range
<1>2. Top(<<>>) = 0
  BY <1>1, MaxIs, Zenon DEF Top
<1> DEFINE a == Top(s)
           b == Max({a} \cup Range(t))
           c == Top(s \o t)
<1>3. s \o t \in Seq(Nat)
  OBVIOUS
<1>4. a \in Nat /\ a \in {0} \cup Range(s) /\ \A x \in Range(s) : x <= a
  BY MaxIs, Zenon DEF Top
<1> HIDE DEF a
<1>5. b \in Nat /\ b \in {a} \cup Range(t) /\ a <= b /\ \A x \in Range(t) : x <= b
  BY <1>4, MaxIs, Zenon
<1>6. c \in Nat /\ c \in {0} \cup Range(s \o t) /\ \A x \in Range(s \o t) : x <= c
  BY <1>3, MaxIs, Zenon DEF Top
<1>7. Range(s \o t) = Range(s) \cup Range(t)
  BY RangeJoin
<1> HIDE DEF b, c
<1>8. Range(s) \subseteq Nat /\ Range(t) \subseteq Nat
  BY DEF Range
<1>9. b <= c
  BY <1>4, <1>5, <1>6, <1>7
<1>10. c <= b
  BY <1>4, <1>5, <1>6, <1>7, <1>8
<1>11. b = c
  BY <1>5, <1>6, <1>9, <1>10
<1> QED
  BY <1>2, <1>4, <1>11 DEF a, b, c
-----------------------------------------------------------------------------
(***************************************************************************)
(* Types.                                                                  *)
(***************************************************************************)
\* A sequence with one element more, and without its first.
LEMMA SeqType ==
  ASSUME NEW S, NEW s \in Seq(S)
  PROVE  (\A v \in S : Append(s, v) \in Seq(S)) /\ (s # <<>> => Head(s) \in S /\ Tail(s) \in Seq(S))
  OBVIOUS

\* The operations of a stream.
LEMMA StreamType ==
  ASSUME NEW s \in Stream
  PROVE  /\ PutErr(s) \in Stream /\ Done(s) \in Stream /\ ReturnCopy(s) \in Stream
         /\ \A v \in Seq(Nat) : PutOk(s, v) \in Stream
         /\ s.ch # <<>> => Head(s.ch) \in Seq(Nat) /\ [s EXCEPT !.ch = Tail(@)] \in Stream
<1>1. PICK ch \in Seq(Seq(Nat)), c \in BOOLEAN, e \in BOOLEAN, n \in BOOLEAN :
        s = [ch |-> ch, closed |-> c, err |-> e, seen |-> n]
  BY DEF Stream
<1>2. PutErr(s) \in Stream /\ Done(s) \in Stream /\ ReturnCopy(s) \in Stream
  BY <1>1, Zenon DEF PutErr, Done, ReturnCopy, Stream
<1>3. ASSUME NEW v \in Seq(Nat) PROVE PutOk(s, v) \in Stream
  <2>1. PICK t \in Seq(Seq(Nat)) : t = Append(ch, v)
    BY SeqType, Zenon
  <2>2. s.ch = ch /\ [s EXCEPT !.ch = t] \in Stream
    BY <1>1, Zenon DEF Stream
  <2> QED
    BY <2>1, <2>2, Zenon DEF PutOk
<1>4. ASSUME ch # <<>> PROVE Head(s.ch) \in Seq(Nat) /\ [s EXCEPT !.ch = Tail(@)] \in Stream
  <2>1. PICK t \in Seq(Seq(Nat)) : t = Tail(ch)
    BY <1>4, SeqType, Zenon
  <2>2. Head(ch) \in Seq(Nat)
    BY <1>4, SeqType, Zenon
  <2>3. s.ch = ch /\ [s EXCEPT !.ch = t] \in Stream
    BY <1>1 DEF Stream
  <2> QED
    BY <2>1, <2>2, <2>3, Zenon
<1> QED
  BY <1>1, <1>2, <1>3, <1>4

\* The goroutines as records.
LEMMA RecordTypes ==
  ASSUME NEW r \in [pc : ReaderPC, file : Nat],
         NEW c \in [pc : ConvertPC, batch : Seq(Nat), last : Nat]
  PROVE  /\ \A p \in ReaderPC : [r EXCEPT !.pc = p] \in [pc : ReaderPC, file : Nat]
         /\ [pc |-> "read", file |-> r.file + 1] \in [pc : ReaderPC, file : Nat]
         /\ \A p \in ConvertPC :
              [c EXCEPT !.pc = p] \in [pc : ConvertPC, batch : Seq(Nat), last : Nat]
  BY DEF ReaderPC, ConvertPC

\* The directory is not changed by a start.
LEMMA SameFiles == ASSUME [Next]_vars PROVE files' = files /\ bad' = bad
  BY DEF Next, Reader, Converter, Main, vars, ReadDir, Read, Put, RestoreIndex, ReaderDone,
         ConvertNext, ConvertPut, ConvertDone, RestoreSystemStream, RestoreStream, RestoreFromWal

\* The first state.
LEMMA TypeInit == Init => StateType
<1> SUFFICES ASSUME Init PROVE StateType
  OBVIOUS
<1>1. files \in Seq(Seq(Nat)) /\ bad \subseteq Nat
  BY RestoreAssumption DEF Init
<1>2. <<>> \in Seq(Nat) /\ <<>> \in Seq(Seq(Nat))
  OBVIOUS
<1>3. NewFutureRespWithErr \in Stream
  BY <1>2 DEF NewFutureRespWithErr, Stream
<1>4. reader \in [pc : ReaderPC, file : Nat]
  BY DEF Init, ReaderPC
<1>5. convert \in [pc : ConvertPC, batch : Seq(Nat), last : Nat]
  BY <1>2 DEF Init, ConvertPC
<1> QED
  BY <1>1, <1>2, <1>3, <1>4, <1>5 DEF Init, StateType, MainPC

\* The steps of the reader.
LEMMA TypeReader == ASSUME StateType, ReaderInv, Reader PROVE StateType'
<1>1. /\ files \in Seq(Seq(Nat)) /\ reader \in [pc : ReaderPC, file : Nat] /\ rowsCh \in Stream
      /\ index \subseteq Nat
  BY DEF StateType
<1>2. /\ PutErr(rowsCh) \in Stream /\ Done(rowsCh) \in Stream
      /\ \A p \in ReaderPC : [reader EXCEPT !.pc = p] \in [pc : ReaderPC, file : Nat]
      /\ [pc |-> "read", file |-> reader.file + 1] \in [pc : ReaderPC, file : Nat]
  <2>1. /\ \A p \in ReaderPC : [reader EXCEPT !.pc = p] \in [pc : ReaderPC, file : Nat]
        /\ [pc |-> "read", file |-> reader.file + 1] \in [pc : ReaderPC, file : Nat]
    BY <1>1, RecordTypes DEF StateType
  <2> QED
    BY <1>1, <2>1, StreamType, Zenon
<1>3. "done" \in ReaderPC /\ "put" \in ReaderPC /\ "read" \in ReaderPC /\ "index" \in ReaderPC
        /\ "stopped" \in ReaderPC
  BY DEF ReaderPC
<1>4. /\ UNCHANGED <<files, bad, convert, queryCh, main, store, lsnGen>>
      /\ reader' \in [pc : ReaderPC, file : Nat]
  <2>1. CASE ReadDir
    BY <1>2, <1>3, <2>1 DEF ReadDir
  <2>2. CASE Read
    BY <1>2, <1>3, <2>2 DEF Read
  <2>3. CASE Put
    BY <1>2, <1>3, <2>3 DEF Put
  <2>4. CASE RestoreIndex
    BY <1>2, <1>3, <2>4 DEF RestoreIndex
  <2>5. CASE ReaderDone
    BY <1>2, <1>3, <2>5 DEF ReaderDone
  <2> QED
    BY <2>1, <2>2, <2>3, <2>4, <2>5 DEF Reader
<1>5. ASSUME reader.pc \in {"put", "index"} PROVE files[reader.file] \in Seq(Nat)
  <2>1. reader.file \in 1..Len(files)
    BY <1>1, <1>5 DEF ReaderInv
  <2> QED
    BY <1>1, <2>1, UptoNext
<1>6. rowsCh' \in Stream
  <2>1. CASE ReadDir \/ Read \/ ReaderDone \/ RestoreIndex
    BY <1>1, <1>2, <2>1, Zenon DEF ReadDir, Read, ReaderDone, RestoreIndex
  <2>2. CASE Put
    <3>1. reader.pc = "put" /\ rowsCh' = PutOk(rowsCh, files[reader.file])
      BY <2>2 DEF Put
    <3> QED
      BY <1>1, <1>5, <3>1, StreamType, Zenon
  <2> QED
    BY <2>1, <2>2 DEF Reader
<1>7. index' \subseteq Nat
  <2>1. CASE RestoreIndex
    <3>1. reader.pc = "index" /\ index' = index \cup Range(files[reader.file])
      BY <2>1 DEF RestoreIndex
    <3>2. files[reader.file] \in Seq(Nat)
      BY <1>5, <3>1
    <3>3. Range(files[reader.file]) \subseteq Nat
      BY <3>2 DEF Range
    <3> QED
      BY <1>1, <3>1, <3>3, Zenon
  <2>2. CASE ReadDir \/ Read \/ ReaderDone \/ Put
    BY <1>1, <2>2 DEF ReadDir, Read, ReaderDone, Put
  <2> QED
    BY <2>1, <2>2 DEF Reader
<1> QED
  BY <1>4, <1>6, <1>7 DEF StateType

\* The steps of the converter.
LEMMA TypeConverter == ASSUME StateType, Converter PROVE StateType'
<1>1. /\ convert \in [pc : ConvertPC, batch : Seq(Nat), last : Nat]
      /\ rowsCh \in Stream /\ queryCh \in Stream /\ lsnGen \in Nat
      /\ convert.batch \in Seq(Nat) /\ convert.last \in Nat
  BY DEF StateType
<1>2. /\ PutErr(queryCh) \in Stream /\ Done(queryCh) \in Stream
      /\ PutOk(queryCh, convert.batch) \in Stream
  BY <1>1, StreamType, Zenon
<1>3. /\ [convert EXCEPT !.pc = "done"] \in [pc : ConvertPC, batch : Seq(Nat), last : Nat]
      /\ [convert EXCEPT !.pc = "stopped"] \in [pc : ConvertPC, batch : Seq(Nat), last : Nat]
      /\ [convert EXCEPT !.pc = "next", !.batch = <<>>]
           \in [pc : ConvertPC, batch : Seq(Nat), last : Nat]
  <2>1. <<>> \in Seq(Nat)
    OBVIOUS
  <2> QED
    BY <1>1, <2>1, Zenon DEF ConvertPC
<1>4. CASE ConvertNext /\ NextItem(rowsCh)
  <2>1. rowsCh.ch # <<>> /\ rowsCh' = [rowsCh EXCEPT !.ch = Tail(@)]
    BY <1>4 DEF ConvertNext, NextItem, NextErr, NextEnd
  <2>2. PICK b \in Seq(Nat) : b = Head(rowsCh.ch)
    BY <1>1, <2>1, StreamType, Zenon
  <2>3. PICK m \in Nat : m = Max({convert.last} \cup Range(b))
    BY <1>1, MaxIs, Zenon
  <2>4. convert' = [pc |-> "put", batch |-> b, last |-> m]
    BY <1>4, <2>2, <2>3 DEF ConvertNext, NextItem, NextErr, NextEnd
  <2>5. convert' \in [pc : ConvertPC, batch : Seq(Nat), last : Nat]
    BY <2>4 DEF ConvertPC
  <2>6. rowsCh' \in Stream
    BY <1>1, <2>1, StreamType, Zenon
  <2>7. UNCHANGED <<files, bad, reader, main, store, index, queryCh, lsnGen>>
    BY <1>4 DEF ConvertNext, NextItem, NextErr, NextEnd
  <2> QED
    BY <2>5, <2>6, <2>7 DEF StateType
<1>5. CASE ConvertNext /\ ~NextItem(rowsCh)
  <2>1. /\ UNCHANGED <<files, bad, reader, rowsCh, main, store, index>>
        /\ queryCh' \in Stream /\ lsnGen' \in Nat /\ convert' = [convert EXCEPT !.pc = "done"]
    BY <1>1, <1>2, <1>5 DEF ConvertNext
  <2> QED
    BY <1>3, <2>1 DEF StateType
<1>6. CASE ConvertPut
  BY <1>2, <1>3, <1>6 DEF ConvertPut, StateType
<1>7. CASE ConvertDone
  BY <1>2, <1>3, <1>7 DEF ConvertDone, StateType
<1> QED
  BY <1>4, <1>5, <1>6, <1>7 DEF Converter

\* The steps of main.
LEMMA TypeMain == ASSUME StateType, Main PROVE StateType'
<1>1. /\ rowsCh \in Stream /\ queryCh \in Stream /\ store \in Seq(Nat)
      /\ ReturnCopy(rowsCh) \in Stream /\ ReturnCopy(queryCh) \in Stream
  BY StreamType, Zenon DEF StateType
<1>2. CASE RestoreSystemStream
  <2>1. [reader EXCEPT !.pc = "list"] \in [pc : ReaderPC, file : Nat]
    BY Zenon DEF StateType, ReaderPC
  <2> QED
    BY <1>1, <1>2, <2>1 DEF RestoreSystemStream, StateType, MainPC
<1>3. CASE RestoreStream
  <2>1. [convert EXCEPT !.pc = "next"] \in [pc : ConvertPC, batch : Seq(Nat), last : Nat]
    BY Zenon DEF StateType, ConvertPC
  <2> QED
    BY <1>1, <1>3, <2>1, Zenon DEF RestoreStream, StateType, MainPC
<1>4. CASE RestoreFromWal
  <2>1. /\ UNCHANGED <<files, bad, reader, rowsCh, convert, index, lsnGen>>
        /\ main' \in MainPC
    BY <1>4 DEF RestoreFromWal, StateType, MainPC
  <2>2. queryCh' \in Stream /\ store' \in Seq(Nat)
    <3>1. CASE queryCh.ch # <<>> /\ store' = ExecAll(Head(queryCh.ch))
                 /\ queryCh' = [queryCh EXCEPT !.ch = Tail(@)]
      <4>1. PICK b \in Seq(Nat) : b = Head(queryCh.ch)
        BY <1>1, <3>1, StreamType, Zenon
      <4>2. store' = store \o b
        BY <3>1, <4>1 DEF ExecAll
      <4>3. queryCh' \in Stream
        BY <1>1, <3>1, StreamType, Zenon
      <4> QED
        BY <1>1, <4>2, <4>3
    <3>2. CASE UNCHANGED <<queryCh, store>>
      BY <1>1, <3>2
    <3> QED
      BY <1>4, <3>1, <3>2 DEF RestoreFromWal, NextItem
  <2> QED
    BY <2>1, <2>2 DEF StateType
<1> QED
  BY <1>2, <1>3, <1>4 DEF Main

\* Every step.
LEMMA TypeStep == StateType /\ ReaderInv /\ [Next]_vars => StateType'
<1>1. CASE UNCHANGED vars
  BY <1>1 DEF vars, StateType
<1> QED
  BY <1>1, TypeReader, TypeConverter, TypeMain DEF Next
-----------------------------------------------------------------------------
(***************************************************************************)
(* The reader and the counts.                                              *)
(***************************************************************************)
\* The stages, from the first file to the last.
LEMMA Counts ==
  ASSUME StateType, ReaderInv, FlowInv
  PROVE  /\ Len(files) \in Nat /\ Sent \in 0..Len(files) /\ Taken \in 0..Sent
         /\ Queued \in 0..Taken /\ Executed \in 0..Queued /\ Indexed \in 0..Sent
<1>1. Len(files) \in Nat /\ reader.pc \in ReaderPC
  BY DEF StateType
<1>2. reader.file \in 1..(Len(files) + 1) /\ (reader.pc = "index" => reader.file <= Len(files))
  BY DEF ReaderInv
<1>3. Sent \in 0..Len(files) /\ (reader.pc = "index" => Sent > 0)
  BY <1>1, <1>2 DEF Sent, Ended
<1>4. Held(rowsCh) \in {0, 1} /\ Held(queryCh) \in {0, 1}
  BY DEF Held
<1>5. Executed >= 0
  BY DEF FlowInv
<1> HIDE DEF Sent, Held
<1> QED
  BY <1>1, <1>3, <1>4, <1>5 DEF Taken, Queued, Executed, Indexed

\* What the operations of a stream change.
LEMMA StreamFields ==
  ASSUME NEW s \in Stream
  PROVE  /\ LET t == PutErr(s) IN
            t.ch = s.ch /\ t.closed = s.closed /\ t.err = TRUE /\ t.seen = s.seen
         /\ LET t == Done(s) IN
            t.ch = s.ch /\ t.closed = TRUE /\ t.err = s.err /\ t.seen = s.seen
         /\ LET t == ReturnCopy(s) IN
            t.ch = s.ch /\ t.closed = s.closed /\ t.err = s.err /\ t.seen = s.err
         /\ \A c : LET t == [s EXCEPT !.ch = c] IN
            t.ch = c /\ t.closed = s.closed /\ t.err = s.err /\ t.seen = s.seen
  BY DEF Stream, PutErr, Done, ReturnCopy

\* Handing on a batch fills the slot.
LEMMA PutFields ==
  ASSUME NEW s \in Stream, Room(s), NEW v \in Seq(Nat)
  PROVE  /\ s.ch = <<>>
         /\ LET t == PutOk(s, v) IN
            t.ch = <<v>> /\ t.closed = s.closed /\ t.err = s.err /\ t.seen = s.seen
<1>1. s.ch \in Seq(Seq(Nat))
  BY DEF Stream
<1>2. s.ch = <<>>
  BY <1>1 DEF Room
<1>3. Append(s.ch, v) = <<v>>
  BY <1>2
<1> DEFINE c == Append(s.ch, v)
<1>4. PutOk(s, v) = [s EXCEPT !.ch = c]
  BY Zenon DEF PutOk
<1> HIDE DEF c
<1>5. LET t == [s EXCEPT !.ch = c] IN
        t.ch = c /\ t.closed = s.closed /\ t.err = s.err /\ t.seen = s.seen
  BY StreamFields, Zenon
<1> QED
  BY <1>2, <1>3, <1>4, <1>5, Zenon DEF c

\* Taking the batch empties it.
LEMMA TakeFields ==
  ASSUME NEW s \in Stream, NEW v, s.ch = <<v>>
  PROVE  /\ Head(s.ch) = v
         /\ LET t == [s EXCEPT !.ch = Tail(@)] IN
            t.ch = <<>> /\ t.closed = s.closed /\ t.err = s.err /\ t.seen = s.seen
<1>1. Head(s.ch) = v /\ Tail(s.ch) = <<>>
  OBVIOUS
<1> DEFINE c == Tail(s.ch)
<1>4. [s EXCEPT !.ch = Tail(@)] = [s EXCEPT !.ch = c]
  OBVIOUS
<1> HIDE DEF c
<1>5. LET t == [s EXCEPT !.ch = c] IN
        t.ch = c /\ t.closed = s.closed /\ t.err = s.err /\ t.seen = s.seen
  BY StreamFields, Zenon
<1> QED
  BY <1>1, <1>4, <1>5, Zenon DEF c

\* What the steps of the reader change.
LEMMA ReaderEffect ==
  ASSUME StateType, ReaderInv
  PROVE  /\ ReadDir =>
              /\ reader.pc = "list" /\ reader'.file = reader.file
              /\ \/ 0 \in bad /\ rowsCh' = PutErr(rowsCh) /\ reader'.pc = "done"
                 \/ 0 \notin bad /\ rowsCh' = rowsCh /\ files = <<>> /\ reader'.pc = "done"
                 \/ 0 \notin bad /\ rowsCh' = rowsCh /\ files # <<>> /\ reader'.pc = "read"
         /\ Read =>
              /\ reader.pc = "read" /\ reader'.file = reader.file
              /\ \/ reader.file \in bad /\ rowsCh' = PutErr(rowsCh) /\ reader'.pc = "done"
                 \/ reader.file \notin bad /\ rowsCh' = rowsCh /\ reader'.pc = "put"
         /\ Put =>
              /\ reader.pc = "put" /\ reader'.pc = "index" /\ reader'.file = reader.file
              /\ rowsCh.ch = <<>> /\ rowsCh'.ch = <<files[reader.file]>>
              /\ rowsCh'.closed = rowsCh.closed /\ rowsCh'.err = rowsCh.err
              /\ rowsCh'.seen = rowsCh.seen
         /\ RestoreIndex =>
              /\ reader.pc = "index" /\ rowsCh' = rowsCh
              /\ \/ /\ reader.file = Len(files)
                    /\ reader'.pc = "done" /\ reader'.file = reader.file
                 \/ /\ reader.file # Len(files)
                    /\ reader'.pc = "read" /\ reader'.file = reader.file + 1
         /\ ReaderDone =>
              /\ reader.pc = "done" /\ reader'.pc = "stopped" /\ reader'.file = reader.file
              /\ rowsCh' = Done(rowsCh)
<1>1. reader \in [pc : ReaderPC, file : Nat] /\ rowsCh \in Stream /\ files \in Seq(Seq(Nat))
  BY DEF StateType
<1>2. \A p : [reader EXCEPT !.pc = p].pc = p /\ [reader EXCEPT !.pc = p].file = reader.file
  BY <1>1
<1>3. ASSUME Put
      PROVE  /\ reader.pc = "put" /\ reader'.pc = "index" /\ reader'.file = reader.file
             /\ rowsCh.ch = <<>> /\ rowsCh'.ch = <<files[reader.file]>>
             /\ rowsCh'.closed = rowsCh.closed /\ rowsCh'.err = rowsCh.err
             /\ rowsCh'.seen = rowsCh.seen
  <2>1. reader.file \in 1..Len(files) /\ Room(rowsCh)
    BY <1>1, <1>3 DEF Put, ReaderInv
  <2>2. files[reader.file] \in Seq(Nat)
    BY <1>1, <2>1, UptoNext
  <2>3. rowsCh' = PutOk(rowsCh, files[reader.file])
    BY <1>3 DEF Put
  <2>4. reader.pc = "put" /\ reader'.pc = "index" /\ reader'.file = reader.file
    BY <1>2, <1>3 DEF Put
  <2> QED
    BY <1>1, <2>1, <2>2, <2>3, <2>4, PutFields
<1>4. RestoreIndex =>
        /\ reader.pc = "index" /\ rowsCh' = rowsCh
        /\ \/ /\ reader.file = Len(files)
              /\ reader'.pc = "done" /\ reader'.file = reader.file
           \/ /\ reader.file # Len(files)
              /\ reader'.pc = "read" /\ reader'.file = reader.file + 1
  BY <1>2 DEF RestoreIndex
<1> QED
  BY <1>2, <1>3, <1>4, Zenon DEF ReadDir, Read, ReaderDone

\* What the reader does to its stream, field by field.
LEMMA RowsFields ==
  ASSUME StateType
  PROVE  /\ rowsCh' = PutErr(rowsCh) =>
              /\ rowsCh'.ch = rowsCh.ch /\ rowsCh'.closed = rowsCh.closed
              /\ rowsCh'.err = TRUE /\ rowsCh'.seen = rowsCh.seen
         /\ rowsCh' = Done(rowsCh) =>
              /\ rowsCh'.ch = rowsCh.ch /\ rowsCh'.closed = TRUE
              /\ rowsCh'.err = rowsCh.err /\ rowsCh'.seen = rowsCh.seen
<1>1. PICK s \in Stream : s = rowsCh
  BY DEF StateType
<1>2. /\ PutErr(s).ch = s.ch /\ PutErr(s).closed = s.closed
      /\ PutErr(s).err = TRUE /\ PutErr(s).seen = s.seen
  BY StreamFields, Zenon
<1>3. /\ Done(s).ch = s.ch /\ Done(s).closed = TRUE
      /\ Done(s).err = s.err /\ Done(s).seen = s.seen
  BY StreamFields, Zenon
<1> QED
  BY <1>1, <1>2, <1>3, Zenon

\* How many files have left the reader only changes when it puts one, whether
\* the number is read off its file, its error or its end.
LEMMA SentReader ==
  ASSUME StateType, ReaderInv, OrderInv, Reader
  PROVE  /\ Put => Sent' = Sent + 1 /\ Sent' = reader.file /\ Indexed' = Indexed
         /\ RestoreIndex => /\ Sent' = Sent /\ Sent = reader.file
                            /\ Indexed' = Sent /\ Indexed = Sent - 1
         /\ ~Put => Sent' = Sent
         /\ ~Put /\ ~RestoreIndex => Indexed' = Indexed
<1>1. /\ files' = files /\ Len(files) \in Nat /\ reader.file \in Nat /\ rowsCh \in Stream
      /\ files = <<>> => Len(files) = 0
  BY SameFiles DEF StateType, Next
<1>2. CASE ReadDir
  <2>1. reader.pc = "list" /\ reader.file = 1 /\ ~rowsCh.err /\ reader'.file = 1
    BY <1>2, ReaderEffect DEF ReaderInv, Ended
  <2>2. \/ rowsCh'.err /\ reader'.pc = "done"
        \/ ~rowsCh'.err /\ Len(files) = 0 /\ reader'.pc = "done"
        \/ ~rowsCh'.err /\ reader'.pc = "read"
    BY <1>1, <1>2, <2>1, ReaderEffect, RowsFields, Zenon
  <2>3. Sent = 0 /\ Sent' = 0 /\ Indexed = 0 /\ Indexed' = 0
    BY <1>1, <2>1, <2>2 DEF Sent, Indexed, Ended
  <2>4. ~Put /\ ~RestoreIndex
    BY <2>1 DEF Put, RestoreIndex
  <2> QED
    BY <2>3, <2>4
<1>3. CASE Read
  <2>1. reader.pc = "read" /\ ~rowsCh.err /\ reader'.file = reader.file
    BY <1>3, ReaderEffect DEF ReaderInv, Ended
  <2>2. \/ rowsCh'.err /\ reader'.pc = "done"
        \/ ~rowsCh'.err /\ reader'.pc = "put"
    BY <1>1, <1>3, <2>1, ReaderEffect, RowsFields, Zenon
  <2>3. Sent' = Sent /\ Indexed' = Indexed
    BY <1>1, <2>1, <2>2 DEF Sent, Indexed, Ended
  <2>4. ~Put /\ ~RestoreIndex
    BY <2>1 DEF Put, RestoreIndex
  <2> QED
    BY <2>3, <2>4
<1>4. CASE Put
  <2>1. reader.pc = "put" /\ reader'.pc = "index" /\ reader'.file = reader.file
    BY <1>4, ReaderEffect
  <2>2. Sent = reader.file - 1 /\ Sent' = reader.file /\ Indexed = Sent /\ Indexed' = Sent' - 1
    BY <1>1, <2>1 DEF Sent, Indexed, Ended
  <2>3. ~RestoreIndex
    BY <2>1 DEF RestoreIndex
  <2> QED
    BY <1>1, <1>4, <2>2, <2>3
<1>5. CASE RestoreIndex
  <2>1. reader.pc = "index" /\ ~rowsCh.err /\ ~rowsCh'.err
    BY <1>5, ReaderEffect DEF ReaderInv, Ended
  <2>2. \/ reader.file = Len(files) /\ reader'.pc = "done"
        \/ reader'.pc = "read" /\ reader'.file = reader.file + 1
    BY <1>5, ReaderEffect
  <2>3. Sent = reader.file /\ Sent' = Sent /\ Indexed = Sent - 1 /\ Indexed' = Sent
    BY <1>1, <2>1, <2>2 DEF Sent, Indexed, Ended
  <2>4. ~Put
    BY <2>1 DEF Put
  <2> QED
    BY <1>5, <2>3, <2>4
<1>6. CASE ReaderDone
  <2>1. /\ reader.pc = "done" /\ reader'.pc = "stopped" /\ reader'.file = reader.file
        /\ rowsCh'.err = rowsCh.err
    BY <1>1, <1>6, ReaderEffect, RowsFields, Zenon
  <2>2. Sent' = Sent /\ Indexed' = Indexed
    BY <1>1, <2>1 DEF Sent, Indexed, Ended
  <2>3. ~Put /\ ~RestoreIndex
    BY <2>1 DEF Put, RestoreIndex
  <2> QED
    BY <2>2, <2>3
<1> QED
  BY <1>2, <1>3, <1>4, <1>5, <1>6 DEF Reader

\* The reader's part of the invariant, step by step of the reader.
LEMMA ReaderReader == ASSUME StateType, ReaderInv, OrderInv, FlowInv, Reader PROVE ReaderInv'
<1>1. /\ files' = files /\ bad' = bad /\ Len(files) \in Nat /\ rowsCh \in Stream
      /\ (files # <<>> => Len(files) > 0)
  BY SameFiles DEF StateType, Next
<1>2. reader.file \in 1..(Len(files) + 1) /\ Sent \in 0..Len(files)
  BY Counts DEF ReaderInv
<1>3. CASE ReadDir
  <2>1. reader.pc = "list" /\ reader.file = 1 /\ ~rowsCh.err /\ ~rowsCh.closed /\ reader'.file = 1
    BY <1>3, ReaderEffect DEF ReaderInv, Ended
  <2>2. Sent = 0 /\ Sent' = 0
    <3>1. Sent = 0
      BY <2>1 DEF Sent, Ended
    <3>2. ~Put
      BY <2>1 DEF Put
    <3> QED
      BY <3>1, <3>2, SentReader
  <2>3. /\ ~rowsCh'.closed
        /\ \/ rowsCh'.err /\ 0 \in bad /\ reader'.pc = "done"
           \/ ~rowsCh'.err /\ reader'.pc = "done"
           \/ ~rowsCh'.err /\ 0 \notin bad /\ Len(files) > 0 /\ reader'.pc = "read"
    BY <1>1, <1>3, <2>1, ReaderEffect, RowsFields, Zenon
  <2> QED
    BY <1>1, <2>1, <2>2, <2>3 DEF ReaderInv, Ended
<1>4. CASE Read
  <2>1. reader.pc = "read" /\ ~rowsCh.err /\ ~rowsCh.closed /\ reader'.file = reader.file
    BY <1>4, ReaderEffect DEF ReaderInv, Ended
  <2>2. Sent' = Sent
    <3>1. ~Put
      BY <2>1 DEF Put
    <3> QED
      BY <1>4, <3>1, SentReader
  <2>3. /\ ~rowsCh'.closed
        /\ \/ rowsCh'.err /\ reader.file \in bad /\ reader'.pc = "done"
           \/ ~rowsCh'.err /\ reader.file \notin bad /\ reader'.pc = "put"
    BY <1>1, <1>4, <2>1, ReaderEffect, RowsFields, Zenon
  <2> QED
    BY <1>1, <2>1, <2>2, <2>3 DEF ReaderInv, Ended
<1>5. CASE Put
  <2>1. /\ reader.pc = "put" /\ reader'.pc = "index" /\ reader'.file = reader.file
        /\ rowsCh'.err = rowsCh.err /\ rowsCh'.closed = rowsCh.closed
    BY <1>5, ReaderEffect
  <2>2. Sent' = Sent + 1 /\ Sent' = reader.file
    BY <1>5, SentReader
  <2>3. /\ ~rowsCh.err /\ ~rowsCh.closed /\ 0 \notin bad /\ reader.file \notin bad
        /\ \A i \in 1..Sent : i \notin bad
    BY <2>1 DEF ReaderInv, Ended
  <2>4. \A i \in 1..Sent' : i \notin bad
    <3>1. \A i \in 1..(Sent + 1) : i \in 1..Sent \/ i = Sent + 1
      BY <1>2
    <3> QED
      BY <2>2, <2>3, <3>1
  <2> QED
    BY <1>1, <2>1, <2>2, <2>3, <2>4 DEF ReaderInv, Ended
<1>6. CASE RestoreIndex
  <2>1. /\ reader.pc = "index" /\ rowsCh' = rowsCh /\ ~rowsCh.err /\ ~rowsCh.closed
        /\ reader.file <= Len(files) /\ 0 \notin bad
    BY <1>6, ReaderEffect DEF ReaderInv, Ended
  <2>2. Sent' = Sent
    BY <1>6, SentReader
  <2>3. \/ reader'.pc = "done" /\ reader'.file = reader.file
        \/ reader.file # Len(files) /\ reader'.pc = "read" /\ reader'.file = reader.file + 1
    BY <1>6, ReaderEffect
  <2>4. \/ reader'.pc = "done" /\ reader'.file \in 1..(Len(files) + 1)
        \/ /\ reader'.pc = "read" /\ reader'.file \in 1..(Len(files) + 1)
           /\ reader'.file <= Len(files)
    BY <1>1, <1>2, <2>1, <2>3
  <2> QED
    BY <1>1, <2>1, <2>2, <2>4 DEF ReaderInv, Ended
<1>7. CASE ReaderDone
  <2>1. /\ reader.pc = "done" /\ reader'.pc = "stopped" /\ reader'.file = reader.file
        /\ rowsCh'.err = rowsCh.err
    BY <1>1, <1>7, ReaderEffect, RowsFields, Zenon
  <2>2. Sent' = Sent
    <3>1. ~Put
      BY <2>1 DEF Put
    <3> QED
      BY <1>7, <3>1, SentReader
  <2> QED
    BY <1>1, <2>1, <2>2 DEF ReaderInv, Ended
<1> QED
  BY <1>3, <1>4, <1>5, <1>6, <1>7 DEF Reader

\* A step that leaves the reader and its error alone.
LEMMA ReaderSame ==
  ASSUME StateType, ReaderInv, files' = files, bad' = bad, reader' = reader,
         rowsCh'.err = rowsCh.err, rowsCh'.closed = rowsCh.closed
  PROVE  Sent' = Sent /\ Indexed' = Indexed /\ ReaderInv'
<1>1. Sent' = Sent /\ Indexed' = Indexed
  BY DEF Sent, Indexed, Ended
<1> QED
  BY <1>1 DEF ReaderInv, Ended

\* The start of the reader.
LEMMA ReaderStart ==
  ASSUME StateType, ReaderInv, OrderInv, main = "read", RestoreSystemStream
  PROVE  /\ Sent' = Sent /\ Indexed' = Indexed /\ ReaderInv'
         /\ rowsCh' = rowsCh /\ reader'.pc = "list"
<1>1. /\ files' = files /\ bad' = bad /\ rowsCh' = rowsCh /\ reader.pc = "new"
      /\ reader' = [reader EXCEPT !.pc = "list"] /\ reader \in [pc : ReaderPC, file : Nat]
  BY DEF RestoreSystemStream, OrderInv, StateType
<1>2. reader'.pc = "list" /\ reader'.file = reader.file
  BY <1>1
<1>3. Sent' = Sent /\ Indexed' = Indexed
  BY <1>1, <1>2 DEF Sent, Indexed, Ended
<1> QED
  BY <1>1, <1>2, <1>3 DEF ReaderInv, Ended
-----------------------------------------------------------------------------
(***************************************************************************)
(* The converter and main.                                                 *)
(***************************************************************************)
\* What the steps of the converter change: it takes the batch it finds, which
\* is the file the reader put last.
LEMMA NextEffect ==
  ASSUME StateType, FlowInv, ConvertNext
  PROVE  /\ convert.pc = "next"
         /\ UNCHANGED <<files, bad, reader, main, store, index>>
         /\ \/ /\ rowsCh.seen /\ queryCh' = PutErr(queryCh) /\ rowsCh' = rowsCh
               /\ lsnGen' = lsnGen /\ convert'.pc = "done" /\ convert'.last = convert.last
            \/ /\ ~rowsCh.seen /\ rowsCh.ch # <<>> /\ rowsCh'.ch = <<>>
               /\ rowsCh'.closed = rowsCh.closed /\ rowsCh'.err = rowsCh.err
               /\ rowsCh'.seen = rowsCh.seen /\ queryCh' = queryCh /\ lsnGen' = lsnGen
               /\ convert'.pc = "put" /\ convert'.batch = files[Sent]
               /\ convert'.last = Max({convert.last} \cup Range(files[Sent]))
            \/ /\ rowsCh.ch = <<>> /\ rowsCh.closed /\ rowsCh' = rowsCh /\ queryCh' = queryCh
               /\ ~rowsCh.seen /\ lsnGen' = convert.last
               /\ convert'.pc = "done" /\ convert'.last = convert.last
<1>1. convert \in [pc : ConvertPC, batch : Seq(Nat), last : Nat] /\ rowsCh \in Stream
  BY DEF StateType
<1>2. /\ [convert EXCEPT !.pc = "done"].pc = "done"
      /\ [convert EXCEPT !.pc = "done"].last = convert.last
  BY <1>1
<1>3. convert.pc = "next" /\ UNCHANGED <<files, bad, reader, main, store, index>>
  BY DEF ConvertNext
<1>4. CASE NextItem(rowsCh)
  <2>1. ~rowsCh.seen /\ rowsCh.ch # <<>> /\ rowsCh.ch = <<files[Sent]>>
    BY <1>4 DEF NextItem, FlowInv
  <2>2. /\ rowsCh' = [rowsCh EXCEPT !.ch = Tail(@)] /\ queryCh' = queryCh /\ lsnGen' = lsnGen
        /\ convert' = [pc |-> "put", batch |-> Head(rowsCh.ch),
                       last |-> Max({convert.last} \cup Range(Head(rowsCh.ch)))]
    BY <1>4 DEF ConvertNext, NextItem, NextErr, NextEnd
  <2>3. Head(rowsCh.ch) = files[Sent]
    BY <1>1, <2>1, TakeFields
  <2>4. /\ rowsCh'.ch = <<>> /\ rowsCh'.closed = rowsCh.closed /\ rowsCh'.err = rowsCh.err
        /\ rowsCh'.seen = rowsCh.seen
    BY <1>1, <2>1, <2>2, TakeFields
  <2> DEFINE f == files[Sent]
             m == Max({convert.last} \cup Range(f))
  <2>5. convert' = [pc |-> "put", batch |-> f, last |-> m]
    BY <2>2, <2>3, Zenon
  <2> HIDE DEF f, m
  <2>6. convert'.pc = "put" /\ convert'.batch = f /\ convert'.last = m
    BY <2>5
  <2> QED
    BY <1>3, <2>1, <2>2, <2>4, <2>6, Zenon DEF f, m
<1>5. CASE ~NextItem(rowsCh)
  BY <1>2, <1>3, <1>5, Zenon DEF ConvertNext, NextErr, NextEnd
<1> QED
  BY <1>4, <1>5

\* It hands the batch on, and closes its stream.
LEMMA PutEffect ==
  ASSUME StateType
  PROVE  /\ ConvertPut =>
              /\ convert.pc = "put" /\ convert'.pc = "next" /\ convert'.last = convert.last
              /\ queryCh.ch = <<>> /\ queryCh'.ch = <<convert.batch>>
              /\ queryCh'.closed = queryCh.closed /\ queryCh'.err = queryCh.err
              /\ UNCHANGED <<files, bad, reader, rowsCh, main, store, index, lsnGen>>
         /\ ConvertDone =>
              /\ convert.pc = "done" /\ convert'.pc = "stopped" /\ convert'.last = convert.last
              /\ queryCh' = Done(queryCh)
              /\ UNCHANGED <<files, bad, reader, rowsCh, main, store, index, lsnGen>>
<1>1. /\ convert \in [pc : ConvertPC, batch : Seq(Nat), last : Nat] /\ queryCh \in Stream
      /\ convert.batch \in Seq(Nat)
  BY DEF StateType
<1>2. /\ [convert EXCEPT !.pc = "next", !.batch = <<>>].pc = "next"
      /\ [convert EXCEPT !.pc = "next", !.batch = <<>>].last = convert.last
      /\ [convert EXCEPT !.pc = "stopped"].pc = "stopped"
      /\ [convert EXCEPT !.pc = "stopped"].last = convert.last
  BY <1>1
<1>3. ASSUME ConvertPut
      PROVE  /\ queryCh.ch = <<>> /\ queryCh'.ch = <<convert.batch>>
             /\ queryCh'.closed = queryCh.closed /\ queryCh'.err = queryCh.err
  <2>1. Room(queryCh) /\ queryCh' = PutOk(queryCh, convert.batch)
    BY <1>3 DEF ConvertPut
  <2> QED
    BY <1>1, <2>1, PutFields
<1> QED
  BY <1>2, <1>3, Zenon DEF ConvertPut, ConvertDone

\* Main executes the batch it finds, which is the next file.
LEMMA ExecEffect ==
  ASSUME StateType, FlowInv, RestoreFromWal
  PROVE  /\ main = "next"
         /\ UNCHANGED <<files, bad, reader, rowsCh, convert, index, lsnGen>>
         /\ \/ queryCh' = queryCh /\ store' = store /\ main' = "failed"
            \/ /\ main' = "next" /\ queryCh.ch # <<>> /\ queryCh'.ch = <<>>
               /\ queryCh'.closed = queryCh.closed /\ queryCh'.err = queryCh.err
               /\ store' = store \o files[Queued]
            \/ /\ queryCh' = queryCh /\ store' = store /\ main' = "up"
               /\ queryCh.ch = <<>> /\ queryCh.closed
<1>1. queryCh \in Stream
  BY DEF StateType
<1>2. main = "next" /\ UNCHANGED <<files, bad, reader, rowsCh, convert, index, lsnGen>>
  BY DEF RestoreFromWal
<1>3. CASE NextItem(queryCh)
  <2>1. queryCh.ch # <<>> /\ queryCh.ch = <<files[Queued]>>
    BY <1>3 DEF NextItem, FlowInv
  <2>2. /\ main' = main /\ queryCh' = [queryCh EXCEPT !.ch = Tail(@)]
        /\ store' = ExecAll(Head(queryCh.ch))
    BY <1>3 DEF RestoreFromWal, NextItem, NextErr, NextEnd
  <2>3. Head(queryCh.ch) = files[Queued]
    BY <1>1, <2>1, TakeFields
  <2>4. queryCh'.ch = <<>> /\ queryCh'.closed = queryCh.closed /\ queryCh'.err = queryCh.err
    BY <1>1, <2>1, <2>2, TakeFields
  <2>5. store' = store \o files[Queued]
    BY <2>2, <2>3, Zenon DEF ExecAll
  <2> QED
    BY <1>2, <2>1, <2>2, <2>4, <2>5, Zenon
<1>4. CASE ~NextItem(queryCh)
  BY <1>2, <1>4 DEF RestoreFromWal, NextErr, NextEnd
<1> QED
  BY <1>3, <1>4

\* A step that moves no file.
LEMMA FlowSame ==
  ASSUME StateType, FlowInv, files' = files, Sent' = Sent, Indexed' = Indexed,
         rowsCh'.ch = rowsCh.ch, queryCh'.ch = queryCh.ch, store' = store, index' = index,
         convert'.pc = convert.pc \/ (convert.pc # "put" /\ convert'.pc # "put"),
         convert'.batch = convert.batch \/ convert'.pc # "put", convert'.last = convert.last,
         rowsCh'.seen \/ convert'.pc = "new" => rowsCh.seen \/ convert.pc = "new"
  PROVE  FlowInv'
<1>1. Taken' = Taken /\ Queued' = Queued /\ Executed' = Executed
  BY DEF Taken, Queued, Executed, Held
<1> QED
  BY <1>1 DEF FlowInv, Upto

\* The files on their way, when the reader takes a step.
LEMMA FlowReader == ASSUME StateType, ReaderInv, OrderInv, FlowInv, Reader PROVE FlowInv'
<1>1. /\ files' = files /\ rowsCh \in Stream /\ files \in Seq(Seq(Nat))
      /\ UNCHANGED <<convert, queryCh, store>>
  BY SameFiles DEF StateType, Next, Reader, ReadDir, Read, Put, RestoreIndex, ReaderDone
<1>2. CASE Put
  <2>1. /\ rowsCh.ch = <<>> /\ rowsCh'.ch = <<files[reader.file]>> /\ rowsCh'.seen = rowsCh.seen
        /\ Sent' = Sent + 1 /\ Sent' = reader.file /\ Indexed' = Indexed /\ index' = index
    BY <1>2, ReaderEffect, SentReader DEF Put
  <2>2. Sent \in Nat /\ rowsCh'.ch # <<>> /\ rowsCh'.ch = <<files[Sent']>>
    BY <2>1, Counts
  <2>3. Taken' = Taken
    BY <2>1, <2>2 DEF Taken, Held
  <2>4. Queued' = Queued /\ Executed' = Executed
    BY <1>1, <2>3 DEF Queued, Executed, Held
  <2> QED
    BY <1>1, <2>1, <2>2, <2>3, <2>4 DEF FlowInv, Upto
<1>3. CASE RestoreIndex
  <2>1. /\ rowsCh' = rowsCh /\ Sent' = Sent /\ Sent = reader.file /\ Indexed' = Sent
        /\ Indexed = Sent - 1 /\ index' = index \cup Range(files[reader.file])
        /\ reader.file >= 1
    BY <1>3, ReaderEffect, SentReader DEF RestoreIndex, ReaderInv
  <2>2. Sent \in 1..Len(files) /\ Sent - 1 \in 0..Len(files)
    BY <2>1, Counts
  <2>3. Upto(Sent) = Upto(Sent - 1) \o files[Sent] /\ files[Sent] \in Seq(Nat)
    BY <1>1, <2>2, UptoNext, Zenon
  <2>4. Upto(Sent - 1) \in Seq(Nat)
    BY <1>1, <2>2, UptoType
  <2>5. Range(Upto(Sent)) = Range(Upto(Sent - 1)) \cup Range(files[Sent])
    BY <2>3, <2>4, RangeJoin
  <2>6. Taken' = Taken /\ Queued' = Queued /\ Executed' = Executed
    BY <1>1, <2>1 DEF Taken, Queued, Executed, Held
  <2>7. index = Range(Upto(Indexed))
    BY DEF FlowInv
  <2>8. index' = Range(Upto(Indexed'))
    BY <2>1, <2>5, <2>7
  <2> QED
    BY <1>1, <2>1, <2>6, <2>8 DEF FlowInv, Upto
<1>4. CASE ReadDir \/ Read \/ ReaderDone
  <2>1. ~Put /\ ~RestoreIndex /\ index' = index
    BY <1>4 DEF ReadDir, Read, ReaderDone, Put, RestoreIndex
  <2>2. Sent' = Sent /\ Indexed' = Indexed
    BY <2>1, SentReader
  <2>3. rowsCh'.ch = rowsCh.ch /\ rowsCh'.seen = rowsCh.seen
    BY <1>1, <1>4, ReaderEffect, RowsFields, Zenon
  <2> QED
    BY <1>1, <2>1, <2>2, <2>3, FlowSame
<1> QED
  BY <1>2, <1>3, <1>4 DEF Reader

\* The files on their way, when the converter takes a step.
LEMMA FlowConverter ==
  ASSUME StateType, ReaderInv, OrderInv, FlowInv, Converter
  PROVE  FlowInv' /\ ReaderInv'
<1>1. /\ rowsCh \in Stream /\ queryCh \in Stream /\ files \in Seq(Seq(Nat))
      /\ UNCHANGED <<files, bad, reader, main, store, index>>
  BY DEF StateType, Converter, ConvertNext, ConvertPut, ConvertDone
<1>2. rowsCh'.err = rowsCh.err /\ rowsCh'.closed = rowsCh.closed /\ rowsCh'.seen = rowsCh.seen
  BY NextEffect, PutEffect DEF Converter
<1>3. Sent' = Sent /\ Indexed' = Indexed /\ ReaderInv'
  BY <1>1, <1>2, ReaderSame
<1>4. CASE ConvertNext /\ convert'.pc = "put"
  <2>1. /\ convert.pc = "next" /\ queryCh' = queryCh /\ ~rowsCh.seen
        /\ rowsCh.ch # <<>> /\ rowsCh'.ch = <<>> /\ convert'.batch = files[Sent]
        /\ convert'.last = Max({convert.last} \cup Range(files[Sent]))
    BY <1>4, NextEffect
  <2>2. Sent \in 0..Len(files) /\ Taken \in 0..Sent
    BY Counts
  <2>3. Taken = Sent - 1 /\ Taken' = Sent
    BY <1>3, <2>1, <2>2 DEF Taken, Held
  <2>4. Queued' = Queued /\ Executed' = Executed
    <3>1. Queued' = Queued
      BY <1>4, <2>1, <2>2, <2>3 DEF Queued
    <3> QED
      BY <2>1, <3>1 DEF Executed, Held
  <2>5. Sent \in 1..Len(files) /\ Sent - 1 \in 0..Len(files)
    BY <2>2, <2>3
  <2>6. Upto(Sent) = Upto(Sent - 1) \o files[Sent] /\ files[Sent] \in Seq(Nat)
    BY <1>1, <2>5, UptoNext, Zenon
  <2>7. Upto(Sent - 1) \in Seq(Nat) /\ convert.last = Top(Upto(Sent - 1))
    BY <1>1, <2>3, <2>5, UptoType DEF FlowInv
  <2>8. convert'.last = Top(Upto(Sent))
    BY <2>1, <2>6, <2>7, TopNext, Zenon
  <2> QED
    BY <1>1, <1>2, <1>3, <1>4, <2>1, <2>3, <2>4, <2>8 DEF FlowInv, Upto, Top
<1>5. CASE ConvertNext /\ convert'.pc # "put"
  <2>1. /\ convert.pc = "next" /\ rowsCh' = rowsCh /\ convert'.last = convert.last
        /\ convert'.pc = "done" /\ queryCh'.ch = queryCh.ch
    BY <1>1, <1>5, NextEffect, StreamFields, Zenon
  <2> QED
    BY <1>1, <1>3, <2>1, FlowSame
<1>6. CASE ConvertPut
  <2>1. /\ convert.pc = "put" /\ convert'.pc = "next" /\ convert'.last = convert.last
        /\ queryCh.ch = <<>> /\ queryCh'.ch = <<convert.batch>> /\ rowsCh' = rowsCh
    BY <1>6, PutEffect
  <2>2. convert.batch = files[Taken] /\ Taken \in Nat
    BY <2>1, Counts DEF FlowInv
  <2>3. Taken' = Taken /\ Queued' = Taken /\ Queued = Taken - 1
    BY <1>3, <2>1, <2>2 DEF Taken, Queued, Held
  <2>4. Executed' = Executed
    BY <2>1, <2>2, <2>3 DEF Executed, Held
  <2>5. queryCh'.ch = <<files[Queued']>>
    BY <2>1, <2>2, <2>3
  <2> QED
    BY <1>1, <1>2, <1>3, <2>1, <2>3, <2>4, <2>5 DEF FlowInv, Upto, Top
<1>7. CASE ConvertDone
  <2>1. /\ convert.pc = "done" /\ rowsCh' = rowsCh /\ convert'.last = convert.last
        /\ convert'.pc = "stopped" /\ queryCh'.ch = queryCh.ch
    BY <1>1, <1>7, PutEffect, StreamFields, Zenon
  <2> QED
    BY <1>1, <1>3, <2>1, FlowSame
<1> QED
  BY <1>3, <1>4, <1>5, <1>6, <1>7 DEF Converter

\* The files on their way, when main takes a step.
LEMMA FlowMain ==
  ASSUME StateType, ReaderInv, OrderInv, FlowInv, Main
  PROVE  FlowInv' /\ ReaderInv'
<1>1. rowsCh \in Stream /\ queryCh \in Stream /\ files \in Seq(Seq(Nat))
  BY DEF StateType
<1>2. CASE RestoreSystemStream /\ main = "read"
  <2>1. UNCHANGED <<files, convert, queryCh, store, index>>
    BY <1>2 DEF RestoreSystemStream
  <2>2. Sent' = Sent /\ Indexed' = Indexed /\ ReaderInv' /\ rowsCh' = rowsCh
    BY <1>2, ReaderStart
  <2> QED
    BY <2>1, <2>2, FlowSame
<1>3. CASE RestoreSystemStream /\ main # "read"
  <2>1. /\ UNCHANGED <<files, bad, reader, convert, queryCh, store, index>>
        /\ main = "readReturn" /\ rowsCh' = ReturnCopy(rowsCh)
    BY <1>3 DEF RestoreSystemStream
  <2>2. rowsCh'.ch = rowsCh.ch /\ rowsCh'.err = rowsCh.err /\ rowsCh'.closed = rowsCh.closed
    BY <1>1, <2>1, StreamFields, Zenon
  <2>3. Sent' = Sent /\ Indexed' = Indexed /\ ReaderInv'
    BY <2>1, <2>2, ReaderSame
  <2>4. convert.pc = "new"
    BY <2>1 DEF OrderInv
  <2> QED
    BY <2>1, <2>2, <2>3, <2>4, FlowSame
<1>4. CASE RestoreStream
  <2>1. /\ UNCHANGED <<files, bad, reader, rowsCh, store, index>>
        /\ \/ main = "stream" /\ convert' = [convert EXCEPT !.pc = "next"] /\ queryCh' = queryCh
           \/ convert' = convert /\ queryCh' = ReturnCopy(queryCh)
    BY <1>4 DEF RestoreStream
  <2>2. Sent' = Sent /\ Indexed' = Indexed /\ ReaderInv'
    BY <2>1, ReaderSame
  <2>3. queryCh'.ch = queryCh.ch
    BY <1>1, <2>1, StreamFields, Zenon
  <2>4. CASE convert' = convert
    BY <2>1, <2>2, <2>3, <2>4, FlowSame
  <2>5. CASE main = "stream" /\ convert' = [convert EXCEPT !.pc = "next"]
    <3>1. convert'.pc = "next" /\ convert'.last = convert.last /\ convert.pc = "new"
      BY <2>5 DEF StateType, OrderInv
    <3> QED
      BY <2>1, <2>2, <2>3, <3>1, FlowSame
  <2> QED
    BY <2>1, <2>4, <2>5
<1>5. CASE RestoreFromWal /\ queryCh' = queryCh /\ store' = store
  <2>1. UNCHANGED <<files, bad, reader, rowsCh, convert, index>>
    BY <1>5 DEF RestoreFromWal
  <2>2. Sent' = Sent /\ Indexed' = Indexed /\ ReaderInv'
    BY <2>1, ReaderSame
  <2> QED
    BY <1>5, <2>1, <2>2, FlowSame
<1>6. CASE RestoreFromWal /\ ~(queryCh' = queryCh /\ store' = store)
  <2>1. /\ UNCHANGED <<files, bad, reader, rowsCh, convert, index>>
        /\ queryCh.ch # <<>> /\ queryCh'.ch = <<>> /\ store' = store \o files[Queued]
    BY <1>6, ExecEffect
  <2>2. Sent' = Sent /\ Indexed' = Indexed /\ ReaderInv'
    BY <2>1, ReaderSame
  <2>3. Queued \in 0..Len(files) /\ Executed \in 0..Queued
    BY Counts
  <2>4. Taken' = Taken /\ Queued' = Queued
    BY <2>1, <2>2 DEF Taken, Queued, Held
  <2>5. Executed = Queued - 1 /\ Executed' = Queued
    BY <2>1, <2>3, <2>4 DEF Executed, Held
  <2>6. Queued \in 1..Len(files)
    BY <2>3, <2>5
  <2>7. Upto(Queued) = Upto(Queued - 1) \o files[Queued]
    BY <1>1, <2>6, UptoNext, Zenon
  <2>8. store' = Upto(Queued)
    BY <2>1, <2>5, <2>7 DEF FlowInv
  <2>9. Executed' >= 0 /\ store' = Upto(Executed')
    BY <2>3, <2>5, <2>8
  <2>10. rowsCh.seen \/ convert.pc = "new" => Taken = 0
    BY DEF FlowInv
  <2>11. convert.last = Top(Upto(Taken)) /\ index = Range(Upto(Indexed))
    BY DEF FlowInv
  <2> QED
    BY <2>1, <2>2, <2>4, <2>9, <2>10, <2>11, Zenon DEF FlowInv, Upto
<1> QED
  BY <1>2, <1>3, <1>4, <1>5, <1>6 DEF Main

\* The order of the goroutines, step by step.
LEMMA OrderStep ==
  ASSUME StateType, ReaderInv, OrderInv, FlowInv, [Next]_vars
  PROVE  OrderInv'
<1>1. rowsCh \in Stream /\ queryCh \in Stream
  BY DEF StateType
<1>2. CASE UNCHANGED vars
  BY <1>2 DEF vars, OrderInv
<1>3. CASE Reader
  <2>1. UNCHANGED <<convert, queryCh, main, lsnGen>>
    BY <1>3 DEF Reader, ReadDir, Read, Put, RestoreIndex, ReaderDone
  <2>2. /\ rowsCh'.seen = rowsCh.seen /\ (rowsCh.err => rowsCh'.err)
        /\ (rowsCh.closed => rowsCh'.closed) /\ reader.pc \notin {"new", "stopped"}
    BY <1>1, <1>3, ReaderEffect, RowsFields, Zenon DEF Reader
  <2>3. ~rowsCh.closed /\ main # "read"
    BY <2>2 DEF ReaderInv, OrderInv
  <2> QED
    BY <2>1, <2>2, <2>3 DEF OrderInv
<1>4. CASE ConvertNext
  <2>1. convert.pc = "next" /\ UNCHANGED <<reader, main>> /\ ~queryCh.closed /\ ~queryCh.err
    BY <1>4, NextEffect DEF OrderInv
  <2>2. main \notin {"read", "readReturn", "stream", "up"} /\ lsnGen = 0
    BY <2>1 DEF OrderInv
  <2>3. /\ rowsCh'.seen = rowsCh.seen /\ rowsCh'.err = rowsCh.err
        /\ \/ rowsCh.seen /\ queryCh'.err /\ ~queryCh'.closed /\ lsnGen' = 0 /\ convert'.pc = "done"
           \/ ~queryCh'.err /\ ~queryCh'.closed /\ lsnGen' = 0 /\ convert'.pc = "put"
           \/ /\ ~queryCh'.err /\ ~queryCh'.closed /\ convert'.pc = "done"
              /\ rowsCh'.closed /\ rowsCh'.ch = <<>> /\ lsnGen' = convert'.last
    BY <1>1, <1>4, <2>1, <2>2, NextEffect, StreamFields, Zenon
  <2> QED
    BY <2>1, <2>2, <2>3 DEF OrderInv
<1>5. CASE ConvertPut
  <2>1. /\ convert.pc = "put" /\ convert'.pc = "next"
        /\ queryCh'.closed = queryCh.closed /\ queryCh'.err = queryCh.err
        /\ UNCHANGED <<reader, rowsCh, main, lsnGen>>
    BY <1>5, PutEffect
  <2> QED
    BY <2>1 DEF OrderInv
<1>6. CASE ConvertDone
  <2>1. /\ convert.pc = "done" /\ convert'.pc = "stopped" /\ convert'.last = convert.last
        /\ queryCh'.closed /\ queryCh'.err = queryCh.err /\ queryCh'.ch = queryCh.ch
        /\ UNCHANGED <<reader, rowsCh, main, lsnGen>>
    <3>1. /\ Done(queryCh).closed = TRUE /\ Done(queryCh).err = queryCh.err
          /\ Done(queryCh).ch = queryCh.ch
      BY <1>1, StreamFields, Zenon
    <3> QED
      BY <1>6, <3>1, PutEffect, Zenon
  <2> QED
    BY <2>1 DEF OrderInv
<1>7. CASE RestoreSystemStream
  <2>1. /\ main \in {"read", "readReturn"} /\ main' \in {"readReturn", "stream"}
        /\ UNCHANGED <<convert, queryCh, lsnGen>> /\ rowsCh'.ch = rowsCh.ch
        /\ rowsCh'.closed = rowsCh.closed /\ rowsCh'.err = rowsCh.err
        /\ (rowsCh'.seen = rowsCh.seen \/ rowsCh'.seen = rowsCh.err)
    BY <1>1, <1>7, StreamFields, Zenon DEF RestoreSystemStream
  <2> QED
    BY <2>1 DEF OrderInv
<1>8. CASE RestoreStream
  <2>1. /\ main \in {"stream", "streamReturn"}
        /\ UNCHANGED <<reader, rowsCh, lsnGen>> /\ queryCh'.ch = queryCh.ch
        /\ queryCh'.closed = queryCh.closed /\ queryCh'.err = queryCh.err
        /\ main' \in {"streamReturn", "next"}
    BY <1>1, <1>8, StreamFields, Zenon DEF RestoreStream
  <2>2. \/ convert' = convert /\ main = "streamReturn"
        \/ convert'.pc = "next" /\ convert.pc = "new"
    BY <1>8 DEF RestoreStream, StateType, OrderInv
  <2> QED
    BY <2>1, <2>2 DEF OrderInv
<1>9. CASE RestoreFromWal
  <2>1. /\ main = "next" /\ UNCHANGED <<reader, rowsCh, convert, lsnGen>>
        /\ queryCh'.closed = queryCh.closed /\ queryCh'.err = queryCh.err
        /\ main' \in {"failed", "next", "up"}
        /\ main' = "up" => queryCh'.closed /\ queryCh'.ch = <<>>
    BY <1>9, ExecEffect
  <2> QED
    BY <2>1 DEF OrderInv
<1> QED
  BY <1>2, <1>3, <1>4, <1>5, <1>6, <1>7, <1>8, <1>9 DEF Next, Converter, Main
-----------------------------------------------------------------------------
(***************************************************************************)
(* The invariant, and the theorems.                                        *)
(***************************************************************************)
\* Nothing is on its way at first.
LEMMA RestoreInit == Init => RestoreInv
<1> SUFFICES ASSUME Init PROVE RestoreInv
  OBVIOUS
<1>1. StateType
  BY TypeInit
<1>2. files \in Seq(Seq(Nat)) /\ Len(files) \in Nat
  BY <1>1 DEF StateType
<1>3. /\ reader.pc = "new" /\ reader.file = 1 /\ convert.pc = "new" /\ convert.last = 0
      /\ rowsCh.ch = <<>> /\ ~rowsCh.closed /\ ~rowsCh.err /\ ~rowsCh.seen
      /\ queryCh.ch = <<>> /\ ~queryCh.closed /\ ~queryCh.err
      /\ main = "read" /\ store = <<>> /\ index = {} /\ lsnGen = 0
  BY DEF Init, NewFutureRespWithErr
<1>4. Sent = 0 /\ Indexed = 0
  BY <1>3 DEF Sent, Indexed, Ended
<1>5. Taken = 0 /\ Queued = 0 /\ Executed = 0
  BY <1>3, <1>4 DEF Taken, Queued, Executed, Held
<1>6. ReaderInv
  BY <1>2, <1>3, <1>4 DEF ReaderInv
<1>7. OrderInv
  BY <1>3 DEF OrderInv
<1>8. Upto(0) = <<>> /\ Top(<<>>) = 0 /\ Range(<<>>) = {}
  <2>1. Range(<<>>) = {} /\ <<>> \in Seq(Nat)
    BY DEF Range
  <2> QED
    BY <1>2, <2>1, UptoEnds, TopNext, Zenon
<1>9. FlowInv
  BY <1>3, <1>4, <1>5, <1>8 DEF FlowInv
<1> QED
  BY <1>1, <1>6, <1>7, <1>9 DEF RestoreInv

\* Every step keeps the invariant.
LEMMA RestoreStep == RestoreInv /\ [Next]_vars => RestoreInv'
<1> SUFFICES ASSUME RestoreInv, [Next]_vars PROVE RestoreInv'
  OBVIOUS
<1>1. StateType /\ ReaderInv /\ OrderInv /\ FlowInv
  BY DEF RestoreInv
<1>2. StateType' /\ OrderInv'
  BY <1>1, TypeStep, OrderStep
<1>3. ReaderInv' /\ FlowInv'
  <2>1. CASE Reader
    BY <1>1, <2>1, ReaderReader, FlowReader
  <2>2. CASE Converter
    BY <1>1, <2>2, FlowConverter
  <2>3. CASE Main
    BY <1>1, <2>3, FlowMain
  <2>4. CASE UNCHANGED vars
    <3>1. UNCHANGED <<files, bad, reader, rowsCh, convert, queryCh, store, index>>
      BY <2>4 DEF vars
    <3>2. Sent' = Sent /\ Indexed' = Indexed /\ ReaderInv'
      BY <1>1, <3>1, ReaderSame
    <3> QED
      BY <1>1, <3>1, <3>2, FlowSame
  <2> QED
    BY <2>1, <2>2, <2>3, <2>4 DEF Next
<1> QED
  BY <1>2, <1>3 DEF RestoreInv

\* So it always holds.
LEMMA RestoreAlways == Spec => []RestoreInv
  BY RestoreInit, RestoreStep, PTL DEF Spec

\* The invariant implies the types, and that a stream is not used after its end.
LEMMA ShowsTypes == RestoreInv => TypeOK
<1> SUFFICES ASSUME RestoreInv PROVE TypeOK
  OBVIOUS
<1>1. StateType /\ ReaderInv /\ OrderInv /\ FlowInv
  BY DEF RestoreInv
<1>2. ASSUME NEW x PROVE Len(<<x>>) <= 1
  OBVIOUS
<1>3. Len(<<>>) <= 1
  OBVIOUS
<1>4. Len(rowsCh.ch) <= 1 /\ Len(queryCh.ch) <= 1
  <2>1. rowsCh.ch = <<>> \/ rowsCh.ch = <<files[Sent]>>
    BY <1>1 DEF FlowInv
  <2>2. queryCh.ch = <<>> \/ queryCh.ch = <<files[Queued]>>
    BY <1>1 DEF FlowInv
  <2> QED
    BY <1>2, <1>3, <2>1, <2>2, Zenon
<1> QED
  BY <1>1, <1>4 DEF TypeOK, StateType, ReaderInv, OrderInv, ReaderPC, ConvertPC, MainPC

\* When main is up the streams are empty and the generator was replaced, or
\* the converter saw an error before it took anything.
LEMMA UpIs ==
  ASSUME RestoreInv, main = "up"
  PROVE  /\ Executed \in 0..Len(files) /\ store = Upto(Executed) /\ lsnGen = Top(store)
         /\ Executed > 0 => 0 \notin bad
         /\ \A i \in 1..Executed : i \notin bad
         /\ bad = {} => Executed = Len(files) /\ Indexed = Executed
<1>1. StateType /\ ReaderInv /\ OrderInv /\ FlowInv
  BY DEF RestoreInv
<1>2. /\ Sent \in 0..Len(files) /\ Taken \in 0..Sent /\ Queued \in 0..Taken
      /\ Executed \in 0..Queued /\ Len(files) \in Nat
  BY <1>1, Counts
<1>3. queryCh.ch = <<>> /\ convert.pc = "stopped"
  BY <1>1 DEF OrderInv
<1>4. Queued = Taken /\ Executed = Taken
  BY <1>2, <1>3 DEF Queued, Executed, Held
<1>5. store = Upto(Executed) /\ convert.last = Top(Upto(Executed))
  BY <1>1, <1>4 DEF FlowInv
<1>6. lsnGen = Top(store)
  <2>1. CASE queryCh.err
    <3>1. rowsCh.seen /\ lsnGen = 0
      BY <1>1, <2>1 DEF OrderInv
    <3>2. Taken = 0
      BY <1>1, <3>1 DEF FlowInv
    <3>3. store = <<>>
      BY <1>1, <1>4, <1>5, <3>2, UptoEnds DEF StateType
    <3>4. <<>> \in Seq(Nat)
      OBVIOUS
    <3> QED
      BY <3>1, <3>3, <3>4, TopNext, Zenon
  <2>2. CASE ~queryCh.err
    BY <1>1, <1>3, <1>5, <2>2 DEF OrderInv
  <2> QED
    BY <2>1, <2>2
<1>7. /\ Executed > 0 => 0 \notin bad
      /\ \A i \in 1..Executed : i \notin bad
  <2>1. (Sent > 0 => 0 \notin bad) /\ \A i \in 1..Sent : i \notin bad
    BY <1>1 DEF ReaderInv
  <2>2. (Executed > 0 => Sent > 0) /\ 1..Executed \subseteq 1..Sent
    BY <1>2, <1>4
  <2> QED
    BY <2>1, <2>2
<1>8. ASSUME bad = {} PROVE Executed = Len(files) /\ Indexed = Executed
  <2>1. ~rowsCh.err /\ ~rowsCh.seen /\ ~queryCh.err
    BY <1>1, <1>8 DEF ReaderInv, OrderInv
  <2>2. rowsCh.closed /\ rowsCh.ch = <<>>
    BY <1>1, <1>3, <2>1 DEF OrderInv
  <2>3. reader.pc = "stopped"
    BY <1>1, <2>2 DEF ReaderInv
  <2>4. Sent = Len(files) /\ Indexed = Sent
    BY <2>1, <2>3 DEF Sent, Indexed, Ended
  <2>5. Taken = Sent
    BY <1>2, <2>2, <2>4 DEF Taken, Held
  <2> QED
    BY <1>4, <2>4, <2>5
<1> QED
  BY <1>2, <1>4, <1>5, <1>6, <1>7, <1>8

\* The state of a start has its types, a stream holds one batch at most, and no
\* goroutine puts anything into a stream after it closed it (future_resp.go).
THEOREM RestoreTypeCorrect == Spec => []TypeOK
  BY RestoreAlways, ShowsTypes, PTL

\* A node that comes up with no read error has executed every row of every
\* file in order, has them all in its index and continues after the greatest
\* LSN, for every directory and every schedule of the three goroutines
\* (restoreFromWal, RestoreStream, RestoreSystemStream).
THEOREM StartRestoresAll == Spec => []RestoredAll
<1>1. RestoreInv => RestoredAll
  <2> SUFFICES ASSUME RestoreInv, main = "up", bad = {}
               PROVE  /\ store = Concat(files) /\ index = Range(store)
                      /\ lsnGen = Max({0} \cup Range(store))
    BY DEF RestoredAll
  <2>1. /\ Executed = Len(files) /\ Indexed = Executed /\ store = Upto(Executed)
        /\ lsnGen = Top(store)
    BY UpIs
  <2>2. files \in Seq(Seq(Nat)) /\ index = Range(Upto(Indexed))
    BY DEF RestoreInv, StateType, FlowInv
  <2>3. Upto(Len(files)) = Concat(files)
    BY <2>2, UptoEnds
  <2> QED
    BY <2>1, <2>2, <2>3 DEF Top
<1> QED
  BY <1>1, RestoreAlways, PTL

\* A node that comes up in spite of a read error shows the files from the
\* first to some one before the error, with none left out, and gives out LSNs
\* after theirs (future_resp.go: the error is lost with the copy).
THEOREM StartShowsPrefix == Spec => []RestoredPrefix
<1>1. RestoreInv => RestoredPrefix
  <2> SUFFICES ASSUME RestoreInv, main = "up", bad # {}
               PROVE  /\ \E n \in 0..Len(files) :
                           /\ n = 0 \/ n < Min(bad)
                           /\ store = Concat(SubSeq(files, 1, n))
                      /\ lsnGen = Max({0} \cup Range(store))
    BY DEF RestoredPrefix
  <2>1. /\ Executed \in 0..Len(files) /\ store = Upto(Executed) /\ lsnGen = Top(store)
        /\ Executed > 0 => 0 \notin bad
        /\ \A i \in 1..Executed : i \notin bad
    BY UpIs
  <2>2. bad \subseteq Nat
    BY DEF RestoreInv, StateType
  <2>3. \E x \in bad : \A y \in bad : x <= y
    BY <2>2, FP!NatMin, Zenon
  <2>4. Min(bad) \in bad
    BY <2>3 DEF Min
  <2>5. Executed = 0 \/ Executed < Min(bad)
    <3>1. PICK m \in Nat : m = Min(bad) /\ m \in bad
      BY <2>2, <2>4, Zenon
    <3>2. PICK e \in Nat : e = Executed
      BY <2>1
    <3>3. ~(m = 0 /\ e > 0) /\ m \notin 1..e
      BY <2>1, <3>1, <3>2
    <3> QED
      BY <3>1, <3>2, <3>3
  <2> QED
    BY <2>1, <2>5 DEF Upto, Top
<1> QED
  BY <1>1, RestoreAlways, PTL
=============================================================================
