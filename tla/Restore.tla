------------------------------ MODULE Restore ------------------------------
(***************************************************************************)
(* The start of a node, NewDatabase to the end of restoreFromWal: three    *)
(* goroutines and two streams.  The reader (LogReader.RestoreSystemStream) *)
(* reads the segment files and fills the index, the converter              *)
(* (WAL.RestoreStream) makes queries of the rows and finds the last LSN,   *)
(* main (Database.restoreFromWal) executes them.                           *)
(*                                                                         *)
(* A stream is a FutureRespWithErr (utils/concurrency/future_resp.go): a   *)
(* channel with one slot and an error.  The functions that make one start  *)
(* the goroutine that fills it and then return it by value: the consumer   *)
(* has a copy, which shares the channel but not the error.  It sees the    *)
(* error only if that was there when the copy was made, a data race        *)
(* between the new goroutine and the return.                               *)
(*                                                                         *)
(* A row is its LSN, a file the sequence of its rows.                      *)
(***************************************************************************)
EXTENDS Naturals, Sequences, FiniteSetsExt, SeqFold

CONSTANT Dirs  \* the directories a node may start with, sequences of files

ASSUME RestoreAssumption == Dirs \subseteq Seq(Seq(Nat))

VARIABLES
  files,    \* the directory
  bad,      \* the files that cannot be read; 0: nor can the directory
  reader,   \* the reader goroutine: pc and the number of the file it is at
  rowsCh,   \* the stream from the reader to the converter
  convert,  \* the converter: pc, the batch it holds, lastLSNID
  queryCh,  \* the stream from the converter to main
  main,     \* where main is
  store,    \* the rows executed so far
  index,    \* the LSNs in the index
  lsnGen    \* the start of the LSN generator

vars == <<files, bad, reader, rowsCh, convert, queryCh, main, store, index, lsnGen>>

\* err: the error of the producer; seen: the error in the consumer's copy.
NewFutureRespWithErr == [ch |-> <<>>, closed |-> FALSE, err |-> FALSE, seen |-> FALSE]

PutOk(s, v)   == [s EXCEPT !.ch = Append(@, v)]
PutErr(s)     == [s EXCEPT !.err = TRUE]
Done(s)       == [s EXCEPT !.closed = TRUE]
ReturnCopy(s) == [s EXCEPT !.seen = s.err]

Room(s) == Len(s.ch) < 1

\* What Next finds: the error of the copy first, then the channel.
NextErr(s)  == s.seen
NextItem(s) == ~s.seen /\ s.ch # <<>>
NextEnd(s)  == ~s.seen /\ s.ch = <<>> /\ s.closed

Init ==
  /\ files \in Dirs /\ bad \in SUBSET (0..Len(files))
  /\ reader = [pc |-> "new", file |-> 1] /\ rowsCh = NewFutureRespWithErr
  /\ convert = [pc |-> "new", batch |-> <<>>, last |-> 0] /\ queryCh = NewFutureRespWithErr
  /\ main = "read" /\ store = <<>> /\ index = {} /\ lsnGen = 0
-----------------------------------------------------------------------------
(***************************************************************************)
(* The reader.                                                             *)
(***************************************************************************)
ReadDir ==
  /\ reader.pc = "list"
  /\ \/ 0 \in bad /\ rowsCh' = PutErr(rowsCh) /\ reader' = [reader EXCEPT !.pc = "done"]
     \/ 0 \notin bad /\ UNCHANGED rowsCh
        /\ reader' = [reader EXCEPT !.pc = IF files = <<>> THEN "done" ELSE "read"]
  /\ UNCHANGED <<files, bad, convert, queryCh, main, store, index, lsnGen>>

\* Mutant: a file that cannot be read is skipped.
ReadSkips ==
  /\ reader.pc = "read"
  /\ \/ reader.file \in bad /\ UNCHANGED rowsCh
        /\ reader' = IF reader.file = Len(files) THEN [reader EXCEPT !.pc = "done"]
                                                 ELSE [reader EXCEPT !.file = @ + 1]
     \/ reader.file \notin bad /\ UNCHANGED rowsCh
        /\ reader' = [reader EXCEPT !.pc = "put"]
  /\ UNCHANGED <<files, bad, convert, queryCh, main, store, index, lsnGen>>

\* OpenFile and read: what was parsed before an error is dropped.
Read ==
  /\ reader.pc = "read"
  /\ \/ reader.file \in bad /\ rowsCh' = PutErr(rowsCh)
        /\ reader' = [reader EXCEPT !.pc = "done"]
     \/ reader.file \notin bad /\ UNCHANGED rowsCh
        /\ reader' = [reader EXCEPT !.pc = "put"]
  /\ UNCHANGED <<files, bad, convert, queryCh, main, store, index, lsnGen>>

\* Mutant: the stream ends with the last file, before that is indexed.
PutLastDone ==
  /\ reader.pc = "put" /\ Room(rowsCh)
  /\ rowsCh' = LET s == PutOk(rowsCh, files[reader.file])
               IN  IF reader.file = Len(files) THEN Done(s) ELSE s
  /\ reader' = [reader EXCEPT !.pc = "index"]
  /\ UNCHANGED <<files, bad, convert, queryCh, main, store, index, lsnGen>>

Put ==
  /\ reader.pc = "put" /\ Room(rowsCh)
  /\ rowsCh' = PutOk(rowsCh, files[reader.file])
  /\ reader' = [reader EXCEPT !.pc = "index"]
  /\ UNCHANGED <<files, bad, convert, queryCh, main, store, index, lsnGen>>

\* The rows of the file are indexed after they were handed on.
RestoreIndex ==
  /\ reader.pc = "index"
  /\ index' = index \cup Range(files[reader.file])
  /\ reader' = IF reader.file = Len(files) THEN [reader EXCEPT !.pc = "done"]
               ELSE [pc |-> "read", file |-> reader.file + 1]
  /\ UNCHANGED <<files, bad, rowsCh, convert, queryCh, main, store, lsnGen>>

\* Mutant: Done is not deferred, an error returns without it.
ReaderDoneNoDefer ==
  /\ reader.pc = "done"
  /\ rowsCh' = IF rowsCh.err THEN rowsCh ELSE Done(rowsCh)
  /\ reader' = [reader EXCEPT !.pc = "stopped"]
  /\ UNCHANGED <<files, bad, convert, queryCh, main, store, index, lsnGen>>

ReaderDone ==
  /\ reader.pc = "done"
  /\ rowsCh' = Done(rowsCh)
  /\ reader' = [reader EXCEPT !.pc = "stopped"]
  /\ UNCHANGED <<files, bad, convert, queryCh, main, store, index, lsnGen>>
-----------------------------------------------------------------------------
(***************************************************************************)
(* The converter.                                                          *)
(***************************************************************************)
\* The error is passed on and the generator is not replaced; at the end of the
\* stream it is, by one that continues after lastLSNID.
ConvertNext ==
  /\ convert.pc = "next"
  /\ \/ /\ NextErr(rowsCh)
        /\ queryCh' = PutErr(queryCh)
        /\ convert' = [convert EXCEPT !.pc = "done"]
        /\ UNCHANGED <<rowsCh, lsnGen>>
     \/ /\ NextItem(rowsCh)
        /\ rowsCh' = [rowsCh EXCEPT !.ch = Tail(@)]
        /\ convert' = [pc |-> "put", batch |-> Head(rowsCh.ch),
                       last |-> Max({convert.last} \cup Range(Head(rowsCh.ch)))]
        /\ UNCHANGED <<queryCh, lsnGen>>
     \/ /\ NextEnd(rowsCh)
        /\ lsnGen' = convert.last
        /\ convert' = [convert EXCEPT !.pc = "done"]
        /\ UNCHANGED <<rowsCh, queryCh>>
  /\ UNCHANGED <<files, bad, reader, main, store, index>>

ConvertPut ==
  /\ convert.pc = "put" /\ Room(queryCh)
  /\ queryCh' = PutOk(queryCh, convert.batch)
  /\ convert' = [convert EXCEPT !.pc = "next", !.batch = <<>>]
  /\ UNCHANGED <<files, bad, reader, rowsCh, main, store, index, lsnGen>>

ConvertDone ==
  /\ convert.pc = "done"
  /\ queryCh' = Done(queryCh)
  /\ convert' = [convert EXCEPT !.pc = "stopped"]
  /\ UNCHANGED <<files, bad, reader, rowsCh, main, store, index, lsnGen>>
-----------------------------------------------------------------------------
(***************************************************************************)
(* Main: both functions start their goroutine, then copy their stream.     *)
(***************************************************************************)
RestoreSystemStream ==
  \/ /\ main = "read" /\ main' = "readReturn"
     /\ reader' = [reader EXCEPT !.pc = "list"]
     /\ UNCHANGED <<files, bad, rowsCh, convert, queryCh, store, index, lsnGen>>
  \/ /\ main = "readReturn" /\ main' = "stream"
     /\ rowsCh' = ReturnCopy(rowsCh)
     /\ UNCHANGED <<files, bad, reader, convert, queryCh, store, index, lsnGen>>

RestoreStream ==
  \/ /\ main = "stream" /\ main' = "streamReturn"
     /\ convert' = [convert EXCEPT !.pc = "next"]
     /\ UNCHANGED <<files, bad, reader, rowsCh, queryCh, store, index, lsnGen>>
  \/ /\ main = "streamReturn" /\ main' = "next"
     /\ queryCh' = ReturnCopy(queryCh)
     /\ UNCHANGED <<files, bad, reader, rowsCh, convert, store, index, lsnGen>>

\* Mutant: every batch replaces what was executed before.
ExecBatch(rows) == rows

\* The queries of a batch are executed one after the other.
ExecAll(rows) == store \o rows

\* An error ends the process (log.Fatal in main), the end of the stream lets
\* the node come up.
RestoreFromWal ==
  /\ main = "next"
  /\ \/ NextErr(queryCh) /\ main' = "failed" /\ UNCHANGED <<queryCh, store>>
     \/ /\ NextItem(queryCh)
        /\ store' = ExecAll(Head(queryCh.ch))
        /\ queryCh' = [queryCh EXCEPT !.ch = Tail(@)]
        /\ UNCHANGED main
     \/ NextEnd(queryCh) /\ main' = "up" /\ UNCHANGED <<queryCh, store>>
  /\ UNCHANGED <<files, bad, reader, rowsCh, convert, index, lsnGen>>

Reader == ReadDir \/ Read \/ Put \/ RestoreIndex \/ ReaderDone
Converter == ConvertNext \/ ConvertPut \/ ConvertDone
Main == RestoreSystemStream \/ RestoreStream \/ RestoreFromWal

Next == Reader \/ Converter \/ Main

Spec == Init /\ [][Next]_vars

\* The three goroutines are scheduled.
FairSpec == Spec /\ WF_vars(Reader) /\ WF_vars(Converter) /\ WF_vars(Main)
-----------------------------------------------------------------------------
Stream == [ch : Seq(Seq(Nat)), closed : BOOLEAN, err : BOOLEAN, seen : BOOLEAN]

\* Types of the state; a stream holds one batch at most, and nothing is put in
\* it after it was closed, which would be a panic.
TypeOK ==
  /\ reader.pc \in {"new", "list", "read", "put", "index", "done", "stopped"}
  /\ reader.file \in 1..(Len(files) + 1)
  /\ convert.pc \in {"new", "next", "put", "done", "stopped"}
  /\ convert.batch \in Seq(Nat) /\ convert.last \in Nat
  /\ rowsCh \in Stream /\ Len(rowsCh.ch) <= 1 /\ (rowsCh.closed => reader.pc = "stopped")
  /\ queryCh \in Stream /\ Len(queryCh.ch) <= 1 /\ (queryCh.closed => convert.pc = "stopped")
  /\ main \in {"read", "readReturn", "stream", "streamReturn", "next", "up", "failed"}
  /\ store \in Seq(Nat) /\ index \subseteq Nat /\ lsnGen \in Nat

\* A node that came up with no read error has executed every row in file order,
\* has every row in its index and continues after the greatest LSN, although
\* the index is filled and the generator replaced by other goroutines than the
\* one that goes on (wal.go:161, log_reader.go:102).
RestoredAll ==
  main = "up" /\ bad = {} =>
    /\ store = Concat(files)
    /\ index = Range(store)
    /\ lsnGen = Max({0} \cup Range(store))

\* A node that came up in spite of a read error shows the files up to some one
\* before the error, never a later one without an earlier one, and its new LSNs
\* follow the ones it shows.
RestoredPrefix ==
  main = "up" /\ bad # {} =>
    /\ \E n \in 0..Len(files) :
         /\ n = 0 \/ n < Min(bad)
         /\ store = Concat(SubSeq(files, 1, n))
    /\ lsnGen = Max({0} \cup Range(store))

\* The start ends, with a node that is up or with an error: no goroutine waits
\* for ever on a stream that the other end has left.
StartEnds == <>(main \in {"up", "failed"})

\* A read error is an error of the restore: "reader error ... wantErr: true"
\* (wal_test.go:247-250), and restoreFromWal returns "read wal: %w" for it.
ReadErrorReported == main = "up" => bad = {}
=============================================================================
