----------------------------- MODULE LogStream ------------------------------
(***************************************************************************)
(* From the lines that clients send to the rows a restart or a slave gets: *)
(* Parse, Marshal and the append to a file, then LogReader.read in chunks  *)
(* and restoreIndex (internal/database/logs/log_reader.go).  A crash may   *)
(* cut the last row of the file anywhere, and the node then goes on        *)
(* appending to it.                                                        *)
(*                                                                         *)
(* One file and its bytes; batches, segments and the order of writers are  *)
(* modules Wal and Segments.                                               *)
(***************************************************************************)
EXTENDS Query, RowCodec

CONSTANTS
  Inputs,   \* the sequences of lines that clients may send
  BufSize,  \* bytes that one Read returns at most, 4096 in the code
  Faults    \* which of "torn", "io" may happen

ASSUME LogStreamAssumption ==
  /\ BufSize \in Nat \ {0}
  /\ Space \in 0..(Base - 1)
  /\ \A m \in {SET, GET, DEL} : m \in Seq((0..(Base - 1)) \ {Space}) \ {<<>>}

VARIABLES
  phase,     \* "write", then "read", then "done" or "failed"
  input,     \* the lines to come
  line,      \* the last line that came
  file,      \* the bytes of the file
  written,   \* the rows that are whole in it, with the byte they start at
  wide,      \* a row had more arguments than its count can say
  torn,      \* how many of them were there when a later one was torn, or -1
  pos,       \* bytes that read has consumed
  leftover,  \* bytes it has consumed and not made a row of
  rows       \* the rows it has made

writeVars == <<input, line, file, written, wide, torn>>
readVars == <<pos, leftover, rows>>
vars == <<phase, writeVars, readVars>>

Init ==
  /\ phase = "write" /\ input \in Inputs /\ line = <<>>
  /\ file = <<>> /\ written = <<>> /\ wide = FALSE /\ torn = -1
  /\ pos = 0 /\ leftover = <<>> /\ rows = <<>>
-----------------------------------------------------------------------------
\* The row of a query that the WAL logs, with the next LSN.
RowOf(q) == [lsn |-> Len(written) + 1, method |-> q.method, args |-> q.args]

\* Handle a line: what Parse refuses, and a GET, leaves the log alone, and so
\* does a row that cannot be marshalled.
Receive ==
  /\ phase = "write" /\ input # <<>>
  /\ line' = Head(input) /\ input' = Tail(input)
  /\ LET q == Parse(Head(input)) IN
     IF q.ok /\ q.method # GetMethodID /\ ~ArgTooLarge(RowOf(q))
     THEN /\ file' = file \o Marshal(RowOf(q))
          /\ written' = Append(written, [row |-> RowOf(q), off |-> Len(file)])
          /\ wide' = (wide \/ Len(q.args) >= Base^CountWidth)
     ELSE UNCHANGED <<file, written, wide>>
  /\ UNCHANGED <<phase, torn, readVars>>

\* The process ends while the last row is written: a part of it is in the file.
\* The node that restarts opens the file to append to it.
Tear ==
  /\ "torn" \in Faults /\ phase = "write" /\ torn = -1 /\ written # <<>>
  /\ \E end \in (Last(written).off + 1)..(Len(file) - 1) : file' = SubSeq(file, 1, end)
  /\ written' = Front(written)
  /\ torn' = Len(written) - 1
  /\ UNCHANGED <<phase, input, line, wide, readVars>>

StartRead ==
  /\ phase = "write" /\ input = <<>>
  /\ phase' = "read"
  /\ UNCHANGED <<writeVars, readVars>>
-----------------------------------------------------------------------------
(***************************************************************************)
(* LogReader.read                                                          *)
(***************************************************************************)
\* The inner loop: rows are taken from the front of the bytes until Unmarshal
\* says EOF.  Unmarshal has no other error, so that the branches that skip a
\* corrupted row do not run.
Drain(bytes) ==
  LET from[off \in 0..Len(bytes)] ==
        LET u == Unmarshal(SubSeq(bytes, off + 1, Len(bytes))) IN
        IF u = EOF THEN [n |-> off, rows |-> <<>>]
        ELSE [from[off + u.n] EXCEPT !.rows = <<u.row>> \o @]
  IN  from[0]

\* Mutant: a chunk replaces the bytes left over from the last one.
ReadChunkForgets ==
  /\ phase = "read"
  /\ \E n \in 1..BufSize :
       /\ pos + n <= Len(file)
       /\ LET bytes == SubSeq(file, pos + 1, pos + n)
              d == Drain(bytes)
          IN  /\ rows' = rows \o d.rows
              /\ leftover' = SubSeq(bytes, d.n + 1, Len(bytes))
       /\ pos' = pos + n
  /\ UNCHANGED <<phase, writeVars>>

\* Read returns one byte or more.
ReadChunk ==
  /\ phase = "read"
  /\ \E n \in 1..BufSize :
       /\ pos + n <= Len(file)
       /\ LET bytes == leftover \o SubSeq(file, pos + 1, pos + n)
              d == Drain(bytes)
          IN  /\ rows' = rows \o d.rows
              /\ leftover' = SubSeq(bytes, d.n + 1, Len(bytes))
       /\ pos' = pos + n
  /\ UNCHANGED <<phase, writeVars>>

\* Read returns io.EOF: what is left over is tried once more.
ReadEnd ==
  /\ phase = "read" /\ pos = Len(file)
  /\ rows' = rows \o Drain(leftover).rows
  /\ leftover' = <<>>
  /\ phase' = "done"
  /\ UNCHANGED <<writeVars, pos>>

\* Read fails: the callers drop the rows and report the error.
ReadFails ==
  /\ "io" \in Faults /\ phase = "read"
  /\ phase' = "failed" /\ rows' = <<>>
  /\ UNCHANGED <<writeVars, pos, leftover>>

Next == Receive \/ Tear \/ StartRead \/ ReadChunk \/ ReadEnd \/ ReadFails

Spec == Init /\ [][Next]_vars

\* Mutant: the offset is moved on before it is stored.
RestoreIndexNext(rs) == [i \in DOMAIN rs |-> Len(Flatten(SubSeq(rs, 1, i)))]

\* restoreIndex: a row is taken to start where the rows before it, marshalled
\* once more, end.
RestoreIndex(rs) == [i \in DOMAIN rs |-> Len(Flatten(SubSeq(rs, 1, i - 1)))]
-----------------------------------------------------------------------------
\* How many rows lie before the first torn one that others were appended to.
Reliable == IF torn = -1 THEN Len(written) ELSE torn

\* A line that Parse accepts has the words of the query, in order, and nothing
\* but white space is lost; exec has the arguments it indexes, so that it never
\* panics (builder.go:34-77, database.go:97-120).
ParseSound ==
  LET q == Parse(line) IN
  q.ok => /\ Executable(q.method, q.args)
          /\ \E name \in {SET, GET, DEL} :
               <<name, q.method>> \in MethodNames /\ Fields(Join(<<name>> \o q.args)) = Fields(line)

\* However the bytes are cut into chunks, read returns every row that is whole
\* in the file and nothing else, up to a torn row that later ones were appended
\* to: a torn row at the end of the file is dropped (log_reader.go:146-208,
\* wal_record.go:39-115).  Holds for fewer than 2^16 arguments.
RowsReadBack ==
  ~wide =>
    LET good == [i \in 1..Reliable |-> written[i].row] IN
    /\ phase \in {"read", "done"} /\ Reliable = Len(written) => IsPrefix(rows, good)
    /\ phase = "done" => IsPrefix(good, rows)

\* The offsets that a restart puts into the index are those the rows have in
\* the file, although it computes them from the rows (log_reader.go:210-225).
RestoredOffsets ==
  phase = "done" /\ ~wide =>
    \A i \in 1..Reliable : RestoreIndex(rows)[i] = written[i].off

\* A slave that receives the file in a response gets exactly its bytes, or an
\* error when the length is out of the range of int32; a response that the
\* connection cuts is never taken for a shorter one, and neither is a request
\* (protocol.go:65-78, 90-167).
MessagesExact ==
  phase = "done" /\ Len(file) < Base^LenWidth =>
    /\ \A err \in BOOLEAN :
         LET resp == [err |-> err, data |-> file]
             msg == WriteMessage(resp)
         IN  /\ ReadMessage(msg) = IF 2 * Len(file) < Base^LenWidth
                                   THEN [ok |-> TRUE, err |-> err, data |-> file]
                                   ELSE [ok |-> FALSE]
             /\ \A k \in 0..(Len(msg) - 1) : ~ReadMessage(SubSeq(msg, 1, k)).ok
    /\ \A lsn \in 0..(Base^LsnWidth - 1) :
         LET req == MarshalRequest(lsn) IN
         /\ UnmarshalRequest(req) = [ok |-> TRUE, lsn |-> lsn]
         /\ \A k \in 0..(Len(req) - 1) : ~UnmarshalRequest(SubSeq(req, 1, k)).ok
=============================================================================
