------------------------------ MODULE RowCodec ------------------------------
(***************************************************************************)
(* The bytes of a row in the log and on the wire: Row.Marshal and          *)
(* Row.Unmarshal (internal/database/wal/wal_record.go), and the messages   *)
(* of the replication protocol (internal/database/replication/protocol.go).*)
(*                                                                         *)
(* A byte is a number below Base, 256 in the code.  The widths of the      *)
(* fields are constants, so that TLC reaches the limits of each of them.   *)
(***************************************************************************)
EXTENDS Integers, Sequences, SequencesExt

CONSTANTS
  Base,        \* values of a byte
  LsnWidth,    \* bytes of an LSN, 8 in the code
  CountWidth,  \* bytes of the number of arguments and of a length, 2
  LenWidth     \* bytes of the length of a response, 4

ASSUME CodecAssumption ==
  /\ Base \in Nat /\ Base > 1
  /\ LsnWidth \in Nat \ {0} /\ CountWidth \in Nat \ {0} /\ LenWidth \in Nat \ {0}

\* binary.Write of an unsigned integer of w bytes: what does not fit is cut off.
BigEndian(n, w) == [i \in 1..w |-> (n \div Base^(w - i)) % Base]
FromBigEndian(s) == FoldLeft(LAMBDA n, b : n * Base + b, 0, s)

EOF == [n |-> 0]
-----------------------------------------------------------------------------
\* An argument longer than its length field can say makes Marshal fail.
ArgTooLarge(row) == \E i \in DOMAIN row.args : Len(row.args[i]) > Base^CountWidth - 1

Header == LsnWidth + 1 + CountWidth

MarshalArg(a) == BigEndian(Len(a), CountWidth) \o a

\* [LSN] [method] [number of arguments], then [length] [content] of each.  The
\* number of arguments is cut to its field without an error.
Marshal(row) ==
  BigEndian(row.lsn, LsnWidth) \o <<row.method>> \o BigEndian(Len(row.args), CountWidth)
    \o FlattenSeq([i \in DOMAIN row.args |-> MarshalArg(row.args[i])])

\* The next argument, if its length and its content are there.
UnmarshalArg(data, st) ==
  LET len == FromBigEndian(SubSeq(data, st.n + 1, st.n + CountWidth))
      end == st.n + CountWidth + len
  IN  IF st = EOF \/ st.n + CountWidth > Len(data) THEN EOF
      ELSE IF end > Len(data) THEN EOF
      ELSE [n |-> end, args |-> Append(st.args, SubSeq(data, st.n + CountWidth + 1, end))]

\* The row at the start of data and the number of bytes it takes.  EOF is the
\* only error: bytes that are there are never refused.
Unmarshal(data) ==
  LET count == FromBigEndian(SubSeq(data, LsnWidth + 2, Header))
      end == FoldLeft(LAMBDA st, i : UnmarshalArg(data, st),
                      [n |-> Header, args |-> <<>>], [i \in 1..count |-> i])
  IN  IF Len(data) < Header \/ end = EOF THEN EOF
      ELSE [n |-> end.n,
            row |-> [lsn |-> FromBigEndian(SubSeq(data, 1, LsnWidth)),
                     method |-> data[LsnWidth + 1], args |-> end.args]]

\* flatten: the bytes of the rows, one after the other.
Flatten(rows) == FlattenSeq([i \in DOMAIN rows |-> Marshal(rows[i])])
-----------------------------------------------------------------------------
(***************************************************************************)
(* Request and Response                                                    *)
(***************************************************************************)
\* Request.Marshal, little endian, and Request.Unmarshal of what one Read gave.
MarshalRequest(lsn) == Reverse(BigEndian(lsn, LsnWidth))
UnmarshalRequest(data) ==
  IF Len(data) < LsnWidth THEN [ok |-> FALSE]
  ELSE [ok |-> TRUE, lsn |-> FromBigEndian(Reverse(SubSeq(data, 1, LsnWidth)))]

okFlag == 0
errFlag == 1

\* WriteMessage: the length goes through int32, which cuts it to its field.
WriteMessage(resp) ==
  <<IF resp.err THEN errFlag ELSE okFlag>> \o BigEndian(Len(resp.data), LenWidth) \o resp.data

\* The value of LenWidth bytes read as a signed integer.
Signed(n) == IF 2 * n >= Base^LenWidth THEN n - Base^LenWidth ELSE n

\* Mutant: the data are what one Read returns.
ReadPayloadShort(data, len) ==
  IF len < 0 THEN [ok |-> FALSE]
  ELSE [ok |-> TRUE, data |-> SubSeq(data, 2 + LenWidth,
                                     IF 1 + LenWidth + len < Len(data) THEN 1 + LenWidth + len
                                                                       ELSE Len(data))]

\* The payload of the length that the message says, or an error: the length is
\* negative, or the stream ends before it (ReadFull).
ReadPayload(data, len) ==
  IF len < 0 \/ Len(data) < 1 + LenWidth + len THEN [ok |-> FALSE]
  ELSE [ok |-> TRUE, data |-> SubSeq(data, 2 + LenWidth, 1 + LenWidth + len)]

\* ReadMessage from a stream that ends after data.
ReadMessage(data) ==
  LET payload == ReadPayload(data, Signed(FromBigEndian(SubSeq(data, 2, 1 + LenWidth))))
  IN  IF Len(data) < 1 + LenWidth \/ ~payload.ok THEN [ok |-> FALSE]
      ELSE [ok |-> TRUE, err |-> data[1] = errFlag, data |-> payload.data]
=============================================================================
