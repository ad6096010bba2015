------------------------------- MODULE Query --------------------------------
(***************************************************************************)
(* From a line of text to a query: Builder.Parse (internal/query/          *)
(* builder.go, query.go), and the arguments that Database.exec takes from  *)
(* a query (internal/database/database.go).                                *)
(*                                                                         *)
(* A line is a sequence of bytes, a word a sequence of bytes other than    *)
(* Space.  Trim and TrimSpace only remove white space around the line,     *)
(* which Fields drops anyway.                                              *)
(***************************************************************************)
EXTENDS Naturals, Sequences, SequencesExt

CONSTANTS
  Space,         \* the byte of white space, ' '
  SET, GET, DEL  \* the words of Methods

SetMethodID == 0
GetMethodID == 1
DelMethodID == 2

MethodNames == { <<SET, SetMethodID>>, <<GET, GetMethodID>>, <<DEL, DelMethodID>> }
MethodArgs == [m \in {SetMethodID, GetMethodID, DelMethodID} |->
                 IF m = SetMethodID THEN 2 ELSE 1]

Error == [ok |-> FALSE]
Query(m, args) == [ok |-> TRUE, method |-> m, args |-> args]

\* strings.Fields: the words between the white space.
Fields(line) ==
  SelectSeq(FoldLeft(LAMBDA ws, b : IF b = Space THEN Append(ws, <<>>)
                                    ELSE [ws EXCEPT ![Len(ws)] = Append(@, b)],
                     << <<>> >>, line),
            LAMBDA w : w # <<>>)

\* strings.Join(words, " ")
Join(words) ==
  FoldLeft(LAMBDA s, w : IF s = <<>> THEN w ELSE s \o <<Space>> \o w, <<>>, words)

\* Mutant: the value of a SET is its first word.
GetQueryFirstWord(m, args) ==
  IF m = SetMethodID THEN Query(m, <<args[1], args[2]>>) ELSE Query(m, args)

\* getQuery: the words after the key are the value of a SET; a GET or a DEL
\* keeps the arguments it does not need.
GetQuery(m, args) ==
  IF m = SetMethodID THEN Query(m, <<args[1], Join(Tail(args))>>) ELSE Query(m, args)

\* validate, for the method ID of the first word.
Validate(tokens, m) ==
  /\ Len(tokens) >= 2
  /\ <<tokens[1], m>> \in MethodNames
  /\ Len(Tail(tokens)) >= MethodArgs[m]

Parse(line) ==
  LET tokens == Fields(line) IN
  IF \E m \in DOMAIN MethodArgs : Validate(tokens, m)
  THEN GetQuery(CHOOSE m \in DOMAIN MethodArgs : Validate(tokens, m), Tail(tokens))
  ELSE Error

\* exec finds a method it knows and the arguments it indexes; it fails on an
\* unknown method and panics on a missing argument.
Executable(method, args) ==
  \/ method \in {GetMethodID, DelMethodID} /\ Len(args) >= 1
  \/ method = SetMethodID /\ Len(args) >= 2
=============================================================================
