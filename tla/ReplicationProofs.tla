------------------------- MODULE ReplicationProofs -------------------------
(***************************************************************************)
(* Proofs about Replication.  For any number of writers: the types, and a  *)
(* slave that a restart does not change.  For one writer, who is served    *)
(* before the next write begins: no row is skipped, the slave shows a past *)
(* state of the master, and "no new logs" is said only when it is true.    *)
(***************************************************************************)
EXTENDS Replication, TLAPS

Lsn == 1..MaxLsn
Stores == [Keys -> 0..MaxLsn]
-----------------------------------------------------------------------------
(***************************************************************************)
(* What the proofs need of the naturals, and of a replay.                  *)
(* These are the facts that take an induction: the lemmas assume them, and *)
(* DataFactsHold, before the theorems, proves them.                        *)
(***************************************************************************)
Applied(st, ls) == FoldLeft(Apply, st, ls)

DataFacts ==
  /\ \A T : T \subseteq Nat /\ T # {} => \E x \in T : \A y \in T : x <= y
  /\ \A N \in Nat : \A T : T \subseteq 0..N /\ T # {} => \E x \in T : \A y \in T : y <= x
  /\ \A st : Applied(st, <<>>) = st
  /\ \A st \in Stores, ls \in Seq(Lsn) : Applied(st, ls) \in Stores
  /\ \A st : \A ls, ms \in Seq(Lsn) :
       Applied(st, ls \o ms) = Applied(Applied(st, ls), ms)
  /\ \A st : \A ls \in Seq(Lsn), l \in Lsn :
       Applied(st, Append(ls, l)) = Apply(Applied(st, ls), l)
  /\ \A st : \A ls \in Seq(Lsn) : ls # <<>> =>
       Applied(st, ls) = Applied(Apply(st, Head(ls)), Tail(ls))

\* The least of some places.
LEMMA Least ==
  ASSUME DataFacts, NEW T, T \subseteq Nat, T # {}
  PROVE  \E x \in T : \A y \in T : x <= y
  BY Zenon DEF DataFacts

\* The greatest of some LSNs.
LEMMA Greatest ==
  ASSUME DataFacts, NEW N \in Nat, NEW T, T \subseteq 0..N, T # {}
  PROVE  \E x \in T : \A y \in T : y <= x
  BY Zenon DEF DataFacts

\* One client that writes has taken one LSN.
LEMMA OneTaken == ASSUME NEW x PROVE Cardinality({x}) = 1
<1> DEFINE pick(T) == CHOOSE y : y \in T
           Counted(f) == f = [T \in SUBSET {x} |-> IF T = {} THEN 0 ELSE 1 + f[T \ {pick(T)}]]
           g == [T \in SUBSET {x} |-> IF T = {} THEN 0 ELSE 1]
           h == CHOOSE f : Counted(f)
<1>1. Cardinality({x}) = h[{x}]
  BY Zenon DEF Cardinality
<1>2. pick({x}) = x
  OBVIOUS
<1> HIDE DEF pick
<1>3. g[{}] = 0 /\ g[{x}] = 1 /\ g = [T \in SUBSET {x} |-> g[T]]
  OBVIOUS
<1> HIDE DEF g, h
<1>4. {} \in SUBSET {x} /\ {x} \in SUBSET {x} /\ {x} # {} /\ {x} \ {x} = {}
  OBVIOUS
<1>5. ASSUME NEW T \in SUBSET {x}
      PROVE  g[T] = IF T = {} THEN 0 ELSE 1 + g[T \ {pick(T)}]
  <2>1. CASE T = {}
    BY <1>3, <2>1
  <2>2. CASE T = {x}
    <3>1. g[T \ {pick(T)}] = 0
      BY <1>2, <1>3, <1>4, <2>2, Zenon
    <3> QED
      BY <1>3, <2>2, <3>1
  <2> QED
    BY <2>1, <2>2
<1>6. Counted(g)
  BY <1>3, <1>5, Zenon
<1>7. Counted(h)
  BY <1>6, Zenon DEF h
<1>8. h[{}] = 0
  BY <1>4, <1>7
<1>9. h[{x}] = 1 + h[{x} \ {pick({x})}]
  BY <1>4, <1>7, Zenon
<1> QED
  BY <1>1, <1>2, <1>4, <1>8, <1>9

\* No rows.
LEMMA ApplyNone == ASSUME DataFacts, NEW st PROVE Applied(st, <<>>) = st
  BY DEF DataFacts

\* The rows of two logs.
LEMMA ApplyBoth ==
  ASSUME DataFacts, NEW st, NEW ls \in Seq(Lsn), NEW ms \in Seq(Lsn)
  PROVE  Applied(st, ls \o ms) = Applied(Applied(st, ls), ms)
  BY DEF DataFacts

\* One more row.
LEMMA ApplyLast ==
  ASSUME DataFacts, NEW st, NEW ls \in Seq(Lsn), NEW l \in Lsn
  PROVE  Applied(st, Append(ls, l)) = Apply(Applied(st, ls), l)
  BY DEF DataFacts

\* The first row.
LEMMA ApplyFirst ==
  ASSUME DataFacts, NEW st, NEW ls \in Seq(Lsn), ls # <<>>
  PROVE  Applied(st, ls) = Applied(Apply(st, Head(ls)), Tail(ls))
  BY DEF DataFacts

\* A replay keeps the type of the memory.
LEMMA ReplayType == ASSUME DataFacts, NEW ls \in Seq(Lsn) PROVE Replay(ls) \in Stores
<1> DEFINE e == [k \in Keys |-> 0]
<1>1. e \in Stores
  BY ReplicationAssumption DEF Stores
<1> HIDE DEF e
<1>2. Applied(e, ls) \in Stores
  BY <1>1, Zenon DEF DataFacts
<1> QED
  BY <1>2 DEF Replay, Applied, e
-----------------------------------------------------------------------------
(***************************************************************************)
(* The types.  TypeOK needs to know of the rows in a response, that an     *)
(* index entry is that of a row on disk, and that a request is in an open  *)
(* connection.                                                             *)
(***************************************************************************)
RespType == {NoResp, NoNewLogs, Failure} \cup {Rows(ls) : ls \in Seq(Lsn)}

WireInv ==
  /\ resp \in RespType /\ (req # 0 => conn = "ok")
  /\ indexed \subseteq Range(log)
  /\ \A b \in adds : b \subseteq Range(log)

\* One row keeps the type of the memory.
LEMMA ApplyType == ASSUME NEW st \in Stores, NEW l \in Lsn PROVE Apply(st, l) \in Stores
<1>1. KeyOf[l] \in Keys /\ l \in 0..MaxLsn
  BY ReplicationAssumption DEF Keys, Range, Lsn
<1> QED
  BY <1>1 DEF Apply, Stores

\* The responses are told apart.
LEMMA Responses ==
  /\ NoNewLogs # NoResp /\ Failure # NoResp /\ NoNewLogs # Failure
  /\ \A ls : Rows(ls) # NoResp /\ Rows(ls) # NoNewLogs /\ Rows(ls) # Failure /\ Rows(ls)[2] = ls
<1>1. Len(NoNewLogs) = 1 /\ Len(Failure) = 1 /\ Len(NoResp) = 0
  BY DEF NoNewLogs, Failure, NoResp
<1>2. ASSUME NEW ls PROVE Len(Rows(ls)) = 2 /\ Rows(ls)[2] = ls
  BY DEF Rows
<1>3. NoNewLogs # Failure
  BY DEF NoNewLogs, Failure
<1> QED
  BY <1>1, <1>2, <1>3

\* The pieces of a sequence that a flush, a crash or a read takes.
LEMMA Pieces ==
  ASSUME NEW S, NEW s \in Seq(S), NEW n \in 0..Len(s)
  PROVE  /\ SubSeq(s, 1, n) \in Seq(S) /\ Len(SubSeq(s, 1, n)) = n
         /\ \A i \in 1..n : SubSeq(s, 1, n)[i] = s[i]
         /\ SubSeq(s, n + 1, Len(s)) \in Seq(S) /\ Len(SubSeq(s, n + 1, Len(s))) = Len(s) - n
         /\ \A i \in 1..(Len(s) - n) : SubSeq(s, n + 1, Len(s))[i] = s[n + i]
  OBVIOUS

\* A read from an indexed row starts at that row.
LEMMA FromType ==
  ASSUME DataFacts, log \in Seq(Lsn), NEW l \in Range(log)
  PROVE  \E n \in 0..(Len(log) - 1) : log[n + 1] = l /\ From(l) = SubSeq(log, n + 1, Len(log))
<1> DEFINE I == {i \in 1..Len(log) : log[i] = l}
<1>1. Len(log) \in Nat /\ Range(log) = {log[i] : i \in 1..Len(log)}
  BY DEF Range
<1>2. I \subseteq Nat /\ I # {}
  BY <1>1
<1>3. \E i \in I : \A j \in I : i <= j
  BY <1>2, Least, Zenon
<1>4. Min(I) \in I
  BY <1>3 DEF Min
<1>5. {i \in DOMAIN log : log[i] = l} = I
  OBVIOUS
<1>6. From(l) = SubSeq(log, Min(I), Len(log))
  BY <1>5, Zenon DEF From
<1> DEFINE m == Min(I)
<1>7. m \in 1..Len(log) /\ log[m] = l /\ From(l) = SubSeq(log, m, Len(log))
  BY <1>4, <1>6
<1> HIDE DEF m, I
<1>8. m - 1 \in 0..(Len(log) - 1) /\ (m - 1) + 1 = m
  BY <1>1, <1>7
<1> QED
  BY <1>7, <1>8, Zenon

\* The greatest LSN of a log is one of its LSNs, or 0.
LEMMA MaxLsnType ==
  ASSUME DataFacts, NEW ls \in Seq(Lsn)
  PROVE  /\ MaxLsnOf(ls) \in Range(ls) \cup {0} /\ MaxLsnOf(ls) \in 0..MaxLsn
         /\ \A l \in Range(ls) : l <= MaxLsnOf(ls)
<1> DEFINE T == Range(ls) \cup {0}
<1>1. Range(ls) \subseteq Lsn
  BY DEF Range
<1>2. T \subseteq 0..MaxLsn /\ T # {} /\ MaxLsn \in Nat
  BY <1>1, ReplicationAssumption DEF Lsn
<1> HIDE DEF T
<1>3. \E x \in T : \A y \in T : y <= x
  BY <1>2, Greatest, Zenon
<1>4. \E x \in Range(ls) \cup {0} : \A l \in Range(ls) : l <= x
  BY <1>3 DEF T
<1>5. MaxLsnOf(ls) \in Range(ls) \cup {0} /\ \A l \in Range(ls) : l <= MaxLsnOf(ls)
  BY <1>4 DEF MaxLsnOf
<1> QED
  BY <1>2, <1>5 DEF T

\* A log that is longer has more rows.
LEMMA LogGrows ==
  ASSUME NEW s \in Seq(Lsn), NEW t \in Seq(Lsn)
  PROVE  s \o t \in Seq(Lsn) /\ Range(s \o t) = Range(s) \cup Range(t)
<1>1. PICK a \in Nat, b \in Nat : a = Len(s) /\ b = Len(t)
  OBVIOUS
<1> DEFINE u == s \o t
<1>2. /\ u \in Seq(Lsn) /\ DOMAIN u = 1..(a + b) /\ DOMAIN s = 1..a /\ DOMAIN t = 1..b
      /\ \A i \in 1..a : u[i] = s[i]
      /\ \A i \in 1..b : u[a + i] = t[i]
  BY <1>1
<1> HIDE DEF u
<1>3. /\ \A i \in 1..(a + b) : i \in 1..a \/ \E j \in 1..b : i = a + j
      /\ \A i \in 1..a : i \in 1..(a + b)
      /\ \A i \in 1..b : a + i \in 1..(a + b)
  <2>1. ASSUME NEW i \in 1..(a + b), i \notin 1..a PROVE \E j \in 1..b : i = a + j
    <3>1. i - a \in 1..b /\ i = a + (i - a)
      BY <2>1
    <3> QED
      BY <3>1
  <2> QED
    BY <2>1
<1>4. ASSUME NEW i \in 1..(a + b) PROVE u[i] \in Range(s) \cup Range(t)
  <2>1. CASE i \in 1..a
    BY <1>2, <2>1 DEF Range
  <2>2. ASSUME NEW k \in 1..b, i = a + k PROVE u[i] \in Range(t)
    BY <1>2, <2>2, Zenon DEF Range
  <2> QED
    BY <1>3, <2>1, <2>2
<1>5. Range(s) \subseteq Range(u) /\ Range(t) \subseteq Range(u)
  BY <1>2, <1>3, Zenon DEF Range
<1>6. Range(u) \subseteq Range(s) \cup Range(t)
  BY <1>2, <1>4 DEF Range
<1> QED
  BY <1>2, <1>5, <1>6 DEF u

\* The types of the master, of the connection and of the slave.
MasterType ==
  /\ lsnID \in 0..MaxLsn /\ taken \subseteq 1..MaxLsn
  /\ queued \in Seq(1..MaxLsn) /\ log \in Seq(1..MaxLsn) /\ wedged = FALSE
  /\ indexed \subseteq 1..MaxLsn /\ adds \subseteq SUBSET (1..MaxLsn)

ConnType ==
  /\ conn \in {"ok", "closed", "dead"} /\ req \in 0..(MaxLsn + 1)
  /\ req # 0 \/ resp # NoResp => slave = "read" /\ (req = 0 \/ resp = NoResp)

SlaveType ==
  /\ slave \in {"sleep", "read", "log", "apply"}
  /\ rows \in Seq(1..MaxLsn) /\ slaveLog \in Seq(1..MaxLsn)
  /\ lastLsnWritten \in 0..MaxLsn /\ slaveStore \in [Keys -> 0..MaxLsn]
  /\ walEnable \in BOOLEAN /\ smLocked \in BOOLEAN
  /\ faults \in 0..MaxFaults

\* They are TypeOK.
LEMMA TypeParts == TypeOK <=> MasterType /\ ConnType /\ SlaveType
  BY DEF TypeOK, MasterType, ConnType, SlaveType

\* Both nodes start empty.
LEMMA TypeInit == ASSUME DataFacts PROVE Init => TypeOK /\ WireInv
<1> SUFFICES ASSUME Init PROVE TypeOK /\ WireInv
  OBVIOUS
<1>1. <<>> \in Seq(Lsn) /\ <<>> \in Seq(1..MaxLsn)
  OBVIOUS
<1>2. Replay(<<>>) \in [Keys -> 0..MaxLsn]
  BY <1>1, ReplayType, Zenon DEF Stores
<1>3. MaxLsn \in Nat /\ MaxFaults \in Nat
  BY ReplicationAssumption
<1>4. MasterType
  BY <1>1, <1>3 DEF Init, LogInit, MasterType
<1>6. ConnType
  BY <1>3 DEF Init, ConnType
<1>7. SlaveType
  <2>1. walEnable \in BOOLEAN /\ smLocked \in BOOLEAN
    BY Zenon DEF Init
  <2> QED
    BY <1>1, <1>2, <1>3, <2>1 DEF Init, SlaveType
<1>5. WireInv
  BY DEF Init, WireInv, RespType
<1> QED
  BY <1>4, <1>5, <1>6, <1>7, TypeParts

\* Every step of the master, the slave and the connection keeps the types.
LEMMA TypeStep == ASSUME DataFacts PROVE TypeOK /\ WireInv /\ [Next]_vars => TypeOK' /\ WireInv'
<1> SUFFICES ASSUME TypeOK, WireInv, [Next]_vars PROVE TypeOK' /\ WireInv'
  OBVIOUS
<1> USE DEF masterVars, connVars, slaveData, slaveVars, logVars
<1>a. MasterType /\ ConnType /\ SlaveType /\ MaxLsn \in Nat /\ MaxFaults \in Nat
  BY TypeParts, ReplicationAssumption
<1>b. log \in Seq(Lsn) /\ queued \in Seq(Lsn) /\ rows \in Seq(Lsn) /\ slaveLog \in Seq(Lsn)
  BY <1>a DEF MasterType, SlaveType, Lsn
<1>c. ASSUME MasterType', ConnType', SlaveType' PROVE TypeOK'
  BY <1>c DEF TypeOK, MasterType, ConnType, SlaveType
<1>d. Range(log) \subseteq 1..MaxLsn
  <2>1. \A i \in DOMAIN log : log[i] \in Lsn
    BY <1>b
  <2> QED
    BY <2>1 DEF Lsn, Range
<1>f. ASSUME NEW f, Fault(f) PROVE faults' \in 0..MaxFaults
  BY <1>a, <1>f DEF Fault, SlaveType
<1>m. ASSUME UNCHANGED masterVars PROVE MasterType'
  BY <1>a, <1>m DEF MasterType
<1>s. ASSUME UNCHANGED <<slaveVars, faults>> PROVE SlaveType'
  BY <1>a, <1>s DEF SlaveType
<1>1. CASE MasterTakes
  <2>1. lsnID < MaxLsn /\ lsnID' = lsnID + 1 /\ taken' = taken \cup {lsnID + 1}
        /\ UNCHANGED <<queued, log, wedged, indexed, adds, connVars, slaveVars, faults>>
    BY <1>1 DEF MasterTakes, TakeLsn
  <2>2. lsnID + 1 \in 1..MaxLsn
    BY <1>a, <2>1 DEF MasterType
  <2>3. MasterType'
    BY <1>a, <2>1, <2>2 DEF MasterType
  <2>4. ConnType' /\ WireInv'
    BY <1>a, <2>1 DEF ConnType, WireInv
  <2> QED
    BY <1>c, <1>s, <2>1, <2>3, <2>4
<1>2. CASE MasterSends
  <2>1. UNCHANGED <<lsnID, log, wedged, indexed, adds, connVars, slaveVars, faults>>
    BY <1>2 DEF MasterSends, Send
  <2>2. PICK l \in taken : taken' = taken \ {l} /\ queued' = Append(queued, l)
    BY <1>2 DEF MasterSends, Send
  <2>3. queued' \in Seq(1..MaxLsn)
    BY <1>a, <2>2 DEF MasterType
  <2>4. MasterType'
    BY <1>a, <2>1, <2>2, <2>3 DEF MasterType
  <2>5. ConnType' /\ WireInv'
    BY <1>a, <2>1 DEF ConnType, WireInv
  <2> QED
    BY <1>c, <1>s, <2>1, <2>4, <2>5
<1>l. ASSUME NEW n \in 0..Len(queued), log' = log \o SubSeq(queued, 1, n)
      PROVE  /\ log' \in Seq(Lsn) /\ Range(log) \subseteq Range(log')
             /\ Range(log') \subseteq 1..MaxLsn
  <2>1. SubSeq(queued, 1, n) \in Seq(Lsn)
    BY <1>b, Pieces
  <2>2. log' \in Seq(Lsn) /\ Range(log') = Range(log) \cup Range(SubSeq(queued, 1, n))
    BY <1>b, <1>l, <2>1, LogGrows, Zenon
  <2>3. Range(log') \subseteq Lsn
    BY <2>2 DEF Range
  <2> QED
    BY <2>2, <2>3 DEF Lsn
<1>3. CASE MasterFlushes
  <2>1. UNCHANGED <<lsnID, taken, wedged, indexed, connVars, slaveVars, faults>>
        /\ adds' = adds \cup {Range(log') \ Range(log)}
    BY <1>3 DEF MasterFlushes, Flush
  <2>2. PICK n \in 1..Len(queued) : /\ queued' = SubSeq(queued, n + 1, Len(queued))
                                    /\ log' = log \o SubSeq(queued, 1, n)
    BY <1>3, Zenon DEF MasterFlushes, Flush
  <2>3. n \in 0..Len(queued)
    BY <2>2
  <2>4. queued' \in Seq(Lsn)
    BY <1>b, <2>2, <2>3, Pieces
  <2>5. log' \in Seq(Lsn) /\ Range(log) \subseteq Range(log') /\ Range(log') \subseteq 1..MaxLsn
    BY <1>l, <2>2, <2>3, Zenon
  <2>6. MasterType'
    BY <1>a, <2>1, <2>4, <2>5, Zenon DEF MasterType, Lsn
  <2>7. ConnType' /\ WireInv'
    BY <1>a, <2>1, <2>5 DEF ConnType, WireInv
  <2> QED
    BY <1>c, <1>s, <2>1, <2>6, <2>7
<1>4. CASE MasterIndexes
  <2>1. UNCHANGED <<logVars, connVars, slaveVars, faults>>
    BY <1>4 DEF MasterIndexes
  <2>2. PICK b \in adds : indexed' = indexed \cup b /\ adds' = adds \ {b}
    BY <1>4 DEF MasterIndexes
  <2>3. MasterType'
    BY <1>a, <2>1, <2>2 DEF MasterType
  <2>4. ConnType' /\ WireInv'
    BY <1>a, <2>1, <2>2 DEF ConnType, WireInv
  <2> QED
    BY <1>c, <1>s, <2>1, <2>3, <2>4
<1>5. CASE Handle \/ HandleFails
  <2>1. /\ UNCHANGED <<masterVars, conn, slaveVars>> /\ req # 0 /\ req' = 0
        /\ faults' \in 0..MaxFaults
    BY <1>5, <1>a, <1>f DEF Handle, HandleFails, SlaveType, WireInv, MasterType
  <2>2. resp' \in RespType
    <3>1. CASE req \in indexed /\ resp' = Rows(From(req))
      <4>1. req \in Range(log)
        BY <3>1 DEF WireInv
      <4>2. PICK n \in 0..(Len(log) - 1) : From(req) = SubSeq(log, n + 1, Len(log))
        BY <1>b, <4>1, FromType
      <4>3. n \in 0..Len(log)
        BY <1>b
      <4>4. From(req) \in Seq(Lsn)
        BY <1>b, <4>2, <4>3, Pieces
      <4> QED
        BY <3>1, <4>4 DEF RespType
    <3>2. CASE resp' = NoNewLogs \/ resp' = Failure
      BY <3>2 DEF RespType
    <3> QED
      BY <1>5, <3>1, <3>2 DEF Handle, HandleFails
  <2>3. ConnType'
    BY <1>a, <2>1 DEF ConnType
  <2>4. WireInv'
    BY <2>1, <2>2 DEF WireInv
  <2>5. SlaveType'
    BY <1>a, <2>1 DEF SlaveType
  <2> QED
    BY <1>c, <1>m, <2>1, <2>3, <2>4, <2>5
<1>6. CASE SendReq
  <2>1. /\ UNCHANGED <<masterVars, rows, lastLsnWritten, slaveData, faults, resp>>
        /\ slave = "sleep" /\ slave' = "read"
        /\ req' \in {req, lastLsnWritten + 1} /\ conn' \in {conn, "ok", "dead"}
        /\ conn' = "ok" \/ (conn # "ok" /\ req' = req)
    BY <1>6 DEF SendReq
  <2>2. lastLsnWritten + 1 \in 0..(MaxLsn + 1)
    BY <1>a DEF SlaveType
  <2>3. ConnType'
    BY <1>a, <2>1, <2>2 DEF ConnType
  <2>4. SlaveType'
    BY <1>a, <2>1 DEF SlaveType
  <2>5. WireInv'
    BY <2>1 DEF WireInv
  <2> QED
    BY <1>c, <1>m, <2>1, <2>3, <2>4, <2>5
<1>7. CASE ReadResponse
  <2>1. /\ UNCHANGED <<masterVars, conn, req, lastLsnWritten, slaveData, faults>>
        /\ slave = "read" /\ resp # NoResp /\ resp' = NoResp
        /\ \/ slave' = "sleep" /\ rows' = rows
           \/ /\ resp \notin {NoNewLogs, Failure, Rows(<<>>)} /\ slave' = "log"
              /\ rows' = resp[2]
    BY <1>7 DEF ReadResponse
  <2>2. rows' \in Seq(Lsn)
    <3>1. CASE rows' = rows
      BY <1>b, <3>1
    <3>2. CASE resp \notin {NoNewLogs, Failure} /\ rows' = resp[2]
      <4>1. PICK ls \in Seq(Lsn) : resp = Rows(ls)
        BY <2>1, <3>2 DEF WireInv, RespType
      <4> QED
        BY <3>2, <4>1, Responses
    <3> QED
      BY <2>1, <3>1, <3>2
  <2>3. ConnType'
    BY <1>a, <2>1 DEF ConnType
  <2>4. SlaveType'
    BY <1>a, <2>1, <2>2 DEF SlaveType, Lsn
  <2>5. WireInv'
    BY <2>1 DEF WireInv, RespType
  <2> QED
    BY <1>c, <1>m, <2>1, <2>3, <2>4, <2>5
<1>8. CASE ReadFails
  <2>1. /\ UNCHANGED <<masterVars, connVars, rows, lastLsnWritten, slaveData, faults>>
        /\ slave = "read" /\ slave' = "sleep" /\ resp = NoResp /\ conn # "ok"
    BY <1>8 DEF ReadFails
  <2>2. ConnType'
    BY <1>a, <2>1 DEF ConnType, WireInv
  <2>3. SlaveType' /\ WireInv'
    BY <1>a, <2>1 DEF SlaveType, WireInv
  <2> QED
    BY <1>c, <1>m, <2>1, <2>2, <2>3
<1>9. CASE LogRows
  <2>1. /\ UNCHANGED <<masterVars, connVars, rows, lastLsnWritten, slaveStore, walEnable,
                       smLocked, faults>>
        /\ slave = "log" /\ slave' = "apply"
        /\ slaveLog' = slaveLog \/ slaveLog' = slaveLog \o rows
    BY <1>9 DEF LogRows
  <2>2. slaveLog' \in Seq(Lsn)
    BY <1>b, <2>1, LogGrows, Zenon
  <2>3. ConnType' /\ WireInv'
    BY <1>a, <2>1 DEF ConnType, WireInv
  <2>4. SlaveType'
    BY <1>a, <2>1, <2>2 DEF SlaveType, Lsn
  <2> QED
    BY <1>c, <1>m, <2>1, <2>3, <2>4
<1>r. ASSUME NEW n \in 0..Len(rows), slaveLog' = slaveLog \o SubSeq(rows, 1, n)
      PROVE  slaveLog' \in Seq(Lsn)
  <2>1. SubSeq(rows, 1, n) \in Seq(Lsn)
    BY <1>b, Pieces
  <2> QED
    BY <1>b, <1>r, <2>1, LogGrows
<1>e. <<>> \in Seq(1..MaxLsn)
  OBVIOUS
<1>10. CASE LogFails
  <2>1. /\ UNCHANGED <<masterVars, connVars, lastLsnWritten, slaveStore, walEnable>>
        /\ slave = "log" /\ slave' = "sleep" /\ rows' = <<>> /\ smLocked' = TRUE
        /\ faults' \in 0..MaxFaults
    BY <1>10, <1>f DEF LogFails
  <2>2. slaveLog' \in Seq(Lsn)
    <3>1. PICK n \in 0..Len(rows) : slaveLog' = slaveLog \o SubSeq(rows, 1, n)
      BY <1>10, Zenon DEF LogFails
    <3> QED
      BY <1>r, <3>1
  <2>3. ConnType' /\ WireInv'
    BY <1>a, <2>1 DEF ConnType, WireInv
  <2>4. SlaveType'
    BY <1>a, <1>e, <2>1, <2>2 DEF SlaveType, Lsn
  <2> QED
    BY <1>c, <1>m, <2>1, <2>3, <2>4
<1>11. CASE ApplyRow
  <2>1. /\ UNCHANGED <<masterVars, connVars, slaveLog, walEnable, smLocked, faults>>
        /\ slave = "apply" /\ slaveStore' = Apply(slaveStore, Head(rows)) /\ rows' = Tail(rows)
        /\ slave' \in {"apply", "sleep"} /\ lastLsnWritten' \in {lastLsnWritten, Head(rows)}
    BY <1>11 DEF ApplyRow, LastWritten
  <2>2. rows # <<>>
    BY <1>11 DEF ApplyRow
  <2>3. Head(rows) \in Lsn /\ Tail(rows) \in Seq(Lsn)
    BY <1>b, <2>2
  <2>4. slaveStore' \in Stores
    BY <1>a, <2>1, <2>3, ApplyType, Zenon DEF SlaveType, Stores
  <2>5. lastLsnWritten' \in 0..MaxLsn
    BY <1>a, <2>1, <2>3 DEF SlaveType, Lsn
  <2>6. ConnType' /\ WireInv'
    BY <1>a, <2>1 DEF ConnType, WireInv
  <2>7. SlaveType'
    BY <1>a, <2>1, <2>3, <2>4, <2>5 DEF SlaveType, Lsn, Stores
  <2> QED
    BY <1>c, <1>m, <2>1, <2>6, <2>7
<1>12. CASE MasterCrash
  <2>1. /\ UNCHANGED slaveVars /\ faults' \in 0..MaxFaults
        /\ taken' = {} /\ queued' = <<>> /\ wedged' = FALSE /\ lsnID' = MaxLsnOf(log')
        /\ indexed' = Range(log') /\ adds' = {}
    BY <1>12, <1>f DEF MasterCrash, Crash
  <2>2. PICK n \in 0..Len(queued) : log' = log \o SubSeq(queued, 1, n)
    BY <1>12 DEF MasterCrash, Crash
  <2>3. log' \in Seq(Lsn) /\ Range(log) \subseteq Range(log') /\ Range(log') \subseteq 1..MaxLsn
    BY <1>l, <2>2
  <2>4. lsnID' \in 0..MaxLsn
    BY <2>1, <2>3, MaxLsnType
  <2>5. MasterType'
    BY <1>e, <2>1, <2>3, <2>4 DEF MasterType, Lsn
  <2>6. \/ conn' = "closed" /\ req' = 0 /\ resp' \in {resp, NoResp}
        \/ conn # "ok" /\ UNCHANGED connVars
    BY <1>12 DEF MasterCrash, ConnCloses
  <2>7. ConnType'
    BY <1>a, <2>1, <2>6 DEF ConnType
  <2>8. WireInv'
    BY <2>1, <2>6 DEF WireInv, RespType
  <2>9. SlaveType'
    BY <1>a, <2>1 DEF SlaveType
  <2> QED
    BY <1>c, <2>5, <2>7, <2>8, <2>9
<1>13. CASE SlaveCrash
  <2>1. /\ UNCHANGED <<masterVars, walEnable>> /\ faults' \in 0..MaxFaults
        /\ conn' = "ok" /\ req' = 0 /\ resp' = NoResp /\ slave' = "sleep" /\ rows' = <<>>
        /\ lastLsnWritten' = 0 /\ smLocked' = FALSE /\ slaveStore' = Replay(slaveLog')
    BY <1>13, <1>f DEF SlaveCrash
  <2>2. slaveLog' \in Seq(Lsn)
    BY <1>13, <1>r DEF SlaveCrash
  <2>3. slaveStore' \in Stores
    BY <2>1, <2>2, ReplayType
  <2>4. ConnType'
    BY <1>a, <2>1 DEF ConnType
  <2>5. WireInv'
    BY <2>1 DEF WireInv, RespType
  <2>7. walEnable' \in BOOLEAN /\ smLocked' \in BOOLEAN
    BY <1>a, <2>1, Zenon DEF SlaveType
  <2>8. slaveLog' \in Seq(1..MaxLsn) /\ slaveStore' \in [Keys -> 0..MaxLsn] /\ 0 \in 0..MaxLsn
    BY <1>a, <2>2, <2>3 DEF Lsn, Stores
  <2>6. SlaveType'
    BY <1>e, <2>1, <2>7, <2>8 DEF SlaveType
  <2> QED
    BY <1>c, <1>m, <2>1, <2>4, <2>5, <2>6
<1>14. CASE Deadline
  <2>1. /\ UNCHANGED <<masterVars, slaveVars, faults>> /\ conn = "ok"
        /\ conn' \in {"dead", "closed"} /\ req' = 0 /\ resp' \in {resp, NoResp}
    BY <1>14 DEF Deadline, ConnDies, ConnCloses
  <2>2. ConnType'
    BY <1>a, <2>1 DEF ConnType
  <2>3. WireInv'
    BY <2>1 DEF WireInv, RespType
  <2> QED
    BY <1>c, <1>m, <1>s, <2>1, <2>2, <2>3
<1>15. CASE UNCHANGED vars
  BY <1>15 DEF vars, TypeOK, WireInv
<1> QED
  BY <1>1, <1>2, <1>3, <1>4, <1>5, <1>6, <1>7, <1>8, <1>9, <1>10, <1>11, <1>12, <1>13, <1>14,
     <1>15 DEF Next
-----------------------------------------------------------------------------
(***************************************************************************)
(* The memory of the slave and its log, for any number of writers.         *)
(***************************************************************************)
\* The memory of a slave and what it replays from its log after a restart are
\* the same, once the rows it is working on are applied.
LEMMA TransparentStep ==
  ASSUME DataFacts
  PROVE  TypeOK /\ WireInv /\ RestartTransparent /\ [Next]_vars => RestartTransparent'
<1> SUFFICES ASSUME TypeOK, WireInv, RestartTransparent, [Next]_vars PROVE RestartTransparent'
  OBVIOUS
<1> USE DEF masterVars, connVars, slaveData, slaveVars, logVars
<1> DEFINE e == [k \in Keys |-> 0]
<1>a. rows \in Seq(Lsn) /\ slaveLog \in Seq(Lsn) /\ slaveStore \in Stores
  BY DEF TypeOK, Lsn, Stores
<1>b. ASSUME walEnable, ~smLocked
      PROVE  /\ slave = "apply" => Applied(slaveStore, rows) = Applied(e, slaveLog)
             /\ slave # "apply" => slaveStore = Applied(e, slaveLog)
  BY <1>b, ApplyNone DEF Applied, RestartTransparent, Replay
<1>c. ASSUME walEnable' /\ ~smLocked' =>
               IF slave' = "apply" THEN Applied(slaveStore', rows') = Applied(e, slaveLog')
                                   ELSE slaveStore' = Applied(e, slaveLog')
      PROVE  RestartTransparent'
  BY <1>c, ApplyNone DEF Applied, RestartTransparent, Replay
<1> HIDE DEF e
<1>1. CASE LogRows
  <2>1. /\ UNCHANGED <<rows, slaveStore, walEnable, smLocked>>
        /\ slave = "log" /\ slave' = "apply" /\ (walEnable => slaveLog' = slaveLog \o rows)
    BY <1>1 DEF LogRows
  <2>2. Applied(e, slaveLog \o rows) = Applied(Applied(e, slaveLog), rows)
    BY <1>a, ApplyBoth
  <2> QED
    BY <1>b, <1>c, <2>1, <2>2, Zenon
<1>2. CASE ApplyRow
  <2>1. /\ UNCHANGED <<slaveLog, walEnable, smLocked>> /\ slave = "apply"
        /\ slaveStore' = Apply(slaveStore, Head(rows)) /\ rows' = Tail(rows)
        /\ slave' = "apply" \/ (slave' = "sleep" /\ Len(rows) = 1)
    BY <1>2 DEF ApplyRow
  <2>2. rows # <<>>
    BY <1>2 DEF ApplyRow
  <2>3. Applied(slaveStore, rows) = Applied(slaveStore', rows')
    BY <1>a, <2>1, <2>2, ApplyFirst
  <2>4. Len(rows) = 1 => rows' = <<>>
    BY <1>a, <2>1, <2>2
  <2>5. Applied(slaveStore', <<>>) = slaveStore'
    BY ApplyNone
  <2> QED
    BY <1>b, <1>c, <2>1, <2>3, <2>4, <2>5, Zenon
<1>3. CASE SlaveCrash
  <2>1. slave' = "sleep" /\ slaveStore' = Replay(slaveLog')
    BY <1>3 DEF SlaveCrash
  <2>2. Replay(slaveLog') = Applied(e, slaveLog')
    BY DEF Applied, Replay, e
  <2> QED
    BY <1>c, <2>1, <2>2
<1>4. CASE LogFails
  BY <1>4, <1>c DEF LogFails
<1>5. ASSUME UNCHANGED <<slaveData>>, slave # "apply", slave' # "apply" PROVE RestartTransparent'
  BY <1>5, <1>b, <1>c
<1>6. CASE UNCHANGED slaveVars
  BY <1>6, <1>b, <1>c
<1>7. CASE SendReq \/ ReadResponse \/ ReadFails
  BY <1>7, <1>5 DEF SendReq, ReadResponse, ReadFails
<1> QED
  BY <1>1, <1>2, <1>3, <1>4, <1>6, <1>7
     DEF Next, MasterTakes, MasterSends, MasterFlushes, MasterIndexes, Handle, HandleFails,
         MasterCrash, Deadline, vars

\* Memory and log start empty.
LEMMA TransparentInit == ASSUME DataFacts PROVE Init => RestartTransparent
<1> SUFFICES ASSUME Init PROVE RestartTransparent
  OBVIOUS
<1>1. FoldLeft(Apply, slaveStore, <<>>) = slaveStore
  BY ApplyNone DEF Applied
<1> QED
  BY <1>1 DEF Init, RestartTransparent
-----------------------------------------------------------------------------
(***************************************************************************)
(* One writer: the LSNs on disk are 1, 2, 3 ... in this order, and so are  *)
(* the rows of every response, from the one asked for.  Counts(s, b): s is *)
(* b + 1, b + 2, ...                                                       *)
(***************************************************************************)
Counts(s, b) == \A i \in 1..Len(s) : s[i] = b + i

\* What counts on, together counts.
LEMMA CountsConcat ==
  ASSUME NEW s \in Seq(Lsn), NEW t \in Seq(Lsn), NEW b \in Nat, Counts(s, b), Counts(t, b + Len(s))
  PROVE  Counts(s \o t, b) /\ s \o t \in Seq(Lsn) /\ Len(s \o t) = Len(s) + Len(t)
<1>1. Len(s) \in Nat /\ Len(t) \in Nat /\ Len(s \o t) = Len(s) + Len(t) /\ s \o t \in Seq(Lsn)
  OBVIOUS
<1>2. ASSUME NEW i \in 1..(Len(s) + Len(t)) PROVE (s \o t)[i] = b + i
  <2>1. CASE i <= Len(s)
    <3>1. i \in 1..Len(s)
      BY <1>1, <2>1
    <3> QED
      BY <3>1 DEF Counts
  <2>2. CASE i > Len(s)
    <3>1. /\ i - Len(s) \in 1..Len(t) /\ (b + Len(s)) + (i - Len(s)) = b + i
          /\ i \in (Len(s) + 1)..(Len(s) + Len(t))
      BY <1>1, <2>2
    <3>2. (s \o t)[i] = t[i - Len(s)]
      BY <1>1, <2>2, <3>1
    <3> QED
      BY <3>1, <3>2 DEF Counts
  <2> QED
    BY <1>1, <2>1, <2>2
<1> QED
  BY <1>1, <1>2 DEF Counts

\* So do the two parts of what counts.
LEMMA CountsSplit ==
  ASSUME NEW s \in Seq(Lsn), NEW b \in Nat, Counts(s, b), NEW n \in 0..Len(s)
  PROVE  /\ SubSeq(s, 1, n) \in Seq(Lsn) /\ SubSeq(s, n + 1, Len(s)) \in Seq(Lsn)
         /\ Len(SubSeq(s, 1, n)) = n /\ Len(SubSeq(s, n + 1, Len(s))) = Len(s) - n
         /\ Counts(SubSeq(s, 1, n), b) /\ Counts(SubSeq(s, n + 1, Len(s)), b + n)
<1> DEFINE u == SubSeq(s, 1, n)
           v == SubSeq(s, n + 1, Len(s))
<1>1. /\ u \in Seq(Lsn) /\ Len(u) = n /\ \A i \in 1..n : u[i] = s[i]
      /\ v \in Seq(Lsn) /\ Len(v) = Len(s) - n /\ \A i \in 1..(Len(s) - n) : v[i] = s[n + i]
  BY Pieces
<1> HIDE DEF u, v
<1>2. Len(s) \in Nat /\ n \in Nat /\ n <= Len(s)
  OBVIOUS
<1>3. ASSUME NEW i \in 1..n PROVE u[i] = b + i
  <2>1. i \in 1..Len(s)
    BY <1>2
  <2> QED
    BY <1>1, <2>1 DEF Counts
<1>4. ASSUME NEW i \in 1..(Len(s) - n) PROVE v[i] = (b + n) + i
  <2>1. n + i \in 1..Len(s) /\ b + (n + i) = (b + n) + i
    BY <1>2
  <2> QED
    BY <1>1, <2>1 DEF Counts
<1>5. Counts(u, b) /\ Counts(v, b + n)
  BY <1>1, <1>3, <1>4 DEF Counts
<1> QED
  BY <1>1, <1>5 DEF u, v

\* The first row of what counts, and the others.
LEMMA CountsTail ==
  ASSUME NEW s \in Seq(Lsn), NEW b \in Nat, Counts(s, b), s # <<>>
  PROVE  /\ Head(s) = b + 1 /\ Head(s) \in Lsn
         /\ Tail(s) \in Seq(Lsn) /\ Len(Tail(s)) = Len(s) - 1 /\ Counts(Tail(s), b + 1)
         /\ Len(s) \in Nat /\ Len(s) >= 1
<1>1. Len(s) \in Nat /\ Len(s) # 0
  OBVIOUS
<1>2. /\ Head(s) = s[1] /\ Tail(s) \in Seq(Lsn) /\ Head(s) \in Lsn /\ Len(Tail(s)) = Len(s) - 1
      /\ \A i \in 1..(Len(s) - 1) : Tail(s)[i] = s[i + 1]
  OBVIOUS
<1>3. 1 \in 1..Len(s)
  BY <1>1
<1>4. ASSUME NEW i \in 1..(Len(s) - 1) PROVE Tail(s)[i] = (b + 1) + i
  <2>1. i + 1 \in 1..Len(s) /\ b + (i + 1) = (b + 1) + i
    BY <1>1
  <2> QED
    BY <1>2, <2>1 DEF Counts
<1>5. Counts(Tail(s), b + 1)
  BY <1>2, <1>4 DEF Counts
<1>6. Head(s) = b + 1
  BY <1>2, <1>3 DEF Counts
<1> QED
  BY <1>1, <1>2, <1>5, <1>6

\* One more row.
LEMMA CountsAppend ==
  ASSUME NEW s \in Seq(Lsn), NEW b \in Nat, Counts(s, b), b + Len(s) + 1 \in Lsn
  PROVE  /\ Append(s, b + Len(s) + 1) \in Seq(Lsn) /\ Len(Append(s, b + Len(s) + 1)) = Len(s) + 1
         /\ Counts(Append(s, b + Len(s) + 1), b)
<1> DEFINE e == b + Len(s) + 1
           t == Append(s, e)
<1>1. Len(s) \in Nat /\ e = b + (Len(s) + 1)
  OBVIOUS
<1>2. e \in Lsn
  OBVIOUS
<1> HIDE DEF e
<1>3. /\ t \in Seq(Lsn) /\ Len(t) = Len(s) + 1 /\ t[Len(s) + 1] = e
      /\ \A i \in 1..Len(s) : t[i] = s[i]
  BY <1>2
<1> HIDE DEF t
<1>4. ASSUME NEW i \in 1..(Len(s) + 1) PROVE t[i] = b + i
  <2>1. i \in 1..Len(s) \/ i = Len(s) + 1
    BY <1>1
  <2> QED
    BY <1>1, <1>3, <2>1 DEF Counts
<1>5. Counts(t, b)
  BY <1>3, <1>4 DEF Counts
<1> QED
  BY <1>3, <1>5 DEF t, e

\* The set of the rows.
LEMMA CountsRange ==
  ASSUME NEW s \in Seq(Lsn), NEW b \in Nat, Counts(s, b)
  PROVE  Range(s) = (b + 1)..(b + Len(s))
<1>1. Len(s) \in Nat /\ Range(s) = {s[i] : i \in 1..Len(s)}
  BY DEF Range
<1>2. ASSUME NEW l \in Range(s) PROVE l \in (b + 1)..(b + Len(s))
  BY <1>1 DEF Counts
<1>3. ASSUME NEW l \in (b + 1)..(b + Len(s)) PROVE l \in Range(s)
  <2>1. l - b \in 1..Len(s) /\ b + (l - b) = l
    BY <1>1
  <2>2. s[l - b] = l
    BY <2>1 DEF Counts
  <2> QED
    BY <1>1, <2>1, <2>2
<1> QED
  BY <1>2, <1>3, Zenon

\* No row.
LEMMA CountsEmpty ==
  ASSUME NEW b \in Nat
  PROVE  Counts(<<>>, b) /\ <<>> \in Seq(Lsn) /\ Len(<<>>) = 0 /\ IsInjective(<<>>)
<1>1. <<>> \in Seq(Lsn) /\ Len(<<>>) = 0 /\ DOMAIN <<>> = {}
  OBVIOUS
<1>2. 1..0 = {}
  OBVIOUS
<1> QED
  BY <1>1, <1>2 DEF Counts, IsInjective

Upto(k) == [i \in 1..k |-> i]

\* The data of the first k rows.
DataOf(k) == Replay(Upto(k))

\* A log that counts from 1 is known from its length, and so is each prefix.
LEMMA CountsData ==
  ASSUME NEW s \in Seq(Lsn), Counts(s, 0), NEW k \in 0..Len(s)
  PROVE  /\ SubSeq(s, 1, k) = Upto(k) /\ Replay(SubSeq(s, 1, k)) = DataOf(k)
         /\ Replay(s) = DataOf(Len(s)) /\ Upto(k) \in Seq(Lsn)
<1>1. Len(s) \in Nat /\ k \in Nat /\ k <= Len(s) /\ s \in [1..Len(s) -> Lsn]
  OBVIOUS
<1>2. s = Upto(Len(s))
  <2>1. \A i \in 1..Len(s) : s[i] = i
    BY <1>1 DEF Counts
  <2> QED
    BY <1>1, <2>1 DEF Upto
<1>3. SubSeq(s, 1, k) \in Seq(Lsn) /\ Len(SubSeq(s, 1, k)) = k /\ Counts(SubSeq(s, 1, k), 0)
  BY CountsSplit
<1> DEFINE u == SubSeq(s, 1, k)
<1> HIDE DEF u
<1>4. u \in Seq(Lsn) /\ Len(u) = k /\ Counts(u, 0)
  BY <1>3 DEF u
<1>5. u \in [1..k -> Lsn] /\ \A i \in 1..k : u[i] = i
  BY <1>1, <1>4 DEF Counts
<1>6. u = Upto(k)
  BY <1>5 DEF Upto
<1> QED
  BY <1>2, <1>4, <1>6, Zenon DEF DataOf, u

\* One more row, one more step of the data.
LEMMA DataNext ==
  ASSUME DataFacts, NEW k \in Nat, k + 1 \in Lsn
  PROVE  DataOf(k + 1) = Apply(DataOf(k), k + 1)
<1> DEFINE e == [x \in Keys |-> 0]
<1>1. MaxLsn \in Nat /\ k + 1 <= MaxLsn
  BY ReplicationAssumption DEF Lsn
<1>2. Upto(k) \in Seq(Lsn) /\ Len(Upto(k)) = k
  BY <1>1 DEF Upto, Lsn
<1>3. Upto(k + 1) \in Seq(Lsn) /\ Len(Upto(k + 1)) = k + 1
  BY <1>1 DEF Upto, Lsn
<1> DEFINE a == Append(Upto(k), k + 1)
<1>4. /\ a \in Seq(Lsn) /\ Len(a) = k + 1 /\ a[k + 1] = k + 1
      /\ \A i \in 1..k : a[i] = Upto(k)[i]
  BY <1>2
<1>5. \A i \in 1..k : Upto(k)[i] = i
  BY DEF Upto
<1>6. \A i \in 1..(k + 1) : Upto(k + 1)[i] = i
  BY DEF Upto
<1> HIDE DEF a
<1>7. ASSUME NEW i \in 1..(k + 1) PROVE Upto(k + 1)[i] = a[i]
  <2>1. i \in 1..k \/ i = k + 1
    OBVIOUS
  <2> QED
    BY <1>4, <1>5, <1>6, <2>1
<1>8. Upto(k + 1) = a
  BY <1>3, <1>4, <1>7
<1> HIDE DEF e
<1>9. Applied(e, a) = Apply(Applied(e, Upto(k)), k + 1)
  BY <1>2, ApplyLast DEF a
<1>10. \A ls : Replay(ls) = Applied(e, ls)
  BY DEF Applied, Replay, e
<1> QED
  BY <1>8, <1>9, <1>10 DEF DataOf

\* The rows t are added to the log s, which has the rows up to a: if no row is
\* in it twice, then s ended at row a.
LEMMA LogMore ==
  ASSUME NEW s \in Seq(Lsn), NEW t \in Seq(Lsn), NEW a \in Nat, NEW m \in Nat,
         1..a \subseteq Range(s), IsInjective(s) => Counts(s, 0) /\ Len(s) <= m,
         Counts(t, a), a + Len(t) <= m
  PROVE  /\ s \o t \in Seq(Lsn) /\ 1..(a + Len(t)) \subseteq Range(s \o t)
         /\ IsInjective(s \o t) =>
              /\ IsInjective(s) /\ Counts(s \o t, 0) /\ Len(s \o t) <= m
              /\ t # <<>> => Len(s) = a
<1>1. Len(s) \in Nat /\ Len(t) \in Nat
  OBVIOUS
<1>2. s \o t \in Seq(Lsn) /\ Range(s \o t) = Range(s) \cup Range(t)
  BY LogGrows
<1>3. Range(t) = (a + 1)..(a + Len(t))
  BY CountsRange
<1>4. 1..(a + Len(t)) \subseteq Range(s \o t)
  <2>1. ASSUME NEW l \in 1..(a + Len(t)) PROVE l \in 1..a \/ l \in (a + 1)..(a + Len(t))
    BY <1>1
  <2> QED
    BY <1>2, <1>3, <2>1
<1>5. ASSUME IsInjective(s \o t)
      PROVE  /\ IsInjective(s) /\ Counts(s \o t, 0) /\ Len(s \o t) <= m
             /\ t # <<>> => Len(s) = a
  <2> DEFINE c == s \o t
  <2>1. /\ Len(c) = Len(s) + Len(t) /\ c \in Seq(Lsn)
        /\ \A i \in 1..(Len(s) + Len(t)) : c[i] = IF i <= Len(s) THEN s[i] ELSE t[i - Len(s)]
    OBVIOUS
  <2>2. DOMAIN s = 1..Len(s) /\ DOMAIN c = 1..(Len(s) + Len(t))
    BY <1>1, <2>1
  <2>3. \A i, j \in 1..(Len(s) + Len(t)) : c[i] = c[j] => i = j
    BY <1>5, <2>2 DEF IsInjective
  <2> HIDE DEF c
  <2>4. \A i \in 1..Len(s) : i \in 1..(Len(s) + Len(t)) /\ c[i] = s[i]
    BY <1>1, <2>1
  <2>5. IsInjective(s)
    BY <2>2, <2>3, <2>4 DEF IsInjective
  <2>6. Counts(s, 0) /\ Len(s) <= m
    BY <2>5
  <2>7. Range(s) = (0 + 1)..(0 + Len(s))
    BY <2>6, CountsRange
  <2>8. a <= Len(s)
    BY <1>1, <2>7
  <2>9. ASSUME t # <<>> PROVE Len(s) = a
    <3>1. Len(t) >= 1 /\ 1 \in 1..Len(t)
      BY <1>1, <2>9
    <3>2. t[1] = a + 1
      BY <3>1 DEF Counts
    <3>3. CASE a < Len(s)
      <4>1. a + 1 \in 1..Len(s) /\ Len(s) + 1 \in 1..(Len(s) + Len(t)) /\ a + 1 # Len(s) + 1
            /\ (Len(s) + 1) - Len(s) = 1 /\ ~(Len(s) + 1 <= Len(s))
        BY <1>1, <3>1, <3>3
      <4>2. s[a + 1] = a + 1
        BY <2>6, <4>1 DEF Counts
      <4>3. c[Len(s) + 1] = a + 1 /\ c[a + 1] = a + 1
        BY <2>1, <2>4, <3>2, <4>1, <4>2
      <4> QED
        BY <2>3, <2>4, <4>1, <4>3
    <3> QED
      BY <1>1, <2>8, <3>3
  <2>10. Counts(s \o t, 0) /\ Len(s \o t) <= m
    <3>1. CASE t = <<>>
      <4>1. s \o t = s
        BY <3>1
      <4> QED
        BY <2>6, <4>1
    <3>2. CASE t # <<>>
      <4>1. Len(s) = a /\ Counts(t, 0 + Len(s))
        BY <2>9, <3>2
      <4>2. Counts(s \o t, 0) /\ Len(s \o t) = Len(s) + Len(t)
        BY <2>6, <4>1, CountsConcat
      <4> QED
        BY <4>1, <4>2
    <3> QED
      BY <3>1, <3>2
  <2> QED
    BY <2>5, <2>9, <2>10
<1> QED
  BY <1>2, <1>4, <1>5
-----------------------------------------------------------------------------
\* The log, the queue and the LSN taken last follow each other without a hole,
\* and the index knows the log up to the batches whose goroutine has not run.
LogInv ==
  /\ Counts(log, 0) /\ Counts(queued, Len(log))
  /\ \/ taken = {} /\ lsnID = Len(log) + Len(queued)
     \/ taken = {lsnID} /\ lsnID = Len(log) + Len(queued) + 1
  /\ indexed \cup UNION adds = 1..Len(log)

\* The slave asks for the row after lastLsnWritten, and what it gets starts there.
FlowInv ==
  /\ lastLsnWritten <= Len(log) /\ req \in {0, lastLsnWritten + 1}
  /\ \A ls \in Seq(Lsn) :
       resp = Rows(ls) => Counts(ls, lastLsnWritten) /\ lastLsnWritten + Len(ls) <= Len(log)
  /\ slave = "log" =>
       rows # <<>> /\ Counts(rows, lastLsnWritten) /\ lastLsnWritten + Len(rows) <= Len(log)

\* The slave has logged the rows up to lastLsnWritten, and its memory is that of
\* the first rows of the master's log: the first lastLsnWritten of them without a
\* log of its own; those before the rows it applies, while it applies some.
SlaveInv ==
  /\ ~walEnable => slaveLog = <<>>
  /\ walEnable => 1..lastLsnWritten \subseteq Range(slaveLog)
  /\ IsInjective(slaveLog) => Counts(slaveLog, 0) /\ Len(slaveLog) <= Len(log)
  /\ ~walEnable /\ slave # "apply" => slaveStore = DataOf(lastLsnWritten)
  /\ walEnable /\ slave # "apply" /\ IsInjective(slaveLog) =>
       \E k \in lastLsnWritten..Len(log) : slaveStore = DataOf(k)
  /\ slave = "apply" =>
       \E a \in lastLsnWritten..Len(log) :
         /\ rows # <<>> /\ Counts(rows, a) /\ a + Len(rows) <= Len(log)
         /\ walEnable => 1..(a + Len(rows)) \subseteq Range(slaveLog)
         /\ IsInjective(slaveLog) => slaveStore = DataOf(a)

\* Both nodes start with empty logs.
LEMMA OneInit == Init => LogInv /\ FlowInv /\ SlaveInv
<1> SUFFICES ASSUME Init PROVE LogInv /\ FlowInv /\ SlaveInv
  OBVIOUS
<1>1. Counts(<<>>, 0) /\ Len(<<>>) = 0 /\ <<>> \in Seq(Lsn) /\ IsInjective(<<>>)
  BY CountsEmpty
<1>2. 1..0 = {} /\ 0 \in 0..0 /\ 0 + 0 = 0 /\ 0 <= 0
  OBVIOUS
<1>3. Replay(<<>>) = DataOf(0)
  BY <1>1, <1>2, CountsData, Zenon
<1>4. /\ log = <<>> /\ queued = <<>> /\ taken = {} /\ lsnID = 0 /\ indexed = {} /\ adds = {}
      /\ req = 0 /\ resp = NoResp /\ lastLsnWritten = 0 /\ slave = "sleep"
      /\ slaveLog = <<>> /\ slaveStore = Replay(<<>>)
  BY DEF Init, LogInit
<1>5. LogInv
  BY <1>1, <1>2, <1>4 DEF LogInv
<1>6. FlowInv
  <2>1. \A ls : resp # Rows(ls)
    BY <1>4, Responses
  <2> QED
    BY <1>1, <1>2, <1>4, <2>1 DEF FlowInv
<1>7. SlaveInv
  BY <1>1, <1>2, <1>3, <1>4 DEF SlaveInv
<1> QED
  BY <1>5, <1>6, <1>7

\* The master's log only grows, by the rows at the head of the queue.
LEMMA LogTakes ==
  ASSUME log \in Seq(Lsn), queued \in Seq(Lsn), Counts(log, 0), Counts(queued, Len(log)),
         NEW n \in 0..Len(queued), log' = log \o SubSeq(queued, 1, n)
  PROVE  /\ log' \in Seq(Lsn) /\ Counts(log', 0) /\ Len(log') = Len(log) + n
         /\ Range(log') = 1..Len(log') /\ Range(log) = 1..Len(log)
<1>1. Len(log) \in Nat /\ n \in Nat
  OBVIOUS
<1> DEFINE u == SubSeq(queued, 1, n)
<1>2. u \in Seq(Lsn) /\ Len(u) = n /\ Counts(u, 0 + Len(log))
  BY <1>1, CountsSplit
<1> HIDE DEF u
<1>3. log' = log \o u
  BY DEF u
<1>4. log' \in Seq(Lsn) /\ Counts(log', 0) /\ Len(log') = Len(log) + n
  <2>1. Counts(log \o u, 0) /\ log \o u \in Seq(Lsn) /\ Len(log \o u) = Len(log) + Len(u)
    BY <1>2, CountsConcat, Zenon
  <2> QED
    BY <1>2, <1>3, <2>1, Zenon
<1> DEFINE t == log'
<1>5. t \in Seq(Lsn) /\ Counts(t, 0)
  BY <1>4
<1> HIDE DEF t
<1>6. Range(t) = (0 + 1)..(0 + Len(t)) /\ Len(t) \in Nat
  BY <1>5, CountsRange
<1>7. Range(log) = (0 + 1)..(0 + Len(log))
  BY CountsRange
<1> QED
  BY <1>1, <1>4, <1>6, <1>7 DEF t

\* The master keeps the order, with one writer and through restarts.
LEMMA LogStep ==
  ASSUME DataFacts, Writers = 1, TypeOK, WireInv, LogInv, [Next]_vars
  PROVE  LogInv' /\ Len(log) <= Len(log') /\ Len(log') \in Nat /\ Len(log) \in Nat
<1> USE DEF masterVars, logVars
<1>a. /\ log \in Seq(Lsn) /\ queued \in Seq(Lsn) /\ taken \subseteq Lsn /\ lsnID \in 0..MaxLsn
      /\ MaxLsn \in Nat
  BY ReplicationAssumption DEF TypeOK, Lsn
<1>b. Len(log) \in Nat /\ Len(queued) \in Nat /\ lsnID \in Nat
  BY <1>a
<1>i. Counts(log, 0) /\ Counts(queued, Len(log))
  BY DEF LogInv
<1>1. CASE MasterTakes
  <2>1. /\ Cardinality(taken) < 1 /\ lsnID' = lsnID + 1 /\ taken' = taken \cup {lsnID + 1}
        /\ UNCHANGED <<queued, log, indexed, adds>>
    BY <1>1 DEF MasterTakes, TakeLsn
  <2>2. taken # {lsnID}
    <3>1. Cardinality({lsnID}) = 1
      BY OneTaken
    <3> QED
      BY <2>1, <3>1
  <2> QED
    BY <1>b, <2>1, <2>2 DEF LogInv
<1>2. CASE MasterSends
  <2>1. UNCHANGED <<lsnID, log, indexed, adds>>
    BY <1>2 DEF MasterSends, Send
  <2>2. PICK l \in taken : taken' = taken \ {l} /\ queued' = Append(queued, l)
    BY <1>2 DEF MasterSends, Send
  <2>3. taken = {lsnID} /\ l = lsnID /\ lsnID = Len(log) + Len(queued) + 1
    BY <2>2 DEF LogInv
  <2>4. Len(log) + Len(queued) + 1 \in Lsn
    BY <1>a, <2>2, <2>3
  <2>5. Counts(queued', Len(log)) /\ Len(queued') = Len(queued) + 1
    BY <1>a, <1>b, <1>i, <2>2, <2>3, <2>4, CountsAppend
  <2> QED
    BY <1>b, <2>1, <2>2, <2>3, <2>5 DEF LogInv
<1>3. CASE MasterFlushes
  <2>1. UNCHANGED <<lsnID, taken, indexed>> /\ adds' = adds \cup {Range(log') \ Range(log)}
    BY <1>3 DEF MasterFlushes, Flush
  <2>2. PICK n \in 1..Len(queued) : /\ queued' = SubSeq(queued, n + 1, Len(queued))
                                    /\ log' = log \o SubSeq(queued, 1, n)
    BY <1>3, Zenon DEF MasterFlushes, Flush
  <2>3. n \in 0..Len(queued) /\ n \in Nat
    BY <1>b
  <2>4. /\ Counts(log', 0) /\ Len(log') = Len(log) + n
        /\ Range(log') = 1..Len(log') /\ Range(log) = 1..Len(log)
    BY <1>a, <1>i, <2>2, <2>3, LogTakes, Zenon
  <2>5. Counts(queued', Len(log) + n) /\ Len(queued') = Len(queued) - n
    BY <1>a, <1>b, <1>i, <2>2, <2>3, CountsSplit
  <2>6. Len(log') + Len(queued') = Len(log) + Len(queued)
    BY <1>b, <2>3, <2>4, <2>5
  <2>7. 1..Len(log) \subseteq 1..Len(log')
    BY <1>b, <2>3, <2>4
  <2>8. indexed \cup UNION adds' = 1..Len(log')
    <3>1. indexed \cup UNION adds = 1..Len(log)
      BY DEF LogInv
    <3>2. PICK D : D = Range(log') \ Range(log)
      BY Zenon
    <3>3. adds' = adds \cup {D}
      BY <2>1, <3>2
    <3>4. \A x : x \in UNION adds' <=> x \in UNION adds \/ x \in D
      BY <3>3
    <3>5. PICK A, B : A = 1..Len(log) /\ B = 1..Len(log')
      OBVIOUS
    <3>6. A \subseteq B /\ indexed \cup UNION adds = A /\ D = B \ A
      BY <2>4, <2>7, <3>1, <3>2, <3>5
    <3>7. \A x : x \in indexed \cup UNION adds' <=> x \in B
      BY <3>4, <3>6
    <3> QED
      BY <3>5, <3>7
  <2> QED
    <3>1. Counts(queued', Len(log'))
      BY <2>4, <2>5, Zenon
    <3>2. \/ taken' = {} /\ lsnID' = Len(log') + Len(queued')
          \/ taken' = {lsnID'} /\ lsnID' = Len(log') + Len(queued') + 1
      BY <2>1, <2>6, Zenon DEF LogInv
    <3>3. indexed' \cup UNION adds' = 1..Len(log')
      BY <2>1, <2>8, Zenon
    <3> QED
      BY <2>4, <3>1, <3>2, <3>3 DEF LogInv
<1>4. CASE MasterIndexes
  <2>1. UNCHANGED logVars
    BY <1>4 DEF MasterIndexes
  <2>2. PICK x \in adds : indexed' = indexed \cup x /\ adds' = adds \ {x}
    BY <1>4 DEF MasterIndexes
  <2>3. indexed' \cup UNION adds' = indexed \cup UNION adds
    BY <2>2
  <2> QED
    BY <1>b, <2>1, <2>3 DEF LogInv
<1>5. CASE MasterCrash
  <2>1. taken' = {} /\ queued' = <<>> /\ lsnID' = MaxLsnOf(log')
        /\ indexed' = Range(log') /\ adds' = {}
    BY <1>5 DEF MasterCrash, Crash
  <2>2. PICK n \in 0..Len(queued) : log' = log \o SubSeq(queued, 1, n)
    BY <1>5 DEF MasterCrash, Crash
  <2>3. /\ log' \in Seq(Lsn) /\ Counts(log', 0) /\ Len(log') = Len(log) + n
        /\ Range(log') = 1..Len(log')
    BY <1>a, <1>i, <2>2, LogTakes
  <2>4. Len(log') \in Nat /\ n \in Nat
    BY <1>b, <2>3
  <2>5. MaxLsnOf(log') \in Range(log') \cup {0} /\ \A l \in Range(log') : l <= MaxLsnOf(log')
    BY <2>3, MaxLsnType
  <2>6. MaxLsnOf(log') = Len(log')
    <3> DEFINE g == MaxLsnOf(log')
               h == Len(log')
    <3>1. g \in (1..h) \cup {0} /\ (\A l \in 1..h : l <= g) /\ h \in Nat
      BY <2>3, <2>4, <2>5
    <3> HIDE DEF g, h
    <3>2. g = h
      <4>1. CASE h = 0
        BY <3>1, <4>1
      <4>2. CASE h # 0
        <5>1. h \in 1..h
          BY <3>1, <4>2
        <5> QED
          BY <3>1, <5>1
      <4> QED
        BY <4>1, <4>2
    <3> QED
      BY <3>2 DEF g, h
  <2>7. Counts(queued', Len(log')) /\ Len(queued') = 0
    BY <2>1, <2>4, CountsEmpty
  <2>8. indexed' \cup UNION adds' = 1..Len(log')
    BY <2>1, <2>3
  <2> QED
    BY <1>b, <2>1, <2>3, <2>4, <2>6, <2>7, <2>8 DEF LogInv
<1>6. CASE UNCHANGED masterVars
  BY <1>b, <1>6 DEF LogInv
<1> QED
  BY <1>1, <1>2, <1>3, <1>4, <1>5, <1>6
     DEF Next, Handle, HandleFails, SendReq, ReadResponse, ReadFails, LogRows, LogFails, ApplyRow,
         SlaveCrash, Deadline, vars

\* A response is asked for and made from lastLsnWritten on, and stays good while
\* the log grows.
LEMMA FlowStep ==
  ASSUME DataFacts, TypeOK, WireInv, LogInv, FlowInv, SlaveInv, [Next]_vars, Len(log) <= Len(log'),
         Len(log') \in Nat, Len(log) \in Nat
  PROVE  FlowInv'
<1> USE DEF masterVars, connVars, slaveData, slaveVars, logVars
<1>a. /\ log \in Seq(Lsn) /\ rows \in Seq(Lsn) /\ lastLsnWritten \in Nat
      /\ req # 0 \/ resp # NoResp => slave = "read"
      /\ resp \in RespType /\ indexed \subseteq Range(log) /\ Counts(log, 0)
  BY ReplicationAssumption DEF TypeOK, Lsn, WireInv, LogInv
<1>b. ASSUME lastLsnWritten' = lastLsnWritten PROVE lastLsnWritten' <= Len(log')
  BY <1>a, <1>b DEF FlowInv
<1>c. ASSUME lastLsnWritten' = lastLsnWritten, resp' \in {resp, NoResp, NoNewLogs, Failure},
             NEW ls \in Seq(Lsn), resp' = Rows(ls)
      PROVE  Counts(ls, lastLsnWritten') /\ lastLsnWritten' + Len(ls) <= Len(log')
  <2>1. resp = Rows(ls) /\ Len(ls) \in Nat
    BY <1>c, Responses
  <2>2. Counts(ls, lastLsnWritten) /\ lastLsnWritten + Len(ls) <= Len(log)
    BY <2>1 DEF FlowInv
  <2> QED
    BY <1>a, <1>c, <2>1, <2>2
<1>d. ASSUME lastLsnWritten' = lastLsnWritten, UNCHANGED <<slave, rows>>, slave' = "log"
      PROVE  /\ rows' # <<>> /\ Counts(rows', lastLsnWritten')
             /\ lastLsnWritten' + Len(rows') <= Len(log')
  <2>1. Len(rows) \in Nat
    BY <1>a
  <2> QED
    BY <1>a, <1>d, <2>1 DEF FlowInv
<1>1. CASE Handle
  <2>1. /\ UNCHANGED <<masterVars, slaveVars>> /\ req # 0 /\ req' = 0
        /\ \/ req \in indexed /\ resp' = Rows(From(req))
           \/ resp' = NoNewLogs
    BY <1>1 DEF Handle
  <2>2. ASSUME NEW ls \in Seq(Lsn), resp' = Rows(ls)
        PROVE  Counts(ls, lastLsnWritten) /\ lastLsnWritten + Len(ls) <= Len(log)
    <3>1. req \in Range(log) /\ ls = From(req)
      BY <1>a, <2>1, <2>2, Responses
    <3>2. PICK n \in 0..(Len(log) - 1) :
            log[n + 1] = req /\ From(req) = SubSeq(log, n + 1, Len(log))
      BY <1>a, <3>1, FromType
    <3>3. n + 1 \in 1..Len(log) /\ n \in 0..Len(log) /\ n \in Nat
      BY <1>a
    <3>4. req = 0 + (n + 1)
      BY <1>a, <3>2, <3>3 DEF Counts
    <3>5. req = lastLsnWritten + 1
      BY <2>1 DEF FlowInv
    <3>6. n = lastLsnWritten
      BY <1>a, <3>3, <3>4, <3>5
    <3>7. Counts(ls, 0 + n) /\ Len(ls) = Len(log) - n
      BY <1>a, <3>1, <3>2, <3>3, CountsSplit
    <3> QED
      BY <1>a, <3>3, <3>6, <3>7
  <2> QED
    BY <1>b, <1>d, <2>1, <2>2 DEF FlowInv
<1>2. CASE SendReq
  <2>1. /\ UNCHANGED <<log, resp, lastLsnWritten>> /\ slave' = "read"
        /\ req' \in {req, lastLsnWritten + 1}
    BY <1>2 DEF SendReq
  <2> QED
    BY <1>b, <1>c, <2>1 DEF FlowInv
<1>3. CASE ReadResponse
  <2>1. /\ UNCHANGED <<log, lastLsnWritten, req>> /\ resp' = NoResp
        /\ \/ slave' = "sleep"
           \/ /\ resp \notin {NoNewLogs, Failure, Rows(<<>>), NoResp}
              /\ slave' = "log" /\ rows' = resp[2]
    BY <1>3 DEF ReadResponse
  <2>2. ASSUME slave' = "log"
        PROVE  /\ rows' # <<>> /\ Counts(rows', lastLsnWritten')
               /\ lastLsnWritten' + Len(rows') <= Len(log')
    <3>1. PICK ls \in Seq(Lsn) : resp = Rows(ls)
      BY <1>a, <2>1, <2>2 DEF RespType
    <3>2. rows' = ls /\ ls # <<>>
      BY <2>1, <2>2, <3>1, Responses
    <3> QED
      BY <2>1, <3>1, <3>2 DEF FlowInv
  <2> QED
    BY <1>b, <1>c, <2>1, <2>2 DEF FlowInv
<1>4. CASE ApplyRow
  <2>1. /\ UNCHANGED <<log, connVars>> /\ slave = "apply" /\ slave' # "log"
        /\ \/ lastLsnWritten' = lastLsnWritten
           \/ lastLsnWritten' = Head(rows)
    BY <1>4 DEF ApplyRow, LastWritten
  <2>2. req' = 0 /\ resp' = NoResp
    BY <1>a, <2>1
  <2>3. \A ls : resp' # Rows(ls)
    BY <2>2, Responses
  <2>4. lastLsnWritten' <= Len(log')
    <3>1. PICK x \in lastLsnWritten..Len(log) :
                 rows # <<>> /\ Counts(rows, x) /\ x + Len(rows) <= Len(log)
      BY <2>1 DEF SlaveInv
    <3>2. x \in Nat
      BY <1>a
    <3>3. Head(rows) = x + 1 /\ Len(rows) \in Nat /\ Len(rows) >= 1
      BY <1>a, <3>1, <3>2, CountsTail
    <3>4. Head(rows) <= Len(log)
      BY <1>a, <3>1, <3>2, <3>3
    <3> QED
      BY <1>b, <2>1, <3>4
  <2> QED
    BY <2>1, <2>2, <2>3, <2>4 DEF FlowInv
<1>5. CASE SlaveCrash
  <2>1. UNCHANGED log /\ req' = 0 /\ resp' = NoResp /\ slave' = "sleep" /\ lastLsnWritten' = 0
    BY <1>5 DEF SlaveCrash
  <2>2. \A ls : resp' # Rows(ls)
    BY <2>1, Responses
  <2> QED
    BY <2>1, <2>2 DEF FlowInv
<1>6. CASE LogRows \/ LogFails \/ ReadFails
  <2>1. /\ UNCHANGED <<log, connVars, lastLsnWritten>> /\ slave' # "log"
    BY <1>6 DEF LogRows, LogFails, ReadFails
  <2> QED
    BY <1>b, <1>c, <2>1 DEF FlowInv
<1>7. ASSUME UNCHANGED slaveVars, req' \in {0, req}, resp' \in {resp, NoResp, NoNewLogs, Failure}
      PROVE  FlowInv'
  BY <1>b, <1>c, <1>d, <1>7 DEF FlowInv
<1>8. CASE MasterTakes \/ MasterSends \/ MasterFlushes \/ MasterIndexes \/ HandleFails
  BY <1>7, <1>8 DEF MasterTakes, MasterSends, MasterFlushes, MasterIndexes, HandleFails
<1>9. CASE MasterCrash \/ Deadline
  BY <1>7, <1>9 DEF MasterCrash, Deadline, ConnCloses, ConnDies
<1>10. CASE UNCHANGED vars
  BY <1>7, <1>10 DEF vars
<1> QED
  BY <1>1, <1>2, <1>3, <1>4, <1>5, <1>6, <1>8, <1>9, <1>10 DEF Next

\* What the slave logs and applies follows the master's log.
LEMMA SlaveStep ==
  ASSUME DataFacts, TypeOK, RestartTransparent, FlowInv, SlaveInv, [Next]_vars,
         Len(log) <= Len(log'),
         Len(log') \in Nat, Len(log) \in Nat
  PROVE  SlaveInv'
<1> USE DEF masterVars, connVars, slaveData, slaveVars, logVars
<1>a. /\ rows \in Seq(Lsn) /\ slaveLog \in Seq(Lsn) /\ lastLsnWritten \in Nat
      /\ lastLsnWritten <= Len(log)
  BY ReplicationAssumption DEF TypeOK, Lsn, FlowInv
<1>b. IsInjective(slaveLog) => Counts(slaveLog, 0) /\ Len(slaveLog) <= Len(log)
  BY DEF SlaveInv
<1>e. IsInjective(<<>>) /\ Len(rows) \in Nat /\ Len(slaveLog) \in Nat
  BY <1>a, CountsEmpty
\* Rows are added to the slave's log while it is in LogRows or LogFails.
<1>w. ASSUME slave = "log", walEnable, NEW n \in 0..Len(rows)
      PROVE  LET c == slaveLog \o SubSeq(rows, 1, n)
             IN  /\ c \in Seq(Lsn) /\ 1..(lastLsnWritten + n) \subseteq Range(c)
                 /\ IsInjective(c) => /\ IsInjective(slaveLog) /\ Counts(c, 0) /\ Len(c) <= Len(log)
                                      /\ n # 0 => Len(slaveLog) = lastLsnWritten
  <2> DEFINE u == SubSeq(rows, 1, n)
  <2>1. Counts(rows, lastLsnWritten) /\ lastLsnWritten + Len(rows) <= Len(log)
    BY <1>w DEF FlowInv
  <2>2. u \in Seq(Lsn) /\ Len(u) = n /\ Counts(u, lastLsnWritten)
    BY <1>a, <2>1, CountsSplit
  <2> HIDE DEF u
  <2>3. lastLsnWritten + Len(u) <= Len(log) /\ n \in Nat
    BY <1>a, <1>e, <2>1, <2>2
  <2>4. 1..lastLsnWritten \subseteq Range(slaveLog)
    BY <1>w DEF SlaveInv
  <2>5. /\ slaveLog \o u \in Seq(Lsn) /\ 1..(lastLsnWritten + Len(u)) \subseteq Range(slaveLog \o u)
        /\ IsInjective(slaveLog \o u) =>
              /\ IsInjective(slaveLog) /\ Counts(slaveLog \o u, 0) /\ Len(slaveLog \o u) <= Len(log)
              /\ u # <<>> => Len(slaveLog) = lastLsnWritten
    <3>1. PICK m \in Nat : m = Len(log)
      BY Zenon
    <3>2. /\ 1..lastLsnWritten \subseteq Range(slaveLog)
          /\ IsInjective(slaveLog) => Counts(slaveLog, 0) /\ Len(slaveLog) <= m
          /\ Counts(u, lastLsnWritten) /\ lastLsnWritten + Len(u) <= m
      BY <1>b, <2>2, <2>3, <2>4, <3>1, Zenon
    <3>3. slaveLog \in Seq(Lsn) /\ u \in Seq(Lsn) /\ lastLsnWritten \in Nat
      BY <1>a, <2>2, Zenon
    <3> QED
      BY <3>1, <3>2, <3>3, LogMore, Zenon
  <2>6. n # 0 => u # <<>>
    BY <2>2
  <2> QED
    BY <2>2, <2>5, <2>6 DEF u
<1>1. CASE LogRows
  <2>1. /\ UNCHANGED <<log, rows, lastLsnWritten, slaveStore, walEnable>>
        /\ slave = "log" /\ slave' = "apply" /\ (walEnable => ~smLocked)
        /\ slaveLog' = IF walEnable THEN slaveLog \o rows ELSE slaveLog
    BY <1>1 DEF LogRows
  <2>2. /\ rows # <<>> /\ Counts(rows, lastLsnWritten)
        /\ lastLsnWritten + Len(rows) <= Len(log)
    BY <2>1 DEF FlowInv
  <2>3. lastLsnWritten \in lastLsnWritten'..Len(log')
    BY <1>a, <2>1
  <2>4. CASE ~walEnable
    <3>1. slaveLog = <<>> /\ slaveStore = DataOf(lastLsnWritten)
      BY <2>1, <2>4 DEF SlaveInv
    <3> QED
      BY <1>b, <2>1, <2>2, <2>3, <2>4, <3>1 DEF SlaveInv
  <2>5. CASE walEnable
    <3>1. SubSeq(rows, 1, Len(rows)) = rows /\ Len(rows) \in 0..Len(rows)
      <4>1. /\ Len(rows) \in 0..Len(rows) /\ SubSeq(rows, 1, Len(rows)) \in Seq(Lsn)
            /\ Len(SubSeq(rows, 1, Len(rows))) = Len(rows)
            /\ \A i \in 1..Len(rows) : SubSeq(rows, 1, Len(rows))[i] = rows[i]
        BY <1>a, <1>e, Pieces
      <4> QED
        BY <1>a, <4>1
    <3>2. slaveLog' = slaveLog \o rows /\ Len(rows) # 0
      BY <1>a, <2>1, <2>2, <2>5
    <3>3. /\ 1..(lastLsnWritten + Len(rows)) \subseteq Range(slaveLog')
          /\ IsInjective(slaveLog') => /\ IsInjective(slaveLog) /\ Counts(slaveLog', 0)
                                       /\ Len(slaveLog') <= Len(log)
                                       /\ Len(slaveLog) = lastLsnWritten
      BY <1>w, <2>1, <2>5, <3>1, <3>2, Zenon
    <3>4. ASSUME IsInjective(slaveLog') PROVE slaveStore = DataOf(lastLsnWritten)
      <4>1. Counts(slaveLog, 0) /\ Len(slaveLog) = lastLsnWritten /\ 0 \in 0..Len(slaveLog)
        BY <1>b, <1>e, <3>3, <3>4
      <4>2. slaveStore = Replay(slaveLog)
        <5>1. FoldLeft(Apply, slaveStore, <<>>) = slaveStore
          BY ApplyNone DEF Applied
        <5> QED
          BY <2>1, <2>5, <5>1 DEF RestartTransparent
      <4> QED
        BY <1>a, <4>1, <4>2, CountsData
    <3>5. 1..lastLsnWritten \subseteq Range(slaveLog')
      <4>1. 1..lastLsnWritten \subseteq 1..(lastLsnWritten + Len(rows))
        BY <1>a, <1>e
      <4> QED
        BY <3>3, <4>1
    <3> QED
      BY <2>1, <2>2, <2>3, <2>5, <3>3, <3>4, <3>5 DEF SlaveInv
  <2> QED
    BY <2>4, <2>5
<1>2. CASE LogFails
  <2>1. /\ UNCHANGED <<log, lastLsnWritten, slaveStore, walEnable>>
        /\ slave = "log" /\ slave' = "sleep" /\ walEnable
    BY <1>2 DEF LogFails
  <2>2. PICK n \in 0..Len(rows) : slaveLog' = slaveLog \o SubSeq(rows, 1, n)
    BY <1>2 DEF LogFails
  <2>3. /\ 1..(lastLsnWritten + n) \subseteq Range(slaveLog')
        /\ IsInjective(slaveLog') => /\ IsInjective(slaveLog) /\ Counts(slaveLog', 0)
                                     /\ Len(slaveLog') <= Len(log)
    BY <1>w, <2>1, <2>2
  <2>4. 1..lastLsnWritten \subseteq Range(slaveLog')
    <3>1. 1..lastLsnWritten \subseteq 1..(lastLsnWritten + n)
      BY <1>a, <1>e
    <3> QED
      BY <2>3, <3>1
  <2>5. IsInjective(slaveLog) => \E k \in lastLsnWritten..Len(log) : slaveStore = DataOf(k)
    BY <2>1 DEF SlaveInv
  <2> QED
    BY <2>1, <2>3, <2>4, <2>5 DEF SlaveInv
<1>3. CASE ApplyRow
  <2>1. /\ UNCHANGED <<log, slaveLog, walEnable>> /\ slave = "apply"
        /\ slaveStore' = Apply(slaveStore, Head(rows)) /\ rows' = Tail(rows)
    BY <1>3 DEF ApplyRow
  <2>2. PICK a \in lastLsnWritten..Len(log) :
          /\ rows # <<>> /\ Counts(rows, a) /\ a + Len(rows) <= Len(log)
          /\ walEnable => 1..(a + Len(rows)) \subseteq Range(slaveLog)
          /\ IsInjective(slaveLog) => slaveStore = DataOf(a)
    BY <2>1 DEF SlaveInv
  <2>3. a \in Nat /\ lastLsnWritten <= a
    BY <1>a
  <2>4. /\ Head(rows) = a + 1 /\ a + 1 \in Lsn /\ Len(rows) >= 1
        /\ rows' \in Seq(Lsn) /\ Len(rows') = Len(rows) - 1 /\ Counts(rows', a + 1)
    <3>1. /\ Head(rows) = a + 1 /\ Head(rows) \in Lsn /\ Len(rows) >= 1
          /\ Tail(rows) \in Seq(Lsn) /\ Len(Tail(rows)) = Len(rows) - 1 /\ Counts(Tail(rows), a + 1)
      BY <1>a, <2>2, <2>3, CountsTail
    <3> QED
      BY <2>1, <3>1
  <2>5. IsInjective(slaveLog) => slaveStore' = DataOf(a + 1)
    BY <2>1, <2>2, <2>3, <2>4, DataNext
  <2>6. (a + 1) + Len(rows') = a + Len(rows) /\ a + 1 <= Len(log) /\ a + 1 \in Nat
    BY <1>a, <1>e, <2>2, <2>3, <2>4
  <2>7. ~walEnable => slaveLog = <<>>
    BY DEF SlaveInv
  <2>8. IsInjective(slaveLog') => Counts(slaveLog', 0) /\ Len(slaveLog') <= Len(log')
    BY <1>b, <2>1
  <2>9. CASE Len(rows) > 1
    <3>1. UNCHANGED <<slave, lastLsnWritten>>
      <4>1. Len(rows) # 1
        BY <1>e, <2>9
      <4>2. \/ UNCHANGED <<slave, lastLsnWritten>>
            \/ Len(rows) = 1
        BY <1>3 DEF ApplyRow
      <4> QED
        BY <4>1, <4>2
    <3>2. rows' # <<>>
      BY <1>e, <2>4, <2>9
    <3>3. a + 1 \in lastLsnWritten'..Len(log')
      BY <1>a, <2>1, <2>3, <2>6, <3>1
    <3>4. walEnable => 1..lastLsnWritten \subseteq Range(slaveLog)
      BY DEF SlaveInv
    <3>5. \E x \in lastLsnWritten'..Len(log') :
            /\ rows' # <<>> /\ Counts(rows', x) /\ x + Len(rows') <= Len(log')
            /\ walEnable' => 1..(x + Len(rows')) \subseteq Range(slaveLog')
            /\ IsInjective(slaveLog') => slaveStore' = DataOf(x)
      BY <2>1, <2>2, <2>4, <2>5, <2>6, <3>2, <3>3
    <3> QED
      BY <2>1, <2>7, <2>8, <3>1, <3>4, <3>5 DEF SlaveInv
  <2>10. CASE Len(rows) = 1
    <3>1. slave' = "sleep" /\ lastLsnWritten' = a + 1
      BY <1>3, <2>4, <2>10 DEF ApplyRow, LastWritten
    <3>2. walEnable => 1..(a + 1) \subseteq Range(slaveLog)
      BY <2>2, <2>10
    <3>3. a + 1 \in lastLsnWritten'..Len(log')
      BY <2>1, <2>6, <3>1
    <3>4. ~walEnable => slaveStore' = DataOf(a + 1)
      BY <1>e, <2>5, <2>7
    <3> QED
      BY <2>1, <2>5, <2>7, <2>8, <3>1, <3>2, <3>3, <3>4 DEF SlaveInv
  <2> QED
    BY <1>e, <2>4, <2>9, <2>10
<1>4. CASE SlaveCrash
  <2>1. /\ UNCHANGED <<log, walEnable>> /\ slave' = "sleep" /\ lastLsnWritten' = 0
        /\ slaveStore' = Replay(slaveLog')
    BY <1>4 DEF SlaveCrash
  <2>2. PICK n \in 0..Len(rows) : /\ n > 0 => slave = "log" /\ walEnable
                                  /\ slaveLog' = slaveLog \o SubSeq(rows, 1, n)
    BY <1>4, Zenon DEF SlaveCrash
  <2>3. /\ slaveLog' \in Seq(Lsn) /\ (~walEnable => slaveLog' = <<>>)
        /\ IsInjective(slaveLog') => Counts(slaveLog', 0) /\ Len(slaveLog') <= Len(log)
    <3>1. CASE n = 0
      <4>1. SubSeq(rows, 1, n) \in Seq(Lsn) /\ Len(SubSeq(rows, 1, n)) = 0
        BY <1>a, <3>1, Pieces
      <4>2. SubSeq(rows, 1, n) = <<>>
        BY <4>1
      <4>3. slaveLog' = slaveLog
        <5>1. slaveLog \o <<>> = slaveLog
          BY <1>a
        <5> QED
          BY <2>2, <4>2, <5>1, Zenon
      <4>4. ~walEnable => slaveLog = <<>>
        BY DEF SlaveInv
      <4> QED
        BY <1>a, <1>b, <4>3, <4>4
    <3>2. CASE n # 0
      <4>1. slave = "log" /\ walEnable
        BY <1>e, <2>2, <3>2
      <4> QED
        BY <1>w, <2>2, <4>1
    <3> QED
      BY <3>1, <3>2
  <2>4. ASSUME IsInjective(slaveLog')
        PROVE  Len(slaveLog') \in 0..Len(log') /\ slaveStore' = DataOf(Len(slaveLog'))
    <3> DEFINE c == slaveLog'
    <3>1. c \in Seq(Lsn) /\ Counts(c, 0) /\ Len(c) <= Len(log') /\ slaveStore' = Replay(c)
      BY <2>1, <2>3, <2>4
    <3> HIDE DEF c
    <3>2. Len(c) \in Nat
      BY <3>1
    <3>3. 0 \in 0..Len(c) /\ Len(c) \in 0..Len(log')
      BY <3>1, <3>2
    <3>4. Replay(c) = DataOf(Len(c))
      BY <3>1, <3>3, CountsData
    <3> QED
      BY <3>1, <3>3, <3>4 DEF c
  <2>5. 1..0 = {} /\ Len(<<>>) = 0
    OBVIOUS
  <2>6. ~walEnable' => slaveStore' = DataOf(0)
    BY <1>e, <2>1, <2>3, <2>4, <2>5
  <2> QED
    BY <2>1, <2>3, <2>4, <2>5, <2>6 DEF SlaveInv
<1>5. ASSUME UNCHANGED <<slaveData, lastLsnWritten>>,
             (slave # "apply" /\ slave' # "apply") \/ UNCHANGED <<slave, rows>>
      PROVE  SlaveInv'
  <2>1. lastLsnWritten..Len(log) \subseteq lastLsnWritten'..Len(log')
    BY <1>5, <1>a
  <2>2. IsInjective(slaveLog') => Counts(slaveLog', 0) /\ Len(slaveLog') <= Len(log')
    BY <1>5, <1>b, <1>e
  <2>3. CASE slave # "apply" /\ slave' # "apply"
    BY <1>5, <2>1, <2>2, <2>3 DEF SlaveInv
  <2>4. CASE slave = "apply" /\ UNCHANGED <<slave, rows>>
    <3>1. PICK a \in lastLsnWritten..Len(log) :
            /\ rows # <<>> /\ Counts(rows, a) /\ a + Len(rows) <= Len(log)
            /\ walEnable => 1..(a + Len(rows)) \subseteq Range(slaveLog)
            /\ IsInjective(slaveLog) => slaveStore = DataOf(a)
      BY <2>4 DEF SlaveInv
    <3>2. a \in lastLsnWritten'..Len(log') /\ a + Len(rows) <= Len(log')
      BY <1>a, <1>e, <2>1, <3>1
    <3> QED
      BY <1>5, <2>2, <2>4, <3>1, <3>2 DEF SlaveInv
  <2> QED
    BY <1>5, <2>3, <2>4
<1>6. CASE SendReq \/ ReadResponse \/ ReadFails
  BY <1>5, <1>6 DEF SendReq, ReadResponse, ReadFails
<1>7. CASE UNCHANGED slaveVars
  BY <1>5, <1>7
<1> QED
  BY <1>1, <1>2, <1>3, <1>4, <1>6, <1>7
     DEF Next, MasterTakes, MasterSends, MasterFlushes, MasterIndexes, Handle, HandleFails,
         MasterCrash, Deadline, vars
-----------------------------------------------------------------------------
OneInv == TypeOK /\ WireInv /\ RestartTransparent /\ LogInv /\ FlowInv /\ SlaveInv

\* No row is behind lastLsnWritten.
LEMMA OneSkipsNone == OneInv => NoRowSkipped
<1> SUFFICES ASSUME OneInv, walEnable, NEW l \in Range(log), l <= lastLsnWritten
             PROVE  l \in Range(slaveLog)
  BY DEF NoRowSkipped
<1>1. log \in Seq(Lsn) /\ lastLsnWritten \in Nat /\ 1..lastLsnWritten \subseteq Range(slaveLog)
  BY ReplicationAssumption DEF OneInv, TypeOK, SlaveInv, Lsn
<1>2. l \in Lsn
  BY <1>1 DEF Range
<1>3. l \in 1..lastLsnWritten
  BY <1>1, <1>2 DEF Lsn
<1> QED
  BY <1>1, <1>3

\* The memory of the slave is that of a prefix.
LEMMA OneShowsPrefix == OneInv => SlaveIsPrefix
<1> SUFFICES ASSUME OneInv, slave \in {"sleep", "read"}, IsInjective(slaveLog)
             PROVE  \E n \in lastLsnWritten..Len(log) : slaveStore = Replay(SubSeq(log, 1, n))
  BY DEF SlaveIsPrefix
<1>1. /\ log \in Seq(Lsn) /\ Counts(log, 0) /\ lastLsnWritten \in Nat
      /\ lastLsnWritten <= Len(log)
  BY ReplicationAssumption DEF OneInv, TypeOK, LogInv, FlowInv, Lsn
<1>2. Len(log) \in Nat
  BY <1>1
<1>3. lastLsnWritten \in lastLsnWritten..Len(log)
  BY <1>1, <1>2
<1>4. PICK k \in lastLsnWritten..Len(log) : slaveStore = DataOf(k)
  BY <1>3 DEF OneInv, SlaveInv
<1>5. k \in 0..Len(log)
  BY <1>1, <1>2
<1>6. Replay(SubSeq(log, 1, k)) = DataOf(k)
  BY <1>1, <1>5, CountsData
<1> QED
  BY <1>4, <1>6

\* What "no new logs" says.
Honest == resp # NoNewLogs /\ resp' = NoNewLogs => adds # {} \/ \A l \in Range(log) : l < req

\* It is said only if it is true.
LEMMA OneIsHonest == OneInv /\ [Next]_vars => [Honest]_vars
<1> SUFFICES ASSUME OneInv, [Next]_vars, resp # NoNewLogs, resp' = NoNewLogs, adds = {},
                    NEW l \in Range(log)
             PROVE  l < req
  BY DEF Honest
<1>1. Handle
  BY Responses, Zenon DEF Next, MasterTakes, MasterSends, MasterFlushes, MasterIndexes, HandleFails,
       SendReq, ReadResponse, ReadFails, LogRows, LogFails, ApplyRow, MasterCrash, SlaveCrash,
       Deadline, ConnCloses, ConnDies, connVars, vars
<1>2. req \notin indexed /\ req # 0
  BY <1>1, Responses DEF Handle
<1>3. /\ log \in Seq(Lsn) /\ Counts(log, 0) /\ lastLsnWritten \in Nat
      /\ lastLsnWritten <= Len(log) /\ req = lastLsnWritten + 1
      /\ indexed \cup UNION adds = 1..Len(log)
  BY <1>2, ReplicationAssumption DEF OneInv, TypeOK, LogInv, FlowInv, Lsn
<1>6. indexed = 1..Len(log)
  BY <1>3, Zenon
<1>4. Len(log) \in Nat /\ Range(log) = (0 + 1)..(0 + Len(log))
  BY <1>3, CountsRange
<1>5. lastLsnWritten = Len(log)
  BY <1>2, <1>3, <1>4, <1>6
<1> QED
  BY <1>3, <1>4, <1>5
-----------------------------------------------------------------------------
(***************************************************************************)
(* The facts that the lemmas assume.                                       *)
(***************************************************************************)
FP == INSTANCE FoldProofs WITH Op <- Apply

\* The replay of the model is the fold of FoldProofs.
LEMMA AppliedIs == ASSUME NEW st, NEW ls PROVE Applied(st, ls) = FP!Fold(st, ls)
  BY Zenon DEF Applied, FoldLeft, MapThenFoldSet, Max, FP!Fold, FP!Greatest

\* By induction on the length of the logs, and on the numbers.
LEMMA DataFactsHold == DataFacts
<1>1. \A T : T \subseteq Nat /\ T # {} => \E x \in T : \A y \in T : x <= y
  BY FP!NatMin, Zenon
<1>2. \A N \in Nat : \A T : T \subseteq 0..N /\ T # {} => \E x \in T : \A y \in T : y <= x
  BY FP!BoundedMax, Zenon
<1>4. \A st : Applied(st, <<>>) = st
  BY AppliedIs, FP!FoldEmpty
<1>5. ASSUME NEW st \in Stores, NEW ls \in Seq(Lsn) PROVE Applied(st, ls) \in Stores
  <2>1. FP!Fold(st, ls) \in Stores
    BY ApplyType, FP!FoldType
  <2> QED
    BY <2>1, AppliedIs
<1>6. ASSUME NEW st, NEW ls \in Seq(Lsn), NEW ms \in Seq(Lsn)
      PROVE  Applied(st, ls \o ms) = Applied(Applied(st, ls), ms)
  <2>1. FP!Fold(st, ls \o ms) = FP!Fold(FP!Fold(st, ls), ms)
    BY FP!FoldConcat
  <2> QED
    BY <2>1, AppliedIs, Zenon
<1>7. ASSUME NEW st, NEW ls \in Seq(Lsn), NEW l \in Lsn
      PROVE  Applied(st, Append(ls, l)) = Apply(Applied(st, ls), l)
  <2>1. FP!Fold(st, Append(ls, l)) = Apply(FP!Fold(st, ls), l)
    BY FP!FoldAppend
  <2> QED
    BY <2>1, AppliedIs, Zenon
<1>8. ASSUME NEW st, NEW ls \in Seq(Lsn), ls # <<>>
      PROVE  Applied(st, ls) = Applied(Apply(st, Head(ls)), Tail(ls))
  <2>1. FP!Fold(st, ls) = FP!Fold(Apply(st, Head(ls)), Tail(ls))
    BY <1>8, FP!FoldHead
  <2> QED
    BY <2>1, AppliedIs, Zenon
<1> QED
  BY <1>1, <1>2, <1>4, <1>5, <1>6, <1>7, <1>8, Zenon DEF DataFacts
-----------------------------------------------------------------------------
(***************************************************************************)
(* The theorems.                                                           *)
(***************************************************************************)
\* The types of both nodes and of the connection between them.
THEOREM ReplicationTypeCorrect == Spec => []TypeOK
<1>1. Init => TypeOK /\ WireInv
  BY DataFactsHold, TypeInit
<1>2. TypeOK /\ WireInv /\ [Next]_vars => TypeOK' /\ WireInv'
  BY DataFactsHold, TypeStep
<1> QED
  BY <1>1, <1>2, PTL DEF Spec

\* A restart of the slave shows the data it showed before, however often rows
\* were fetched and logged again, with any number of writers at the master.
THEOREM RestartIsTransparent == Spec => []RestartTransparent
<1>1. Init => TypeOK /\ WireInv /\ RestartTransparent
  BY DataFactsHold, TypeInit, TransparentInit
<1>2. TypeOK /\ WireInv /\ RestartTransparent /\ [Next]_vars
        => TypeOK' /\ WireInv' /\ RestartTransparent'
  BY DataFactsHold, TypeStep, TransparentStep
<1> QED
  BY <1>1, <1>2, PTL DEF Spec

\* The invariant of a master with one writer and its slave.
LEMMA OneWriter == ASSUME Writers = 1 PROVE Spec => []OneInv
<1>1. Init => OneInv
  <2>1. Init => RestartTransparent
    BY DataFactsHold, TransparentInit
  <2> QED
    BY <2>1, DataFactsHold, TypeInit, OneInit DEF OneInv
<1>2. OneInv /\ [Next]_vars => OneInv'
  <2> SUFFICES ASSUME OneInv, [Next]_vars PROVE OneInv'
    OBVIOUS
  <2>0. TypeOK /\ WireInv /\ RestartTransparent /\ LogInv /\ FlowInv /\ SlaveInv
    BY DEF OneInv
  <2>1. TypeOK' /\ WireInv'
    BY <2>0, DataFactsHold, TypeStep
  <2>2. RestartTransparent'
    BY <2>0, DataFactsHold, TransparentStep
  <2>3. LogInv' /\ Len(log) <= Len(log') /\ Len(log') \in Nat /\ Len(log) \in Nat
    BY <2>0, DataFactsHold, LogStep
  <2>4. FlowInv'
    BY <2>0, <2>3, DataFactsHold, FlowStep
  <2>5. SlaveInv'
    BY <2>0, <2>3, DataFactsHold, SlaveStep
  <2> QED
    BY <2>1, <2>2, <2>3, <2>4, <2>5 DEF OneInv
<1> QED
  BY <1>1, <1>2, PTL DEF Spec

\* A slave has every row of its master's log up to lastLsnWritten, if the master
\* has one writer: no row is left behind a later one in the slave's requests.
THEOREM NoRowIsSkipped == ASSUME Writers = 1 PROVE Spec => []NoRowSkipped
  BY OneSkipsNone, OneWriter, PTL

\* With one writer, the memory of a slave is between its rounds that of a prefix
\* of the master's log, not shorter than lastLsnWritten, if no row came twice.
THEOREM SlaveShowsPrefix == ASSUME Writers = 1 PROVE Spec => []SlaveIsPrefix
  BY OneShowsPrefix, OneWriter, PTL

\* With one writer, and the index up to date, a slave is told "no new logs" only
\* if the master has no row from the one it asked for on.
THEOREM NoNewLogsIsHonest == ASSUME Writers = 1 PROVE Spec => NoNewLogsHonest
  BY OneIsHonest, OneWriter, PTL DEF Spec, NoNewLogsHonest, Honest
=============================================================================
