----------------------------- MODULE WalProofs -----------------------------
(***************************************************************************)
(* The write path, for all values of the constants: types, unique LSNs on  *)
(* disk, futures and acknowledged rows, what no step does, and the two     *)
(* refinements, of AppendLog and of LsnLog.                                *)
(***************************************************************************)
EXTENDS WalOrder, SequenceTheorems, TLAPS

\* A prefix of a sequence: what a failed or interrupted write leaves on disk.
LEMMA PrefixProperties ==
  ASSUME NEW S, NEW s \in Seq(S), NEW n \in 0..Len(s)
  PROVE  /\ SubSeq(s, 1, n) \in Seq(S)
         /\ Len(SubSeq(s, 1, n)) = n
         /\ \A i \in 1..n : SubSeq(s, 1, n)[i] = s[i]
  OBVIOUS

\* The fresh node is well typed.
LEMMA TypeInit == Init => TypeOK
<1> SUFFICES ASSUME Init PROVE TypeOK
  OBVIOUS
<1>1. <<>> \in Seq(Row) /\ <<>> \in Seq(Requests) /\ Len(<<>>) = 0
  BY EmptySeq
<1>2. /\ queryCh \in Seq(Row) /\ queryBuf \in Seq(Row) /\ log \in Seq(Row)
      /\ Len(queryCh) <= FlushBatchSize /\ futureResp \in Seq(Requests)
  BY <1>1, WalAssumption DEF Init
<1>3. /\ pc \in [Requests -> {"idle"} \cup InWal \cup Finished]
      /\ lsnOf \in [Requests -> Nat] /\ lsnID \in Nat
      /\ answer \in [Requests -> {"none", "ok", "err"}]
  BY DEF Init
<1>4. store \in [Keys -> Values \cup {Absent}] /\ crashes \in 0..MaxCrashes
  BY WalAssumption DEF Init, EmptyStore
<1>5. /\ phase \in {"restoring", "up", "down"} /\ pos \in Nat \ {0}
      /\ worker \in {"select", "drain", "write", "lastWrite", "answer", "lastAnswer", "stopped"}
  BY DEF Init
<1>6. flushErr \in BOOLEAN /\ smLocked \in BOOLEAN /\ ctxDone \in BOOLEAN
  BY Zenon DEF Init
<1> QED
  BY <1>2, <1>3, <1>4, <1>5, <1>6 DEF TypeOK

\* Every step of Execute, the worker and the process keeps the types.
LEMMA TypeStep == TypeOK /\ [Next]_vars => TypeOK'
<1> SUFFICES ASSUME TypeOK, [Next]_vars PROVE TypeOK'
  OBVIOUS
<1>a. <<>> \in Seq(Row) /\ <<>> \in Seq(Requests) /\ Len(<<>>) = 0
  BY EmptySeq
<1> USE WalAssumption DEF TypeOK, clientVars, futureVars, workerVars, nodeVars, InWal, Finished
<1>1. ASSUME NEW r \in Requests, WriteCanceled(r) PROVE TypeOK'
  BY <1>1 DEF WriteCanceled, Goto
<1>2. ASSUME NEW r \in Requests, TakeLsn(r) PROVE TypeOK'
  BY <1>2 DEF TakeLsn, Goto
<1>3. ASSUME NEW r \in Requests, Send(r) PROVE TypeOK'
  BY <1>3 DEF Send, Goto, RowOf, Row
<1>4. ASSUME NEW r \in Requests, Register(r) PROVE TypeOK'
  BY <1>4 DEF Register, Goto
<1>5. ASSUME NEW r \in Requests, GetAnswer(r) PROVE TypeOK'
  BY <1>5 DEF GetAnswer, Goto
<1>6. ASSUME NEW r \in Requests, Timeout(r) PROVE TypeOK'
  BY <1>6 DEF Timeout, Goto
<1>7. ASSUME NEW r \in Requests, Exec(r) PROVE TypeOK'
  BY <1>7, Zenon DEF Exec, Goto, exec
<1>8. CASE Receive
  BY <1>8 DEF Receive, LoopTop
<1>9. CASE Tick
  BY <1>9 DEF Tick
<1>10. CASE SeeCancel
  BY <1>10 DEF SeeCancel
<1>11. CASE Drain
  <2>1. CASE queryCh # <<>>
    <3>1. /\ queryBuf' = Append(queryBuf, Head(queryCh)) /\ queryCh' = Tail(queryCh)
          /\ UNCHANGED <<clientVars, lsnID, futureVars, worker, flushErr, smLocked,
                         nodeVars, store, log>>
      BY <1>11, <2>1 DEF Drain
    <3>2. queryBuf' \in Seq(Row) /\ queryCh' \in Seq(Row) /\ Len(queryCh') <= FlushBatchSize
      BY <2>1, <3>1
    <3> QED
      BY <3>1, <3>2
  <2>2. CASE queryCh = <<>>
    BY <1>11, <2>2 DEF Drain
  <2> QED
    BY <2>1, <2>2
<1>12. CASE FlushOk
  <2>1. log \o queryBuf \in Seq(Row)
    BY ConcatProperties
  <2> QED
    BY <1>a, <1>12, <2>1, Zenon DEF FlushOk, ToAnswer
<1>13. CASE FlushMarshalError
  BY <1>13 DEF FlushMarshalError, ToAnswer
<1>14. CASE FlushIOError
  <2>1. \A n \in 0..Len(queryBuf) : log \o SubSeq(queryBuf, 1, n) \in Seq(Row)
    BY ConcatProperties, PrefixProperties
  <2> QED
    BY <1>14, <2>1 DEF FlushIOError
<1>15. CASE FlushAnswer
  BY <1>15 DEF FlushAnswer, PutAll, LoopTop
<1>16. CASE RestoreNext
  <2>1. log[pos] \in Row
    BY <1>16, ElementOfSeq DEF RestoreNext
  <2>2. log[pos].lsn \in Nat /\ log[pos].req \in Requests
    BY <2>1 DEF Row
  <2> QED
    BY <1>16, <2>2 DEF RestoreNext, exec, LastLsnID
<1>17. CASE RestoreDone
  BY <1>17 DEF RestoreDone
<1>18. CASE Cancel
  BY <1>18 DEF Cancel
<1>19. CASE Halt
  <2>1. \A n \in 0..Len(queryBuf) : log \o SubSeq(queryBuf, 1, n) \in Seq(Row)
    BY ConcatProperties, PrefixProperties
  <2>2. log' \in Seq(Row)
    BY <1>19, <2>1 DEF Halt
  <2>3. /\ queryCh' \in Seq(Row) /\ queryBuf' \in Seq(Row)
        /\ Len(queryCh') <= FlushBatchSize /\ futureResp' \in Seq(Requests)
    BY <1>a, <1>19 DEF Halt
  <2>4. /\ pc' \in [Requests -> {"idle"} \cup InWal \cup Finished]
        /\ lsnOf' \in [Requests -> Nat] /\ lsnID' \in Nat
        /\ answer' \in [Requests -> {"none", "ok", "err"}]
    BY <1>19 DEF Halt
  <2>5. store' \in [Keys -> Values \cup {Absent}] /\ crashes' \in 0..MaxCrashes
    BY <1>19 DEF Halt, EmptyStore
  <2>6. /\ phase' \in {"restoring", "up", "down"} /\ pos' \in Nat \ {0}
        /\ worker' \in {"select", "drain", "write", "lastWrite", "answer", "lastAnswer", "stopped"}
    BY <1>19 DEF Halt
  <2>7. flushErr' \in BOOLEAN /\ smLocked' \in BOOLEAN /\ ctxDone' \in BOOLEAN
    BY <1>19, Zenon DEF Halt
  <2> QED
    BY <2>2, <2>3, <2>4, <2>5, <2>6, <2>7
<1>20. CASE Restart
  BY <1>20 DEF Restart
<1>21. CASE UNCHANGED vars
  BY <1>21 DEF vars
<1> QED
  BY <1>1, <1>2, <1>3, <1>4, <1>5, <1>6, <1>7, <1>8, <1>9, <1>10, <1>11, <1>12, <1>13,
     <1>14, <1>15, <1>16, <1>17, <1>18, <1>19, <1>20, <1>21, Zenon
     DEF Next, Client, Worker, Flush, Process, Crash, Exit, Idle

\* The type invariant of the write path.
THEOREM TypeCorrect == Spec => []TypeOK
  BY TypeInit, TypeStep, PTL DEF Spec
-----------------------------------------------------------------------------
(***************************************************************************)
(* LSNs.  An LSN is handed out once, and from then on is held by one       *)
(* request that still has to queue its row, or by one row in one of the    *)
(* channel, the buffer and the log.  After a failed write rows may be both *)
(* in the buffer and in the log, but then the worker is stuck (smLocked).  *)
(***************************************************************************)
Distinct(s) == \A i, j \in 1..Len(s) : s[i].lsn = s[j].lsn => i = j
Apart(s, t) == \A i \in 1..Len(s), j \in 1..Len(t) : s[i].lsn # t[j].lsn
Free(s, n)  == \A i \in 1..Len(s) : s[i].lsn # n
AtMost(s, n) == \A i \in 1..Len(s) : s[i].lsn <= n

LsnInv ==
  /\ Distinct(log) /\ Distinct(queryBuf) /\ Distinct(queryCh)
  /\ Apart(log, queryCh) /\ Apart(queryBuf, queryCh)
  /\ ~smLocked => Apart(log, queryBuf)
  /\ \A r \in Requests : pc[r] = "send" =>
        /\ lsnOf[r] <= lsnID
        /\ Free(log, lsnOf[r]) /\ Free(queryBuf, lsnOf[r]) /\ Free(queryCh, lsnOf[r])
        /\ \A q \in Requests : pc[q] = "send" /\ lsnOf[q] = lsnOf[r] => q = r
  /\ phase = "up" => AtMost(log, lsnID) /\ AtMost(queryBuf, lsnID) /\ AtMost(queryCh, lsnID)
  /\ phase = "restoring" => \A i \in 1..Len(log) : i < pos => log[i].lsn <= lsnID
  /\ phase = "down" => pos = 1
  /\ phase # "up" =>
        /\ queryCh = <<>> /\ queryBuf = <<>> /\ ~smLocked
        /\ \A r \in Requests : pc[r] \notin InWal

\* The empty sequence has all the properties of LsnInv.
LEMMA EmptyLsn ==
  ASSUME NEW s \in Seq(Row), NEW n \in Nat
  PROVE  Distinct(<<>>) /\ Apart(s, <<>>) /\ Apart(<<>>, s) /\ Free(<<>>, n) /\ AtMost(<<>>, n)
  BY DEF Distinct, Apart, Free, AtMost

\* The properties of LsnInv for the concatenation a flush puts on disk.
LEMMA ConcatLsn ==
  ASSUME NEW s \in Seq(Row), NEW t \in Seq(Row), NEW u \in Seq(Row), NEW n \in Nat
  PROVE  /\ Distinct(s) /\ Distinct(t) /\ Apart(s, t) => Distinct(s \o t)
         /\ Apart(s, u) /\ Apart(t, u) => Apart(s \o t, u)
         /\ Free(s, n) /\ Free(t, n) => Free(s \o t, n)
         /\ AtMost(s, n) /\ AtMost(t, n) => AtMost(s \o t, n)
<1> DEFINE c == s \o t
<1>1. /\ c \in Seq(Row) /\ Len(c) = Len(s) + Len(t)
      /\ \A i \in 1..Len(c) :
            \/ i \in 1..Len(s) /\ c[i] = s[i]
            \/ i - Len(s) \in 1..Len(t) /\ c[i] = t[i - Len(s)]
  <2>1. c \in Seq(Row) /\ Len(c) = Len(s) + Len(t) /\ Len(s) \in Nat /\ Len(t) \in Nat
    BY ConcatProperties, LenProperties
  <2>2. \A i \in 1..Len(s) + Len(t) : c[i] = IF i <= Len(s) THEN s[i] ELSE t[i - Len(s)]
    BY ConcatProperties
  <2> HIDE DEF c
  <2>3. ASSUME NEW i \in 1..Len(c)
        PROVE  \/ i \in 1..Len(s) /\ c[i] = s[i]
               \/ i - Len(s) \in 1..Len(t) /\ c[i] = t[i - Len(s)]
    <3>1. i \in 1..Len(s) + Len(t)
      BY <2>1
    <3>2. CASE i <= Len(s)
      BY <2>1, <2>2, <3>1, <3>2
    <3>3. CASE ~(i <= Len(s))
      BY <2>1, <2>2, <3>1, <3>3
    <3> QED
      BY <3>2, <3>3
  <2> QED
    BY <2>1, <2>3
<1> HIDE DEF c
<1>2. ASSUME Distinct(s), Distinct(t), Apart(s, t) PROVE Distinct(c)
  <2> SUFFICES ASSUME NEW i \in 1..Len(c), NEW j \in 1..Len(c), c[i].lsn = c[j].lsn
               PROVE  i = j
    BY DEF Distinct
  <2>1. Len(s) \in Nat /\ Len(t) \in Nat
    BY LenProperties
  <2>2. CASE i \in 1..Len(s) /\ c[i] = s[i]
    <3>1. CASE j \in 1..Len(s) /\ c[j] = s[j]
      BY <1>2, <2>2, <3>1, Zenon DEF Distinct
    <3>2. CASE j - Len(s) \in 1..Len(t) /\ c[j] = t[j - Len(s)]
      BY <1>2, <2>2, <3>2, Zenon DEF Apart
    <3> QED
      BY <1>1, <3>1, <3>2, Zenon
  <2>3. CASE i - Len(s) \in 1..Len(t) /\ c[i] = t[i - Len(s)]
    <3>1. CASE j \in 1..Len(s) /\ c[j] = s[j]
      BY <1>2, <2>3, <3>1 DEF Apart
    <3>2. CASE j - Len(s) \in 1..Len(t) /\ c[j] = t[j - Len(s)]
      <4>1. i - Len(s) = j - Len(s)
        BY <1>2, <2>3, <3>2 DEF Distinct
      <4> QED
        BY <4>1, <2>1, <1>1
    <3> QED
      BY <1>1, <3>1, <3>2
  <2> QED
    BY <1>1, <2>2, <2>3
<1>3. Apart(s, u) /\ Apart(t, u) => Apart(c, u)
  BY <1>1, Zenon DEF Apart
<1>4. Free(s, n) /\ Free(t, n) => Free(c, n)
  BY <1>1, Zenon DEF Free
<1>5. AtMost(s, n) /\ AtMost(t, n) => AtMost(c, n)
  BY <1>1 DEF AtMost
<1> QED
  BY <1>2, <1>3, <1>4, <1>5 DEF c

\* ... and for a prefix of the buffer, after a failed or interrupted write.
LEMMA PrefixLsn ==
  ASSUME NEW t \in Seq(Row), NEW u \in Seq(Row), NEW n \in Nat, NEW m \in 0..Len(t)
  PROVE  /\ SubSeq(t, 1, m) \in Seq(Row)
         /\ Distinct(t) => Distinct(SubSeq(t, 1, m))
         /\ Apart(u, t) => Apart(u, SubSeq(t, 1, m))
         /\ Apart(t, u) => Apart(SubSeq(t, 1, m), u)
         /\ Free(t, n) => Free(SubSeq(t, 1, m), n)
         /\ AtMost(t, n) => AtMost(SubSeq(t, 1, m), n)
<1> DEFINE p == SubSeq(t, 1, m)
<1>1. p \in Seq(Row) /\ Len(p) = m /\ \A i \in 1..m : i \in 1..Len(t) /\ p[i] = t[i]
  BY PrefixProperties
<1> HIDE DEF p
<1>2. /\ Distinct(t) => Distinct(p)
      /\ Apart(u, t) => Apart(u, p)
      /\ Apart(t, u) => Apart(p, u)
      /\ Free(t, n) => Free(p, n)
      /\ AtMost(t, n) => AtMost(p, n)
  BY <1>1, Zenon DEF Distinct, Apart, Free, AtMost
<1> QED
  BY <1>1, <1>2 DEF p

\* ... and for the channel after a receive: its head is apart from the rest.
LEMMA TailLsn ==
  ASSUME NEW t \in Seq(Row), t # <<>>, NEW u \in Seq(Row), NEW n \in Nat
  PROVE  /\ Head(t) \in Row /\ Tail(t) \in Seq(Row)
         /\ Distinct(t) => Distinct(Tail(t)) /\ Free(Tail(t), Head(t).lsn)
         /\ Apart(u, t) => Apart(u, Tail(t)) /\ Free(u, Head(t).lsn)
         /\ Free(t, n) => Free(Tail(t), n) /\ Head(t).lsn # n
         /\ AtMost(t, n) => AtMost(Tail(t), n) /\ Head(t).lsn <= n
<1> DEFINE h == Head(t)
           w == Tail(t)
<1>1. /\ h \in Row /\ w \in Seq(Row) /\ Len(w) = Len(t) - 1 /\ h = t[1] /\ 1 \in 1..Len(t)
      /\ \A i \in 1..Len(w) : i + 1 \in 1..Len(t) /\ w[i] = t[i + 1]
  BY HeadTailProperties
<1> HIDE DEF h, w
<1>a. Len(t) \in Nat
  BY LenProperties
<1>2. Distinct(t) => Distinct(w) /\ Free(w, h.lsn)
  <2> SUFFICES ASSUME \A i, j \in 1..Len(t) : t[i].lsn = t[j].lsn => i = j
               PROVE  /\ \A i, j \in 1..Len(w) : w[i].lsn = w[j].lsn => i = j
                      /\ \A i \in 1..Len(w) : w[i].lsn # h.lsn
    BY DEF Distinct, Free
  <2>1. ASSUME NEW i \in 1..Len(w), NEW j \in 1..Len(w), w[i].lsn = w[j].lsn PROVE i = j
    <3>1. i + 1 = j + 1
      BY <1>1, <2>1
    <3> QED
      BY <3>1, <1>1, <1>a
  <2>2. ASSUME NEW i \in 1..Len(w), w[i].lsn = h.lsn PROVE FALSE
    <3>1. i + 1 = 1
      BY <1>1, <2>2
    <3> QED
      BY <3>1, <1>1, <1>a
  <2> QED
    BY <2>1, <2>2
<1>4. Apart(u, t) => Apart(u, w) /\ Free(u, h.lsn)
  BY <1>1, Zenon DEF Apart, Free
<1>3. /\ Free(t, n) => Free(w, n) /\ h.lsn # n
      /\ AtMost(t, n) => AtMost(w, n) /\ h.lsn <= n
  BY <1>1, Zenon DEF Free, AtMost
<1> QED
  BY <1>1, <1>2, <1>3, <1>4 DEF h, w

\* ... and for a row appended to the channel or to the buffer.
LEMMA AppendLsn ==
  ASSUME NEW s \in Seq(Row), NEW e \in Row, NEW u \in Seq(Row), NEW n \in Nat
  PROVE  /\ Append(s, e) \in Seq(Row)
         /\ Distinct(s) /\ Free(s, e.lsn) => Distinct(Append(s, e))
         /\ Apart(u, s) /\ Free(u, e.lsn) => Apart(u, Append(s, e))
         /\ Apart(s, u) /\ Free(u, e.lsn) => Apart(Append(s, e), u)
         /\ Free(s, n) /\ e.lsn # n => Free(Append(s, e), n)
         /\ AtMost(s, n) /\ e.lsn <= n => AtMost(Append(s, e), n)
<1> DEFINE a == Append(s, e)
<1>1. /\ a \in Seq(Row) /\ Len(a) = Len(s) + 1
      /\ \A i \in 1..Len(a) :
            \/ i \in 1..Len(s) /\ a[i] = s[i]
            \/ i = Len(s) + 1 /\ a[i] = e
  <2>1. a \in Seq(Row) /\ Len(a) = Len(s) + 1 /\ Len(s) \in Nat
    BY AppendProperties, LenProperties
  <2>2. (\A i \in 1..Len(s) : a[i] = s[i]) /\ a[Len(s) + 1] = e
    BY AppendProperties
  <2> HIDE DEF a
  <2>3. ASSUME NEW i \in 1..Len(a)
        PROVE  \/ i \in 1..Len(s) /\ a[i] = s[i]
               \/ i = Len(s) + 1 /\ a[i] = e
    BY <2>1, <2>2
  <2> QED
    BY <2>1, <2>3
<1> HIDE DEF a
<1>2. /\ Distinct(s) /\ Free(s, e.lsn) => Distinct(a)
      /\ Apart(u, s) /\ Free(u, e.lsn) => Apart(u, a)
      /\ Apart(s, u) /\ Free(u, e.lsn) => Apart(a, u)
  BY <1>1, Zenon DEF Distinct, Apart, Free
<1>3. /\ Free(s, n) /\ e.lsn # n => Free(a, n)
      /\ AtMost(s, n) /\ e.lsn <= n => AtMost(a, n)
  BY <1>1, Zenon DEF Free, AtMost
<1> QED
  BY <1>1, <1>2, <1>3 DEF a

\* The mutex of the segment manager stays locked only under the worker's
\* feet: it is held across the retry of the write that failed.
LockInv == smLocked => phase = "up" /\ Writing /\ ~Poisoned

\* Every step keeps the mutex with the write that failed.
LEMMA LockStep == TypeOK /\ LockInv /\ [Next]_vars => LockInv'
<1> SUFFICES ASSUME TypeOK, LockInv, [Next]_vars, smLocked'
             PROVE  (phase = "up" /\ Writing /\ ~Poisoned)'
  BY DEF LockInv
<1> USE DEF clientVars, futureVars, workerVars, nodeVars
<1>1. CASE UNCHANGED <<phase, worker, queryBuf, smLocked>>
  BY <1>1 DEF LockInv, Writing, Poisoned
<1>2. CASE Receive \/ Tick \/ SeeCancel \/ Drain \/ FlushOk \/ FlushMarshalError \/ FlushAnswer
  BY <1>2, Zenon DEF Receive, Tick, SeeCancel, Drain, FlushOk, FlushMarshalError, FlushAnswer,
              LockInv, Writing
<1>3. CASE FlushIOError
  BY <1>3 DEF FlushIOError, Writing, Poisoned
<1>4. CASE Halt
  BY <1>4 DEF Halt
<1>5. CASE RestoreDone \/ Restart
  BY <1>5, Zenon DEF RestoreDone, Restart, LockInv
<1> QED
  BY <1>1, <1>2, <1>3, <1>4, <1>5, Zenon
     DEF Next, Client, Worker, Flush, Process, Crash, Exit, Idle, WriteCanceled, TakeLsn, Send,
         Register, GetAnswer, Timeout, Exec, RestoreNext, Cancel, Restart, vars

\* The fresh node satisfies the invariant: there are no rows.
LEMMA LsnInit == Init => LsnInv
<1> SUFFICES ASSUME Init PROVE LsnInv
  OBVIOUS
<1>1. <<>> \in Seq(Row)
  BY EmptySeq
<1>2. /\ log = <<>> /\ queryBuf = <<>> /\ queryCh = <<>> /\ ~smLocked
      /\ phase = "restoring" /\ \A r \in Requests : pc[r] = "idle"
  BY DEF Init
<1>3. Distinct(<<>>) /\ Apart(<<>>, <<>>)
  BY <1>1, EmptyLsn, Zenon
<1>4. \A i \in 1..Len(<<>>) : FALSE
  OBVIOUS
<1> QED
  BY <1>2, <1>3, <1>4 DEF LsnInv, InWal

\* A step that leaves the queues, the LSNs and the phase alone and lets no
\* request reach "send".
LEMMA LsnFrame ==
  ASSUME LsnInv, TypeOK,
         UNCHANGED <<log, queryBuf, queryCh, smLocked, lsnOf, lsnID, phase, pos>>,
         \A r \in Requests : pc'[r] = pc[r] \/ (phase = "up" /\ pc'[r] # "send")
  PROVE  LsnInv'
  BY DEF LsnInv

\* Every step keeps the LSNs of the rows apart and below the generator.
LEMMA LsnStep == TypeOK /\ LockInv /\ LsnInv /\ [Next]_vars => LsnInv'
<1> SUFFICES ASSUME TypeOK, LockInv, LsnInv, [Next]_vars PROVE LsnInv'
  OBVIOUS
<1> USE DEF clientVars, futureVars, workerVars, nodeVars
<1>0. TypeOK'
  BY TypeStep
<1>a. <<>> \in Seq(Row)
  BY EmptySeq
<1>1. ASSUME NEW r \in Requests,
             WriteCanceled(r) \/ Register(r) \/ GetAnswer(r) \/ Timeout(r) \/ Exec(r)
      PROVE  LsnInv'
  <2>1. /\ UNCHANGED <<log, queryBuf, queryCh, smLocked, lsnOf, lsnID, phase, pos>>
        /\ phase = "up"
        /\ \E p \in {"err", "wait", "exec", "rejected", "ok"} : pc' = [pc EXCEPT ![r] = p]
    BY <1>1 DEF WriteCanceled, Register, GetAnswer, Timeout, Exec, Goto
  <2>2. \A q \in Requests : pc'[q] = pc[q] \/ (phase = "up" /\ pc'[q] # "send")
    BY <2>1 DEF TypeOK
  <2> QED
    BY <2>1, <2>2, LsnFrame
<1>2. ASSUME NEW r \in Requests, TakeLsn(r) PROVE LsnInv'
  <2>1. /\ UNCHANGED <<log, queryBuf, queryCh, smLocked, phase, pos>> /\ phase = "up"
        /\ lsnID' = lsnID + 1 /\ lsnID \in Nat
        /\ lsnOf' = [lsnOf EXCEPT ![r] = lsnID + 1] /\ pc' = [pc EXCEPT ![r] = "send"]
    BY <1>2 DEF TakeLsn, Goto, TypeOK
  <2>2. ASSUME NEW s \in Seq(Row), AtMost(s, lsnID)
        PROVE  AtMost(s, lsnID + 1) /\ Free(s, lsnID + 1)
    <3>1. ASSUME NEW i \in 1..Len(s) PROVE s[i].lsn <= lsnID + 1 /\ s[i].lsn # lsnID + 1
      <4>1. s[i].lsn \in Nat /\ s[i].lsn <= lsnID
        <5>1. s[i] \in Row
          BY ElementOfSeq
        <5> QED
          BY <2>2, <5>1 DEF AtMost, Row
      <4> QED
        BY <2>1, <4>1
    <3> QED
      BY <3>1 DEF AtMost, Free
  <2>3. log \in Seq(Row) /\ queryBuf \in Seq(Row) /\ queryCh \in Seq(Row)
    BY DEF TypeOK
  <2>4. /\ AtMost(log, lsnID') /\ AtMost(queryBuf, lsnID') /\ AtMost(queryCh, lsnID')
        /\ Free(log, lsnID') /\ Free(queryBuf, lsnID') /\ Free(queryCh, lsnID')
    BY <2>1, <2>2, <2>3 DEF LsnInv
  <2>5. ASSUME NEW q \in Requests, pc'[q] = "send"
        PROVE  /\ lsnOf'[q] <= lsnID'
               /\ Free(log, lsnOf'[q]) /\ Free(queryBuf, lsnOf'[q]) /\ Free(queryCh, lsnOf'[q])
               /\ \A p \in Requests : pc'[p] = "send" /\ lsnOf'[p] = lsnOf'[q] => p = q
    <3>1. CASE q = r
      <4>1. lsnOf'[q] = lsnID'
        BY <2>1, <3>1 DEF TypeOK
      <4>2. ASSUME NEW p \in Requests, pc'[p] = "send", p # r PROVE lsnOf'[p] # lsnID'
        BY <2>1, <4>2 DEF TypeOK, LsnInv
      <4> QED
        BY <2>1, <2>4, <3>1, <4>1, <4>2
    <3>2. CASE q # r
      <4>1. pc[q] = "send" /\ lsnOf'[q] = lsnOf[q] /\ lsnOf[q] \in Nat /\ lsnOf[q] <= lsnID
        BY <2>1, <2>5, <3>2 DEF TypeOK, LsnInv
      <4>2. ASSUME NEW p \in Requests, pc'[p] = "send", lsnOf'[p] = lsnOf'[q] PROVE p = q
        <5>1. p # r
          BY <2>1, <4>1, <4>2 DEF TypeOK
        <5>2. pc[p] = "send" /\ lsnOf[p] = lsnOf[q]
          BY <2>1, <4>1, <4>2, <5>1 DEF TypeOK
        <5> QED
          BY <4>1, <5>2 DEF LsnInv
      <4> QED
        BY <2>1, <4>1, <4>2 DEF LsnInv
    <3> QED
      BY <3>1, <3>2
  <2> QED
    BY <2>1, <2>4, <2>5 DEF LsnInv
<1>3. ASSUME NEW r \in Requests, Send(r) PROVE LsnInv'
  <2> DEFINE e == RowOf(r)
  <2>1. /\ UNCHANGED <<log, queryBuf, smLocked, phase, pos, lsnOf, lsnID>> /\ phase = "up"
        /\ pc[r] = "send" /\ pc' = [pc EXCEPT ![r] = "register"]
        /\ queryCh' = Append(queryCh, e)
    BY <1>3 DEF Send, Goto
  <2>2. /\ e \in Row /\ e.lsn = lsnOf[r] /\ lsnOf[r] \in Nat /\ lsnID \in Nat
        /\ log \in Seq(Row) /\ queryBuf \in Seq(Row) /\ queryCh \in Seq(Row)
    BY DEF TypeOK, RowOf, Row
  <2>3. /\ e.lsn <= lsnID
        /\ Free(log, e.lsn) /\ Free(queryBuf, e.lsn) /\ Free(queryCh, e.lsn)
        /\ \A q \in Requests : pc[q] = "send" /\ lsnOf[q] = e.lsn => q = r
    BY <2>1, <2>2 DEF LsnInv
  <2> HIDE DEF e
  <2>4. Distinct(queryCh') /\ Apart(log, queryCh') /\ Apart(queryBuf, queryCh')
    BY <2>1, <2>2, <2>3, AppendLsn DEF LsnInv
  <2>5. AtMost(queryCh', lsnID)
    BY <2>1, <2>2, <2>3, AppendLsn DEF LsnInv
  <2>6. ASSUME NEW q \in Requests, pc'[q] = "send"
        PROVE  pc[q] = "send" /\ Free(queryCh', lsnOf[q])
    <3>1. pc[q] = "send" /\ q # r /\ lsnOf[q] \in Nat
      BY <2>1, <2>6 DEF TypeOK
    <3>2. e.lsn # lsnOf[q] /\ Free(queryCh, lsnOf[q])
      BY <2>3, <3>1 DEF LsnInv
    <3> QED
      BY <2>1, <2>2, <3>1, <3>2, AppendLsn
  <2> QED
    BY <2>1, <2>4, <2>5, <2>6 DEF LsnInv
<1>4. ASSUME phase = "up", queryCh # <<>>,
             queryBuf' = Append(queryBuf, Head(queryCh)), queryCh' = Tail(queryCh),
             worker \in {"select", "drain"},
             UNCHANGED <<pc, lsnOf, lsnID, smLocked, phase, pos, log>>
      PROVE  LsnInv'
  <2> DEFINE e == Head(queryCh)
  <2>1. /\ log \in Seq(Row) /\ queryBuf \in Seq(Row) /\ queryCh \in Seq(Row)
        /\ lsnID \in Nat /\ ~smLocked /\ lsnOf \in [Requests -> Nat]
    BY <1>4 DEF TypeOK, LockInv, Writing
  <2>2. /\ e \in Row /\ Tail(queryCh) \in Seq(Row) /\ e.lsn \in Nat
        /\ Distinct(Tail(queryCh)) /\ Free(Tail(queryCh), e.lsn)
        /\ Apart(log, Tail(queryCh)) /\ Free(log, e.lsn)
        /\ Apart(queryBuf, Tail(queryCh)) /\ Free(queryBuf, e.lsn)
        /\ AtMost(Tail(queryCh), lsnID) /\ e.lsn <= lsnID
    BY <1>4, <2>1, TailLsn, Zenon DEF LsnInv, Row
  <2>3. \A q \in Requests : pc[q] = "send" =>
            Free(Tail(queryCh), lsnOf[q]) /\ e.lsn # lsnOf[q] /\ Free(queryBuf, lsnOf[q])
    BY <1>4, <2>1, TailLsn DEF LsnInv
  <2> HIDE DEF e
  <2>4. /\ Distinct(queryBuf') /\ Apart(log, queryBuf') /\ Apart(queryBuf', queryCh')
        /\ AtMost(queryBuf', lsnID)
    BY <1>4, <2>1, <2>2, AppendLsn, Zenon DEF LsnInv, e
  <2>5. \A q \in Requests : pc[q] = "send" => Free(queryBuf', lsnOf[q])
    BY <1>4, <2>1, <2>2, <2>3, AppendLsn DEF e
  <2> QED
    BY <1>4, <2>2, <2>3, <2>4, <2>5 DEF LsnInv
<1>5. CASE Receive \/ Drain
  <2>1. CASE UNCHANGED <<queryCh, queryBuf>>
    <3>1. /\ UNCHANGED <<log, queryBuf, queryCh, smLocked, lsnOf, lsnID, phase, pos>>
          /\ \A r \in Requests : pc'[r] = pc[r]
      BY <1>5, <2>1 DEF Receive, Drain
    <3> QED
      BY <3>1, LsnFrame
  <2>2. CASE ~ UNCHANGED <<queryCh, queryBuf>>
    BY <1>4, <1>5, <2>2 DEF Receive, Drain
  <2> QED
    BY <2>1, <2>2
<1>6. CASE Tick \/ SeeCancel \/ FlushMarshalError \/ FlushAnswer \/ Cancel \/ UNCHANGED vars
  <2>1. /\ UNCHANGED <<log, queryBuf, queryCh, smLocked, lsnOf, lsnID, phase, pos>>
        /\ \A r \in Requests : pc'[r] = pc[r]
    BY <1>6 DEF Tick, SeeCancel, FlushMarshalError, FlushAnswer, Cancel, vars
  <2> QED
    BY <2>1, LsnFrame
<1>7. ASSUME NEW n \in 0..Len(queryBuf), ~smLocked, phase = "up",
             log' = log \o SubSeq(queryBuf, 1, n)
      PROVE  /\ Distinct(log') /\ Apart(log', queryCh) /\ AtMost(log', lsnID)
             /\ \A r \in Requests : pc[r] = "send" => Free(log', lsnOf[r])
  <2> DEFINE p == SubSeq(queryBuf, 1, n)
  <2>1. /\ log \in Seq(Row) /\ queryBuf \in Seq(Row) /\ queryCh \in Seq(Row)
        /\ lsnID \in Nat /\ lsnOf \in [Requests -> Nat]
    BY DEF TypeOK
  <2>2. /\ p \in Seq(Row) /\ Distinct(p) /\ Apart(log, p) /\ Apart(p, queryCh) /\ AtMost(p, lsnID)
        /\ \A r \in Requests : pc[r] = "send" => Free(p, lsnOf[r])
    BY <1>7, <2>1, PrefixLsn DEF LsnInv
  <2>3. log' = log \o p
    BY <1>7
  <2> HIDE DEF p
  <2>4. Distinct(log') /\ Apart(log', queryCh) /\ AtMost(log', lsnID)
    <3>1. Distinct(log) /\ Apart(log, queryCh) /\ AtMost(log, lsnID)
      BY <1>7 DEF LsnInv
    <3>2. Distinct(log \o p)
      BY <2>1, <2>2, <3>1, ConcatLsn
    <3>3. Apart(log \o p, queryCh)
      BY <2>1, <2>2, <3>1, ConcatLsn
    <3>4. AtMost(log \o p, lsnID)
      BY <2>1, <2>2, <3>1, ConcatLsn
    <3> QED
      BY <2>3, <3>2, <3>3, <3>4
  <2>5. \A r \in Requests : pc[r] = "send" => Free(log', lsnOf[r])
    BY <2>1, <2>2, <2>3, ConcatLsn DEF LsnInv
  <2> QED
    BY <2>4, <2>5
<1>8. CASE FlushOk
  <2>1. /\ phase = "up" /\ ~smLocked /\ log' = log \o queryBuf /\ queryBuf' = <<>>
        /\ UNCHANGED <<pc, lsnOf, lsnID, queryCh, smLocked, phase, pos>>
    BY <1>8 DEF FlushOk
  <2>2. SubSeq(queryBuf, 1, Len(queryBuf)) = queryBuf /\ Len(queryBuf) \in 0..Len(queryBuf)
    BY SubSeqFull, LenProperties DEF TypeOK
  <2>3. /\ Distinct(log') /\ Apart(log', queryCh) /\ AtMost(log', lsnID)
        /\ \A r \in Requests : pc[r] = "send" => Free(log', lsnOf[r])
    BY <1>7, <2>1, <2>2
  <2>4. /\ Distinct(<<>>) /\ Apart(<<>>, queryCh) /\ Apart(log', <<>>) /\ AtMost(<<>>, lsnID)
        /\ \A r \in Requests : Free(<<>>, lsnOf[r])
    BY <1>0, EmptyLsn DEF TypeOK
  <2> QED
    BY <2>1, <2>3, <2>4 DEF LsnInv
<1>9. CASE FlushIOError
  <2>1. /\ phase = "up" /\ ~smLocked /\ smLocked' = TRUE
        /\ \E n \in 0..Len(queryBuf) : log' = log \o SubSeq(queryBuf, 1, n)
        /\ UNCHANGED <<pc, lsnOf, lsnID, queryCh, queryBuf, phase, pos>>
    BY <1>9 DEF FlushIOError
  <2>2. /\ Distinct(log') /\ Apart(log', queryCh) /\ AtMost(log', lsnID)
        /\ \A r \in Requests : pc[r] = "send" => Free(log', lsnOf[r])
    BY <1>7, <2>1
  <2> QED
    BY <2>1, <2>2 DEF LsnInv
<1>10. CASE RestoreNext
  <2>1. /\ phase = "restoring" /\ pos \in 1..Len(log) /\ lsnID' = LastLsnID(lsnID, log[pos])
        /\ pos' = pos + 1 /\ UNCHANGED <<pc, lsnOf, queryCh, queryBuf, smLocked, phase, log>>
    BY <1>10 DEF RestoreNext, TypeOK
  <2>2. log[pos] \in Row /\ lsnID \in Nat
    BY <2>1, ElementOfSeq DEF TypeOK
  <2>3. lsnID' \in Nat /\ lsnID <= lsnID' /\ log[pos].lsn <= lsnID'
    BY <2>1, <2>2 DEF LastLsnID, Row
  <2>4. ASSUME NEW i \in 1..Len(log), i < pos' PROVE log[i].lsn <= lsnID'
    <3>1. CASE i = pos
      BY <2>3, <3>1
    <3>2. CASE i # pos
      <4>1. i < pos
        BY <2>1, <2>4, <3>2
      <4>2. log[i].lsn <= lsnID
        BY <2>1, <4>1 DEF LsnInv
      <4>3. log[i] \in Row
        BY ElementOfSeq DEF TypeOK
      <4> QED
        BY <2>2, <2>3, <4>2, <4>3 DEF Row
    <3> QED
      BY <3>1, <3>2
  <2>5. \A r \in Requests : pc[r] # "send"
    BY <2>1 DEF LsnInv, InWal
  <2> QED
    BY <2>1, <2>4, <2>5 DEF LsnInv
<1>11. CASE RestoreDone
  <2>1. /\ phase = "restoring" /\ pos > Len(log) /\ phase' = "up"
        /\ UNCHANGED <<pc, lsnOf, lsnID, queryCh, queryBuf, smLocked, pos, log>>
    BY <1>11 DEF RestoreDone
  <2>2. AtMost(log, lsnID)
    <3>1. Len(log) \in Nat /\ pos \in Nat
      BY LenProperties DEF TypeOK
    <3>2. \A i \in 1..Len(log) : i < pos
      BY <2>1, <3>1
    <3> QED
      BY <2>1, <3>2 DEF LsnInv, AtMost
  <2>3. AtMost(queryBuf, lsnID) /\ AtMost(queryCh, lsnID)
    BY <2>1, <1>a, EmptyLsn DEF LsnInv, TypeOK
  <2>4. \A r \in Requests : pc[r] # "send"
    BY <2>1 DEF LsnInv, InWal
  <2> QED
    BY <2>1, <2>2, <2>3, <2>4 DEF LsnInv
<1>12. CASE Halt
  <2>1. PICK n \in 0..Len(queryBuf) :
          /\ n > 0 => Writing /\ ~Poisoned /\ ~smLocked
          /\ log' = log \o SubSeq(queryBuf, 1, n)
    BY <1>12 DEF Halt
  <2>2. Distinct(log')
    <3>1. CASE n = 0
      <4>1. SubSeq(queryBuf, 1, n) = <<>>
        BY <3>1, SubSeqEmpty
      <4>2. log' = log
        BY <2>1, <4>1, ConcatEmptySeq, Zenon DEF TypeOK
      <4> QED
        BY <4>2 DEF LsnInv
    <3>2. CASE n > 0 /\ phase = "up"
      BY <1>7, <2>1, <3>2
    <3>3. CASE n > 0 /\ phase # "up"
      BY <3>3, <1>a, EmptySeq DEF LsnInv
    <3> QED
      BY <3>1, <3>2, <3>3
  <2>3. /\ queryCh' = <<>> /\ queryBuf' = <<>> /\ ~smLocked' /\ phase' = "down" /\ pos' = 1
        /\ pc' = [r \in Requests |-> IF pc[r] \in InWal THEN "lost" ELSE pc[r]]
    BY <1>12 DEF Halt
  <2>4. Distinct(<<>>) /\ Apart(log', <<>>) /\ Apart(<<>>, <<>>)
    BY <1>0, <1>a, EmptyLsn, Zenon DEF TypeOK
  <2>5. \A r \in Requests : pc'[r] \notin InWal
    BY <2>3 DEF InWal
  <2> QED
    BY <2>2, <2>3, <2>4, <2>5 DEF LsnInv, InWal
<1>13. CASE Restart
  <2>1. /\ phase = "down" /\ phase' = "restoring"
        /\ UNCHANGED <<pc, lsnOf, lsnID, queryCh, queryBuf, smLocked, pos, log>>
    BY <1>13 DEF Restart
  <2>2. \A i \in 1..Len(log) : ~(i < pos)
    <3>1. pos = 1
      BY <2>1, Zenon DEF LsnInv
    <3> QED
      BY <3>1
  <2> QED
    BY <2>1, <2>2 DEF LsnInv
<1> QED
  BY <1>1, <1>2, <1>3, <1>5, <1>6, <1>8, <1>9, <1>10, <1>11, <1>12, <1>13
     DEF Next, Client, Worker, Flush, Process, Crash, Exit, Idle

\* No two rows on disk have the same LSN, for any number of requests, any
\* batch size and any number of crashes.
THEOREM LsnUnique == Spec => []LogLsnUnique
<1>1. Init => LockInv
  BY DEF Init, LockInv
<1>2. TypeOK /\ LsnInv => LogLsnUnique
  <2> SUFFICES ASSUME TypeOK, LsnInv PROVE LogLsnUnique
    OBVIOUS
  <2>1. DOMAIN log = 1..Len(log)
    BY LenProperties DEF TypeOK
  <2> QED
    BY <2>1 DEF LsnInv, Distinct, LogLsnUnique
<1> QED
  BY <1>1, <1>2, TypeInit, TypeStep, LsnInit, LsnStep, LockStep, PTL DEF Spec

\* The rows on disk implement the append-only log the readers rely on.
THEOREM WalImplementsAppendLog == Spec => ImplementsAppendLog
<1>1. Init => DiskLog!Init
  BY DEF Init, DiskLog!Init
<1>2. TypeOK /\ TypeOK' /\ LsnInv' /\ [Next]_vars => [DiskLog!Extend]_log
  <2> SUFFICES ASSUME TypeOK, TypeOK', LsnInv', [Next]_vars, log' # log PROVE DiskLog!Extend
    OBVIOUS
  <2>1. PICK n \in 0..Len(queryBuf) : log' = log \o SubSeq(queryBuf, 1, n)
    <3>1. CASE FlushOk
      <4>1. SubSeq(queryBuf, 1, Len(queryBuf)) = queryBuf /\ Len(queryBuf) \in 0..Len(queryBuf)
        BY SubSeqFull, LenProperties DEF TypeOK
      <4> QED
        BY <3>1, <4>1, Zenon DEF FlushOk
    <3>2. CASE FlushIOError \/ Halt
      BY <3>2, Zenon DEF FlushIOError, Halt
    <3> QED
      BY <3>1, <3>2, Zenon
         DEF Next, Client, Worker, Flush, Process, Crash, Exit, Idle, WriteCanceled, TakeLsn,
             Send, Register, GetAnswer, Timeout, Exec, Receive, Tick, SeeCancel, Drain,
             FlushMarshalError, FlushAnswer, RestoreNext, RestoreDone, Cancel, Restart, vars
  <2>2. log \in Seq(Row) /\ SubSeq(queryBuf, 1, n) \in Seq(Row) /\ log' \in Seq(Row)
    BY PrefixProperties, Zenon DEF TypeOK
  <2>3. Len(log) \in Nat /\ Len(log) <= Len(log') /\ \A i \in 1..Len(log) : log'[i] = log[i]
    BY <2>1, <2>2, ConcatProperties, LenProperties
  <2>4. SubSeq(log', 1, Len(log)) = log
    <3>1. /\ SubSeq(log', 1, Len(log)) \in Seq(Row)
          /\ Len(SubSeq(log', 1, Len(log))) = Len(log)
          /\ \A i \in 1..Len(log) : SubSeq(log', 1, Len(log))[i] = log'[i]
      BY <2>2, <2>3, LenProperties, PrefixProperties
    <3> QED
      BY <2>2, <2>3, <3>1, SeqEqual
  <2>5. DiskLog!LsnUnique(log')
    BY <2>2, LenProperties DEF LsnInv, Distinct, DiskLog!LsnUnique
  <2> QED
    BY <2>3, <2>4, <2>5 DEF DiskLog!Extend
<1>3. Init => LockInv
  BY DEF Init, LockInv
<1> QED
  BY <1>1, <1>2, <1>3, TypeInit, TypeStep, LsnInit, LsnStep, LockStep, PTL
     DEF Spec, ImplementsAppendLog, DiskLog!Spec
-----------------------------------------------------------------------------
(***************************************************************************)
(* A future is answered once, an acknowledged row is never lost while the  *)
(* process lives, two action properties, and the refinement of LsnLog,     *)
(* which module Replication is built on.                                   *)
(***************************************************************************)
\* Where a row lives between Send and the disk.
Held == Range(log) \cup Range(queryBuf) \cup Range(queryCh)

\* Positions of a request that has not registered its future yet.
BeforeFuture == {"idle", "send", "register"}

\* The inductive invariant for AnsweredOnce: the futures on the list belong
\* to different requests, all past Register and none answered.
FutureInv ==
  /\ \A i, j \in 1..Len(futureResp) : futureResp[i] = futureResp[j] => i = j
  /\ \A i \in 1..Len(futureResp) : /\ answer[futureResp[i]] = "none"
                                   /\ pc[futureResp[i]] \notin BeforeFuture
  /\ \A r \in Requests : pc[r] \in BeforeFuture => answer[r] = "none"
  /\ phase # "up" => futureResp = <<>> /\ \A r \in Requests : answer[r] = "none"

\* No future exists in a fresh node.
LEMMA FutureInit == Init => FutureInv
  BY EmptySeq DEF Init, FutureInv

\* A step that leaves the futures alone and moves no request back.
LEMMA FutureFrame ==
  ASSUME TypeOK, FutureInv, UNCHANGED <<futureResp, answer>>,
         phase' = phase \/ phase' = "up" \/ phase = "down",
         \A r \in Requests : pc'[r] \in BeforeFuture => pc[r] \in BeforeFuture
  PROVE  FutureInv'
  BY ElementOfSeq DEF FutureInv, TypeOK

\* Every step of Write, flush and the process keeps FutureInv.
LEMMA FutureStep == TypeOK /\ FutureInv /\ [Next]_vars => FutureInv'
<1> SUFFICES ASSUME TypeOK, FutureInv, [Next]_vars PROVE FutureInv'
  OBVIOUS
<1> USE DEF clientVars, futureVars, workerVars, nodeVars
<1>1. ASSUME NEW r \in Requests,
             WriteCanceled(r) \/ TakeLsn(r) \/ Send(r) \/ GetAnswer(r) \/ Timeout(r) \/ Exec(r)
      PROVE  FutureInv'
  <2>1. /\ UNCHANGED <<futureResp, answer, phase>>
        /\ \E p \in {"err", "send", "register", "exec", "ok", "rejected"} :
              /\ pc' = [pc EXCEPT ![r] = p]
              /\ p \in BeforeFuture => pc[r] \in BeforeFuture
    BY <1>1 DEF WriteCanceled, TakeLsn, Send, GetAnswer, Timeout, Exec, Goto, BeforeFuture
  <2>2. \A q \in Requests : pc'[q] \in BeforeFuture => pc[q] \in BeforeFuture
    BY <2>1 DEF TypeOK
  <2> QED
    BY <2>1, <2>2, FutureFrame
<1>2. ASSUME NEW r \in Requests, Register(r) PROVE FutureInv'
  <2>1. /\ phase = "up" /\ phase' = "up" /\ pc[r] = "register"
        /\ futureResp' = Append(futureResp, r) /\ pc' = [pc EXCEPT ![r] = "wait"]
        /\ answer' = answer
    BY <1>2 DEF Register, Goto
  <2>2. /\ futureResp' \in Seq(Requests) /\ Len(futureResp') = Len(futureResp) + 1
        /\ Len(futureResp) \in Nat
        /\ \A i \in 1..Len(futureResp) :
             futureResp'[i] = futureResp[i] /\ futureResp[i] \in Requests
        /\ futureResp'[Len(futureResp) + 1] = r
    BY <2>1, AppendProperties, LenProperties, ElementOfSeq DEF TypeOK
  <2>3. \A i \in 1..Len(futureResp) : futureResp[i] # r
    BY <2>1 DEF FutureInv, BeforeFuture
  <2>4. answer[r] = "none"
    BY <2>1 DEF FutureInv, BeforeFuture
  <2>5. ASSUME NEW i \in 1..Len(futureResp'), NEW j \in 1..Len(futureResp'),
               futureResp'[i] = futureResp'[j]
        PROVE  i = j
    BY <2>2, <2>3, <2>5 DEF FutureInv
  <2>6. ASSUME NEW i \in 1..Len(futureResp')
        PROVE  answer'[futureResp'[i]] = "none" /\ pc'[futureResp'[i]] \notin BeforeFuture
    <3>1. CASE i = Len(futureResp) + 1
      BY <2>1, <2>2, <2>4, <3>1 DEF TypeOK, BeforeFuture
    <3>2. CASE i \in 1..Len(futureResp)
      BY <2>1, <2>2, <2>3, <3>2 DEF TypeOK, FutureInv
    <3> QED
      BY <2>2, <3>1, <3>2
  <2>7. \A q \in Requests : pc'[q] \in BeforeFuture => answer'[q] = "none"
    BY <2>1 DEF TypeOK, FutureInv, BeforeFuture
  <2> QED
    BY <2>1, <2>5, <2>6, <2>7, Zenon DEF FutureInv
<1>3. CASE FlushAnswer
  <2>1. /\ phase = "up" /\ phase' = "up" /\ futureResp' = <<>> /\ pc' = pc /\ answer' = PutAll
    BY <1>3 DEF FlushAnswer
  <2>2. ASSUME NEW q \in Requests, pc[q] \in BeforeFuture PROVE PutAll[q] = "none"
    <3>0. Range(futureResp) = {futureResp[i] : i \in 1..Len(futureResp)}
      BY RangeEquality DEF TypeOK
    <3>1. q \notin Range(futureResp)
      BY <2>2, <3>0 DEF FutureInv
    <3> QED
      BY <2>2, <3>1 DEF PutAll, FutureInv
  <2> QED
    BY <2>1, <2>2, EmptySeq DEF FutureInv
<1>4. CASE Halt
  BY <1>4, EmptySeq DEF Halt, FutureInv
<1>5. CASE \/ Receive \/ Tick \/ SeeCancel \/ Drain \/ FlushOk \/ FlushMarshalError
           \/ FlushIOError \/ RestoreNext \/ RestoreDone \/ Cancel \/ Restart \/ UNCHANGED vars
  <2>1. /\ UNCHANGED <<futureResp, answer, pc>>
        /\ phase' = phase \/ phase' = "up" \/ phase = "down"
    BY <1>5 DEF Receive, Tick, SeeCancel, Drain, FlushOk, FlushMarshalError, FlushIOError,
                RestoreNext, RestoreDone, Cancel, Restart, vars
  <2> QED
    BY <2>1, FutureFrame
<1> QED
  BY <1>1, <1>2, <1>3, <1>4, <1>5
     DEF Next, Client, Worker, Flush, Process, Crash, Exit, Idle

\* flush never Puts twice in a future, so it neither blocks nor panics there.
THEOREM FuturesAnsweredOnce == Spec => []AnsweredOnce
<1>1. TypeOK /\ FutureInv => AnsweredOnce
  <2> SUFFICES ASSUME TypeOK, FutureInv PROVE AnsweredOnce
    OBVIOUS
  <2>1. DOMAIN futureResp = 1..Len(futureResp)
    BY LenProperties DEF TypeOK
  <2> QED
    BY <2>1 DEF FutureInv, AnsweredOnce
<1> QED
  BY <1>1, TypeInit, TypeStep, FutureInit, FutureStep, PTL DEF Spec
-----------------------------------------------------------------------------
\* The inductive invariant for AckedNotLost.  A row is held before its
\* request registers a future, so it is held when the future is answered,
\* whichever flush answers it.
AckInv ==
  \A r \in Requests :
    \/ pc[r] = "register" /\ phase = "up"
    \/ r \in Range(futureResp)
    \/ answer[r] = "ok"
    => RowOf(r) \in Held

\* The elements of a sequence with one more at its end.
LEMMA RangeAppend ==
  ASSUME NEW S, NEW s \in Seq(S), NEW e \in S
  PROVE  Range(Append(s, e)) = Range(s) \cup {e}
<1> DEFINE t == Append(s, e)
<1>1. /\ t \in Seq(S) /\ Len(s) \in Nat /\ Len(t) = Len(s) + 1 /\ t[Len(s) + 1] = e
      /\ \A i \in 1..Len(s) : t[i] = s[i]
  BY AppendProperties, LenProperties
<1>2. /\ Range(s) = {s[i] : i \in 1..Len(s)}
      /\ Range(t) = {t[i] : i \in 1..Len(t)}
  BY <1>1, RangeEquality, Zenon
<1> HIDE DEF t
<1>3. 1..Len(t) = 1..Len(s) \cup {Len(s) + 1}
  BY <1>1
<1>4. Range(t) = Range(s) \cup {e}
  BY <1>1, <1>2, <1>3
<1> QED
  BY <1>4 DEF t

\* The elements of a channel are its head and those left after a receive.
LEMMA RangeHeadTail ==
  ASSUME NEW S, NEW s \in Seq(S), s # <<>>
  PROVE  Range(s) = {Head(s)} \cup Range(Tail(s))
<1>1. /\ Head(s) = s[1] /\ Tail(s) \in Seq(S) /\ Len(s) \in Nat \ {0} /\ Len(Tail(s)) = Len(s) - 1
      /\ \A i \in 1..Len(Tail(s)) : Tail(s)[i] = s[i + 1]
  BY HeadTailProperties, EmptySeq
<1>2. /\ Range(s) = {s[i] : i \in 1..Len(s)}
      /\ Range(Tail(s)) = {Tail(s)[i] : i \in 1..Len(Tail(s))}
  BY <1>1, RangeEquality, Zenon
<1>3. ASSUME NEW i \in 1..Len(s) PROVE s[i] \in {Head(s)} \cup Range(Tail(s))
  <2>1. CASE i = 1
    BY <1>1, <2>1
  <2>2. CASE i # 1
    <3>1. i - 1 \in 1..Len(Tail(s)) /\ Tail(s)[i - 1] = s[i]
      BY <1>1, <2>2
    <3> QED
      BY <1>2, <3>1, Zenon
  <2> QED
    BY <2>1, <2>2
<1>4. ASSUME NEW i \in 1..Len(Tail(s)) PROVE Tail(s)[i] \in Range(s)
  <2>1. i + 1 \in 1..Len(s) /\ Tail(s)[i] = s[i + 1]
    BY <1>1
  <2> QED
    BY <1>2, <2>1
<1>5. Head(s) \in Range(s)
  <2>1. 1 \in 1..Len(s)
    BY <1>1
  <2> QED
    BY <1>1, <1>2, <2>1
<1> QED
  BY <1>2, <1>3, <1>4, <1>5

\* While the process lives rows only move towards the disk.
LEMMA HeldGrows == TypeOK /\ [Next]_vars => Held \subseteq Held' \/ Halt
<1> SUFFICES ASSUME TypeOK, [Next]_vars, ~Halt PROVE Held \subseteq Held'
  OBVIOUS
<1> USE DEF clientVars, futureVars, workerVars, nodeVars
<1>1. ASSUME NEW r \in Requests, Send(r) PROVE Held \subseteq Held'
  <2>1. RowOf(r) \in Row /\ queryCh \in Seq(Row)
    BY DEF TypeOK, RowOf, Row
  <2>2. queryCh' = Append(queryCh, RowOf(r)) /\ UNCHANGED <<log, queryBuf>>
    BY <1>1 DEF Send
  <2>3. Range(queryCh') = Range(queryCh) \cup {RowOf(r)}
    BY <2>1, <2>2, RangeAppend
  <2> QED
    BY <2>2, <2>3 DEF Held
<1>2. ASSUME queryCh # <<>>, queryBuf' = Append(queryBuf, Head(queryCh)),
             queryCh' = Tail(queryCh), log' = log
      PROVE  Held \subseteq Held'
  <2>1. queryBuf \in Seq(Row) /\ queryCh \in Seq(Row) /\ Head(queryCh) \in Row
    BY <1>2, HeadTailProperties DEF TypeOK
  <2>2. Range(queryBuf') = Range(queryBuf) \cup {Head(queryCh)}
    BY <1>2, <2>1, RangeAppend
  <2>3. Range(queryCh) = {Head(queryCh)} \cup Range(queryCh')
    BY <1>2, <2>1, RangeHeadTail
  <2> QED
    BY <1>2, <2>2, <2>3 DEF Held
<1>3. CASE FlushOk
  <2>1. log \in Seq(Row) /\ queryBuf \in Seq(Row) /\ log' = log \o queryBuf /\ queryCh' = queryCh
    BY <1>3 DEF FlushOk, TypeOK
  <2>2. Range(log') = Range(log) \cup Range(queryBuf)
    BY <2>1, RangeConcatenation
  <2> QED
    BY <2>1, <2>2 DEF Held
<1>4. CASE FlushIOError
  <2>1. PICK n \in 0..Len(queryBuf) : log' = log \o SubSeq(queryBuf, 1, n)
    BY <1>4 DEF FlushIOError
  <2>2. log \in Seq(Row) /\ SubSeq(queryBuf, 1, n) \in Seq(Row)
    BY PrefixProperties DEF TypeOK
  <2>3. Range(log') = Range(log) \cup Range(SubSeq(queryBuf, 1, n))
    BY <2>1, <2>2, RangeConcatenation, ZenonT(30)
  <2>4. UNCHANGED <<queryBuf, queryCh>>
    BY <1>4 DEF FlushIOError
  <2> QED
    BY <2>3, <2>4 DEF Held
<1>5. CASE UNCHANGED <<log, queryBuf, queryCh>>
  BY <1>5 DEF Held
<1> QED
  BY <1>1, <1>2, <1>3, <1>4, <1>5, Zenon
     DEF Next, Client, Worker, Flush, Process, Crash, Exit, Idle, WriteCanceled, TakeLsn,
         Register, GetAnswer, Timeout, Exec, Receive, Tick, SeeCancel, Drain,
         FlushMarshalError, FlushAnswer, RestoreNext, RestoreDone, Cancel, Restart, vars

\* In a fresh node nobody has been acknowledged.
LEMMA AckInit == Init => AckInv
<1> SUFFICES ASSUME Init PROVE AckInv
  OBVIOUS
<1>1. futureResp = <<>> /\ \A r \in Requests : pc[r] = "idle" /\ answer[r] = "none"
  BY DEF Init
<1>2. Range(<<>>) = {}
  BY DEF Range
<1> QED
  BY <1>1, <1>2 DEF AckInv

\* Every step keeps the rows behind registered and answered futures.
LEMMA AckStep == TypeOK /\ LsnInv /\ FutureInv /\ AckInv /\ [Next]_vars => AckInv'
<1> SUFFICES ASSUME TypeOK, LsnInv, FutureInv, AckInv, [Next]_vars PROVE AckInv'
  OBVIOUS
<1> USE DEF clientVars, futureVars, workerVars, nodeVars
<1>a. Range(futureResp) = {futureResp[i] : i \in 1..Len(futureResp)}
  BY RangeEquality DEF TypeOK
<1>b. Range(<<>>) = {}
  BY DEF Range
<1>c. Held \subseteq Held' \/ Halt
  BY HeldGrows
<1>1. CASE Halt
  <2>1. /\ futureResp' = <<>> /\ phase' = "down" /\ \A r \in Requests : answer'[r] = "none"
    BY <1>1 DEF Halt
  <2> QED
    BY <2>1, <1>b DEF AckInv
<1>2. ASSUME NEW r \in Requests, Send(r), ~Halt PROVE AckInv'
  <2>1. /\ RowOf(r) \in Held' /\ UNCHANGED <<lsnOf, futureResp, answer, phase>>
        /\ pc' = [pc EXCEPT ![r] = "register"]
    <3>1. RowOf(r) \in Row /\ queryCh \in Seq(Row)
      BY DEF TypeOK, RowOf, Row
    <3>2. queryCh' = Append(queryCh, RowOf(r))
      BY <1>2 DEF Send
    <3>3. RowOf(r) \in Range(queryCh')
      BY <3>1, <3>2, RangeAppend
    <3> QED
      BY <1>2, <3>3 DEF Held, Send, Goto
  <2> QED
    BY <1>2, <1>c, <2>1 DEF AckInv, TypeOK, RowOf
<1>3. ASSUME NEW r \in Requests, Register(r), ~Halt PROVE AckInv'
  <2>1. /\ phase = "up" /\ pc[r] = "register" /\ pc' = [pc EXCEPT ![r] = "wait"]
        /\ futureResp' = Append(futureResp, r) /\ UNCHANGED <<lsnOf, answer, phase>>
    BY <1>3 DEF Register, Goto
  <2>2. Range(futureResp') = Range(futureResp) \cup {r}
    BY <2>1, RangeAppend DEF TypeOK
  <2> QED
    BY <1>3, <1>c, <2>1, <2>2 DEF AckInv, TypeOK, RowOf
<1>4. ASSUME NEW r \in Requests, TakeLsn(r), ~Halt PROVE AckInv'
  <2>1. /\ pc[r] = "idle" /\ pc' = [pc EXCEPT ![r] = "send"] /\ phase = "up"
        /\ lsnOf' = [lsnOf EXCEPT ![r] = lsnID + 1] /\ UNCHANGED <<futureResp, answer, phase>>
    BY <1>4 DEF TakeLsn, Goto
  <2>2. r \notin Range(futureResp) /\ answer[r] = "none"
    BY <2>1, <1>a DEF FutureInv, BeforeFuture
  <2>3. ASSUME NEW q \in Requests, q # r PROVE RowOf(q)' = RowOf(q) /\ pc'[q] = pc[q]
    BY <2>1, <2>3 DEF TypeOK, RowOf
  <2>4. pc'[r] = "send"
    BY <2>1 DEF TypeOK
  <2> QED
    BY <1>4, <1>c, <2>1, <2>2, <2>3, <2>4 DEF AckInv
<1>5. CASE FlushAnswer /\ ~Halt
  <2>1. /\ futureResp' = <<>> /\ answer' = PutAll /\ UNCHANGED <<pc, lsnOf, phase>>
    BY <1>5 DEF FlushAnswer
  <2>2. \A q \in Requests : answer'[q] = "ok" => q \in Range(futureResp) \/ answer[q] = "ok"
    BY <2>1 DEF PutAll
  <2> QED
    BY <1>5, <1>b, <1>c, <2>1, <2>2 DEF AckInv, RowOf
<1>6. ASSUME NEW r \in Requests, ~Halt,
             WriteCanceled(r) \/ GetAnswer(r) \/ Timeout(r) \/ Exec(r)
      PROVE  AckInv'
  <2>1. /\ UNCHANGED <<lsnOf, futureResp, answer, phase>>
        /\ \E p \in {"err", "exec", "ok", "rejected"} : pc' = [pc EXCEPT ![r] = p]
    BY <1>6 DEF WriteCanceled, GetAnswer, Timeout, Exec, Goto
  <2>2. \A q \in Requests : pc'[q] = "register" => pc[q] = "register"
    BY <2>1 DEF TypeOK
  <2> QED
    BY <1>6, <1>c, <2>1, <2>2 DEF AckInv, RowOf
<1>7. CASE /\ ~Halt
           /\ \/ Receive \/ Tick \/ SeeCancel \/ Drain \/ FlushOk \/ FlushMarshalError
              \/ FlushIOError \/ RestoreNext \/ RestoreDone \/ Cancel \/ Restart \/ UNCHANGED vars
  <2>1. UNCHANGED <<pc, lsnOf, futureResp, answer>>
    BY <1>7, Zenon DEF Receive, Tick, SeeCancel, Drain, FlushOk, FlushMarshalError, FlushIOError,
                RestoreNext, RestoreDone, Cancel, Restart, vars
  <2>2. \A q \in Requests : pc'[q] = "register" /\ phase' = "up" => phase = "up"
    BY <2>1, Zenon DEF LsnInv, InWal
  <2> QED
    BY <1>7, <1>c, <2>1, <2>2, Zenon DEF AckInv, RowOf
<1> QED
  BY <1>1, <1>2, <1>3, <1>4, <1>5, <1>6, <1>7
     DEF Next, Client, Worker, Flush, Process, Crash, Exit, Idle

\* The row of an acknowledged write is on disk or on its way there, for any
\* number of concurrent requests: no answer ever outruns its row.
THEOREM AckedRowsAreHeld == Spec => []AckedNotLost
<1>1. Init => LockInv
  BY DEF Init, LockInv
<1>2. AckInv => AckedNotLost
  BY Zenon DEF AckInv, AckedNotLost, Held
<1> QED
  BY <1>1, <1>2, TypeInit, TypeStep, LsnInit, LsnStep, LockStep, FutureInit, FutureStep,
     AckInit, AckStep, PTL DEF Spec
-----------------------------------------------------------------------------
(***************************************************************************)
(* The action properties.                                                  *)
(***************************************************************************)
\* The memory of a running slave does not change, in any behaviour.
THEOREM SlaveNeverWrites == Spec => SlaveReadOnly
<1>1. [Next]_vars => [phase = "up" /\ ~IsMaster => store' = store \/ phase' = "down"]_vars
  <2> SUFFICES ASSUME [Next]_vars, phase = "up", ~IsMaster PROVE store' = store \/ phase' = "down"
    OBVIOUS
  <2> QED
    BY Zenon DEF Next, Client, Worker, Flush, Process, Crash, Exit, Idle, WriteCanceled, TakeLsn,
           Send, Register, GetAnswer, Timeout, Exec, Receive, Tick, SeeCancel, Drain, FlushOk,
           FlushIOError, FlushMarshalError, FlushAnswer, RestoreNext, RestoreDone, Cancel,
           Restart, Halt, vars
<1> QED
  BY <1>1, PTL DEF Spec, SlaveReadOnly

\* A row that does not marshal blocks the disk until the process ends.
THEOREM PoisonedBatchSticks == Spec => PoisonSticks
<1>1. TypeOK /\ [Next]_vars => [Poisoned => log' = log /\ (Poisoned' \/ phase' = "down")]_vars
  <2> SUFFICES ASSUME TypeOK, [Next]_vars, Poisoned
               PROVE  log' = log /\ (Poisoned' \/ phase' = "down")
    OBVIOUS
  <2> USE DEF clientVars, futureVars, workerVars, nodeVars
  <2>1. CASE UNCHANGED <<log, queryBuf>>
    BY <2>1 DEF Poisoned
  <2>2. ASSUME queryCh # <<>>, queryBuf' = Append(queryBuf, Head(queryCh)), log' = log
        PROVE  log' = log /\ Poisoned'
    <3>1. queryBuf \in Seq(Row) /\ Head(queryCh) \in Row
      BY <2>2, HeadTailProperties DEF TypeOK
    <3>2. Range(queryBuf') = Range(queryBuf) \cup {Head(queryCh)}
      BY <2>2, <3>1, RangeAppend
    <3> QED
      BY <2>2, <3>2 DEF Poisoned
  <2>3. CASE Halt
    <3>1. PICK n \in 0..Len(queryBuf) : /\ n > 0 => ~Poisoned
                                        /\ log' = log \o SubSeq(queryBuf, 1, n)
      BY <2>3 DEF Halt
    <3>2. n = 0 /\ log \in Seq(Row) /\ queryBuf \in Seq(Row)
      BY <3>1 DEF TypeOK
    <3>3. SubSeq(queryBuf, 1, n) \in Seq(Row) /\ Len(SubSeq(queryBuf, 1, n)) = 0
      BY <3>2, PrefixProperties
    <3>4. SubSeq(queryBuf, 1, n) = <<>>
      BY <3>3, EmptySeq
    <3> QED
      BY <2>3, <3>1, <3>2, <3>4, ConcatEmptySeq DEF Halt
  <2>4. ~FlushOk /\ ~FlushIOError
    BY DEF FlushOk, FlushIOError
  <2> QED
    BY <2>1, <2>2, <2>3, <2>4, Zenon
       DEF Next, Client, Worker, Flush, Process, Crash, Exit, Idle, WriteCanceled, TakeLsn,
           Send, Register, GetAnswer, Timeout, Exec, Receive, Tick, SeeCancel, Drain,
           FlushMarshalError, FlushAnswer, RestoreNext, RestoreDone, Cancel, Restart, vars
<1> QED
  BY <1>1, TypeInit, TypeStep, PTL DEF Spec, PoisonSticks
-----------------------------------------------------------------------------
(***************************************************************************)
(* The LSNs of a sequence of rows.                                         *)
(***************************************************************************)
\* LsnsOf maps a sequence of rows element by element.
LEMMA LsnsOfRows ==
  ASSUME NEW s \in Seq(Row)
  PROVE  /\ LsnsOf(s) \in Seq(Nat) /\ Len(LsnsOf(s)) = Len(s) /\ Len(s) \in Nat
         /\ \A i \in 1..Len(s) : LsnsOf(s)[i] = s[i].lsn
<1>1. Len(s) \in Nat /\ DOMAIN s = 1..Len(s)
  BY LenProperties
<1>2. ASSUME NEW i \in 1..Len(s) PROVE s[i].lsn \in Nat
  <2>1. s[i] \in Row
    BY ElementOfSeq
  <2> QED
    BY <2>1 DEF Row
<1>3. LsnsOf(s) = [i \in 1..Len(s) |-> s[i].lsn]
  BY <1>1 DEF LsnsOf
<1> QED
  BY <1>1, <1>2, <1>3

\* c is s followed by t, element by element.
Joined(s, t, c) ==
  /\ Len(c) = Len(s) + Len(t) /\ Len(s) \in Nat /\ Len(t) \in Nat
  /\ \A i \in 1..(Len(s) + Len(t)) :
       /\ i <= Len(s) => i \in 1..Len(s) /\ c[i] = s[i]
       /\ ~(i <= Len(s)) => i - Len(s) \in 1..Len(t) /\ c[i] = t[i - Len(s)]

\* The elements of a concatenation.
LEMMA ConcatAt ==
  ASSUME NEW S, NEW s \in Seq(S), NEW t \in Seq(S)
  PROVE  s \o t \in Seq(S) /\ Joined(s, t, s \o t)
<1>1. Len(s) \in Nat /\ Len(t) \in Nat
  BY LenProperties
<1>2. ASSUME NEW i \in 1..(Len(s) + Len(t))
      PROVE  /\ i <= Len(s) => i \in 1..Len(s)
             /\ ~(i <= Len(s)) => i - Len(s) \in 1..Len(t)
  BY <1>1
<1> QED
  BY <1>1, <1>2, ConcatProperties DEF Joined

\* A flush that moves rows to the log moves their LSNs.
LEMMA LsnsOfConcat ==
  ASSUME NEW s \in Seq(Row), NEW t \in Seq(Row)
  PROVE  LsnsOf(s \o t) = LsnsOf(s) \o LsnsOf(t)
<1> DEFINE c == s \o t
           x == LsnsOf(s)
           y == LsnsOf(t)
           z == LsnsOf(c)
           d == x \o y
<1>1. c \in Seq(Row) /\ Joined(s, t, c)
  BY ConcatAt
<1> HIDE DEF c
<1>2. z \in Seq(Nat) /\ Len(z) = Len(c) /\ \A i \in 1..Len(c) : z[i] = c[i].lsn
  BY <1>1, LsnsOfRows
<1>3. x \in Seq(Nat) /\ Len(x) = Len(s) /\ \A i \in 1..Len(s) : x[i] = s[i].lsn
  BY LsnsOfRows
<1>4. y \in Seq(Nat) /\ Len(y) = Len(t) /\ \A i \in 1..Len(t) : y[i] = t[i].lsn
  BY LsnsOfRows
<1> HIDE DEF x, y, z
<1>5. d \in Seq(Nat) /\ Joined(x, y, d)
  BY <1>3, <1>4, ConcatAt
<1> HIDE DEF d
<1>6. ASSUME NEW i \in 1..Len(z) PROVE z[i] = d[i]
  <2>1. i \in 1..(Len(s) + Len(t)) /\ z[i] = c[i].lsn
    BY <1>1, <1>2 DEF Joined
  <2>2. CASE i <= Len(s)
    <3>1. i \in 1..Len(s) /\ c[i] = s[i] /\ d[i] = x[i]
      BY <1>1, <1>3, <1>4, <1>5, <2>1, <2>2, Zenon DEF Joined
    <3> QED
      BY <1>3, <2>1, <3>1
  <2>3. CASE ~(i <= Len(s))
    <3>1. i - Len(s) \in 1..Len(t) /\ c[i] = t[i - Len(s)] /\ d[i] = y[i - Len(s)]
      BY <1>1, <1>3, <1>4, <1>5, <2>1, <2>3, Zenon DEF Joined
    <3> QED
      BY <1>4, <2>1, <3>1
  <2> QED
    BY <2>2, <2>3
<1>7. Len(z) = Len(d)
  BY <1>1, <1>2, <1>3, <1>4, <1>5 DEF Joined
<1>8. z = d
  BY <1>2, <1>5, <1>6, <1>7, SeqEqual
<1> QED
  BY <1>8 DEF c, d, x, y, z

\* A prefix of the rows has the prefix of the LSNs.
LEMMA LsnsOfPrefix ==
  ASSUME NEW s \in Seq(Row), NEW n \in 0..Len(s)
  PROVE  LsnsOf(SubSeq(s, 1, n)) = SubSeq(LsnsOf(s), 1, n)
<1>1. /\ SubSeq(s, 1, n) \in Seq(Row) /\ Len(SubSeq(s, 1, n)) = n
      /\ \A i \in 1..n : SubSeq(s, 1, n)[i] = s[i]
  BY PrefixProperties
<1>2. /\ LsnsOf(s) \in Seq(Nat) /\ Len(LsnsOf(s)) = Len(s) /\ Len(s) \in Nat
      /\ \A i \in 1..Len(s) : LsnsOf(s)[i] = s[i].lsn
  BY LsnsOfRows
<1>3. /\ SubSeq(LsnsOf(s), 1, n) \in Seq(Nat) /\ Len(SubSeq(LsnsOf(s), 1, n)) = n
      /\ \A i \in 1..n : SubSeq(LsnsOf(s), 1, n)[i] = LsnsOf(s)[i]
  BY <1>2, PrefixProperties
<1>4. /\ LsnsOf(SubSeq(s, 1, n)) \in Seq(Nat) /\ Len(LsnsOf(SubSeq(s, 1, n))) = n
      /\ \A i \in 1..n : LsnsOf(SubSeq(s, 1, n))[i] = SubSeq(s, 1, n)[i].lsn
  BY <1>1, LsnsOfRows, Zenon
<1>5. \A i \in 1..n : LsnsOf(SubSeq(s, 1, n))[i] = SubSeq(LsnsOf(s), 1, n)[i]
  BY <1>1, <1>2, <1>3, <1>4
<1> QED
  BY <1>3, <1>4, <1>5, SeqEqual

\* One more row has one more LSN.
LEMMA LsnsOfAppend ==
  ASSUME NEW s \in Seq(Row), NEW e \in Row
  PROVE  LsnsOf(Append(s, e)) = Append(LsnsOf(s), e.lsn)
<1> DEFINE a == Append(s, e)
           b == Append(LsnsOf(s), e.lsn)
<1>1. /\ LsnsOf(s) \in Seq(Nat) /\ Len(LsnsOf(s)) = Len(s) /\ Len(s) \in Nat
      /\ \A i \in 1..Len(s) : LsnsOf(s)[i] = s[i].lsn
  BY LsnsOfRows
<1>2. e.lsn \in Nat
  BY DEF Row
<1>3. /\ a \in Seq(Row) /\ Len(a) = Len(s) + 1 /\ a[Len(s) + 1] = e
      /\ \A i \in 1..Len(s) : a[i] = s[i]
  BY AppendProperties
<1>4. /\ b \in Seq(Nat) /\ Len(b) = Len(s) + 1 /\ b[Len(s) + 1] = e.lsn
      /\ \A i \in 1..Len(s) : b[i] = LsnsOf(s)[i]
  BY <1>1, <1>2, AppendProperties
<1> HIDE DEF a, b
<1>5. /\ LsnsOf(a) \in Seq(Nat) /\ Len(LsnsOf(a)) = Len(a)
      /\ \A i \in 1..Len(a) : LsnsOf(a)[i] = a[i].lsn
  BY <1>3, LsnsOfRows
<1>6. \A i \in 1..Len(a) : i \in 1..Len(s) \/ i = Len(s) + 1
  BY <1>1, <1>3
<1>7. \A i \in 1..Len(a) : LsnsOf(a)[i] = b[i]
  BY <1>1, <1>3, <1>4, <1>5, <1>6, Zenon
<1>8. LsnsOf(a) = b
  BY <1>3, <1>4, <1>5, <1>7, SeqEqual
<1> QED
  BY <1>8 DEF a, b

\* A row that is sent comes after those of the buffer and of the channel.
LEMMA SendLast ==
  ASSUME NEW S, NEW s \in Seq(S), NEW t \in Seq(S), NEW e \in S
  PROVE  s \o Append(t, e) = Append(s \o t, e)
<1>1. <<e>> \in Seq(S)
  OBVIOUS
<1>2. s \o t \in Seq(S)
  BY ConcatProperties
<1>3. Append(t, e) = t \o <<e>> /\ Append(s \o t, e) = (s \o t) \o <<e>>
  BY <1>2, AppendIsConcat
<1>4. s \o (t \o <<e>>) = (s \o t) \o <<e>>
  BY <1>1, ConcatAssociative
<1> QED
  BY <1>3, <1>4

\* Moving a row from the head of the channel to the end of the buffer.
LEMMA MoveHead ==
  ASSUME NEW S, NEW s \in Seq(S), NEW t \in Seq(S), t # <<>>
  PROVE  Append(s, Head(t)) \o Tail(t) = s \o t
<1> DEFINE a == Append(s, Head(t))
           u == Tail(t)
           l == a \o u
           r == s \o t
<1>1. /\ Head(t) = t[1] /\ Head(t) \in S /\ u \in Seq(S) /\ Len(u) = Len(t) - 1
      /\ \A i \in 1..Len(u) : u[i] = t[i + 1]
  BY HeadTailProperties
<1>2. Len(s) \in Nat /\ Len(t) \in Nat \ {0}
  BY LenProperties, EmptySeq
<1>3. /\ a \in Seq(S) /\ Len(a) = Len(s) + 1 /\ a[Len(s) + 1] = t[1]
      /\ \A i \in 1..Len(s) : a[i] = s[i]
  BY <1>1, AppendProperties
<1> HIDE DEF a, u
<1>4. l \in Seq(S) /\ Joined(a, u, l)
  BY <1>1, <1>3, ConcatAt
<1>5. r \in Seq(S) /\ Joined(s, t, r)
  BY ConcatAt
<1> HIDE DEF l, r
<1>6. Len(l) = Len(r) /\ Len(l) = Len(s) + Len(t) /\ Len(a) + Len(u) = Len(s) + Len(t)
  BY <1>1, <1>2, <1>3, <1>4, <1>5 DEF Joined
<1>7. ASSUME NEW i \in 1..(Len(s) + Len(t)) PROVE l[i] = r[i]
  <2>1. CASE i <= Len(s)
    <3>1. i <= Len(a)
      BY <1>2, <1>3, <2>1
    <3>2. l[i] = a[i] /\ r[i] = s[i] /\ i \in 1..Len(s)
      BY <1>4, <1>5, <1>6, <2>1, <3>1 DEF Joined
    <3> QED
      BY <1>3, <3>2
  <2>2. CASE i = Len(s) + 1
    <3>1. i <= Len(a) /\ ~(i <= Len(s)) /\ i - Len(s) = 1
      BY <1>2, <1>3, <2>2
    <3>2. l[i] = a[i] /\ r[i] = t[1]
      BY <1>4, <1>5, <1>6, <3>1 DEF Joined
    <3> QED
      BY <1>3, <2>2, <3>2
  <2>3. CASE i > Len(s) + 1
    <3>1. ~(i <= Len(a)) /\ ~(i <= Len(s)) /\ (i - Len(a)) + 1 = i - Len(s)
      BY <1>2, <1>3, <2>3
    <3>2. l[i] = u[i - Len(a)] /\ i - Len(a) \in 1..Len(u) /\ r[i] = t[i - Len(s)]
      BY <1>4, <1>5, <1>6, <3>1 DEF Joined
    <3> QED
      BY <1>1, <3>1, <3>2, Zenon
  <2> QED
    BY <1>2, <2>1, <2>2, <2>3
<1>8. l = r
  BY <1>4, <1>5, <1>6, <1>7, SeqEqual, Zenon
<1> QED
  BY <1>8 DEF l, r, a, u

\* The two parts of a queue, and the prefixes of its first part.
LEMMA ConcatParts ==
  ASSUME NEW S, NEW s \in Seq(S), NEW t \in Seq(S), NEW n \in 0..Len(s)
  PROVE  /\ SubSeq(s \o t, 1, n) = SubSeq(s, 1, n)
         /\ SubSeq(s \o t, Len(s) + 1, Len(s \o t)) = t
         /\ SubSeq(s \o t, 1, Len(s)) = s
         /\ Len(s) \in 0..Len(s \o t)
<1> DEFINE c == s \o t
<1>1. /\ c \in Seq(S) /\ Len(c) = Len(s) + Len(t) /\ Len(s) \in Nat /\ Len(t) \in Nat
      /\ \A i \in 1..Len(c) : c[i] = IF i <= Len(s) THEN s[i] ELSE t[i - Len(s)]
  BY ConcatProperties, LenProperties
<1> HIDE DEF c
<1>2. Len(s) \in 0..Len(c)
  BY <1>1
<1>3. ASSUME NEW m \in 0..Len(s) PROVE SubSeq(c, 1, m) = SubSeq(s, 1, m)
  <2>1. m \in 0..Len(c) /\ \A i \in 1..m : i \in 1..Len(c) /\ i <= Len(s)
    BY <1>1
  <2>2. /\ SubSeq(c, 1, m) \in Seq(S) /\ Len(SubSeq(c, 1, m)) = m
        /\ \A i \in 1..m : SubSeq(c, 1, m)[i] = c[i]
    BY <1>1, <2>1, PrefixProperties
  <2>3. /\ SubSeq(s, 1, m) \in Seq(S) /\ Len(SubSeq(s, 1, m)) = m
        /\ \A i \in 1..m : SubSeq(s, 1, m)[i] = s[i]
    BY PrefixProperties
  <2>4. \A i \in 1..m : SubSeq(c, 1, m)[i] = SubSeq(s, 1, m)[i]
    BY <1>1, <2>1, <2>2, <2>3
  <2> QED
    BY <2>2, <2>3, <2>4, SeqEqual
<1>4. SubSeq(c, 1, Len(s)) = s
  BY <1>1, <1>3, SubSeqFull
<1>5. SubSeq(c, Len(s) + 1, Len(c)) = t
  <2> DEFINE d == SubSeq(c, Len(s) + 1, Len(c))
  <2>1. d \in Seq(S) /\ Len(d) = Len(t) /\ \A i \in 1..Len(t) : d[i] = c[Len(s) + i]
    BY <1>1
  <2> HIDE DEF d
  <2>2. ASSUME NEW i \in 1..Len(t) PROVE d[i] = t[i]
    <3>1. Len(s) + i \in 1..Len(c) /\ ~(Len(s) + i <= Len(s)) /\ (Len(s) + i) - Len(s) = i
      BY <1>1
    <3> QED
      BY <1>1, <2>1, <3>1, Zenon
  <2>3. d = t
    BY <2>1, <2>2, SeqEqual
  <2> QED
    BY <2>3 DEF d
<1> QED
  BY <1>2, <1>3, <1>4, <1>5 DEF c
-----------------------------------------------------------------------------
(***************************************************************************)
(* The refinement of LsnLog.  While the log is replayed, lsnID is the      *)
(* greatest LSN among the rows replayed so far.                            *)
(***************************************************************************)
MaxInv ==
  /\ phase = "down" => lsnID = 0
  /\ phase = "restoring" => \/ lsnID = 0
                            \/ \E i \in 1..Len(log) : i < pos /\ log[i].lsn = lsnID

\* NewDatabase starts with lastLSNID = 0 and takes the maximum row by row.
LEMMA MaxStep == TypeOK /\ LsnInv /\ MaxInv /\ [Next]_vars => MaxInv'
<1> SUFFICES ASSUME TypeOK, LsnInv, MaxInv, [Next]_vars PROVE MaxInv'
  OBVIOUS
<1> USE DEF clientVars, futureVars, workerVars, nodeVars
<1>1. CASE RestoreNext
  <2>1. /\ phase = "restoring" /\ phase' = phase /\ log' = log /\ pos' = pos + 1
        /\ pos \in 1..Len(log) /\ lsnID' = LastLsnID(lsnID, log[pos])
    BY <1>1, LenProperties DEF RestoreNext, TypeOK
  <2>2. CASE lsnID' = lsnID
    BY <2>1, <2>2 DEF MaxInv
  <2>3. CASE lsnID' = log[pos].lsn
    BY <2>1, <2>3 DEF MaxInv
  <2> QED
    BY <2>1, <2>2, <2>3 DEF LastLsnID
<1>2. CASE Halt
  BY <1>2 DEF Halt, MaxInv
<1>3. CASE Restart
  BY <1>3 DEF Restart, MaxInv
<1>4. CASE RestoreDone
  BY <1>4 DEF RestoreDone, MaxInv
<1>5. CASE phase = "up" /\ phase' = "up"
  BY <1>5 DEF MaxInv
<1>6. CASE UNCHANGED vars
  BY <1>6 DEF MaxInv, vars
<1> QED
  BY <1>1, <1>2, <1>3, <1>4, <1>5, <1>6, Zenon
     DEF Next, Client, Worker, Flush, Process, Crash, Exit, Idle, WriteCanceled, TakeLsn,
         Send, Register, GetAnswer, Timeout, Exec, Receive, Tick, SeeCancel, Drain, FlushOk,
         FlushIOError, FlushMarshalError, FlushAnswer, Cancel

\* The generator of a restarted node starts at the greatest LSN on disk.
LEMMA RestoredMax ==
  TypeOK /\ LsnInv /\ MaxInv /\ phase = "restoring" /\ pos > Len(log) => lsnID = DiskMax
<1> SUFFICES ASSUME TypeOK, LsnInv, MaxInv, phase = "restoring", pos > Len(log)
             PROVE  lsnID = DiskMax
  OBVIOUS
<1> DEFINE ls == LsnsOf(log)
<1>1. /\ ls \in Seq(Nat) /\ Len(ls) = Len(log) /\ Len(log) \in Nat
      /\ \A i \in 1..Len(log) : ls[i] = log[i].lsn
  BY LsnsOfRows DEF TypeOK
<1> HIDE DEF ls
<1>2. Range(ls) = {ls[i] : i \in 1..Len(log)}
  BY <1>1, RangeEquality
<1>3. lsnID \in Nat /\ pos \in Nat /\ \A i \in 1..Len(log) : i < pos
  BY <1>1, SMTT(20) DEF TypeOK
<1>4. \A i \in 1..Len(log) : log[i].lsn <= lsnID
  BY <1>3 DEF LsnInv
<1>5. \A l \in Range(ls) : l <= lsnID /\ l \in Nat
  <2> SUFFICES ASSUME NEW i \in 1..Len(log) PROVE ls[i] <= lsnID /\ ls[i] \in Nat
    BY <1>2
  <2>1. ls[i] \in Nat
    BY <1>1, ElementOfSeq
  <2> QED
    BY <1>1, <1>4, <2>1
<1>6. lsnID \in Range(ls) \cup {0}
  BY <1>1, <1>2 DEF MaxInv
<1>7. DiskMax \in Range(ls) \cup {0} /\ \A l \in Range(ls) : l <= DiskMax
  BY <1>5, <1>6 DEF DiskMax, ls
<1>8. DiskMax \in Nat /\ DiskMax <= lsnID
  BY <1>3, <1>5, <1>7
<1>9. lsnID <= DiskMax
  BY <1>3, <1>6, <1>7, <1>8
<1> QED
  BY <1>3, <1>8, <1>9

\* Every step of the write path is a step of LsnLog, or invisible there.
LEMMA LogRefines ==
  TypeOK /\ TypeOK' /\ LsnInv /\ LsnInv' /\ MaxInv /\ [Next]_vars
    => [QueueLog!LogNext]_(QueueLog!logVars)
<1> SUFFICES ASSUME TypeOK, TypeOK', LsnInv, LsnInv', MaxInv, [Next]_vars
             PROVE  QueueLog!LogNext \/ UNCHANGED QueueLog!logVars
  OBVIOUS
<1> USE DEF clientVars, futureVars, workerVars, nodeVars
<1> DEFINE id == IF phase = "up" THEN lsnID ELSE DiskMax
           tk == {lsnOf[r] : r \in {q \in Requests : pc[q] = "send"}}
           qd == LsnsOf(queryBuf \o queryCh)
           lg == LsnsOf(log)
<1>t. /\ queryBuf \in Seq(Row) /\ queryCh \in Seq(Row) /\ log \in Seq(Row)
      /\ queryBuf \o queryCh \in Seq(Row)
  BY ConcatProperties, Zenon DEF TypeOK
<1>s. ASSUME id' = id, tk' = tk, qd' = qd, lg' = lg, smLocked' = smLocked
      PROVE  UNCHANGED QueueLog!logVars
  BY <1>s, Zenon DEF QueueLog!logVars
<1>d. log' = log => DiskMax' = DiskMax
  BY DEF DiskMax
<1>1. ASSUME NEW r \in Requests,
             WriteCanceled(r) \/ Register(r) \/ GetAnswer(r) \/ Timeout(r) \/ Exec(r)
      PROVE  UNCHANGED QueueLog!logVars
  <2>1. /\ UNCHANGED <<log, queryBuf, queryCh, smLocked, lsnOf, lsnID, phase>>
        /\ pc[r] # "send"
        /\ \E p \in {"err", "wait", "exec", "rejected", "ok"} : pc' = [pc EXCEPT ![r] = p]
    BY <1>1, Zenon DEF WriteCanceled, Register, GetAnswer, Timeout, Exec, Goto
  <2>2. \A q \in Requests : pc'[q] = "send" <=> pc[q] = "send"
    BY <2>1 DEF TypeOK
  <2>3. tk' = tk
    BY <2>1, <2>2, Zenon
  <2> QED
    BY <1>d, <1>s, <2>1, <2>3, Zenon
<1>2. ASSUME NEW r \in Requests, TakeLsn(r) PROVE QueueLog!LogNext
  <2>1. /\ UNCHANGED <<log, queryBuf, queryCh, smLocked, phase>> /\ phase = "up"
        /\ pc[r] = "idle" /\ lsnID' = lsnID + 1
        /\ lsnOf' = [lsnOf EXCEPT ![r] = lsnID + 1] /\ pc' = [pc EXCEPT ![r] = "send"]
    BY <1>2 DEF TakeLsn, Goto
  <2>2. /\ \A q \in Requests : pc'[q] = "send" <=> (pc[q] = "send" \/ q = r)
        /\ \A q \in Requests : lsnOf'[q] = IF q = r THEN lsnID + 1 ELSE lsnOf[q]
    BY <2>1 DEF TypeOK
  <2>3. tk' = tk \cup {lsnID + 1}
    BY <2>1, <2>2
  <2> QED
    BY <2>1, <2>3 DEF QueueLog!LogNext, QueueLog!TakeLsn
<1>3. ASSUME NEW r \in Requests, Send(r) PROVE QueueLog!LogNext
  <2>1. /\ UNCHANGED <<log, queryBuf, smLocked, phase, lsnOf, lsnID>> /\ phase = "up"
        /\ pc[r] = "send" /\ pc' = [pc EXCEPT ![r] = "register"]
        /\ queryCh' = Append(queryCh, RowOf(r))
    BY <1>3 DEF Send, Goto
  <2>2. RowOf(r) \in Row /\ RowOf(r).lsn = lsnOf[r]
    BY DEF TypeOK, RowOf, Row
  <2>3. \A q \in Requests : pc'[q] = "send" <=> (pc[q] = "send" /\ q # r)
    BY <2>1 DEF TypeOK
  <2>4. \A q \in Requests : pc[q] = "send" /\ lsnOf[q] = lsnOf[r] => q = r
    BY <2>1, Zenon DEF LsnInv
  <2>5. tk' = tk \ {lsnOf[r]} /\ lsnOf[r] \in tk
    BY <2>1, <2>3, <2>4
  <2>6. queryBuf' \o queryCh' = Append(queryBuf \o queryCh, RowOf(r))
    BY <1>t, <2>1, <2>2, SendLast
  <2>7. qd' = Append(qd, lsnOf[r])
    BY <1>t, <2>2, <2>6, LsnsOfAppend, Zenon
  <2> QED
    BY <2>1, <2>5, <2>7, Zenon DEF QueueLog!LogNext, QueueLog!Send
<1>4. ASSUME queryCh # <<>>, queryBuf' = Append(queryBuf, Head(queryCh)),
             queryCh' = Tail(queryCh), UNCHANGED <<clientVars, lsnID, smLocked, phase, log>>
      PROVE  UNCHANGED QueueLog!logVars
  <2>1. queryBuf' \o queryCh' = queryBuf \o queryCh
    BY <1>4, <1>t, MoveHead
  <2> QED
    BY <1>4, <1>d, <1>s, <2>1, Zenon
<1>5. ASSUME NEW n \in 0..Len(queryBuf), log' = log \o SubSeq(queryBuf, 1, n)
      PROVE  /\ lg' = lg \o SubSeq(qd, 1, n) /\ n \in 0..Len(qd)
             /\ n = Len(queryBuf) => SubSeq(qd, n + 1, Len(qd)) = LsnsOf(queryCh)
  <2>1. SubSeq(queryBuf, 1, n) \in Seq(Row)
    BY <1>t, PrefixProperties
  <2>2. lg' = lg \o LsnsOf(SubSeq(queryBuf, 1, n))
    BY <1>5, <1>t, <2>1, LsnsOfConcat, Zenon
  <2> DEFINE x == LsnsOf(queryBuf)
             y == LsnsOf(queryCh)
  <2>3. qd = x \o y /\ LsnsOf(SubSeq(queryBuf, 1, n)) = SubSeq(x, 1, n)
    BY <1>t, LsnsOfConcat, LsnsOfPrefix
  <2>4. x \in Seq(Nat) /\ y \in Seq(Nat) /\ Len(x) = Len(queryBuf)
    BY <1>t, LsnsOfRows
  <2> HIDE DEF x, y, qd, lg
  <2>5. /\ SubSeq(x \o y, 1, n) = SubSeq(x, 1, n)
        /\ SubSeq(x \o y, Len(x) + 1, Len(x \o y)) = y
        /\ Len(x) \in 0..Len(x \o y)
    BY <2>4, ConcatParts
  <2>6. n \in 0..Len(qd)
    BY <2>3, <2>4, <2>5
  <2> QED
    BY <2>2, <2>3, <2>4, <2>5, <2>6, Zenon DEF y
<1>6. CASE FlushOk
  <2> DEFINE n == Len(queryBuf)
  <2>1. /\ UNCHANGED <<clientVars, lsnID, queryCh, smLocked, phase>> /\ phase = "up" /\ ~smLocked
        /\ log' = log \o queryBuf /\ queryBuf' = <<>>
    BY <1>6 DEF FlushOk
  <2>2. n \in 0..Len(queryBuf) /\ log' = log \o SubSeq(queryBuf, 1, n) /\ n \in Nat
    BY <1>t, <2>1, SubSeqFull, LenProperties
  <2>3. /\ lg' = lg \o SubSeq(qd, 1, n) /\ n \in 0..Len(qd)
        /\ SubSeq(qd, n + 1, Len(qd)) = LsnsOf(queryCh)
    BY <1>5, <2>2, Zenon
  <2>4. qd' = LsnsOf(queryCh)
    BY <1>t, <2>1, ConcatEmptySeq
  <2>5. CASE queryBuf = <<>>
    <3>1. log' = log /\ queryBuf' = queryBuf
      BY <1>t, <2>1, <2>5, ConcatEmptySeq
    <3> QED
      BY <1>s, <2>1, <3>1, Zenon
  <2>6. CASE queryBuf # <<>>
    <3>1. n \in 1..Len(qd)
      <4>1. n # 0
        BY <1>t, <2>6, EmptySeq
      <4> HIDE DEF n, qd
      <4> QED
        BY <2>2, <2>3, <4>1
    <3>2. id' = id /\ tk' = tk
      BY <2>1
    <3> HIDE DEF n, id, tk, qd, lg
    <3>3. \E m \in 1..Len(qd) : qd' = SubSeq(qd, m + 1, Len(qd)) /\ lg' = lg \o SubSeq(qd, 1, m)
      BY <2>3, <2>4, <3>1, Zenon
    <3> QED
      BY <2>1, <3>2, <3>3, Zenon DEF QueueLog!LogNext, QueueLog!Flush, id, tk, qd, lg
  <2> QED
    BY <2>5, <2>6
<1>7. CASE FlushIOError
  <2>1. /\ UNCHANGED <<clientVars, lsnID, queryCh, queryBuf, phase>> /\ phase = "up"
        /\ ~smLocked /\ smLocked'
    BY <1>7 DEF FlushIOError
  <2>2. PICK n \in 0..Len(queryBuf) : log' = log \o SubSeq(queryBuf, 1, n)
    BY <1>7 DEF FlushIOError
  <2>3. lg' = lg \o SubSeq(qd, 1, n) /\ n \in 0..Len(qd)
    BY <1>5, <2>2
  <2>4. smLocked' = TRUE
    BY <1>7 DEF FlushIOError
  <2> QED
    BY <2>1, <2>3, <2>4 DEF QueueLog!LogNext, QueueLog!FlushError
<1>8. CASE Halt
  <2>1. /\ phase' = "down" /\ queryBuf' = <<>> /\ queryCh' = <<>> /\ smLocked' = FALSE
        /\ pc' = [r \in Requests |-> IF pc[r] \in InWal THEN "lost" ELSE pc[r]]
    BY <1>8 DEF Halt
  <2>2. PICK n \in 0..Len(queryBuf) : /\ n > 0 => ~smLocked
                                      /\ log' = log \o SubSeq(queryBuf, 1, n)
    BY <1>8 DEF Halt
  <2>3. lg' = lg \o SubSeq(qd, 1, n) /\ n \in 0..Len(qd)
    BY <1>5, <2>2
  <2>4. tk' = {}
    BY <2>1 DEF InWal
  <2>5. qd' = <<>>
    <3>1. <<>> \o <<>> = <<>> /\ <<>> \in Seq(Row)
      BY EmptySeq, ConcatEmptySeq
    <3>2. LsnsOf(<<>>) \in Seq(Nat) /\ Len(LsnsOf(<<>>)) = 0
      BY <3>1, LsnsOfRows, EmptySeq, Zenon
    <3> QED
      BY <2>1, <3>1, <3>2, EmptySeq
  <2>6. id' = QueueLog!MaxLsnOf(lg')
    BY <2>1 DEF DiskMax, QueueLog!MaxLsnOf, Range, QueueLog!Range
  <2> QED
    <3>1. \E m \in 0..Len(qd) : (m > 0 => ~smLocked) /\ lg' = lg \o SubSeq(qd, 1, m)
      BY <2>2, <2>3, Zenon
    <3> QED
      BY <2>1, <2>4, <2>5, <2>6, <3>1, Zenon DEF QueueLog!LogNext, QueueLog!Crash
<1>9. CASE RestoreDone
  <2>1. /\ UNCHANGED <<clientVars, lsnID, queryCh, queryBuf, smLocked, log>>
        /\ phase = "restoring" /\ phase' = "up" /\ pos > Len(log)
    BY <1>9 DEF RestoreDone
  <2>2. id' = id
    BY <2>1, RestoredMax
  <2> QED
    BY <1>s, <2>1, <2>2
<1>10. CASE RestoreNext \/ Restart
  <2>1. /\ UNCHANGED <<clientVars, queryCh, queryBuf, smLocked, log>>
        /\ phase # "up" /\ phase' # "up"
    BY <1>10 DEF RestoreNext, Restart
  <2> QED
    BY <1>d, <1>s, <2>1
<1>11. CASE UNCHANGED <<clientVars, lsnID, queryCh, queryBuf, smLocked, log, phase>>
  BY <1>11, <1>d, <1>s, Zenon
<1> QED
  BY <1>1, <1>2, <1>3, <1>4, <1>6, <1>7, <1>8, <1>9, <1>10, <1>11, Zenon
     DEF Next, Client, Worker, Flush, Process, Crash, Exit, Idle, Receive, Tick, SeeCancel,
         Drain, FlushMarshalError, FlushAnswer, Cancel, vars

\* A fresh node is an empty LsnLog.
LEMMA LogStarts == Init => QueueLog!LogInit /\ MaxInv
<1> SUFFICES ASSUME Init PROVE QueueLog!LogInit /\ MaxInv
  OBVIOUS
<1>1. <<>> \o <<>> = <<>> /\ <<>> \in Seq(Row)
  BY EmptySeq, ConcatEmptySeq
<1>2. LsnsOf(<<>>) \in Seq(Nat) /\ Len(LsnsOf(<<>>)) = 0
  BY <1>1, LsnsOfRows, EmptySeq, Zenon
<1>3. LsnsOf(<<>>) = <<>>
  BY <1>2, EmptySeq
<1>4. Range(<<>>) = {}
  BY DEF Range
<1>5. DiskMax = 0
  BY <1>3, <1>4 DEF Init, DiskMax
<1> QED
  BY <1>1, <1>3, <1>5 DEF Init, QueueLog!LogInit, MaxInv

\* The write path implements the LSN log that replication reads, for any
\* number of writers, any batch size and any number of crashes.
THEOREM WalImplementsLsnLog == Spec => ImplementsLsnLog
<1>1. Init => LockInv
  BY DEF Init, LockInv
<1> QED
  BY <1>1, TypeInit, TypeStep, LsnInit, LsnStep, LockStep, LogStarts, MaxStep, LogRefines, PTL
     DEF Spec, ImplementsLsnLog, QueueLog!LogSpec
-----------------------------------------------------------------------------
(***************************************************************************)
(* The memory and the replay of the log.  The rows of a key are replayed   *)
(* in the order of the sends and applied in the order of the Execs.  Their *)
(* last ones are the same write if the writes of the key did not overlap:  *)
(* the write that was sent last began after the others were acknowledged.  *)
(* The invariant has to say this of the rows that are still queued too.    *)
(***************************************************************************)
\* What the proof needs of Replay.  restoreFromWal starts from an empty store and
\* applies one row after the other; this is shown at the end (ReplayFactsHold).
ReplayFacts ==
  /\ Replay(<<>>) = EmptyStore
  /\ \A s \in Seq(Row) : Replay(s) \in [Keys -> Values \cup {Absent}]
  /\ \A s \in Seq(Row), row \in Row : Replay(Append(s, row)) = exec(Replay(s), row.req)

\* The row of r is queued or has been, in this life of the process.
Entered(r) == answer[r] # "none" \/ r \in Range(futureResp) \/ pc[r] = "register"

Sent(k) == {r \in Requests : Op[r].key = k /\ Entered(r)}

\* The rows on disk and those that will follow them.
Rows == log \o (queryBuf \o queryCh)

\* What the memory and the rows have for a key: the same if no request wrote it
\* in this life.  Otherwise the rows end with a write that was not done before
\* another one began, and a write that began after all others were done is the
\* one in memory.
KeyInv(k) ==
  /\ Sent(k) = {} => store[k] = Replay(Rows)[k]
  /\ Sent(k) # {} => \E q \in Sent(k) : /\ Replay(Rows)[k] = Op[q].val
                                        /\ \A r \in Sent(k) : <<q, r>> \notin before
  /\ \A q \in Sent(k) :
        pc[q] = "ok" /\ (\A r \in Sent(k) \ {q} : <<r, q>> \in before) => store[k] = Op[q].val

\* The inductive invariant for SettledStore.
OrderInv ==
  /\ \A r, q \in Requests : <<r, q>> \in before => pc[r] = "ok"
  /\ \A r \in Requests : pc[r] = "exec" => answer[r] # "none"
  /\ phase = "down" => store = EmptyStore
  /\ phase = "restoring" => pos <= Len(log) + 1 /\ store = Replay(SubSeq(log, 1, pos - 1))
  /\ phase = "up" /\ ~smLocked => \A k \in Keys : KeyInv(k)

\* The fresh node has no rows and nothing in memory.
LEMMA OrderStarts == ASSUME ReplayFacts PROVE OrderInit => OrderInv
<1> SUFFICES ASSUME OrderInit PROVE OrderInv
  OBVIOUS
<1>1. /\ phase = "restoring" /\ pos = 1 /\ log = <<>> /\ store = EmptyStore /\ before = {}
      /\ pc = [r \in Requests |-> "idle"]
  BY DEF OrderInit, Init
<1>2. SubSeq(log, 1, 0) = <<>> /\ Len(log) = 0 /\ pos - 1 = 0
  BY <1>1
<1>3. store = Replay(SubSeq(log, 1, pos - 1))
  BY <1>1, <1>2, Zenon DEF ReplayFacts
<1>4. pos <= Len(log) + 1
  BY <1>1, <1>2
<1> QED
  BY <1>1, <1>3, <1>4 DEF OrderInv

\* A pair that a step adds to the history has a second request that is just
\* beginning, so no row of it is queued.
LEMMA BeforeStep ==
  ASSUME TypeOK, FutureInv, [Next /\ Remember]_<<vars, before>>,
         NEW a \in Requests, NEW b \in Requests, <<a, b>> \in before'
  PROVE  <<a, b>> \in before \/ (pc[a] = "ok" /\ ~Entered(b))
<1>1. CASE UNCHANGED before
  BY <1>1
<1>2. CASE Remember
  <2>1. CASE phase' = "down"
    BY <1>2, <2>1, Zenon DEF Remember
  <2>2. CASE phase' # "down"
    <3>1. before' = before \cup {p \in Done \X Begun : Op[p[1]].key = Op[p[2]].key}
      BY <1>2, <2>2, Zenon DEF Remember
    <3>2. <<a, b>> \in before \/ <<a, b>> \in Done \X Begun
      BY <3>1
    <3>3. a \in Done /\ b \in Begun => pc[a] = "ok" /\ pc[b] = "idle"
      BY DEF Done, Begun
    <3>4. ASSUME pc[b] = "idle" PROVE ~Entered(b)
      <4>1. answer[b] = "none" /\ pc[b] # "register"
        BY <3>4 DEF FutureInv, BeforeFuture
      <4>2. Range(futureResp) = {futureResp[i] : i \in 1..Len(futureResp)}
        BY RangeEquality DEF TypeOK
      <4>3. b \notin Range(futureResp)
        BY <3>4, <4>2 DEF FutureInv, BeforeFuture
      <4> QED
        BY <4>1, <4>3 DEF Entered
    <3> QED
      BY <3>2, <3>3, <3>4
  <2> QED
    BY <2>1, <2>2
<1> QED
  BY <1>1, <1>2 DEF vars

\* A step that enters no row, executes nothing and keeps the order of the rows.
LEMMA KeyFrame ==
  ASSUME TypeOK, FutureInv, [Next /\ Remember]_<<vars, before>>, NEW k \in Keys, KeyInv(k),
         \A r \in Requests : Entered(r)' = Entered(r),
         \A r \in Requests : pc'[r] = "ok" => pc[r] = "ok",
         Rows' = Rows, store' = store
  PROVE  KeyInv(k)'
<1>1. Sent(k)' = Sent(k)
  BY DEF Sent
<1>2. \A a, b \in Sent(k) : <<a, b>> \in before' => <<a, b>> \in before
  BY BeforeStep, Zenon DEF Sent
<1>3. \A q \in Sent(k) : q \in Requests
  BY DEF Sent
<1>4. Replay(Rows)' = Replay(Rows)
  BY Zenon
<1>5. Sent(k)' = {} => store'[k] = Replay(Rows)'[k]
  BY <1>1, <1>4 DEF KeyInv
<1>6. Sent(k)' # {} => \E q \in Sent(k)' : /\ Replay(Rows)'[k] = Op[q].val
                                           /\ \A r \in Sent(k)' : <<q, r>> \notin before'
  BY <1>1, <1>2, <1>4 DEF KeyInv
<1>7. ASSUME NEW q \in Sent(k)', pc'[q] = "ok", \A r \in Sent(k)' \ {q} : <<r, q>> \in before'
      PROVE  store'[k] = Op[q].val
  BY <1>1, <1>2, <1>3, <1>7 DEF KeyInv
<1> QED
  BY <1>5, <1>6, <1>7, Zenon DEF KeyInv

\* The row that is sent becomes the last one of its key, and no other write of
\* the key has begun since it was done: it is not done.
LEMMA SendKeepsKeys ==
  ASSUME ReplayFacts, TypeOK, FutureInv, OrderInv, [Next /\ Remember]_<<vars, before>>,
         NEW r \in Requests, Send(r), NEW k \in Keys, KeyInv(k)
  PROVE  KeyInv(k)'
<1>1. /\ pc[r] = "send" /\ pc' = [pc EXCEPT ![r] = "register"]
      /\ queryCh' = Append(queryCh, RowOf(r))
      /\ UNCHANGED <<log, queryBuf, store, answer, futureResp>>
  BY DEF Send, Goto, futureVars, workerVars
<1>2. RowOf(r) \in Row /\ RowOf(r).req = r
  BY DEF RowOf, Row, TypeOK
<1>3. Rows \in Seq(Row) /\ Rows' = Append(Rows, RowOf(r))
  <2>1. queryBuf \o queryCh \in Seq(Row)
    BY ConcatProperties DEF TypeOK
  <2>2. queryBuf \o Append(queryCh, RowOf(r)) = Append(queryBuf \o queryCh, RowOf(r))
    BY <1>2, SendLast DEF TypeOK
  <2>3. log \o Append(queryBuf \o queryCh, RowOf(r)) = Append(Rows, RowOf(r))
    <3> DEFINE q == queryBuf \o queryCh
    <3>1. log \in Seq(Row)
      BY DEF TypeOK
    <3>2. q \in Seq(Row)
      BY <2>1
    <3> HIDE DEF q
    <3>3. log \o Append(q, RowOf(r)) = Append(log \o q, RowOf(r))
      BY <1>2, <3>1, <3>2, SendLast
    <3> QED
      BY <3>3, Zenon DEF q, Rows
  <2>4. Rows \in Seq(Row)
    BY <2>1, ConcatProperties DEF TypeOK, Rows
  <2> QED
    BY <1>1, <2>2, <2>3, <2>4, Zenon DEF Rows
<1>4. Replay(Rows)' = exec(Replay(Rows), r) /\ Replay(Rows) \in [Keys -> Values \cup {Absent}]
  <2>1. Replay(Rows)' = Replay(Rows')
    BY Zenon
  <2> QED
    BY <1>2, <1>3, <2>1, Zenon DEF ReplayFacts
<1>5. Replay(Rows)'[k] = IF Op[r].key = k THEN Op[r].val ELSE Replay(Rows)[k]
  BY <1>4 DEF exec
<1>6. \A q \in Requests : Entered(q)' <=> Entered(q) \/ q = r
  BY <1>1 DEF Entered, TypeOK
<1>7. \A q \in Requests : pc'[q] = "ok" => q # r /\ pc[q] = "ok"
  BY <1>1 DEF TypeOK
<1>8. \A a, b \in Sent(k) : <<a, b>> \in before' => <<a, b>> \in before
  BY BeforeStep, Zenon DEF Sent
<1>9. \A q \in Requests : <<r, q>> \notin before'
  BY <1>1, BeforeStep, Zenon DEF OrderInv
<1>10. CASE Op[r].key = k
  <2>1. \A q : q \in Sent(k)' <=> q \in Sent(k) \/ q = r
    BY <1>6, <1>10 DEF Sent
  <2>2. ASSUME NEW q \in Sent(k)' PROVE q \in Requests
    BY DEF Sent
  <2>3. Replay(Rows)'[k] = Op[r].val
    BY <1>5, <1>10
  <2>4. \A q \in Sent(k)' : pc'[q] = "ok" => r \in Sent(k)' \ {q} /\ <<r, q>> \notin before'
    BY <1>7, <1>9, <2>1, <2>2, Zenon
  <2> QED
    BY <1>9, <2>1, <2>2, <2>3, <2>4, Zenon DEF KeyInv
<1>11. CASE Op[r].key # k
  <2>1. Sent(k)' = Sent(k)
    BY <1>6, <1>11 DEF Sent
  <2>2. \A q \in Sent(k) : pc'[q] = "ok" => pc[q] = "ok"
    BY <1>7 DEF Sent
  <2>3. Replay(Rows)'[k] = Replay(Rows)[k] /\ store' = store
    BY <1>1, <1>5, <1>11, Zenon
  <2> QED
    BY <1>8, <2>1, <2>2, <2>3, Zenon DEF KeyInv
<1> QED
  BY <1>10, <1>11

\* A write that is applied was queued; no write of its key that is done began
\* after it, because it was not done itself.
LEMMA ExecKeepsKeys ==
  ASSUME TypeOK, FutureInv, OrderInv, [Next /\ Remember]_<<vars, before>>,
         NEW r \in Requests, pc[r] = "exec", pc' = [pc EXCEPT ![r] = "ok"],
         store' = exec(store, r), UNCHANGED <<log, queryBuf, queryCh, answer, futureResp>>,
         NEW k \in Keys, KeyInv(k)
  PROVE  KeyInv(k)'
<1>1. \A q \in Requests : Entered(q)' <=> Entered(q)
  BY DEF Entered, TypeOK
<1>2. Sent(k)' = Sent(k)
  BY <1>1, Zenon DEF Sent
<1>3. Replay(Rows)' = Replay(Rows)
  <2>1. Rows' = Rows
    BY DEF Rows
  <2> QED
    BY <2>1, Zenon
<1>4. \A a, b \in Sent(k) : <<a, b>> \in before' => <<a, b>> \in before
  BY BeforeStep DEF Sent
<1>5. \A q \in Requests : <<r, q>> \notin before
  BY Zenon DEF OrderInv
<1>6. store'[k] = IF Op[r].key = k THEN Op[r].val ELSE store[k]
  BY DEF exec, TypeOK
<1>7. Op[r].key = k => r \in Sent(k)
  BY Zenon DEF OrderInv, Sent, Entered
<1>8. Sent(k)' = {} => store'[k] = Replay(Rows)'[k]
  BY <1>2, <1>3, <1>6, <1>7, Zenon DEF KeyInv
<1>9. Sent(k)' # {} => \E q \in Sent(k)' : /\ Replay(Rows)'[k] = Op[q].val
                                           /\ \A s \in Sent(k)' : <<q, s>> \notin before'
  BY <1>2, <1>3, <1>4, Zenon DEF KeyInv
<1>10. ASSUME NEW q \in Sent(k)', pc'[q] = "ok", \A s \in Sent(k)' \ {q} : <<s, q>> \in before'
       PROVE  store'[k] = Op[q].val
  <2>1. q \in Requests /\ Op[q].key = k /\ q \in Sent(k)
    BY <1>2, <1>10, Zenon DEF Sent
  <2>2. CASE q = r
    BY <1>6, <2>1, <2>2, ZenonT(30)
  <2>3. CASE q # r
    <3>1. pc[q] = "ok" /\ \A s \in Sent(k) \ {q} : <<s, q>> \in before
      BY <1>2, <1>4, <1>10, <2>1, <2>3 DEF TypeOK
    <3>2. r \notin Sent(k)
      BY <1>5, <2>1, <2>3, <3>1, Zenon
    <3> QED
      BY <1>6, <1>7, <2>1, <3>1, <3>2 DEF KeyInv
  <2> QED
    BY <2>2, <2>3, Zenon
<1> QED
  BY <1>8, <1>9, <1>10, Zenon DEF KeyInv

\* Every step keeps the invariant: a request moves forward only, flush, Receive
\* and Drain move rows along without changing their order, and a start replays them.
LEMMA OrderStep ==
  ASSUME ReplayFacts
  PROVE  TypeOK /\ LsnInv /\ FutureInv /\ OrderInv
         /\ [Next /\ Remember]_<<vars, before>> => OrderInv'
<1> SUFFICES ASSUME TypeOK, LsnInv, FutureInv, OrderInv, [Next /\ Remember]_<<vars, before>>
             PROVE  OrderInv'
  OBVIOUS
<1> USE DEF clientVars, futureVars, workerVars, nodeVars
<1>0. [Next]_vars
  BY DEF vars
<1>1. \A a, b \in Requests : <<a, b>> \in before' => pc[a] = "ok"
  BY BeforeStep DEF OrderInv
<1>2. ASSUME NEW r \in Requests, WriteCanceled(r) \/ TakeLsn(r) \/ GetAnswer(r) \/ Timeout(r)
                                 \/ (Exec(r) /\ store' = store /\ pc'[r] # "ok")
      PROVE  OrderInv'
  <2>1. /\ phase = "up" /\ phase' = "up"
        /\ UNCHANGED <<log, queryBuf, queryCh, store, answer, futureResp, smLocked>>
        /\ pc[r] \in {"idle", "wait", "exec"}
        /\ \E p \in {"err", "send", "exec", "rejected"} :
             pc' = [pc EXCEPT ![r] = p] /\ (p = "exec" => answer[r] # "none")
    BY <1>2 DEF WriteCanceled, TakeLsn, GetAnswer, Timeout, Exec, Goto, TypeOK
  <2>2. PICK p \in {"err", "send", "exec", "rejected"} :
             pc' = [pc EXCEPT ![r] = p] /\ (p = "exec" => answer[r] # "none")
    BY <2>1, Zenon
  <2>3. \A q \in Requests : Entered(q)' = Entered(q)
    BY <2>1, <2>2 DEF Entered, TypeOK
  <2>4. \A q \in Requests : pc'[q] = "ok" <=> pc[q] = "ok"
    BY <2>1, <2>2 DEF TypeOK
  <2>5. \A q \in Requests : pc'[q] = "exec" => answer'[q] # "none"
    BY <2>1, <2>2 DEF TypeOK, OrderInv
  <2>6. Rows' = Rows
    BY <2>1 DEF Rows
  <2>7. ASSUME ~smLocked', NEW k \in Keys PROVE KeyInv(k)'
    <3>1. KeyInv(k)
      BY <2>1, <2>7 DEF OrderInv
    <3> QED
      BY <2>1, <2>3, <2>4, <2>6, <3>1, KeyFrame
  <2> QED
    BY <1>1, <2>1, <2>4, <2>5, <2>7 DEF OrderInv
<1>3. ASSUME NEW r \in Requests, Exec(r), ~(store' = store /\ pc'[r] # "ok") PROVE OrderInv'
  <2>1. /\ phase = "up" /\ phase' = "up" /\ pc[r] = "exec"
        /\ UNCHANGED <<log, queryBuf, queryCh, answer, futureResp, smLocked>>
        /\ pc' = [pc EXCEPT ![r] = "ok"] /\ store' = exec(store, r)
    BY <1>3 DEF Exec, Goto, TypeOK
  <2>2. \A q \in Requests : pc[q] = "ok" => pc'[q] = "ok"
    BY <2>1 DEF TypeOK
  <2>3. \A q \in Requests : pc'[q] = "exec" => answer'[q] # "none"
    BY <2>1 DEF TypeOK, OrderInv
  <2>4. ASSUME ~smLocked', NEW k \in Keys PROVE KeyInv(k)'
    <3>1. KeyInv(k)
      BY <2>1, <2>4 DEF OrderInv
    <3> QED
      BY <2>1, <3>1, ExecKeepsKeys, Zenon
  <2> QED
    BY <1>1, <2>1, <2>2, <2>3, <2>4, Zenon DEF OrderInv
<1>4. ASSUME NEW r \in Requests, Send(r) PROVE OrderInv'
  <2>1. /\ phase = "up" /\ phase' = "up" /\ smLocked' = smLocked
        /\ answer' = answer /\ pc' = [pc EXCEPT ![r] = "register"] /\ pc[r] = "send"
    BY <1>4 DEF Send, Goto
  <2>2. \A q \in Requests : pc[q] = "ok" => pc'[q] = "ok"
    BY <2>1 DEF TypeOK
  <2>3. \A q \in Requests : pc'[q] = "exec" => answer'[q] # "none"
    BY <2>1 DEF TypeOK, OrderInv
  <2>4. ASSUME ~smLocked', NEW k \in Keys PROVE KeyInv(k)'
    <3>1. KeyInv(k)
      BY <2>1, <2>4, Zenon DEF OrderInv
    <3> QED
      BY <1>4, <3>1, SendKeepsKeys
  <2> QED
    BY <1>1, <2>1, <2>2, <2>3, <2>4 DEF OrderInv
<1>5. ASSUME NEW r \in Requests, Register(r) PROVE OrderInv'
  <2>1. /\ phase = "up" /\ phase' = "up"
        /\ UNCHANGED <<log, queryBuf, queryCh, store, answer, smLocked>>
        /\ pc[r] = "register" /\ pc' = [pc EXCEPT ![r] = "wait"]
        /\ futureResp' = Append(futureResp, r)
    BY <1>5 DEF Register, Goto
  <2>2. Range(futureResp') = Range(futureResp) \cup {r}
    BY <2>1, RangeAppend DEF TypeOK
  <2>3. \A q \in Requests : Entered(q)' = Entered(q)
    BY <2>1, <2>2 DEF Entered, TypeOK
  <2>4. \A q \in Requests : pc'[q] = "ok" <=> pc[q] = "ok"
    BY <2>1 DEF TypeOK
  <2>5. \A q \in Requests : pc'[q] = "exec" => answer'[q] # "none"
    BY <2>1 DEF TypeOK, OrderInv
  <2>6. Rows' = Rows
    BY <2>1 DEF Rows
  <2>7. ASSUME ~smLocked', NEW k \in Keys PROVE KeyInv(k)'
    <3>1. KeyInv(k)
      BY <2>1, <2>7, Zenon DEF OrderInv
    <3> QED
      BY <2>1, <2>3, <2>4, <2>6, <3>1, KeyFrame
  <2> QED
    BY <1>1, <2>1, <2>4, <2>5, <2>7, Zenon DEF OrderInv
<1>6. CASE FlushAnswer
  <2>1. /\ phase = "up" /\ phase' = "up" /\ futureResp' = <<>> /\ answer' = PutAll
        /\ UNCHANGED <<log, queryBuf, queryCh, store, pc, smLocked>>
    BY <1>6 DEF FlushAnswer
  <2>2. Range(futureResp') = {}
    BY <2>1 DEF Range
  <2>3. \A q \in Requests : answer'[q] # "none" <=> answer[q] # "none" \/ q \in Range(futureResp)
    BY <2>1 DEF PutAll
  <2>4. \A q \in Requests : Entered(q)' = Entered(q)
    BY <2>1, <2>2, <2>3 DEF Entered
  <2>5. \A q \in Requests : pc'[q] = "exec" => answer'[q] # "none"
    BY <2>1, <2>3 DEF OrderInv
  <2>6. Rows' = Rows
    BY <2>1 DEF Rows
  <2>7. ASSUME ~smLocked', NEW k \in Keys PROVE KeyInv(k)'
    <3>1. KeyInv(k)
      BY <2>1, <2>7 DEF OrderInv
    <3> QED
      BY <2>1, <2>4, <2>6, <3>1, KeyFrame
  <2> QED
    BY <1>1, <2>1, <2>5, <2>7 DEF OrderInv
<1>7. CASE \/ Receive \/ Tick \/ SeeCancel \/ Drain \/ FlushOk \/ FlushMarshalError
           \/ Cancel
  <2>1. /\ phase = "up" /\ phase' = "up"
        /\ UNCHANGED <<store, answer, futureResp, pc, smLocked>>
    BY <1>7 DEF Receive, Tick, SeeCancel, Drain, FlushOk, FlushMarshalError, Cancel
  <2>2. Rows' = Rows
    <3>1. CASE UNCHANGED <<log, queryBuf, queryCh>>
      BY <3>1 DEF Rows
    <3>2. CASE /\ queryCh # <<>> /\ queryBuf' = Append(queryBuf, Head(queryCh))
               /\ queryCh' = Tail(queryCh) /\ log' = log
      <4>1. queryBuf \in Seq(Row) /\ queryCh \in Seq(Row)
        BY DEF TypeOK
      <4>2. queryBuf' \o queryCh' = queryBuf \o queryCh
        BY <3>2, <4>1, MoveHead, Zenon
      <4> QED
        BY <3>2, <4>2, Zenon DEF Rows
    <3>3. CASE log' = log \o queryBuf /\ queryBuf' = <<>> /\ queryCh' = queryCh
      <4>1. log \in Seq(Row) /\ queryBuf \in Seq(Row) /\ queryCh \in Seq(Row)
        BY DEF TypeOK
      <4>2. <<>> \o queryCh = queryCh
        BY <4>1
      <4>3. (log \o queryBuf) \o queryCh = log \o (queryBuf \o queryCh)
        BY <4>1, ConcatAssociative
      <4> QED
        BY <3>3, <4>2, <4>3, Zenon DEF Rows
    <3> QED
      BY <1>7, <3>1, <3>2, <3>3, Zenon
         DEF Receive, Tick, SeeCancel, Drain, FlushOk, FlushMarshalError, Cancel
  <2>3. \A q \in Requests : Entered(q)' = Entered(q)
    BY <2>1 DEF Entered
  <2>4. ASSUME ~smLocked', NEW k \in Keys PROVE KeyInv(k)'
    <3>1. KeyInv(k)
      BY <2>1, <2>4, Zenon DEF OrderInv
    <3> QED
      BY <2>1, <2>2, <2>3, <3>1, KeyFrame
  <2> QED
    BY <1>1, <2>1, <2>4 DEF OrderInv
<1>8. CASE FlushIOError
  <2>1. phase = "up" /\ phase' = "up" /\ smLocked' /\ UNCHANGED <<pc, answer>>
    BY <1>8, Zenon DEF FlushIOError
  <2> QED
    BY <1>1, <2>1, Zenon DEF OrderInv
<1>9. CASE RestoreNext
  <2>1. /\ phase = "restoring" /\ phase' = "restoring" /\ pos <= Len(log) /\ pos' = pos + 1
        /\ store' = exec(store, log[pos].req) /\ UNCHANGED <<pc, answer, log>>
    BY <1>9 DEF RestoreNext
  <2>2. /\ pos \in 1..Len(log) /\ log[pos] \in Row /\ pos - 1 \in 0..Len(log)
        /\ pos' - 1 = pos /\ pos' <= Len(log') + 1 /\ (pos - 1) + 1 = pos
    BY <2>1 DEF TypeOK
  <2>3. SubSeq(log, 1, pos - 1) \in Seq(Row)
    BY <2>2, PrefixProperties DEF TypeOK
  <2>4. SubSeq(log, 1, pos) = Append(SubSeq(log, 1, pos - 1), log[pos])
    BY <2>2, SMTT(20) DEF TypeOK
  <2>5. store = Replay(SubSeq(log, 1, pos - 1))
    BY <2>1 DEF OrderInv
  <2>6. store' = Replay(SubSeq(log', 1, pos' - 1))
    BY <2>1, <2>2, <2>3, <2>4, <2>5, Zenon DEF ReplayFacts
  <2> QED
    BY <1>1, <2>1, <2>2, <2>6, Zenon DEF OrderInv
<1>10. CASE RestoreDone
  <2>1. /\ phase = "restoring" /\ phase' = "up" /\ pos > Len(log)
        /\ UNCHANGED <<pc, answer, futureResp, log, queryBuf, queryCh, store>>
    BY <1>10 DEF RestoreDone
  <2>2. store = Replay(log)
    <3>1. pos <= Len(log) + 1 /\ store = Replay(SubSeq(log, 1, pos - 1))
      BY <2>1 DEF OrderInv
    <3>2. pos - 1 = Len(log) /\ SubSeq(log, 1, Len(log)) = log
      BY <2>1, <3>1 DEF TypeOK
    <3> QED
      BY <3>1, <3>2, Zenon
  <2>3. Rows' = log
    <3>1. queryBuf' = <<>> /\ queryCh' = <<>> /\ log' = log
      BY <2>1 DEF LsnInv
    <3>2. log \o (<<>> \o <<>>) = log
      BY DEF TypeOK
    <3> QED
      BY <3>1, <3>2, Zenon DEF Rows
  <2>4. \A q \in Requests : ~Entered(q)'
    <3>1. Range(futureResp') = {}
      BY <2>1 DEF FutureInv, Range
    <3>2. \A q \in Requests : answer'[q] = "none" /\ pc'[q] # "register"
      BY <2>1, Zenon DEF FutureInv, LsnInv, InWal
    <3> QED
      BY <3>1, <3>2 DEF Entered
  <2>5. ASSUME NEW k \in Keys PROVE KeyInv(k)'
    <3>1. Sent(k)' = {}
      BY <2>4 DEF Sent
    <3>2. Replay(Rows)' = Replay(log)
      BY <2>3, Zenon
    <3> QED
      BY <2>1, <2>2, <3>1, <3>2, Zenon DEF KeyInv
  <2> QED
    BY <1>1, <2>1, <2>5 DEF OrderInv
<1>11. CASE Halt
  <2>1. /\ phase' = "down" /\ store' = EmptyStore
        /\ pc' = [r \in Requests |-> IF pc[r] \in InWal THEN "lost" ELSE pc[r]]
    BY <1>11 DEF Halt
  <2>2. \A q \in Requests : pc'[q] # "exec" /\ (pc[q] = "ok" => pc'[q] = "ok")
    BY <2>1 DEF InWal
  <2> QED
    BY <1>1, <2>1, <2>2, Zenon DEF OrderInv
<1>12. CASE Restart
  <2>1. /\ phase = "down" /\ phase' = "restoring" /\ UNCHANGED <<pc, answer, log, pos, store>>
    BY <1>12 DEF Restart
  <2>2. /\ pos' = 1 /\ pos' - 1 = 0 /\ pos' <= Len(log') + 1 /\ SubSeq(log', 1, 0) = <<>>
    <3>1. pos = 1
      BY <2>1, Zenon DEF LsnInv
    <3>2. log \in Seq(Row)
      BY DEF TypeOK
    <3> QED
      BY <2>1, <3>1, <3>2
  <2>3. store' = EmptyStore
    BY <2>1 DEF OrderInv
  <2>4. store' = Replay(SubSeq(log', 1, pos' - 1))
    BY <2>2, <2>3, Zenon DEF ReplayFacts
  <2> QED
    BY <1>1, <2>1, <2>2, <2>4 DEF OrderInv
<1>13. CASE UNCHANGED vars
  <2>1. UNCHANGED <<phase, pos, pc, answer, futureResp, log, queryBuf, queryCh, store, smLocked>>
    BY <1>13 DEF vars
  <2>2. Rows' = Rows /\ \A q \in Requests : Entered(q)' = Entered(q)
    BY <2>1, Zenon DEF Rows, Entered
  <2>3. ASSUME phase = "up", ~smLocked, NEW k \in Keys PROVE KeyInv(k)'
    <3>1. KeyInv(k)
      BY <2>3 DEF OrderInv
    <3> QED
      BY <2>1, <2>2, <3>1, KeyFrame
  <2> QED
    BY <1>1, <2>1, <2>3, Zenon DEF OrderInv
<1> QED
  BY <1>0, <1>2, <1>3, <1>4, <1>5, <1>6, <1>7, <1>8, <1>9, <1>10, <1>11, <1>12, <1>13
     DEF Next, Client, Worker, Flush, Process, Crash, Exit, Idle

-----------------------------------------------------------------------------
(***************************************************************************)
(* Replay is a fold over the rows.                                         *)
(***************************************************************************)
RowStep(st, row) == exec(st, row.req)

RP == INSTANCE FoldProofs WITH Op <- RowStep

\* The replay of the model is the fold of FoldProofs.
LEMMA ReplayIs == ASSUME NEW s PROVE Replay(s) = RP!Fold(EmptyStore, s)
  BY Zenon DEF Replay, FoldLeft, MapThenFoldSet, Max, RP!Fold, RP!Greatest, RowStep

\* ReplayFacts follows from the recursion of the fold.
LEMMA ReplayFactsHold == ReplayFacts
<1> DEFINE V == [Keys -> Values \cup {Absent}]
<1>1. EmptyStore \in V
  BY DEF EmptyStore
<1>2. ASSUME NEW st \in V, NEW row \in Row PROVE RowStep(st, row) \in V
  <2>1. row.req \in Requests
    BY DEF Row
  <2>2. Op[row.req].val \in Values \cup {Absent}
    BY <2>1, WalAssumption
  <2> QED
    BY <2>2, Zenon DEF RowStep, exec
<1> HIDE DEF V
<1>3. ASSUME NEW s \in Seq(Row) PROVE RP!Fold(EmptyStore, s) \in V
  BY <1>1, <1>2, RP!FoldType, Zenon
<1>4. ASSUME NEW s \in Seq(Row), NEW row \in Row
      PROVE  RP!Fold(EmptyStore, Append(s, row)) = RowStep(RP!Fold(EmptyStore, s), row)
  BY RP!FoldAppend
<1>5. RP!Fold(EmptyStore, <<>>) = EmptyStore
  BY RP!FoldEmpty
<1> QED
  BY <1>3, <1>4, <1>5, ReplayIs, Zenon DEF V, RowStep, ReplayFacts

\* If the writes of a key all succeeded and did not overlap, a node that is settled
\* has in memory what a restart would replay, for any number of requests, keys,
\* faults and lives of the process before this one.
THEOREM SettledMemoryIsReplay == OrderSpec => []SettledStore
<1>1. TypeOK /\ LockInv /\ OrderInv => SettledStore
  <2> SUFFICES ASSUME TypeOK, LockInv, OrderInv, Settled, NEW k \in Keys,
                      \A r, q \in Writers(k) : r = q \/ <<r, q>> \in before \/ <<q, r>> \in before,
                      \A r \in Writers(k) : pc[r] = "ok"
               PROVE  store[k] = Replay(log)[k]
    BY Zenon DEF SettledStore
  <2>1. phase = "up" /\ ~smLocked
    BY DEF Settled, LockInv, Writing
  <2>2. KeyInv(k)
    BY <2>1 DEF OrderInv
  <2>3. Rows = log
    <3>1. log \o (<<>> \o <<>>) = log
      BY SMTT(20) DEF TypeOK
    <3> QED
      BY <3>1, Zenon DEF Rows, Settled
  <2>4. Sent(k) = Writers(k)
    BY DEF Sent, Entered, Writers, Settled, Finished
  <2>5. CASE Sent(k) = {}
    BY <2>2, <2>3, <2>5, Zenon DEF KeyInv
  <2>6. CASE Sent(k) # {}
    <3>1. PICK q \in Sent(k) : /\ Replay(log)[k] = Op[q].val
                               /\ \A r \in Sent(k) : <<q, r>> \notin before
      BY <2>2, <2>3, <2>6 DEF KeyInv
    <3>2. \A r \in Sent(k) \ {q} : <<r, q>> \in before
      BY <2>4, <3>1, Zenon
    <3>3. store[k] = Op[q].val
      BY <2>2, <2>4, <3>2, Zenon DEF KeyInv
    <3> QED
      BY <3>1, <3>3
  <2> QED
    BY <2>5, <2>6
<1>2. [Next /\ Remember]_<<vars, before>> => [Next]_vars
  BY DEF vars
<1>3. OrderInit => Init /\ LockInv
  BY Zenon DEF OrderInit, Init, LockInv
<1> QED
  BY <1>1, <1>2, <1>3, TypeInit, TypeStep, LockStep, LsnInit, LsnStep, FutureInit, FutureStep,
     ReplayFactsHold, OrderStarts, OrderStep, PTL DEF OrderSpec
=============================================================================
