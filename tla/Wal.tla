-------------------------------- MODULE Wal --------------------------------
(***************************************************************************)
(* The write path of one laguna node: client goroutines running            *)
(* Database.Execute (internal/database/database.go), the write-ahead log   *)
(* they share (internal/database/wal/wal.go) and its single worker         *)
(* goroutine, down to the rows that are on disk, with crashes, restarts    *)
(* and the replay of the log.                                              *)
(*                                                                         *)
(* A request is one SET or DEL executed by one handler goroutine; the same *)
(* goroutine runs Execute, setInWal and WAL.Write, so its position in them *)
(* is pc[r].  A row is the log sequence number (LSN) it was given and the  *)
(* request it carries: method and arguments are Op[r], which the WAL never *)
(* looks at.  The segment files are one sequence of rows here, log; module *)
(* Segments models the files.                                              *)
(***************************************************************************)
EXTENDS Naturals, Sequences, Functions

CONSTANTS
  Requests,        \* the SET and DEL requests that reach Execute
  Keys, Values,    \* keys and values of the store
  Absent,          \* "no value": what the store has for a key not in its map
  Op,              \* Op[r]: the key r writes and the value, Absent for DEL
  Oversize,        \* requests with an argument longer than 65535 bytes
  FlushBatchSize,  \* flush_batch_size: capacity of queryCh and batch limit
  IsMaster,        \* replication.is_master
  Faults,          \* which of "crash", "io", "cancel" may happen
  MaxCrashes       \* bound: how many times the process may end

ASSUME WalAssumption ==
  /\ FlushBatchSize \in Nat \ {0}
  /\ MaxCrashes \in Nat
  /\ IsMaster \in BOOLEAN
  /\ Absent \notin Values
  /\ Op \in [Requests -> [key : Keys, val : Values \cup {Absent}]]
  /\ Oversize \subseteq Requests

VARIABLES
  phase,       \* "restoring" (NewDatabase), "up", or "down" (no process)
  pos,         \* restoring: index in log of the next row to replay
  pc,          \* pc[r]: where request r is
  lsnOf,       \* lsnOf[r]: the LSN r was given, 0 before
  lsnID,       \* lsnGen; while restoring, the running maximum lastLSNID
  queryCh,     \* the channel from the client goroutines to the worker
  futureResp,  \* futures registered and not yet answered
  answer,      \* answer[r]: what was Put in r's future
  worker,      \* where the worker goroutine is
  flushErr,    \* the result of the last writer.Write: TRUE for an error
  queryBuf,    \* rows the worker took from queryCh and has not written
  smLocked,    \* the segment manager's mutex is held and will stay so
  ctxDone,     \* SIGTERM received: the context is canceled
  store,       \* the in-memory engine
  log,         \* rows on disk, in file order
  crashes      \* how many times the process ended

clientVars == <<pc, lsnOf>>
workerVars == <<worker, flushErr, queryBuf, smLocked>>
futureVars == <<futureResp, answer>>
nodeVars   == <<phase, pos, ctxDone, crashes>>
vars == <<clientVars, lsnID, queryCh, futureVars, workerVars, nodeVars, store, log>>

Row == [lsn : Nat, req : Requests]

RowOf(r) == [lsn |-> lsnOf[r], req |-> r]

\* Positions of a request.  "lost": its connection died with the process.
InWal    == {"send", "register", "wait", "exec"}
Finished == {"ok", "err", "rejected", "lost"}

EmptyStore == [k \in Keys |-> Absent]

\* Database.exec on a SET or a DEL.
exec(st, r) == [st EXCEPT ![Op[r].key] = Op[r].val]

Init ==
  /\ phase = "restoring" /\ pos = 1 /\ ctxDone = FALSE /\ crashes = 0
  /\ pc = [r \in Requests |-> "idle"]
  /\ lsnOf = [r \in Requests |-> 0]
  /\ lsnID = 0
  /\ queryCh = <<>> /\ futureResp = <<>>
  /\ answer = [r \in Requests |-> "none"]
  /\ worker = "stopped" /\ flushErr = FALSE /\ queryBuf = <<>> /\ smLocked = FALSE
  /\ store = EmptyStore
  /\ log = <<>>
-----------------------------------------------------------------------------
(***************************************************************************)
(* The client goroutine: Execute, setInWal and WAL.Write.                  *)
(***************************************************************************)
Goto(r, p) == pc' = [pc EXCEPT ![r] = p]

\* Handle and WAL.Write return ctx.Err() before anything is done.
WriteCanceled(r) ==
  /\ phase = "up" /\ pc[r] = "idle" /\ ctxDone
  /\ Goto(r, "err")
  /\ UNCHANGED <<lsnOf, lsnID, queryCh, futureVars, workerVars, nodeVars, store, log>>

\* WAL.Write up to NextID: the LSN is taken here, the row is queued later.
TakeLsn(r) ==
  /\ phase = "up" /\ pc[r] = "idle" /\ ~ctxDone
  /\ lsnID' = lsnID + 1
  /\ lsnOf' = [lsnOf EXCEPT ![r] = lsnID + 1]
  /\ Goto(r, "send")
  /\ UNCHANGED <<queryCh, futureVars, workerVars, nodeVars, store, log>>

\* Mutant: the channel has no capacity.
SendUnbounded(r) ==
  /\ phase = "up" /\ pc[r] = "send"
  /\ queryCh' = Append(queryCh, RowOf(r))
  /\ Goto(r, "register")
  /\ UNCHANGED <<lsnOf, lsnID, futureVars, workerVars, nodeVars, store, log>>

\* queryCh <- r blocks while the channel is full; no context ends the wait.
Send(r) ==
  /\ phase = "up" /\ pc[r] = "send"
  /\ Len(queryCh) < FlushBatchSize
  /\ queryCh' = Append(queryCh, RowOf(r))
  /\ Goto(r, "register")
  /\ UNCHANGED <<lsnOf, lsnID, futureVars, workerVars, nodeVars, store, log>>

\* The future is appended under the lock only after the row is queued.
Register(r) ==
  /\ phase = "up" /\ pc[r] = "register"
  /\ futureResp' = Append(futureResp, r)
  /\ Goto(r, "wait")
  /\ UNCHANGED <<lsnOf, lsnID, queryCh, answer, workerVars, nodeVars, store, log>>

\* GetResponseWithDeadline receives the answer.
GetAnswer(r) ==
  /\ phase = "up" /\ pc[r] = "wait" /\ answer[r] # "none"
  /\ Goto(r, IF answer[r] = "ok" THEN "exec" ELSE "err")
  /\ UNCHANGED <<lsnOf, lsnID, queryCh, futureVars, workerVars, nodeVars, store, log>>

\* Mutant: after the deadline the goroutine waits again.
TimeoutRetries(r) == phase = "up" /\ pc[r] = "wait" /\ UNCHANGED vars

\* The one-second deadline, or the canceled context, wins the select; it may
\* do so although the answer is already in the future.
Timeout(r) ==
  /\ phase = "up" /\ pc[r] = "wait"
  /\ Goto(r, "err")
  /\ UNCHANGED <<lsnOf, lsnID, queryCh, futureVars, workerVars, nodeVars, store, log>>

\* Mutant: the role of the node is not looked at.
ExecOnAnyNode(r) ==
  /\ phase = "up" /\ pc[r] = "exec"
  /\ \/ ctxDone /\ Goto(r, "err") /\ UNCHANGED store
     \/ ~ctxDone /\ Goto(r, "ok") /\ store' = exec(store, r)
  /\ UNCHANGED <<lsnOf, lsnID, queryCh, futureVars, workerVars, nodeVars, log>>

\* Execute after setInWal: a slave rejects the write only now; a master
\* applies it unless Storage.Set or Delete finds the context canceled.
Exec(r) ==
  /\ phase = "up" /\ pc[r] = "exec"
  /\ \/ ~IsMaster /\ Goto(r, "rejected") /\ UNCHANGED store
     \/ IsMaster /\ ctxDone /\ Goto(r, "err") /\ UNCHANGED store
     \/ IsMaster /\ ~ctxDone /\ Goto(r, "ok") /\ store' = exec(store, r)
  /\ UNCHANGED <<lsnOf, lsnID, queryCh, futureVars, workerVars, nodeVars, log>>

-----------------------------------------------------------------------------
(***************************************************************************)
(* The worker: startInfileWALWorker and flush.                             *)
(*                                                                         *)
(* "select": past the first, non-blocking check of the context and waiting *)
(* in the second select, which may still pick a tick or a row although the *)
(* context has been canceled.  "drain": emptying queryCh before the last   *)
(* flush, which is "lastWrite" and "lastAnswer".                           *)
(***************************************************************************)
LoopTop == IF ctxDone THEN "drain" ELSE "select"

Receive ==
  /\ phase = "up" /\ worker = "select" /\ queryCh # <<>>
  /\ queryBuf' = Append(queryBuf, Head(queryCh))
  /\ queryCh' = Tail(queryCh)
  /\ worker' = IF Len(queryBuf') >= FlushBatchSize THEN "write" ELSE LoopTop
  /\ UNCHANGED <<clientVars, lsnID, futureVars, flushErr, smLocked, nodeVars, store, log>>

\* A tick with an empty buffer does nothing, whoever waits for an answer.
Tick ==
  /\ phase = "up" /\ worker = "select" /\ queryBuf # <<>>
  /\ worker' = "write"
  /\ UNCHANGED <<clientVars, lsnID, queryCh, futureVars, flushErr, queryBuf,
                 smLocked, nodeVars, store, log>>

SeeCancel ==
  /\ phase = "up" /\ worker = "select" /\ ctxDone
  /\ worker' = "drain"
  /\ UNCHANGED <<clientVars, lsnID, queryCh, futureVars, flushErr, queryBuf,
                 smLocked, nodeVars, store, log>>

Drain ==
  /\ phase = "up" /\ worker = "drain"
  /\ \/ /\ queryCh # <<>>
        /\ queryBuf' = Append(queryBuf, Head(queryCh))
        /\ queryCh' = Tail(queryCh)
        /\ UNCHANGED worker
     \/ /\ queryCh = <<>>
        /\ worker' = "lastWrite"
        /\ UNCHANGED <<queryBuf, queryCh>>
  /\ UNCHANGED <<clientVars, lsnID, futureVars, flushErr, smLocked, nodeVars, store, log>>

Writing == worker \in {"write", "lastWrite"}

ToAnswer == worker' = IF worker = "write" THEN "answer" ELSE "lastAnswer"

\* createBatch: one row that does not marshal fails the whole batch.
Poisoned == \E row \in Range(queryBuf) : row.req \in Oversize

\* Mutant: the buffer is not emptied after a successful write.
FlushKeepsBuffer ==
  /\ phase = "up" /\ Writing /\ ~Poisoned /\ ~smLocked
  /\ log' = log \o queryBuf
  /\ flushErr' = FALSE
  /\ ToAnswer
  /\ UNCHANGED <<clientVars, lsnID, queryCh, futureVars, queryBuf, smLocked, nodeVars, store>>

\* Mutant: the last row of the batch is not written.
FlushShortWrite ==
  /\ phase = "up" /\ Writing /\ ~Poisoned /\ ~smLocked
  /\ log' = log \o SubSeq(queryBuf, 1, Len(queryBuf) - 1)
  /\ queryBuf' = <<>>
  /\ flushErr' = FALSE
  /\ ToAnswer
  /\ UNCHANGED <<clientVars, lsnID, queryCh, futureVars, smLocked, nodeVars, store>>

\* Mutant: the rows go before those that are on disk, as in a segment whose name
\* sorts first.
FlushPrepends ==
  /\ phase = "up" /\ Writing /\ ~Poisoned /\ ~smLocked
  /\ log' = queryBuf \o log
  /\ queryBuf' = <<>>
  /\ flushErr' = FALSE
  /\ ToAnswer
  /\ UNCHANGED <<clientVars, lsnID, queryCh, futureVars, smLocked, nodeVars, store>>

\* Mutant: the file is not opened for appending.
FlushOverwrites ==
  /\ phase = "up" /\ Writing /\ ~Poisoned /\ ~smLocked
  /\ log' = queryBuf \o SubSeq(log, Len(queryBuf) + 1, Len(log))
  /\ queryBuf' = <<>>
  /\ flushErr' = FALSE
  /\ ToAnswer
  /\ UNCHANGED <<clientVars, lsnID, queryCh, futureVars, smLocked, nodeVars, store>>

\* writer.Write succeeds: the rows are written and synced, the buffer emptied.
FlushOk ==
  /\ phase = "up" /\ Writing /\ ~Poisoned /\ ~smLocked
  /\ log' = log \o queryBuf
  /\ queryBuf' = <<>>
  /\ flushErr' = FALSE
  /\ ToAnswer
  /\ UNCHANGED <<clientVars, lsnID, queryCh, futureVars, smLocked, nodeVars, store>>

\* Mutant: the buffer is emptied also when the write failed.
FlushErrorDropsBuffer ==
  /\ phase = "up" /\ Writing /\ Poisoned
  /\ flushErr' = TRUE
  /\ queryBuf' = <<>>
  /\ ToAnswer
  /\ UNCHANGED <<clientVars, lsnID, queryCh, futureVars, smLocked, nodeVars, store, log>>

\* Both attempts of WithRetry fail in createBatch; queryBuf is kept.
FlushMarshalError ==
  /\ phase = "up" /\ Writing /\ Poisoned
  /\ flushErr' = TRUE
  /\ ToAnswer
  /\ UNCHANGED <<clientVars, lsnID, queryCh, futureVars, queryBuf, smLocked,
                 nodeVars, store, log>>

\* The file write, its sync or a rotation fails after some rows reached the
\* file; writeInSeg and processBatches return with the manager's mutex held.
\* WithRetry calls Write again: the worker is still at "write", and FlushOk
\* needs the mutex.
FlushIOError ==
  /\ "io" \in Faults
  /\ phase = "up" /\ Writing /\ ~Poisoned /\ ~smLocked /\ queryBuf # <<>>
  /\ \E n \in 0..Len(queryBuf) : log' = log \o SubSeq(queryBuf, 1, n)
  /\ smLocked' = TRUE
  /\ UNCHANGED <<clientVars, lsnID, queryCh, futureVars, worker, flushErr,
                 queryBuf, nodeVars, store>>

PutAll == [r \in Requests |->
             IF r \in Range(futureResp) THEN IF flushErr THEN "err" ELSE "ok"
                                        ELSE answer[r]]

\* Mutant: the registered futures are not forgotten once answered.
FlushKeepsFutures ==
  /\ phase = "up" /\ worker \in {"answer", "lastAnswer"}
  /\ answer' = PutAll
  /\ worker' = IF worker = "answer" THEN LoopTop ELSE "stopped"
  /\ UNCHANGED <<clientVars, lsnID, queryCh, futureResp, flushErr, queryBuf,
                 smLocked, nodeVars, store, log>>

\* The rest of flush: every registered future gets the result of this flush.
FlushAnswer ==
  /\ phase = "up" /\ worker \in {"answer", "lastAnswer"}
  /\ answer' = PutAll
  /\ futureResp' = <<>>
  /\ worker' = IF worker = "answer" THEN LoopTop ELSE "stopped"
  /\ UNCHANGED <<clientVars, lsnID, queryCh, flushErr, queryBuf, smLocked,
                 nodeVars, store, log>>

-----------------------------------------------------------------------------
(***************************************************************************)
(* The life of the process: NewDatabase, main, a crash.                    *)
(***************************************************************************)
\* Mutant: the generator restarts after the last row, not the greatest LSN.
LsnOfLastRow(last, row) == row.lsn

\* RestoreStream and restoreFromWal: one row is replayed, and lastLSNID is
\* the greatest LSN seen, not the last one.
LastLsnID(last, row) == IF row.lsn > last THEN row.lsn ELSE last

RestoreNext ==
  /\ phase = "restoring" /\ pos <= Len(log)
  /\ store' = exec(store, log[pos].req)
  /\ lsnID' = LastLsnID(lsnID, log[pos])
  /\ pos' = pos + 1
  /\ UNCHANGED <<clientVars, queryCh, futureVars, workerVars, phase, ctxDone, crashes, log>>

\* End of the stream: lsnGen starts at lastLSNID; main starts the worker and
\* the listeners.
RestoreDone ==
  /\ phase = "restoring" /\ pos > Len(log)
  /\ phase' = "up"
  /\ worker' = "select"
  /\ UNCHANGED <<clientVars, lsnID, queryCh, futureVars, flushErr, queryBuf,
                 smLocked, pos, ctxDone, crashes, store, log>>

Cancel ==
  /\ "cancel" \in Faults /\ crashes < MaxCrashes
  /\ phase = "up" /\ ~ctxDone
  /\ ctxDone' = TRUE
  /\ UNCHANGED <<clientVars, lsnID, queryCh, futureVars, workerVars, phase, pos,
                 crashes, store, log>>

\* The process ends: what is in memory is gone.  A write in progress leaves
\* any number of its rows on disk.
Halt ==
  /\ crashes < MaxCrashes /\ crashes' = crashes + 1
  /\ phase' = "down"
  /\ \E n \in 0..Len(queryBuf) :
        /\ n > 0 => Writing /\ ~Poisoned /\ ~smLocked
        /\ log' = log \o SubSeq(queryBuf, 1, n)
  /\ pc' = [r \in Requests |-> IF pc[r] \in InWal THEN "lost" ELSE pc[r]]
  /\ lsnID' = 0 /\ pos' = 1 /\ ctxDone' = FALSE
  /\ queryCh' = <<>> /\ futureResp' = <<>> /\ queryBuf' = <<>>
  /\ answer' = [r \in Requests |-> "none"]
  /\ worker' = "stopped" /\ flushErr' = FALSE /\ smLocked' = FALSE
  /\ store' = EmptyStore
  /\ UNCHANGED lsnOf

Crash == "crash" \in Faults /\ phase \in {"up", "restoring"} /\ Halt

\* main returns after <-ctx.Done() without waiting for the worker.
Exit == phase = "up" /\ ctxDone /\ Halt

Restart ==
  /\ phase = "down"
  /\ phase' = "restoring"
  /\ UNCHANGED <<clientVars, lsnID, queryCh, futureVars, workerVars, pos, ctxDone,
                 crashes, store, log>>

\* All requests were served and the worker has nothing left to write.
Settled ==
  /\ phase = "up" /\ \A r \in Requests : pc[r] \in Finished
  /\ worker = "select" /\ ~ctxDone /\ queryCh = <<>> /\ queryBuf = <<>>

Idle == Settled /\ UNCHANGED vars

Client(r) ==
  \/ WriteCanceled(r) \/ TakeLsn(r) \/ Send(r) \/ Register(r)
  \/ GetAnswer(r) \/ Timeout(r) \/ Exec(r)

Flush == FlushOk \/ FlushMarshalError \/ FlushIOError \/ FlushAnswer

Worker == Receive \/ Tick \/ SeeCancel \/ Drain \/ Flush

Process == RestoreNext \/ RestoreDone \/ Cancel \/ Crash \/ Exit \/ Restart

Next == (\E r \in Requests : Client(r)) \/ Worker \/ Process \/ Idle

Spec == Init /\ [][Next]_vars

\* The goroutines are scheduled, the ticker and the deadline fire, and a
\* select that finds a row ready again and again takes it some time; clients
\* need not send requests, and nothing fails or is canceled by necessity.
Fairness ==
  /\ \A r \in Requests :
       /\ WF_vars(Send(r)) /\ WF_vars(Register(r))
       /\ WF_vars(GetAnswer(r)) /\ WF_vars(Timeout(r)) /\ WF_vars(Exec(r))
  /\ SF_vars(Receive) /\ WF_vars(Tick) /\ WF_vars(SeeCancel) /\ WF_vars(Drain)
  /\ WF_vars(FlushOk) /\ WF_vars(FlushMarshalError) /\ WF_vars(FlushAnswer)
  /\ WF_vars(RestoreNext) /\ WF_vars(RestoreDone) /\ WF_vars(Exit) /\ WF_vars(Restart)

FairSpec == Spec /\ Fairness
-----------------------------------------------------------------------------
(***************************************************************************)
(* Properties.                                                             *)
(***************************************************************************)
\* Types of the state, the capacity of queryCh (wal.go:90) and the bound on
\* the lives of the process included.
TypeOK ==
  /\ phase \in {"restoring", "up", "down"}
  /\ pos \in Nat \ {0}
  /\ pc \in [Requests -> {"idle"} \cup InWal \cup Finished]
  /\ lsnOf \in [Requests -> Nat] /\ lsnID \in Nat
  /\ queryCh \in Seq(Row) /\ queryBuf \in Seq(Row) /\ log \in Seq(Row)
  /\ Len(queryCh) <= FlushBatchSize
  /\ futureResp \in Seq(Requests)
  /\ answer \in [Requests -> {"none", "ok", "err"}]
  /\ worker \in {"select", "drain", "write", "lastWrite", "answer", "lastAnswer", "stopped"}
  /\ flushErr \in BOOLEAN /\ smLocked \in BOOLEAN /\ ctxDone \in BOOLEAN
  /\ store \in [Keys -> Values \cup {Absent}]
  /\ crashes \in 0..MaxCrashes

\* No two rows on disk have the same LSN, whatever the interleaving of the
\* clients and however often the node crashed and replayed its log: the index
\* the replication reads from is a map from LSN to place (segment/index.go).
LogLsnUnique == \A i, j \in DOMAIN log : log[i].lsn = log[j].lsn => i = j

\* A future is answered once: flush never Puts in a future that already has
\* an answer.  The channel has one slot and is closed after the Put, so a
\* second Put would block the worker or panic (future_resp.go:31, 84).
AnsweredOnce ==
  /\ \A i, j \in DOMAIN futureResp : futureResp[i] = futureResp[j] => i = j
  /\ \A i \in DOMAIN futureResp : answer[futureResp[i]] = "none"

\* The row of a request whose future got nil is on disk or still on its way
\* there, in the buffer or the channel (wal.go:216-244).
AckedNotLost ==
  \A r \in Requests : answer[r] = "ok" =>
     RowOf(r) \in Range(log) \cup Range(queryBuf) \cup Range(queryCh)

\* A row that does not marshal stays at the head of the work: while it is in
\* the buffer nothing reaches the disk, and only the end of the process gets
\* rid of it (wal.go:225-230 keeps the buffer after an error).
PoisonSticks == [][Poisoned => log' = log /\ (Poisoned' \/ phase' = "down")]_vars

\* A slave never applies a client's write while it runs: its memory changes
\* only by the replay at its start (and by replication, module Replication).
SlaveReadOnly == [][phase = "up" /\ ~IsMaster => store' = store \/ phase' = "down"]_vars

DiskLog == INSTANCE AppendLog

\* The rows on disk are an append-only log with unique LSNs across crashes:
\* flush, a failed flush and a restart only extend it, and the generator a
\* restart creates (wal.go:153-161) hands out no LSN the log holds.
ImplementsAppendLog == DiskLog!Spec

LsnsOf(rows) == [i \in DOMAIN rows |-> rows[i].lsn]

\* The greatest LSN on disk, 0 if there is none.
DiskMax == CHOOSE m \in Range(LsnsOf(log)) \cup {0} : \A l \in Range(LsnsOf(log)) : l <= m

QueueLog == INSTANCE LsnLog WITH
  lsnID  <- IF phase = "up" THEN lsnID ELSE DiskMax,
  taken  <- {lsnOf[r] : r \in {q \in Requests : pc[q] = "send"}},
  queued <- LsnsOf(queryBuf \o queryCh),
  log    <- LsnsOf(log),
  wedged <- smLocked

\* The write path is the LSN log replication is built on: however clients,
\* flushes, failures and restarts interleave, rows reach the disk in the order
\* of their sends and an LSN is taken again only if its row is gone.
ImplementsLsnLog == QueueLog!LogSpec

\* Every request that enters the WAL comes back to its client, or its
\* connection dies with the process, as long as no file write fails: after that
\* the worker waits for the mutex it has not released (segment_manager.go:136-
\* 140), and the clients behind a full channel wait with it.
EveryWriteSettles ==
  \A r \in Requests : pc[r] \in InWal ~> (pc[r] \in Finished \/ smLocked)

\* A write that was acknowledged reaches the disk, unless the process ends first,
\* a file write fails or a row that does not marshal gets into its batch: the
\* rows an early answer left in the channel are flushed later.
AckedBecomesDurable ==
  \A r \in Requests :
    answer[r] = "ok" ~> (phase = "down" \/ Poisoned \/ smLocked \/ RowOf(r) \in Range(log))

\* "Ensures data durability by writing changes to disk before applying them"
\* (ReadMe.md:8): a request that was applied and acknowledged is on disk.
WriteAhead == \A r \in Requests : pc[r] = "ok" => RowOf(r) \in Range(log)
=============================================================================
