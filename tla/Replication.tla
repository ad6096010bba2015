---------------------------- MODULE Replication ----------------------------
(***************************************************************************)
(* Master and slave (internal/database/replication) over one TCP           *)
(* connection (internal/transport/tcp/client.go and listener.go).          *)
(*                                                                         *)
(* The master's log is module LsnLog, which module Wal implements; its     *)
(* index is filled after the rows are on disk, module Segments shows that  *)
(* a read from an indexed row returns the log from there on.  A row is its *)
(* LSN: its value is taken to be different from every other one, so the    *)
(* stores map a key to the LSN of the row it was set by, 0 for none.       *)
(*                                                                         *)
(* The slave asks for lastLsnWritten + 1, writes the rows it gets to its   *)
(* own log, if its WAL is enabled, and applies them.                       *)
(***************************************************************************)
EXTENDS LsnLog, FiniteSets, SeqFold

CONSTANTS
  KeyOf,      \* KeyOf[l]: the key the row with LSN l sets
  Writers,    \* clients that write to the master at the same time
  MaxLsn,     \* bound: LSNs taken
  Faults,     \* which of "master", "slave", "deadline", "read", "write" may happen
  MaxFaults   \* bound: how many of them happen

ASSUME ReplicationAssumption ==
  /\ MaxLsn \in Nat /\ Writers \in Nat /\ MaxFaults \in Nat
  /\ DOMAIN KeyOf = 1..MaxLsn

VARIABLES
  indexed,         \* the master's index, by LSN
  adds,            \* batches whose AddBatchIndex goroutine has not run
  conn,            \* the slave's connection: "ok"; "closed" by the master;
                   \* "dead": reset, or past the slave's own deadline
  req,             \* the request in the connection, 0 for none
  resp,            \* the response in it: <<>> none, else flag and rows
  slave,           \* where the slave's goroutine is
  rows,            \* the rows it is processing
  lastLsnWritten,
  slaveLog,        \* rows in the slave's segment files
  slaveStore,      \* the slave's memory
  walEnable,       \* the slave has a log
  smLocked,        \* the mutex of its segment manager stays locked
  faults

masterVars == <<logVars, indexed, adds>>
connVars   == <<conn, req, resp>>
slaveData  == <<slaveLog, slaveStore, walEnable, smLocked>>
slaveVars  == <<slave, rows, lastLsnWritten, slaveData>>
vars == <<masterVars, connVars, slaveVars, faults>>

Keys == Range(KeyOf)

\* Storage.Set or Delete of a row.
Apply(st, l) == [st EXCEPT ![KeyOf[l]] = l]
Replay(ls) == FoldLeft(Apply, [k \in Keys |-> 0], ls)

NoResp == <<>>
NoNewLogs == <<"no new logs">>
Failure == <<"error">>
Rows(ls) == <<"ok", ls>>

Init ==
  /\ LogInit /\ indexed = {} /\ adds = {}
  /\ conn = "ok" /\ req = 0 /\ resp = NoResp
  /\ slave = "sleep" /\ rows = <<>> /\ lastLsnWritten = 0
  /\ slaveLog = <<>> /\ slaveStore = Replay(<<>>)
  /\ walEnable \in BOOLEAN /\ smLocked = FALSE
  /\ faults = 0
-----------------------------------------------------------------------------
(***************************************************************************)
(* The master: its write path, its index, Master.Handle.                   *)
(***************************************************************************)
MasterTakes ==
  /\ lsnID < MaxLsn /\ Cardinality(taken) < Writers
  /\ TakeLsn
  /\ UNCHANGED <<indexed, adds, connVars, slaveVars, faults>>

MasterSends == Send /\ UNCHANGED <<indexed, adds, connVars, slaveVars, faults>>

MasterFlushes ==
  /\ Flush
  /\ adds' = adds \cup {Range(log') \ Range(log)}
  /\ UNCHANGED <<indexed, connVars, slaveVars, faults>>

\* The index goroutines of two batches may run in either order.
MasterIndexes ==
  /\ \E b \in adds : indexed' = indexed \cup b /\ adds' = adds \ {b}
  /\ UNCHANGED <<logVars, connVars, slaveVars, faults>>

Fault(f) == f \in Faults /\ faults < MaxFaults /\ faults' = faults + 1

From(l) == SubSeq(log, Min({i \in DOMAIN log : log[i] = l}), Len(log))

\* Mutant: the request stays in the buffer of the connection.
HandleKeepsReq ==
  /\ conn = "ok" /\ req # 0
  /\ \/ req \in indexed /\ resp' = Rows(From(req))
     \/ req \notin indexed /\ resp' = NoNewLogs
  /\ UNCHANGED <<masterVars, conn, req, slaveVars, faults>>

\* Mutant: a single new row is not worth an answer.
HandleNeedsTwo ==
  /\ conn = "ok" /\ req # 0
  /\ \/ req \in indexed /\ resp' = IF Len(From(req)) > 1 THEN Rows(From(req)) ELSE NoNewLogs
     \/ req \notin indexed /\ resp' = NoNewLogs
  /\ req' = 0
  /\ UNCHANGED <<masterVars, conn, slaveVars, faults>>

\* A request for an LSN that is not in the index is answered "no new logs"
\* when the retries are over, whatever the log holds.
Handle ==
  /\ conn = "ok" /\ req # 0
  /\ \/ req \in indexed /\ resp' = Rows(From(req))
     \/ req \notin indexed /\ resp' = NoNewLogs
  /\ req' = 0
  /\ UNCHANGED <<masterVars, conn, slaveVars, faults>>

\* ReadFrom fails: the error is the answer.
HandleFails ==
  /\ Fault("read")
  /\ conn = "ok" /\ req \in indexed
  /\ resp' = Failure /\ req' = 0
  /\ UNCHANGED <<masterVars, conn, slaveVars>>
-----------------------------------------------------------------------------
(***************************************************************************)
(* The slave: startReplication, getUpdates, processRows; Client.Send.      *)
(***************************************************************************)
\* Mutant: the slave asks for the last row it has.
SendReqLast ==
  /\ slave = "sleep"
  /\ \/ conn = "ok" /\ req' = lastLsnWritten /\ UNCHANGED <<conn, resp>>
     \/ conn # "ok" /\ conn' = "ok" /\ UNCHANGED <<req, resp>>
     \/ conn = "closed" /\ conn' = "dead" /\ UNCHANGED <<req, resp>>
  /\ slave' = "read"
  /\ UNCHANGED <<masterVars, rows, lastLsnWritten, slaveData, faults>>

\* Client.Send: when the write fails the connection is made anew, the error is
\* dropped and the request is not sent again.  The first write into a connection
\* the master closed may also succeed, for nobody, and gets it reset.
SendReq ==
  /\ slave = "sleep"
  /\ \/ conn = "ok" /\ req' = lastLsnWritten + 1 /\ UNCHANGED <<conn, resp>>
     \/ conn # "ok" /\ conn' = "ok" /\ UNCHANGED <<req, resp>>
     \/ conn = "closed" /\ conn' = "dead" /\ UNCHANGED <<req, resp>>
  /\ slave' = "read"
  /\ UNCHANGED <<masterVars, rows, lastLsnWritten, slaveData, faults>>

\* ReadMessage returns the response; an error or no rows end the round.
ReadResponse ==
  /\ slave = "read" /\ conn # "dead" /\ resp # NoResp
  /\ resp' = NoResp
  /\ \/ resp \in {NoNewLogs, Failure, Rows(<<>>)} /\ slave' = "sleep" /\ UNCHANGED rows
     \/ resp \notin {NoNewLogs, Failure, Rows(<<>>)} /\ slave' = "log" /\ rows' = resp[2]
  /\ UNCHANGED <<masterVars, conn, req, lastLsnWritten, slaveData, faults>>

\* The deadline, or the end of the connection.
ReadFails ==
  /\ slave = "read" /\ conn # "ok" /\ resp = NoResp
  /\ slave' = "sleep"
  /\ UNCHANGED <<masterVars, connVars, rows, lastLsnWritten, slaveData, faults>>

\* Mutant: the slave applies rows without writing its own log.
LogNoRows ==
  /\ slave = "log"
  /\ slave' = "apply"
  /\ UNCHANGED <<masterVars, connVars, rows, lastLsnWritten, slaveData, faults>>

\* processRows: the slave's own log first, if it has one.
LogRows ==
  /\ slave = "log" /\ ~(walEnable /\ smLocked)
  /\ slaveLog' = IF walEnable THEN slaveLog \o rows ELSE slaveLog
  /\ slave' = "apply"
  /\ UNCHANGED <<masterVars, connVars, rows, lastLsnWritten, slaveStore, walEnable, smLocked,
                 faults>>

\* The write fails after some rows, with the manager's mutex locked: the round
\* ends, and the next one that gets rows stays in LogRows.
LogFails ==
  /\ Fault("write")
  /\ slave = "log" /\ walEnable /\ ~smLocked
  /\ \E n \in 0..Len(rows) : slaveLog' = slaveLog \o SubSeq(rows, 1, n)
  /\ smLocked' = TRUE
  /\ slave' = "sleep" /\ rows' = <<>>
  /\ UNCHANGED <<masterVars, connVars, lastLsnWritten, slaveStore, walEnable>>

\* Mutant: the slave notes how far the master has got, not what it received.
LastOfMaster(l) == log[Len(log)]

\* lastLsnWritten is the LSN of the last row, which need not be the greatest.
LastWritten(l) == l

\* Mutant: only the last row of a response is applied.
ApplyLastRow ==
  /\ slave = "apply"
  /\ slaveStore' = Apply(slaveStore, rows[Len(rows)])
  /\ rows' = <<>>
  /\ slave' = "sleep"
  /\ lastLsnWritten' = LastWritten(rows[Len(rows)])
  /\ UNCHANGED <<masterVars, connVars, slaveLog, walEnable, smLocked, faults>>

\* execStorage, row by row, and the end of processRows after the last one.
ApplyRow ==
  /\ slave = "apply"
  /\ slaveStore' = Apply(slaveStore, Head(rows))
  /\ rows' = Tail(rows)
  /\ \/ Len(rows) > 1 /\ UNCHANGED <<slave, lastLsnWritten>>
     \/ /\ Len(rows) = 1
        /\ slave' = "sleep"
        /\ lastLsnWritten' = LastWritten(Head(rows))
  /\ UNCHANGED <<masterVars, connVars, slaveLog, walEnable, smLocked, faults>>
-----------------------------------------------------------------------------
\* The master's end closes: a response on its way may still be delivered.
ConnCloses == conn' = "closed" /\ req' = 0 /\ resp' \in {resp, NoResp}

ConnDies == conn' = "dead" /\ req' = 0 /\ resp' = NoResp

\* The master ends and restarts: NewDatabase rebuilds the index from the log.
\* Its connections end with it.
MasterCrash ==
  /\ Fault("master")
  /\ Crash
  /\ indexed' = Range(log') /\ adds' = {}
  /\ \/ conn = "ok" /\ ConnCloses
     \/ conn # "ok" /\ UNCHANGED connVars
  /\ UNCHANGED slaveVars

\* The slave ends, maybe in the middle of writing rows to its log, and restarts:
\* the log is replayed, lastLsnWritten is not restored, NewClient dials.
SlaveCrash ==
  /\ Fault("slave")
  /\ conn' = "ok" /\ req' = 0 /\ resp' = NoResp
  /\ slave' = "sleep" /\ rows' = <<>>
  /\ lastLsnWritten' = 0
  /\ \E n \in 0..Len(rows) :
       /\ n > 0 => slave = "log" /\ walEnable /\ ~smLocked
       /\ slaveLog' = slaveLog \o SubSeq(rows, 1, n)
  /\ slaveStore' = Replay(slaveLog')
  /\ smLocked' = FALSE
  /\ UNCHANGED <<masterVars, walEnable>>

\* The deadline of a connection is set once, when it is made, by either end:
\* the slave's lets its reads and writes fail, the master's makes it close.
Deadline ==
  /\ "deadline" \in Faults
  /\ conn = "ok"
  /\ ConnDies \/ ConnCloses
  /\ UNCHANGED <<masterVars, slaveVars, faults>>

Next ==
  \/ MasterTakes \/ MasterSends \/ MasterFlushes \/ MasterIndexes \/ Handle \/ HandleFails
  \/ SendReq \/ ReadResponse \/ ReadFails \/ LogRows \/ LogFails \/ ApplyRow
  \/ MasterCrash \/ SlaveCrash \/ Deadline

Spec == Init /\ [][Next]_vars

\* The goroutines of both nodes run, the WAL flushes on a tick and the slave polls
\* on a timer; nobody has to write and no connection has to break.
Fairness ==
  /\ WF_vars(MasterSends) /\ WF_vars(MasterFlushes) /\ WF_vars(MasterIndexes)
  /\ WF_vars(Handle) /\ WF_vars(SendReq) /\ WF_vars(ReadResponse) /\ WF_vars(ReadFails)
  /\ WF_vars(LogRows) /\ WF_vars(ApplyRow)

FairSpec == Spec /\ Fairness

\* The time of every deadline comes.
DeadlineSpec == FairSpec /\ WF_vars(Deadline)
-----------------------------------------------------------------------------
\* Types of the state, and the discipline of the connection: one request or
\* one response is in it, and only while the slave reads.
TypeOK ==
  /\ lsnID \in 0..MaxLsn /\ taken \subseteq 1..MaxLsn
  /\ queued \in Seq(1..MaxLsn) /\ log \in Seq(1..MaxLsn) /\ wedged = FALSE
  /\ indexed \subseteq 1..MaxLsn /\ adds \subseteq SUBSET (1..MaxLsn)
  /\ conn \in {"ok", "closed", "dead"} /\ req \in 0..(MaxLsn + 1)
  /\ req # 0 \/ resp # NoResp => slave = "read" /\ (req = 0 \/ resp = NoResp)
  /\ slave \in {"sleep", "read", "log", "apply"}
  /\ rows \in Seq(1..MaxLsn) /\ slaveLog \in Seq(1..MaxLsn)
  /\ lastLsnWritten \in 0..MaxLsn /\ slaveStore \in [Keys -> 0..MaxLsn]
  /\ walEnable \in BOOLEAN /\ smLocked \in BOOLEAN
  /\ faults \in 0..MaxFaults

\* The slave has every row of the master's log up to lastLsnWritten: it asks
\* for later ones only, so a row it does not have then it never gets.  Holds
\* when the master has one writer; "Master sends log entries since the last
\* LSN received by slave" (ReadMe.md:310) fails with two.  Without a log of its
\* own, SlaveIsPrefix says it of the slave's memory.
NoRowSkipped ==
  walEnable => \A l \in Range(log) : l <= lastLsnWritten => l \in Range(slaveLog)

\* With one writer, a slave that has not fetched a row twice shows, between two
\* rounds, the data of the master's log up to some row: a state of the past, not
\* older than lastLsnWritten and never a mixture, whatever happens to the nodes
\* and to the connection.
SlaveIsPrefix ==
  slave \in {"sleep", "read"} /\ IsInjective(slaveLog) =>
    \E n \in lastLsnWritten..Len(log) : slaveStore = Replay(SubSeq(log, 1, n))

\* With one writer, and no index goroutine pending, the master says "no new
\* logs" (master.go:86) only if its log has no row from the LSN asked for on:
\* no crash leaves a hole in the LSNs that a slave would wait at for ever.
NoNewLogsHonest ==
  [][resp # NoNewLogs /\ resp' = NoNewLogs =>
       adds # {} \/ \A l \in Range(log) : l < req]_vars

\* What a slave with a log shows, once it has applied the rows it is working on,
\* is what a restart would rebuild from its log, also after earlier restarts made
\* it fetch and log the same rows again.  A failed write may have logged rows
\* that were not applied (slave.go:148-162).
RestartTransparent ==
  walEnable /\ ~smLocked =>
    FoldLeft(Apply, slaveStore, IF slave = "apply" THEN rows ELSE <<>>) = Replay(slaveLog)

\* When the writes end, the slave gets to the master's data and stays there, in
\* spite of restarts of the slave and errors of the master, if its connections do
\* not break; or a write of its log has failed, and it stays blocked on the mutex.
Converges ==
  [](conn = "ok") =>
    \/ <>[](slaveStore = Replay(log))
    \/ <>[](smLocked /\ slave = "log")

\* "Slave periodically requests new data from master using LSN"
\* (ReadMe.md:309): requests keep arriving at the master.
PollsForever == []<>(req # 0)
=============================================================================
