------------------------------- MODULE LsnLog -------------------------------
(***************************************************************************)
(* What the write path of a master shows to replication: LSNs are taken in *)
(* order, but a row joins the queue, and then the log, in the order of the *)
(* sends; a crash loses the rows that are not in the log and continues     *)
(* after the greatest LSN that is.  Module Wal implements this             *)
(* specification, module Replication is built on it.                       *)
(***************************************************************************)
EXTENDS Naturals, Sequences, Functions

VARIABLES
  lsnID,   \* the last LSN that was taken
  taken,   \* LSNs taken by writers that have not sent their row yet
  queued,  \* rows sent and not yet on disk, by their LSNs
  log,     \* rows on disk, by their LSNs
  wedged   \* a write failed: nothing reaches the disk any more

logVars == <<lsnID, taken, queued, log, wedged>>

MaxLsnOf(rows) == CHOOSE m \in Range(rows) \cup {0} : \A l \in Range(rows) : l <= m

LogInit == lsnID = 0 /\ taken = {} /\ queued = <<>> /\ log = <<>> /\ wedged = FALSE

TakeLsn ==
  /\ lsnID' = lsnID + 1
  /\ taken' = taken \cup {lsnID + 1}
  /\ UNCHANGED <<queued, log, wedged>>

Send ==
  /\ \E l \in taken : taken' = taken \ {l} /\ queued' = Append(queued, l)
  /\ UNCHANGED <<lsnID, log, wedged>>

Flush ==
  /\ ~wedged
  /\ \E n \in 1..Len(queued) :
       /\ queued' = SubSeq(queued, n + 1, Len(queued))
       /\ log' = log \o SubSeq(queued, 1, n)
  /\ UNCHANGED <<lsnID, taken, wedged>>

FlushError ==
  /\ ~wedged /\ wedged' = TRUE
  /\ UNCHANGED <<lsnID, taken, queued>>
  /\ \E n \in 0..Len(queued) : log' = log \o SubSeq(queued, 1, n)

Crash ==
  /\ taken' = {} /\ queued' = <<>> /\ wedged' = FALSE
  /\ \E n \in 0..Len(queued) :
       /\ n > 0 => ~wedged
       /\ log' = log \o SubSeq(queued, 1, n)
  /\ lsnID' = MaxLsnOf(log')

LogNext == TakeLsn \/ Send \/ Flush \/ FlushError \/ Crash

LogSpec == LogInit /\ [][LogNext]_logVars
=============================================================================
