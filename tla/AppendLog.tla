----------------------------- MODULE AppendLog -----------------------------
(***************************************************************************)
(* What the write-ahead log promises to those who read it, recovery and    *)
(* replication: a sequence of rows that only grows at its end, in which an *)
(* LSN names one row.  It promises neither that LSNs increase along the    *)
(* log nor that none is missing.                                           *)
(***************************************************************************)
EXTENDS Naturals, Sequences

VARIABLE log

LsnUnique(rows) == \A i, j \in DOMAIN rows : rows[i].lsn = rows[j].lsn => i = j

Init == log = <<>>

Extend ==
  /\ Len(log) <= Len(log')
  /\ SubSeq(log', 1, Len(log)) = log
  /\ LsnUnique(log')

Spec == Init /\ [][Extend]_log
=============================================================================
