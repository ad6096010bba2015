------------------------------ MODULE WalOrder ------------------------------
(***************************************************************************)
(* Module Wal with a history variable: which write of a key had been       *)
(* acknowledged before another write of the same key began.  The log is    *)
(* written by the worker and the memory by the client goroutines, each     *)
(* after its answer (database.go:54-72): nothing in the code compares the  *)
(* two orders.                                                             *)
(***************************************************************************)
EXTENDS Wal, SeqFold

VARIABLE before  \* pairs <<r, q>>: r was done when q began, in this life

OrderInit == Init /\ before = {}

\* Requests that have been acknowledged, and the one that this step begins.
Done == {r \in Requests : pc[r] = "ok"}
Begun == {q \in Requests : pc[q] = "idle" /\ pc'[q] = "send"}

Remember ==
  before' = IF phase' = "down" THEN {}
            ELSE before \cup {p \in Done \X Begun : Op[p[1]].key = Op[p[2]].key}

OrderSpec == OrderInit /\ [][Next /\ Remember]_<<vars, before>>
-----------------------------------------------------------------------------
\* The store that restoreFromWal builds from some rows.
Replay(rows) == FoldLeft(LAMBDA st, row : exec(st, row.req), EmptyStore, rows)

\* Requests of this life of the process that write key k and were queued.
Writers(k) == {r \in Requests : /\ Op[r].key = k
                                /\ answer[r] # "none" \/ r \in Range(futureResp)}

\* When everything is settled, a key has in memory the value that a restart
\* would replay from disk, if its writes all succeeded and none began before
\* the one before it was acknowledged (database.go:54-72).  Writes of a key that
\* overlap may be applied in one order and logged in the other, and a write
\* whose client was told of an error may be logged and not applied.
SettledStore ==
  Settled => \A k \in Keys :
    (/\ \A r, q \in Writers(k) : r = q \/ <<r, q>> \in before \/ <<q, r>> \in before
     /\ \A r \in Writers(k) : pc[r] = "ok") => store[k] = Replay(log)[k]
=============================================================================
