------------------------------- MODULE MCWal -------------------------------
(* Instances of Wal for TLC: three requests, two of them on the same key,  *)
(* or the first two of them.                                               *)
EXTENDS Wal, TLC

CONSTANTS r1, r2, r3, k1, k2, v1, v2

\* SET k1 v1, SET k2 v2 and DEL k1.
MCOp == [r \in Requests |-> IF r = r1 THEN [key |-> k1, val |-> v1]
                            ELSE IF r = r2 THEN [key |-> k2, val |-> v2]
                            ELSE [key |-> k1, val |-> Absent]]
=============================================================================
