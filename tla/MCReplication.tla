--------------------------- MODULE MCReplication ---------------------------
(* Instances of Replication for TLC: two keys, written alternately.        *)
EXTENDS Replication

CONSTANTS k1, k2

MCKeyOf == [l \in 1..MaxLsn |-> IF l % 2 = 1 THEN k1 ELSE k2]
=============================================================================
