--------------------------- MODULE MCShardedStore ---------------------------
(* Instances of ShardedStore for TLC: up to three keys in two shards.      *)
EXTENDS ShardedStore

CONSTANTS g1, g2, k1, k2, k3, v1

\* k1 and k3 share a shard.
MCHash == [k \in Keys |-> IF k = k1 THEN 4 ELSE IF k = k2 THEN 7 ELSE 6]
=============================================================================
