---------------------------- MODULE MCLocalCache ----------------------------
(***************************************************************************)
(* LocalCache for TLC: two goroutines on one cache with two keys in two    *)
(* shards.                                                                 *)
(***************************************************************************)
EXTENDS CacheLen, TLC

CONSTANTS g1, g2, c1, k1, k2

MCcacheOf == [g \in Goroutines |-> c1]

MCshardIndex == [k \in Keys |-> IF k = k1 THEN 0 ELSE 1]

=============================================================================
