------------------------------ MODULE CacheLen ------------------------------
(***************************************************************************)
(* LocalCache with two history variables that follow the map while a call  *)
(* of Len runs, to say what the number that Len returns is worth.          *)
(***************************************************************************)
EXTENDS LocalCache

VARIABLES
    during,  \* during[g]: keys in the map at some point of g's Len call
    always   \* always[g]: keys in the map at every point of g's Len call

lenHistory == <<cacheVars, during, always>>

Present(c) == {k \in Keys : data[c][k] # Absent}

Counting(g) == pc[g] \in {"count", "counted"}

CacheLenInit ==
    /\ CacheInit
    /\ during = [g \in Goroutines |-> {}]
    /\ always = [g \in Goroutines |-> {}]

Follow ==
    /\ during' = [g \in Goroutines |->
          IF ~Counting(g)' THEN {}
          ELSE Present(cacheOf[g])' \cup (IF Counting(g) THEN during[g] ELSE {})]
    /\ always' = [g \in Goroutines |->
          IF ~Counting(g)' THEN {}
          ELSE Present(cacheOf[g])' \cap (IF Counting(g) THEN always[g] ELSE Keys)]

CacheLenSpec == CacheLenInit /\ [][CacheNext /\ Follow]_lenHistory

CacheLenFairSpec == CacheLenSpec /\ CacheFairness

\* The cache_size that /healthz reports is never fewer than the keys that were
\* cached during the whole call of Len, nor more than the keys cached at some
\* point of it, although Len sees the shards at different times.
LenSound ==
    \A g \in Goroutines : pc[g] = "counted" =>
        /\ Cardinality(always[g]) <= lenN[g]
        /\ lenN[g] <= Cardinality(during[g])

=============================================================================
