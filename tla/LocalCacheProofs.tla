-------------------------- MODULE LocalCacheProofs --------------------------
(***************************************************************************)
(* Type correctness of LocalCache, the safety of its evictions and what    *)
(* Len returns, for any number of goroutines, caches, keys and shards.     *)
(* The typing lemmas are stated about the actions one by one, for the      *)
(* modules that reuse the actions; the history variables of CacheLen play  *)
(* no part in those.                                                       *)
(***************************************************************************)
EXTENDS CacheLen, FiniteSetTheorems, TLAPS

LEMMA NoArgType == NoArg \in Keys
  BY CacheAssumptions DEF NoArg

LEMMA CountType ==
  ASSUME NEW c \in Caches, NEW i
  PROVE  Cardinality(InShard(c, i)) \in Nat
<1>1. IsFiniteSet(InShard(c, i))
  BY FS_Subset, CacheAssumptions DEF InShard
<1> QED
  BY <1>1, FS_CardinalityType

LEMMA KeepType ==
  ASSUME CacheDataOK, NEW g \in Goroutines, NEW e \in Expiry, Keep(g, e)
  PROVE  data' \in [Caches -> [Keys -> Expiry]]
<1>1. cacheOf[g] \in Caches /\ key[g] \in Keys
  BY CacheAssumptions DEF CacheDataOK
<1> QED
  BY <1>1 DEF Keep, CacheDataOK

\* The steps of a caller and of the operations it runs keep the types.
LEMMA CallerTypes ==
  ASSUME CacheDataOK, NEW g \in Goroutines, NEW k \in Keys, NEW ttl \in Nat
  PROVE  /\ ContainsCall(g, k) => CacheDataOK'
         /\ ContainsLookup(g)  => CacheDataOK'
         /\ ContainsEvict(g)   => CacheDataOK'
         /\ SetCall(g, k, ttl) => CacheDataOK'
         /\ SetWrite(g)        => CacheDataOK'
<1> USE CacheAssumptions DEF lenVars, sweepVars
<1>0. Absent \in Expiry /\ (CacheDataOK => at[g] \in Expiry)
  BY DEF CacheDataOK, Expiry
<1>1. ContainsCall(g, k) => CacheDataOK'
  BY DEF ContainsCall, CacheDataOK
<1>2. ContainsLookup(g) => CacheDataOK'
  BY DEF ContainsLookup, CacheDataOK
<1>3. ContainsEvict(g) => CacheDataOK'
  BY <1>0, KeepType DEF ContainsEvict, CacheDataOK
<1>4. SetCall(g, k, ttl) => CacheDataOK'
  BY DEF SetCall, CacheDataOK
<1>5. SetWrite(g) => CacheDataOK'
  BY <1>0, KeepType DEF SetWrite, CacheDataOK
<1> QED
  BY <1>1, <1>2, <1>3, <1>4, <1>5

\* So do the steps of Len and the return to the caller.
LEMMA LenTypes ==
  ASSUME CacheDataOK, NEW g \in Goroutines
  PROVE  /\ LenCall(g)  => CacheDataOK'
         /\ LenShard(g) => CacheDataOK'
         /\ Return(g)   => CacheDataOK'
<1> USE CacheAssumptions DEF lenVars, sweepVars
<1>1. LenCall(g) => CacheDataOK'
  BY DEF LenCall, CacheDataOK
<1>2. LenShard(g) => CacheDataOK'
  <2> SUFFICES ASSUME LenShard(g) PROVE CacheDataOK'
    OBVIOUS
  <2> DEFINE n == Cardinality(InShard(cacheOf[g], lenIdx[g]))
  <2>1. n \in Nat
    BY CountType
  <2> HIDE DEF n
  <2>2. lenN' = [lenN EXCEPT ![g] = @ + n]
    BY DEF LenShard, n
  <2> QED
    BY <2>1, <2>2 DEF LenShard, CacheDataOK
<1>3. Return(g) => CacheDataOK'
  BY NoArgType DEF Return, CacheDataOK
<1> QED
  BY <1>1, <1>2, <1>3

\* So do the steps of the sweeper, of Close and of the clock.
LEMMA BackgroundTypes ==
  ASSUME CacheDataOK, NEW c \in Caches
  PROVE  /\ SweepTick(c)  => CacheDataOK'
         /\ SweepShard(c) => CacheDataOK'
         /\ SweepStop(c)  => CacheDataOK'
         /\ Close(c)      => CacheDataOK'
         /\ Tick          => CacheDataOK'
<1> USE CacheAssumptions DEF lenVars, sweepVars
<1>1. SweepTick(c) => CacheDataOK'
  BY DEF SweepTick, CacheDataOK
<1>2. SweepShard(c) => CacheDataOK'
  BY DEF SweepShard, CacheDataOK, Expiry
<1>3. SweepStop(c) => CacheDataOK'
  BY DEF SweepStop, CacheDataOK
<1>4. Close(c) => CacheDataOK'
  BY DEF Close, CacheDataOK
<1>5. Tick => CacheDataOK'
  BY DEF Tick, CacheDataOK
<1> QED
  BY <1>1, <1>2, <1>3, <1>4, <1>5

\* LocalCache keeps its types, whatever the numbers of goroutines and shards.
THEOREM CacheTypeCorrect == CacheSpec => []CacheTypeOK
<1>1. CacheInit => CacheTypeOK
  BY CacheAssumptions, NoArgType
  DEF CacheInit, CacheTypeOK, CacheDataOK, CachePCs, Expiry
<1>2. CacheTypeOK /\ [CacheNext]_cacheVars => CacheTypeOK'
  <2> SUFFICES ASSUME CacheTypeOK, [CacheNext]_cacheVars
               PROVE  CacheTypeOK'
    OBVIOUS
  <2> USE DEF CacheTypeOK
  <2>1. CacheDataOK' 
    <3>1. ASSUME NEW g \in Goroutines, CacheCall(g) PROVE CacheDataOK'
      BY <3>1, CallerTypes, LenTypes, CacheAssumptions DEF CacheCall
    <3>2. ASSUME NEW g \in Goroutines, CacheStep(g) PROVE CacheDataOK'
      BY <3>2, CallerTypes, LenTypes, NoArgType DEF CacheStep
    <3>3. ASSUME NEW g \in Goroutines, Return(g) PROVE CacheDataOK'
      BY <3>3, LenTypes
    <3>4. CASE CacheBackground
      <4>1. CASE Tick
        BY <4>1, CacheAssumptions DEF Tick, CacheDataOK, lenVars, sweepVars
      <4> QED
        BY <3>4, <4>1, BackgroundTypes DEF CacheBackground
    <3>5. CASE UNCHANGED cacheVars
      BY <3>5 DEF cacheVars, lenVars, sweepVars, CacheDataOK
    <3> QED
      BY <3>1, <3>2, <3>3, <3>4, <3>5 DEF CacheNext
  <2>2. (pc \in [Goroutines -> CachePCs])'
    BY DEF CacheNext, CacheCall, CacheStep, CacheBackground, Return,
           ContainsCall, ContainsLookup, ContainsEvict, SetCall, SetWrite,
           LenCall, LenShard, SweepTick, SweepShard, SweepStop, Close, Tick,
           Goto, CachePCs, cacheVars
  <2> QED
    BY <2>1, <2>2
<1> QED
  BY <1>1, <1>2, PTL DEF CacheSpec

-----------------------------------------------------------------------------

\* A sweep works with a clock reading that lies in the past.
SweepNowPast == \A c \in Caches : sweepNow[c] <= now

\* The clock reading of a sweep stays in the past.
LEMMA SweepNowPastInvariant == CacheSpec => []SweepNowPast
<1>1. CacheInit => SweepNowPast
  BY DEF CacheInit, SweepNowPast
<1>2. CacheTypeOK /\ SweepNowPast /\ [CacheNext]_cacheVars => SweepNowPast'
  <2> SUFFICES ASSUME CacheTypeOK, SweepNowPast, [CacheNext]_cacheVars
               PROVE  SweepNowPast'
    OBVIOUS
  <2>0. now \in Nat /\ sweepNow \in [Caches -> Nat]
    BY DEF CacheTypeOK, CacheDataOK
  <2>1. CASE UNCHANGED <<now, sweepNow>>
    BY <2>1 DEF SweepNowPast
  <2>2. CASE Tick
    BY <2>0, <2>2 DEF Tick, SweepNowPast, cacheVars, sweepVars
  <2>3. ASSUME NEW c \in Caches, SweepTick(c) \/ SweepShard(c) \/ SweepStop(c)
        PROVE  SweepNowPast'
    BY <2>0, <2>3 DEF SweepTick, SweepShard, SweepStop, SweepNowPast
  <2>4. \/ UNCHANGED <<now, sweepNow>>
        \/ Tick
        \/ \E c \in Caches : SweepTick(c) \/ SweepShard(c) \/ SweepStop(c)
    BY DEF CacheNext, CacheCall, CacheStep, CacheBackground, Return, ContainsCall,
           ContainsLookup, ContainsEvict, SetCall, SetWrite, LenCall, LenShard, Close,
           cacheVars, sweepVars
  <2> QED
    BY <2>1, <2>2, <2>3, <2>4
<1> QED
  BY <1>1, <1>2, CacheTypeCorrect, PTL DEF CacheSpec

\* No step of Contains, of the sweeper or of anyone else takes a live entry
\* out of the map: the property NoLiveEviction, for every value of the constants.
THEOREM EvictionSafe == CacheSpec => NoLiveEviction
<1> DEFINE Evicts == \A c \in Caches, k \in Keys :
              data[c][k] # Absent /\ data'[c][k] = Absent => data[c][k] <= now
<1>1. CacheTypeOK /\ SweepNowPast /\ [CacheNext]_cacheVars => [Evicts]_cacheVars
  <2> SUFFICES ASSUME CacheTypeOK, SweepNowPast, CacheNext,
                      NEW c \in Caches, NEW k \in Keys,
                      data[c][k] # Absent, data'[c][k] = Absent
               PROVE  data[c][k] <= now
    OBVIOUS
  <2> USE DEF CacheTypeOK, CacheDataOK
  <2>1. ASSUME NEW g \in Goroutines, ContainsEvict(g) PROVE data[c][k] <= now
    BY <2>1, CacheAssumptions DEF ContainsEvict, Keep, EntryOf, Expiry
  <2>2. ASSUME NEW g \in Goroutines, SetWrite(g) PROVE data[c][k] <= now
    BY <2>2, CacheAssumptions DEF SetWrite, Keep, Absent, Expiry
  <2>3. ASSUME NEW d \in Caches, SweepShard(d) PROVE data[c][k] <= now
    <3>1. d = c /\ k \in SweptFrom(c, sweepIdx[c])
      BY <2>3 DEF SweepShard
    <3> QED
      BY <3>1 DEF SweptFrom, InShard, SweepNowPast, Expiry
  <2>4. CASE UNCHANGED data
    BY <2>4
  <2> QED
    BY <2>1, <2>2, <2>3, <2>4
    DEF CacheNext, CacheCall, CacheStep, CacheBackground, Return,
        ContainsCall, ContainsLookup, SetCall, LenCall, LenShard,
        SweepTick, SweepStop, Close, Tick
<1> QED
  BY <1>1, CacheTypeCorrect, SweepNowPastInvariant, PTL
  DEF CacheSpec, NoLiveEviction

-----------------------------------------------------------------------------
(* What Len returns *)

\* The keys of S in the shards that a Len call at shard i has behind it.
Before(S, i) == {k \in S : shardIndex[k] < i}

\* What has been counted so far lies between the keys behind the call that were
\* there all the time and those that were there at some time.
LenInv ==
    \A g \in Goroutines : Counting(g) =>
        /\ pc[g] = "counted" => lenIdx[g] = NumShards
        /\ always[g] \subseteq Present(cacheOf[g])
        /\ Present(cacheOf[g]) \subseteq during[g]
        /\ during[g] \subseteq Keys
        /\ Cardinality(Before(always[g], lenIdx[g])) <= lenN[g]
        /\ lenN[g] <= Cardinality(Before(during[g], lenIdx[g]))

LEMMA KeysFinite ==
  ASSUME NEW S \in SUBSET Keys
  PROVE  IsFiniteSet(S) /\ Cardinality(S) \in Nat
  BY CacheAssumptions, FS_Subset, FS_CardinalityType

\* Fewer keys count for less.
LEMMA BeforeMonotone ==
  ASSUME NEW S \in SUBSET Keys, NEW T \in SUBSET S, NEW i
  PROVE  Cardinality(Before(T, i)) <= Cardinality(Before(S, i))
<1>1. Before(S, i) \in SUBSET Keys /\ Before(T, i) \in SUBSET Before(S, i)
  BY DEF Before
<1> QED
  BY <1>1, KeysFinite, FS_Subset

\* One more shard adds what S has in it.
LEMMA BeforeNext ==
  ASSUME NEW S \in SUBSET Keys, NEW i \in Nat
  PROVE  Cardinality(Before(S, i + 1)) =
            Cardinality(Before(S, i)) + Cardinality({k \in S : shardIndex[k] = i})
<1> DEFINE B == Before(S, i)
           I == {k \in S : shardIndex[k] = i}
<1>1. \A k \in S : shardIndex[k] \in Int
  BY CacheAssumptions
<1>2. Before(S, i + 1) = B \cup I /\ B \cap I = {}
  BY <1>1 DEF Before
<1>3. IsFiniteSet(B) /\ IsFiniteSet(I) /\ Cardinality(B) \in Nat /\ Cardinality(I) \in Nat
  BY KeysFinite DEF Before
<1> HIDE DEF B, I
<1>4. Cardinality(B \cup I) = Cardinality(B) + Cardinality(I) - Cardinality(B \cap I)
  BY <1>3, FS_Union
<1>5. Cardinality(B \cap I) = 0
  BY <1>2, FS_EmptySet
<1>6. Cardinality(B \cup I) = Cardinality(B) + Cardinality(I)
  BY ONLY <1>3, <1>4, <1>5
<1> QED
  BY <1>2, <1>6, Zenon DEF B, I

\* Nothing lies behind the first shard, and everything behind the last.
LEMMA BeforeEnds ==
  ASSUME NEW S \in SUBSET Keys
  PROVE  Cardinality(Before(S, 0)) = 0 /\ Before(S, NumShards) = S
<1>1. \A k \in S : shardIndex[k] \in 0..(NumShards - 1)
  BY CacheAssumptions
<1>2. Before(S, 0) = {} /\ Before(S, NumShards) = S
  BY <1>1, CacheAssumptions DEF Before
<1> QED
  BY <1>2, FS_EmptySet

\* Who is counting after a step has just begun, has counted a shard, or stands
\* where it stood.
LEMMA LenMoves ==
  ASSUME CacheTypeOK, CacheNext, NEW g \in Goroutines, Counting(g)'
  PROVE  \/ LenCall(g) /\ ~Counting(g)
         \/ LenShard(g) /\ Counting(g)
         \/ /\ Counting(g)
            /\ pc'[g] = pc[g] /\ lenIdx'[g] = lenIdx[g] /\ lenN'[g] = lenN[g]
<1> USE DEF CacheTypeOK, CacheDataOK, Counting
<1>1. ASSUME NEW h \in Goroutines, CacheCall(h) \/ CacheStep(h) \/ Return(h), h = g
      PROVE  (LenCall(g) /\ ~Counting(g)) \/ LenShard(g)
  BY <1>1 DEF CacheCall, CacheStep, Return, ContainsCall, SetCall, ContainsLookup,
              ContainsEvict, SetWrite, Goto
<1>2. ASSUME NEW h \in Goroutines, CacheCall(h) \/ CacheStep(h) \/ Return(h), h # g
      PROVE  pc'[g] = pc[g] /\ lenIdx'[g] = lenIdx[g] /\ lenN'[g] = lenN[g]
  BY <1>2 DEF CacheCall, CacheStep, Return, ContainsCall, SetCall, ContainsLookup,
              ContainsEvict, SetWrite, LenCall, LenShard, Goto, lenVars
<1>3. ASSUME CacheBackground
      PROVE  pc'[g] = pc[g] /\ lenIdx'[g] = lenIdx[g] /\ lenN'[g] = lenN[g]
  BY <1>3 DEF CacheBackground, SweepTick, SweepShard, SweepStop, Close, Tick, lenVars
<1> QED
  BY <1>1, <1>2, <1>3 DEF CacheNext, LenShard

\* A call of Len begins.
LEMMA LenBegins ==
  ASSUME CacheTypeOK, Follow, NEW g \in Goroutines, LenCall(g), ~Counting(g)
  PROVE  /\ pc'[g] = "count" /\ lenIdx'[g] = 0 /\ lenN'[g] = 0
         /\ during'[g] = Present(cacheOf[g])' /\ always'[g] = Present(cacheOf[g])'
<1>1. pc'[g] = "count" /\ lenIdx'[g] = 0 /\ lenN'[g] = 0
  BY DEF LenCall, Goto, CacheTypeOK, CacheDataOK
<1>2. Counting(g)' /\ Present(cacheOf[g])' \subseteq Keys
  BY <1>1 DEF Counting, Present
<1> QED
  BY <1>1, <1>2 DEF Follow

\* A shard is counted while the map stands still: what the call adds lies
\* between what always and during have in that shard.
LEMMA LenCounts ==
  ASSUME CacheTypeOK, LenInv, Follow, NEW g \in Goroutines, LenShard(g)
  PROVE  /\ lenIdx[g] \in Nat /\ lenIdx'[g] = lenIdx[g] + 1
         /\ pc'[g] = "counted" => lenIdx'[g] = NumShards
         /\ during'[g] = during[g] /\ always'[g] = always[g]
         /\ Present(cacheOf[g])' = Present(cacheOf[g])
         /\ Cardinality(Before(always[g], lenIdx[g] + 1)) <= lenN'[g]
         /\ lenN'[g] <= Cardinality(Before(during[g], lenIdx[g] + 1))
<1> DEFINE i == lenIdx[g]
           n == Cardinality(InShard(cacheOf[g], i))
           A == {k \in always[g] : shardIndex[k] = i}
           D == {k \in during[g] : shardIndex[k] = i}
<1>0. Counting(g) /\ cacheOf[g] \in Caches
  BY CacheAssumptions DEF LenShard, Counting
<1>1. /\ i \in Nat /\ NumShards \in Nat /\ lenN[g] \in Nat
      /\ lenIdx'[g] = i + 1 /\ lenN'[g] = lenN[g] + n
      /\ pc'[g] \in {"count", "counted"}
      /\ pc'[g] = "counted" => i + 1 = NumShards
  BY CacheAssumptions DEF LenShard, Goto, CacheTypeOK, CacheDataOK
<1>2. Present(cacheOf[g])' = Present(cacheOf[g]) /\ Counting(g)'
  BY <1>1 DEF LenShard, Present, Counting
<1>3. /\ always[g] \subseteq Present(cacheOf[g])
      /\ Present(cacheOf[g]) \subseteq during[g]
      /\ during[g] \in SUBSET Keys /\ always[g] \in SUBSET Keys
      /\ Cardinality(Before(always[g], i)) <= lenN[g]
      /\ lenN[g] <= Cardinality(Before(during[g], i))
  BY <1>0 DEF LenInv, Present
<1>4. during'[g] = during[g] /\ always'[g] = always[g]
  BY <1>0, <1>2, <1>3 DEF Follow
<1>5. /\ A \in SUBSET InShard(cacheOf[g], i) /\ InShard(cacheOf[g], i) \in SUBSET D
      /\ D \in SUBSET Keys /\ InShard(cacheOf[g], i) \in SUBSET Keys /\ A \in SUBSET Keys
  BY <1>3 DEF InShard, Present
<1>6. /\ Cardinality(A) <= n /\ n <= Cardinality(D)
      /\ n \in Nat /\ Cardinality(A) \in Nat /\ Cardinality(D) \in Nat
  <2> HIDE DEF A, D
  <2> QED
    BY <1>5, KeysFinite, FS_Subset
<1>7. /\ Before(always[g], i) \in SUBSET Keys /\ Before(during[g], i) \in SUBSET Keys
  BY <1>3 DEF Before
<1>8. /\ Cardinality(Before(always[g], i)) \in Nat
      /\ Cardinality(Before(during[g], i)) \in Nat
  BY <1>7, KeysFinite
<1>9. /\ Cardinality(Before(always[g], i + 1)) = Cardinality(Before(always[g], i)) + Cardinality(A)
      /\ Cardinality(Before(during[g], i + 1)) = Cardinality(Before(during[g], i)) + Cardinality(D)
  BY <1>1, <1>3, BeforeNext
<1>10. /\ Cardinality(Before(always[g], i + 1)) <= lenN[g] + n
       /\ lenN[g] + n <= Cardinality(Before(during[g], i + 1))
  <2> HIDE DEF i, n, A, D
  <2> QED
    BY ONLY <1>1, <1>3, <1>6, <1>8, <1>9
<1> QED
  BY <1>1, <1>2, <1>4, <1>10

\* While a call of Len waits, keys may come and go: always only shrinks and
\* during only grows.
LEMMA LenWaits ==
  ASSUME LenInv, Follow, NEW g \in Goroutines, Counting(g), Counting(g)'
  PROVE  /\ always'[g] \in SUBSET always[g] /\ during[g] \in SUBSET during'[g]
         /\ always'[g] \subseteq Present(cacheOf[g])'
         /\ Present(cacheOf[g])' \subseteq during'[g]
         /\ during'[g] \in SUBSET Keys /\ always[g] \in SUBSET Keys
<1>1. always[g] \subseteq Keys /\ during[g] \subseteq Keys
  BY DEF LenInv, Present
<1>2. Present(cacheOf[g])' \subseteq Keys
  BY DEF Present
<1>3. /\ during'[g] = Present(cacheOf[g])' \cup during[g]
      /\ always'[g] = Present(cacheOf[g])' \cap always[g]
  BY DEF Follow
<1> QED
  BY <1>1, <1>2, <1>3

LEMMA LenInvStep ==
  ASSUME CacheTypeOK, LenInv, CacheNext, Follow
  PROVE  LenInv'
<1> SUFFICES ASSUME NEW g \in Goroutines, Counting(g)'
             PROVE  /\ pc'[g] = "counted" => lenIdx'[g] = NumShards
                    /\ always'[g] \subseteq Present(cacheOf[g])'
                    /\ Present(cacheOf[g])' \subseteq during'[g]
                    /\ during'[g] \subseteq Keys
                    /\ Cardinality(Before(always'[g], lenIdx'[g])) <= lenN'[g]
                    /\ lenN'[g] <= Cardinality(Before(during'[g], lenIdx'[g]))
  BY DEF LenInv, Before
<1>1. CASE LenCall(g) /\ ~Counting(g)
  <2>1. Present(cacheOf[g])' \in SUBSET Keys
    BY DEF Present
  <2>2. Cardinality(Before(Present(cacheOf[g])', 0)) = 0
    BY <2>1, BeforeEnds
  <2> QED
    BY <1>1, <2>1, <2>2, LenBegins
<1>2. CASE LenShard(g) /\ Counting(g)
  BY <1>2, LenCounts DEF LenInv
<1>3. CASE /\ Counting(g)
           /\ pc'[g] = pc[g] /\ lenIdx'[g] = lenIdx[g] /\ lenN'[g] = lenN[g]
  <2> DEFINE i == lenIdx[g]
  <2>1. /\ pc[g] = "counted" => i = NumShards
        /\ Cardinality(Before(always[g], i)) <= lenN[g]
        /\ lenN[g] <= Cardinality(Before(during[g], i))
        /\ lenN[g] \in Nat
    BY <1>3 DEF LenInv, CacheTypeOK, CacheDataOK
  <2>2. /\ always'[g] \in SUBSET always[g] /\ during[g] \in SUBSET during'[g]
        /\ always'[g] \subseteq Present(cacheOf[g])'
        /\ Present(cacheOf[g])' \subseteq during'[g]
        /\ during'[g] \in SUBSET Keys /\ always[g] \in SUBSET Keys
    BY <1>3, LenWaits
  <2>3. /\ Cardinality(Before(always'[g], i)) <= Cardinality(Before(always[g], i))
        /\ Cardinality(Before(during[g], i)) <= Cardinality(Before(during'[g], i))
    BY <2>2, BeforeMonotone
  <2>4. /\ Before(always'[g], i) \in SUBSET Keys /\ Before(always[g], i) \in SUBSET Keys
        /\ Before(during'[g], i) \in SUBSET Keys /\ Before(during[g], i) \in SUBSET Keys
    BY <2>2 DEF Before
  <2>5. /\ Cardinality(Before(always'[g], i)) \in Nat /\ Cardinality(Before(always[g], i)) \in Nat
        /\ Cardinality(Before(during'[g], i)) \in Nat /\ Cardinality(Before(during[g], i)) \in Nat
    BY <2>4, KeysFinite
  <2>6. /\ Cardinality(Before(always'[g], i)) <= lenN[g]
        /\ lenN[g] <= Cardinality(Before(during'[g], i))
    BY ONLY <2>1, <2>3, <2>5
  <2> QED
    BY <1>3, <2>1, <2>2, <2>6
<1> QED
  BY <1>1, <1>2, <1>3, LenMoves

LEMMA LenInvariant == CacheLenSpec => []LenInv
<1>1. CacheLenInit => LenInv
  BY DEF CacheLenInit, CacheInit, LenInv, Counting
<1>2. CacheTypeOK /\ LenInv /\ [CacheNext /\ Follow]_lenHistory => LenInv'
  <2>1. ASSUME LenInv, UNCHANGED lenHistory PROVE LenInv'
    BY <2>1 DEF LenInv, lenHistory, cacheVars, lenVars, Counting, Present, Before
  <2> QED
    BY <2>1, LenInvStep
<1>3. CacheLenInit => CacheInit
  BY DEF CacheLenInit
<1>4. [CacheNext /\ Follow]_lenHistory => [CacheNext]_cacheVars
  BY DEF lenHistory
<1> QED
  BY <1>1, <1>2, <1>3, <1>4, CacheTypeCorrect, PTL DEF CacheLenSpec, CacheSpec

\* What Len adds up shard by shard, while Set, Contains and the sweeper change
\* the shards before and after the one it holds, is at least the number of keys
\* cached during the whole call and at most the number of keys cached at some
\* point of it: LenSound, for any number of keys and shards.
THEOREM LenIsSound == CacheLenSpec => []LenSound
<1>1. LenInv => LenSound
  <2> SUFFICES ASSUME LenInv, NEW g \in Goroutines, pc[g] = "counted"
               PROVE  /\ Cardinality(always[g]) <= lenN[g]
                      /\ lenN[g] <= Cardinality(during[g])
    BY DEF LenSound
  <2>1. /\ Counting(g) /\ lenIdx[g] = NumShards
        /\ always[g] \in SUBSET Keys /\ during[g] \in SUBSET Keys
    BY DEF LenInv, Counting, Present
  <2>2. Before(always[g], NumShards) = always[g] /\ Before(during[g], NumShards) = during[g]
    BY <2>1, BeforeEnds
  <2> QED
    BY <2>1, <2>2 DEF LenInv
<1> QED
  BY <1>1, LenInvariant, PTL

=============================================================================
