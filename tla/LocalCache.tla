----------------------------- MODULE LocalCache -----------------------------
(***************************************************************************)
(* The in-process L1 cache of internal/store/localcache.go: a map from     *)
(* fingerprint keys to expiry times, split into shards that are locked     *)
(* independently, used by many request goroutines and cleaned by one       *)
(* background sweeper per cache.                                           *)
(*                                                                         *)
(* One step is one critical section of the code, or the straight-line code *)
(* before it that reads the clock.  The clock readings are steps of their  *)
(* own because the code takes them outside the lock: a goroutine may stall *)
(* between reading the time and entering the section, and the clock, the   *)
(* sweeper and other goroutines move meanwhile.                            *)
(*                                                                         *)
(* An operation ends at a return point ("hit", "miss", "stored",           *)
(* "counted") from which its caller goes on, so that the modules of the    *)
(* callers reuse these actions.                                            *)
(***************************************************************************)
EXTENDS Integers, FiniteSets

CONSTANTS
    Goroutines,  \* goroutines that call the cache
    Caches,      \* one LocalCache per service instance
    cacheOf,     \* the cache that a goroutine's instance owns
    Keys,        \* fingerprint keys
    NumShards,   \* numShards, 256 in the code
    shardIndex,  \* the FNV-1a shard of a key
    TTLs,        \* time-to-live values that callers pass to Set
    MaxTime      \* bound on the clock

ASSUME CacheAssumptions ==
    /\ NumShards \in Nat \ {0}
    /\ cacheOf \in [Goroutines -> Caches]
    /\ shardIndex \in [Keys -> 0..(NumShards - 1)]
    /\ TTLs \subseteq Nat \ {0}
    /\ MaxTime \in Nat
    /\ Keys # {} /\ IsFiniteSet(Keys)

VARIABLES
    now,       \* the wall clock (time.Now)
    data,      \* data[c][k]: expiry of k in cache c, Absent when not in the map
    pc,        \* where each goroutine is
    key,       \* key argument of the running operation
    at,        \* clock reading (Contains) or computed expiry (Set), 0 once used
    lenIdx,    \* Len: next shard to count
    lenN,      \* Len: entries counted so far
    done,      \* done[c]: the sweeper's context is cancelled
    sweepPc,   \* "wait" in the select, "sweep" inside sweep(), "stopped"
    sweepNow,  \* clock reading of the running sweep
    sweepIdx   \* next shard of the running sweep

lenVars   == <<lenIdx, lenN>>
sweepVars == <<sweepPc, sweepNow, sweepIdx>>
cacheVars == <<now, data, pc, key, at, lenVars, done, sweepVars>>

Absent == -1

\* What the key register of a goroutine outside any operation holds.
NoArg == CHOOSE k \in Keys : TRUE

Expiry == Nat \cup {Absent}

CachePCs == {"idle", "lookup", "evict", "write", "count",
             "hit", "miss", "stored", "counted"}

\* Everything but pc, whose range grows with the callers' modules.
CacheDataOK ==
    /\ now \in Nat
    /\ data \in [Caches -> [Keys -> Expiry]]
    /\ key \in [Goroutines -> Keys]
    /\ at \in [Goroutines -> Nat]
    /\ lenIdx \in [Goroutines -> 0..NumShards]
    /\ lenN \in [Goroutines -> Nat]
    /\ done \in [Caches -> BOOLEAN]
    /\ sweepPc \in [Caches -> {"wait", "sweep", "stopped"}]
    /\ sweepNow \in [Caches -> Nat]
    /\ sweepIdx \in [Caches -> 0..NumShards]

\* Type invariant of the cache.
CacheTypeOK == CacheDataOK /\ pc \in [Goroutines -> CachePCs]

\* NewLocalCache and NewCached: empty shards, sweeper waiting for its ticker.
CacheInit ==
    /\ now = 0
    /\ data = [c \in Caches |-> [k \in Keys |-> Absent]]
    /\ pc = [g \in Goroutines |-> "idle"]
    /\ key = [g \in Goroutines |-> NoArg]
    /\ at = [g \in Goroutines |-> 0]
    /\ lenIdx = [g \in Goroutines |-> 0]
    /\ lenN = [g \in Goroutines |-> 0]
    /\ done = [c \in Caches |-> FALSE]
    /\ sweepPc = [c \in Caches |-> "wait"]
    /\ sweepNow = [c \in Caches |-> 0]
    /\ sweepIdx = [c \in Caches |-> 0]

-----------------------------------------------------------------------------

Goto(g, label) == pc' = [pc EXCEPT ![g] = label]

EntryOf(g) == data[cacheOf[g]][key[g]]

Keep(g, expiry) == data' = [data EXCEPT ![cacheOf[g]][key[g]] = expiry]

\* Contains(k) up to its clock reading.
ContainsCall(g, k) ==
    /\ Goto(g, "lookup")
    /\ key' = [key EXCEPT ![g] = k]
    /\ at' = [at EXCEPT ![g] = now]
    /\ UNCHANGED <<now, data, lenVars, done, sweepVars>>

\* Contains: the read-locked lookup and the decision taken on what it read.
ContainsLookup(g) ==
    /\ pc[g] = "lookup"
    /\ Goto(g, IF EntryOf(g) = Absent THEN "miss"
               ELSE IF at[g] >= EntryOf(g) THEN "evict"
               ELSE "hit")
    /\ at' = [at EXCEPT ![g] = 0]
    /\ UNCHANGED <<now, data, key, lenVars, done, sweepVars>>

\* Fault variant: the eviction without its second look.
ContainsEvictBlind(g) ==
    /\ pc[g] = "evict"
    /\ Keep(g, Absent)
    /\ Goto(g, "miss")
    /\ UNCHANGED <<now, key, at, lenVars, done, sweepVars>>

\* Contains: the write-locked lazy eviction, which looks again before deleting.
ContainsEvict(g) ==
    /\ pc[g] = "evict"
    /\ IF EntryOf(g) # Absent /\ now >= EntryOf(g)
       THEN Keep(g, Absent)
       ELSE UNCHANGED data
    /\ Goto(g, "miss")
    /\ UNCHANGED <<now, key, at, lenVars, done, sweepVars>>

\* Fault variant: the TTL subtracted from the clock.
SetCallBackwards(g, k, ttl) ==
    /\ Goto(g, "write")
    /\ key' = [key EXCEPT ![g] = k]
    /\ at' = [at EXCEPT ![g] = now - ttl]
    /\ UNCHANGED <<now, data, lenVars, done, sweepVars>>

\* Set(k, ttl) up to the expiry it computes.
SetCall(g, k, ttl) ==
    /\ Goto(g, "write")
    /\ key' = [key EXCEPT ![g] = k]
    /\ at' = [at EXCEPT ![g] = now + ttl]
    /\ UNCHANGED <<now, data, lenVars, done, sweepVars>>

\* Set: the write-locked store, overwriting whatever is there.
SetWrite(g) ==
    /\ pc[g] = "write"
    /\ Keep(g, at[g])
    /\ Goto(g, "stored")
    /\ at' = [at EXCEPT ![g] = 0]
    /\ UNCHANGED <<now, key, lenVars, done, sweepVars>>

\* Fault variant: the first shard is not counted.
LenCallFromOne(g) ==
    /\ Goto(g, "count")
    /\ lenIdx' = [lenIdx EXCEPT ![g] = 1]
    /\ lenN' = [lenN EXCEPT ![g] = 0]
    /\ UNCHANGED <<now, data, key, at, done, sweepVars>>

LenCall(g) ==
    /\ Goto(g, "count")
    /\ lenIdx' = [lenIdx EXCEPT ![g] = 0]
    /\ lenN' = [lenN EXCEPT ![g] = 0]
    /\ UNCHANGED <<now, data, key, at, done, sweepVars>>

\* The keys that cache c holds in shard i.
InShard(c, i) == {k \in Keys : shardIndex[k] = i /\ data[c][k] # Absent}

\* Fault variant: the loop runs one shard too far.
LenShardPastEnd(g) ==
    /\ pc[g] = "count"
    /\ lenN' = [lenN EXCEPT ![g] = @ + Cardinality(InShard(cacheOf[g], lenIdx[g]))]
    /\ lenIdx' = [lenIdx EXCEPT ![g] = @ + 1]
    /\ Goto(g, IF lenIdx[g] = NumShards THEN "counted" ELSE "count")
    /\ UNCHANGED <<now, data, key, at, done, sweepVars>>

\* Len: one shard under its read lock; the shards before it may change.
LenShard(g) ==
    /\ pc[g] = "count"
    /\ lenIdx[g] < NumShards
    /\ lenN' = [lenN EXCEPT ![g] = @ + Cardinality(InShard(cacheOf[g], lenIdx[g]))]
    /\ lenIdx' = [lenIdx EXCEPT ![g] = @ + 1]
    /\ Goto(g, IF lenIdx[g] + 1 = NumShards THEN "counted" ELSE "count")
    /\ UNCHANGED <<now, data, key, at, done, sweepVars>>

\* The caller of an operation takes its result; the locals of the call are gone.
Return(g) ==
    /\ pc[g] \in {"hit", "miss", "stored", "counted"}
    /\ Goto(g, "idle")
    /\ key' = [key EXCEPT ![g] = NoArg]
    /\ lenIdx' = [lenIdx EXCEPT ![g] = 0]
    /\ lenN' = [lenN EXCEPT ![g] = 0]
    /\ UNCHANGED <<now, data, at, done, sweepVars>>

-----------------------------------------------------------------------------

\* Fault variant: the first shard is never swept.
SweepTickFromOne(c) ==
    /\ sweepPc[c] = "wait"
    /\ sweepPc' = [sweepPc EXCEPT ![c] = "sweep"]
    /\ sweepNow' = [sweepNow EXCEPT ![c] = now]
    /\ sweepIdx' = [sweepIdx EXCEPT ![c] = 1]
    /\ UNCHANGED <<now, data, pc, key, at, lenVars, done>>

\* SweepLoop: the ticker fires and sweep() reads the clock, once for all shards.
SweepTick(c) ==
    /\ sweepPc[c] = "wait"
    /\ sweepPc' = [sweepPc EXCEPT ![c] = "sweep"]
    /\ sweepNow' = [sweepNow EXCEPT ![c] = now]
    /\ sweepIdx' = [sweepIdx EXCEPT ![c] = 0]
    /\ UNCHANGED <<now, data, pc, key, at, lenVars, done>>

\* The keys of shard i that the running sweep of cache c deletes.
SweptFrom(c, i) == {k \in InShard(c, i) : sweepNow[c] >= data[c][k]}

\* sweep: one shard under its write lock.
SweepShard(c) ==
    /\ sweepPc[c] = "sweep"
    /\ sweepIdx[c] < NumShards
    /\ data' = [data EXCEPT ![c] = [k \in Keys |->
                   IF k \in SweptFrom(c, sweepIdx[c]) THEN Absent ELSE @[k]]]
    /\ sweepIdx' = [sweepIdx EXCEPT ![c] =
                      IF sweepIdx[c] + 1 = NumShards THEN 0 ELSE @ + 1]
    /\ sweepPc' = [sweepPc EXCEPT ![c] =
                      IF sweepIdx[c] + 1 = NumShards THEN "wait" ELSE "sweep"]
    /\ sweepNow' = [sweepNow EXCEPT ![c] =
                      IF sweepIdx[c] + 1 = NumShards THEN 0 ELSE @]
    /\ UNCHANGED <<now, pc, key, at, lenVars, done>>

\* Fault variant: a break that leaves the select and not the loop.
SweepStopBreaks(c) ==
    /\ sweepPc[c] = "wait"
    /\ done[c]
    /\ sweepPc' = [sweepPc EXCEPT ![c] = "wait"]
    /\ UNCHANGED <<now, data, pc, key, at, lenVars, done, sweepNow, sweepIdx>>

\* SweepLoop: the select sees the cancelled context and the goroutine returns.
SweepStop(c) ==
    /\ sweepPc[c] = "wait"
    /\ done[c]
    /\ sweepPc' = [sweepPc EXCEPT ![c] = "stopped"]
    /\ UNCHANGED <<now, data, pc, key, at, lenVars, done, sweepNow, sweepIdx>>

\* CachedStore.Close as the cache sees it: the sweeper's context is cancelled.
Close(c) ==
    /\ ~done[c]
    /\ done' = [done EXCEPT ![c] = TRUE]
    /\ UNCHANGED <<now, data, pc, key, at, lenVars, sweepVars>>

Tick ==
    /\ now < MaxTime
    /\ now' = now + 1
    /\ UNCHANGED <<data, pc, key, at, lenVars, done, sweepVars>>

-----------------------------------------------------------------------------

\* What a goroutine does inside an operation it has called.
CacheStep(g) ==
    \/ ContainsLookup(g)
    \/ ContainsEvict(g)
    \/ SetWrite(g)
    \/ LenShard(g)

\* What happens to the caches without any caller.
CacheBackground ==
    \/ \E c \in Caches : SweepTick(c) \/ SweepShard(c) \/ SweepStop(c) \/ Close(c)
    \/ Tick

CacheCall(g) ==
    /\ pc[g] = "idle"
    /\ \/ \E k \in Keys : ContainsCall(g, k)
       \/ \E k \in Keys, ttl \in TTLs : SetCall(g, k, ttl)
       \/ LenCall(g)

CacheNext ==
    \/ \E g \in Goroutines : CacheCall(g) \/ CacheStep(g) \/ Return(g)
    \/ CacheBackground

CacheSpec == CacheInit /\ [][CacheNext]_cacheVars

\* The Go scheduler runs every runnable goroutine, the ticker fires for ever,
\* and a select whose ready cases include ctx.Done() picks it eventually.
SweepFairness ==
    \A c \in Caches :
        /\ WF_cacheVars(SweepTick(c))
        /\ WF_cacheVars(SweepShard(c))
        /\ SF_cacheVars(SweepStop(c))

CacheFairness ==
    /\ SweepFairness
    /\ \A g \in Goroutines : WF_cacheVars(CacheStep(g))

-----------------------------------------------------------------------------
(* Properties *)

\* A step that takes an entry out of the map (the lazy eviction of Contains, or
\* the sweeper working from a clock reading taken shards ago) only ever takes
\* out an entry that has expired by then: a fresh Set that slips in between the
\* decision to evict and the eviction survives.
NoLiveEviction ==
    [][\A c \in Caches, k \in Keys :
          data[c][k] # Absent /\ data'[c][k] = Absent => data[c][k] <= now]_cacheVars

\* Without any lookup of the key, an expired entry is gone in the end, unless
\* the store is closed: memory is reclaimed for keys nobody asks about again.
ExpiredEventuallyGone ==
    \A c \in Caches, k \in Keys :
        (data[c][k] # Absent /\ data[c][k] <= now)
            ~> (data[c][k] = Absent \/ data[c][k] > now \/ done[c])

\* Close stops the background goroutine for good: it does not leak.
CloseStopsSweep ==
    \A c \in Caches : done[c] ~> [](sweepPc[c] = "stopped")

=============================================================================
