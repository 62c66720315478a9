---------------------------- MODULE CachedStore -----------------------------
(***************************************************************************)
(* IsDuplicate end to end: internal/store/cached_store.go over the Redis   *)
(* store of internal/store/store.go, for several service instances that    *)
(* share one Redis.                                                        *)
(*                                                                         *)
(* Redis and the go-redis client are external and modelled from how        *)
(* RedisStore uses them: SET key 1 NX with a TTL, executed atomically by   *)
(* the server some time after it is sent; an answer that may be lost; a    *)
(* client that resends a command whose answer it did not get (NewRedis     *)
(* leaves MaxRetries at the library's default) and finally gives up; a     *)
(* command the client has abandoned that the server may still execute; a   *)
(* server that may lose its data.                                          *)
(*                                                                         *)
(* The store the instance got at startup is backend[c]: "redis", or        *)
(* "failing" for the MemoryStore whose Err is set (initStore, fail-open).  *)
(***************************************************************************)
EXTENDS LocalCache

CONSTANTS
    Window,             \* cfg.DedupWindow, in clock ticks
    Ms,                 \* clock ticks in a millisecond
    ReplyLag,           \* longest time from sending a command to caching its answer
    MaxRetries,         \* resends by the client; 3 in the one that NewRedis builds
    LocalCacheEnabled,  \* cfg.LocalCacheEnabled
    MaxLate,            \* bound on abandoned commands in flight, per key
    MaxLosses           \* bound on losses of Redis's data

ASSUME StoreAssumptions ==
    /\ Window \in TTLs
    /\ Ms \in Nat \ {0}
    /\ ReplyLag \in Nat
    /\ MaxRetries \in Nat
    /\ LocalCacheEnabled \in BOOLEAN
    /\ MaxLate \in Nat
    /\ MaxLosses \in Nat

VARIABLES
    backend,    \* what NewCached wraps, or is used bare without the L1 cache
    redis,      \* redis[k]: expiry of k in Redis, Absent when never set or lost
    late,       \* late[k]: abandoned SET commands for k that may still execute
    attempt,    \* resends made by the running call
    sent,       \* when the running attempt was sent
    reply,      \* the server's answer to the running attempt
    born,       \* history: when the running call created its key, or Absent
    bornEpoch,  \* history: the epoch in which it did
    epoch,      \* history: how often Redis has lost its data
    lastBorn,   \* history: when Redis last created k, or Absent
    grants      \* history: the creations reported as "not a duplicate"

callVars  == <<attempt, sent, reply, born, bornEpoch>>
redisVars == <<redis, late, epoch, lastBorn>>
onlyStoreVars == <<backend, callVars, redisVars, grants>>
storeVars == <<cacheVars, onlyStoreVars>>

\* "body" is for callers that have work of their own before the call.
StorePCs == (CachePCs \ {"count", "counted"})
            \cup {"sent", "executed", "answered", "failed"} \cup {"body"}

Tokens == [key : Keys, born : Expiry, epoch : Nat]

StoreDataOK ==
    /\ backend \in [Caches -> {"redis", "failing"}]
    /\ redis \in [Keys -> Expiry]
    /\ late \in [Keys -> Nat]
    /\ attempt \in [Goroutines -> Nat]
    /\ sent \in [Goroutines -> Nat]
    /\ reply \in [Goroutines -> {"none", "OK", "Nil"}]
    /\ born \in [Goroutines -> Expiry]
    /\ bornEpoch \in [Goroutines -> Nat]
    /\ epoch \in Nat
    /\ lastBorn \in [Keys -> Expiry]
    /\ grants \subseteq Tokens

\* Type invariant of the store.
StoreTypeOK ==
    /\ CacheDataOK
    /\ StoreDataOK
    /\ pc \in [Goroutines -> StorePCs]

\* NewRedis succeeded, or initStore fell back to the failing MemoryStore.
StoreInit ==
    /\ CacheInit
    /\ backend \in [Caches -> {"redis", "failing"}]
    /\ redis = [k \in Keys |-> Absent]
    /\ late = [k \in Keys |-> 0]
    /\ attempt = [g \in Goroutines |-> 0]
    /\ sent = [g \in Goroutines |-> 0]
    /\ reply = [g \in Goroutines |-> "none"]
    /\ born = [g \in Goroutines |-> Absent]
    /\ bornEpoch = [g \in Goroutines |-> 0]
    /\ epoch = 0
    /\ lastBorn = [k \in Keys |-> Absent]
    /\ grants = {}

-----------------------------------------------------------------------------
(* Redis *)

\* The TTL that reaches Redis: go-redis sends whole milliseconds, truncated,
\* and rounds a shorter duration up to one.
RedisTTL == IF Window < Ms THEN Ms ELSE Window - (Window % Ms)

\* Fault variant: a key that is gone one tick early.
LiveStrict(k) == redis[k] # Absent /\ now < redis[k]

\* A key expires when the server's clock has passed its expiry.
Live(k) == redis[k] # Absent /\ now <= redis[k]

\* SET k 1 NX PX ttl on the server.
SetNX(k) ==
    IF Live(k)
    THEN UNCHANGED <<redis, lastBorn>>
    ELSE /\ redis' = [redis EXCEPT ![k] = now + RedisTTL]
         /\ lastBorn' = [lastBorn EXCEPT ![k] = now]

\* A command whose client no longer waits reaches the server.
RedisExecLate(k) ==
    /\ late[k] > 0
    /\ late' = [late EXCEPT ![k] = @ - 1]
    /\ SetNX(k)
    /\ UNCHANGED <<cacheVars, backend, callVars, epoch, grants>>

\* Redis restarts without its data, or a failover loses it.
RedisLose ==
    /\ epoch < MaxLosses
    /\ epoch' = epoch + 1
    /\ redis' = [k \in Keys |-> Absent]
    /\ UNCHANGED <<cacheVars, backend, callVars, late, lastBorn, grants>>

-----------------------------------------------------------------------------
(* RedisStore.IsDuplicate *)

Usable(g) == backend[cacheOf[g]] = "redis" /\ ~done[cacheOf[g]]

\* The call into the backend: the client sends SET NX.
RedisSend(g) ==
    /\ pc[g] = "miss"
    /\ Usable(g)
    /\ Goto(g, "sent")
    /\ sent' = [sent EXCEPT ![g] = now]
    /\ UNCHANGED <<now, data, key, at, lenVars, done, sweepVars,
                   backend, attempt, reply, born, bornEpoch, redisVars, grants>>

\* The failing MemoryStore returns its Err; a closed client returns ErrClosed.
BackendFails(g) ==
    /\ pc[g] = "miss"
    /\ ~Usable(g)
    /\ Goto(g, "failed")
    /\ UNCHANGED <<now, data, key, at, lenVars, done, sweepVars, onlyStoreVars>>

\* Fault variant: a plain SET, without NX.
RedisExecPlain(g) ==
    /\ pc[g] = "sent"
    /\ redis' = [redis EXCEPT ![key[g]] = now + RedisTTL]
    /\ lastBorn' = [lastBorn EXCEPT ![key[g]] = now]
    /\ reply' = [reply EXCEPT ![g] = "OK"]
    /\ born' = [born EXCEPT ![g] = now]
    /\ bornEpoch' = [bornEpoch EXCEPT ![g] = epoch]
    /\ Goto(g, "executed")
    /\ UNCHANGED <<now, data, key, at, lenVars, done, sweepVars,
                   backend, attempt, sent, late, epoch, grants>>

\* The server executes the command of a client that still waits for the answer.
RedisExec(g) ==
    /\ pc[g] = "sent"
    /\ SetNX(key[g])
    /\ IF Live(key[g])
       THEN /\ reply' = [reply EXCEPT ![g] = "Nil"]
            /\ UNCHANGED <<born, bornEpoch>>
       ELSE /\ reply' = [reply EXCEPT ![g] = "OK"]
            /\ born' = [born EXCEPT ![g] = now]
            /\ bornEpoch' = [bornEpoch EXCEPT ![g] = epoch]
    /\ Goto(g, "executed")
    /\ UNCHANGED <<now, data, key, at, lenVars, done, sweepVars,
                   backend, attempt, sent, late, epoch, grants>>

\* The answer arrives in time.  CachedStore goes straight on to cache.Set with
\* the full window, whether or not the key is a duplicate.
RedisReply(g) ==
    /\ pc[g] = "executed"
    /\ now <= sent[g] + ReplyLag
    /\ IF LocalCacheEnabled
       THEN SetCall(g, key[g], Window)
       ELSE /\ Goto(g, "answered")
            /\ UNCHANGED <<now, data, key, at, lenVars, done, sweepVars>>
    /\ attempt' = [attempt EXCEPT ![g] = 0]
    /\ sent' = [sent EXCEPT ![g] = 0]
    /\ UNCHANGED <<backend, reply, born, bornEpoch, redisVars, grants>>

\* The locals of the client's call are gone.
ForgetCall(g) ==
    /\ attempt' = [attempt EXCEPT ![g] = 0]
    /\ sent' = [sent EXCEPT ![g] = 0]
    /\ reply' = [reply EXCEPT ![g] = "none"]
    /\ born' = [born EXCEPT ![g] = Absent]
    /\ bornEpoch' = [bornEpoch EXCEPT ![g] = 0]

\* The client stops waiting; a command the server has not executed yet is lost,
\* or stays in flight.
Abandon(g) ==
    \/ UNCHANGED late
    \/ /\ pc[g] = "sent"
       /\ late[key[g]] < MaxLate
       /\ late' = [late EXCEPT ![key[g]] = @ + 1]

\* The client sends the same command again after an I/O error or a timeout.
RedisRetry(g) ==
    /\ pc[g] \in {"sent", "executed"}
    /\ attempt[g] < MaxRetries
    /\ Usable(g)
    /\ Abandon(g)
    /\ Goto(g, "sent")
    /\ attempt' = [attempt EXCEPT ![g] = @ + 1]
    /\ sent' = [sent EXCEPT ![g] = now]
    /\ reply' = [reply EXCEPT ![g] = "none"]
    /\ UNCHANGED <<now, data, key, at, lenVars, done, sweepVars,
                   backend, born, bornEpoch, redis, epoch, lastBorn, grants>>

\* Fault variant: the key is cached although the backend failed.
RedisGiveUpCached(g) ==
    /\ pc[g] \in {"sent", "executed"}
    /\ Abandon(g)
    /\ SetCall(g, key[g], Window)
    /\ ForgetCall(g)
    /\ UNCHANGED <<backend, redis, epoch, lastBorn, grants>>

\* Fault variant: no deadline, only Close ends the wait.
RedisGiveUpOnClose(g) ==
    /\ pc[g] \in {"sent", "executed"}
    /\ done[cacheOf[g]]
    /\ Abandon(g)
    /\ Goto(g, "failed")
    /\ ForgetCall(g)
    /\ UNCHANGED <<now, data, key, at, lenVars, done, sweepVars,
                   backend, redis, epoch, lastBorn, grants>>

\* The client returns an error: retries used up, context done, connection or
\* pool closed.  RedisStore wraps it as ErrUnavailable; nothing is cached.
RedisGiveUp(g) ==
    /\ pc[g] \in {"sent", "executed"}
    /\ Abandon(g)
    /\ Goto(g, "failed")
    /\ ForgetCall(g)
    /\ UNCHANGED <<now, data, key, at, lenVars, done, sweepVars,
                   backend, redis, epoch, lastBorn, grants>>

-----------------------------------------------------------------------------
(* CachedStore.IsDuplicate *)

\* The call: L1 lookup first, or the bare backend when the L1 cache is off.
IsDuplicateCall(g, k) ==
    /\ IF LocalCacheEnabled
       THEN ContainsCall(g, k)
       ELSE /\ Goto(g, "miss")
            /\ key' = [key EXCEPT ![g] = k]
            /\ UNCHANGED <<now, data, at, lenVars, done, sweepVars>>
    /\ UNCHANGED onlyStoreVars

EndCall(g) ==
    /\ Goto(g, "idle")
    /\ key' = [key EXCEPT ![g] = NoArg]
    /\ ForgetCall(g)
    /\ UNCHANGED <<now, data, at, lenVars, done, sweepVars, backend, redisVars>>

\* The backend's answer is on its way to the caller, L1 populated.
Answered(g) == pc[g] \in {"stored", "answered"}

TokenOf(g) == [key |-> key[g], born |-> born[g], epoch |-> bornEpoch[g]]

\* return false, nil
ReturnNew(g) ==
    /\ Answered(g)
    /\ reply[g] = "OK"
    /\ grants' = grants \cup {TokenOf(g)}
    /\ EndCall(g)

\* return true, nil: an L1 hit or redis.Nil
ReturnDuplicate(g) ==
    /\ pc[g] = "hit" \/ (Answered(g) /\ reply[g] = "Nil")
    /\ EndCall(g)
    /\ UNCHANGED grants

\* return _, err
ReturnError(g) ==
    /\ pc[g] = "failed"
    /\ EndCall(g)
    /\ UNCHANGED grants

-----------------------------------------------------------------------------

\* Steps of a goroutine inside IsDuplicate that wait for nobody.
StoreStep(g) ==
    \/ /\ ContainsLookup(g) \/ ContainsEvict(g) \/ SetWrite(g)
       /\ UNCHANGED onlyStoreVars
    \/ RedisSend(g)
    \/ BackendFails(g)
    \/ RedisReply(g)
    \/ RedisRetry(g)
    \/ RedisGiveUp(g)

StoreReturn(g) == ReturnNew(g) \/ ReturnDuplicate(g) \/ ReturnError(g)

StoreBackground ==
    \/ /\ LocalCacheEnabled
       /\ \E c \in Caches : SweepTick(c) \/ SweepShard(c) \/ SweepStop(c)
       /\ UNCHANGED onlyStoreVars
    \/ /\ Tick \/ \E c \in Caches : Close(c)
       /\ UNCHANGED onlyStoreVars
    \/ \E k \in Keys : RedisExecLate(k)
    \/ RedisLose

StoreCall(g) == pc[g] = "idle" /\ \E k \in Keys : IsDuplicateCall(g, k)

StoreNext ==
    \/ \E g \in Goroutines :
          StoreCall(g) \/ StoreStep(g) \/ RedisExec(g) \/ StoreReturn(g)
    \/ StoreBackground

StoreSpec == StoreInit /\ [][StoreNext]_storeVars

-----------------------------------------------------------------------------
(* Properties *)

\* Two tokens for one key that no data loss separates, within one Redis TTL.
Conflict(s, t) ==
    /\ s.key = t.key
    /\ s.epoch = t.epoch
    /\ s.born <= t.born + RedisTTL
    /\ t.born <= s.born + RedisTTL

\* IsDuplicate admits a key at most once per window, over all instances: a
\* creation reported as "not a duplicate" lies more than the Redis TTL away
\* from every other one, whatever the retries, lost answers, late executions
\* and L1 caches do, unless Redis lost its data between them.
NoDoubleAdmit ==
    [][\A g \in Goroutines :
          ReturnNew(g) => \A s \in grants : ~Conflict(s, TokenOf(g))]_storeVars

\* The L1 cache may extend a block past the Redis TTL, since Set restarts the
\* full window on a duplicate as well, but only once: no entry outlives the
\* creation of its key by more than the Redis TTL, the reply lag and a window.
BlockBound ==
    \A c \in Caches, k \in Keys :
        data[c][k] # Absent =>
            /\ lastBorn[k] # Absent
            /\ data[c][k] <= lastBorn[k] + RedisTTL + ReplyLag + Window

\* cached_store.go says of the L1 cache: "False positives: impossible".  An L1
\* entry is live only while Redis still holds the key.
FalsePositivesImpossible ==
    epoch = 0 => \A c \in Caches, k \in Keys :
        data[c][k] # Absent /\ now < data[c][k] => Live(k)

\* Store.IsDuplicate promises "If the key does not exist: create it ... and
\* return false": a call is never told "duplicate" for the key it made itself.
NotItsOwnDuplicate ==
    \A g \in Goroutines :
        Answered(g) /\ reply[g] = "Nil" /\ born[g] # Absent
            => lastBorn[key[g]] # born[g]

-----------------------------------------------------------------------------
(* Refinement *)

\* How far the gate thinks the call of g is.
CallState(g) ==
    CASE pc[g] \in {"idle", "body"} -> "none"
      [] pc[g] = "lookup" -> "asked"
      [] pc[g] \in {"evict", "miss", "sent"} -> "pending"
      [] pc[g] = "hit" -> "duplicate"
      [] pc[g] = "failed" -> "error"
      [] OTHER -> IF reply[g] = "OK" THEN "new" ELSE "duplicate"

Calls == [g \in Goroutines |-> CallState(g)]

\* The key it has asked about; a request whose body is being read has asked nothing.
Asked == [g \in Goroutines |-> IF CallState(g) = "none" THEN NoArg ELSE key[g]]

\* When a caller whose key is being looked up in the L1 cache came.
Sinces == [g \in Goroutines |-> IF pc[g] = "lookup" THEN at[g] ELSE 0]

\* How far past the Redis TTL the L1 cache may stretch a block.
L1Slack == IF LocalCacheEnabled THEN ReplyLag + Window ELSE 0

Gate == INSTANCE DedupGate WITH
    Callers <- Goroutines,
    TTL <- RedisTTL,
    Slack <- L1Slack,
    clock <- now,
    held <- redis,
    made <- lastBorn,
    call <- Calls,
    arg <- Asked,
    since <- Sinces

\* The instances together, with their L1 caches, retries, late executions and
\* losses, whoever calls them, behave like the one gate that Store promises:
\* every answer "not a duplicate" takes a free key, every answer "duplicate" is
\* about a key that is taken or whose hold, stretched by the L1 cache, had not
\* run out when the caller came.
ImplementsGate == Gate!GateSpec

=============================================================================
