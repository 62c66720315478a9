# A TLA+ model of dedup-service

Specifications, model-checking runs and machine-checked proofs for the Go
service in this repository. Nginx sends every request to the service, which
fingerprints it, asks Redis whether the fingerprint is new (`SET NX` with a
TTL, behind an in-process L1 cache) and answers with a redirect, a 409 or, when
the store fails, whatever `fail_open` says.

## 1. Inventory

| Part | State | Operations | What is hard about it | What has to hold |
|---|---|---|---|---|
| L1 cache `internal/store/localcache.go` | sharded maps key → expiry | Contains, Set, Len, SweepLoop/sweep | clock readings outside the locks; lazy eviction, sweeper and Set race | only expired entries are evicted; expired ones go in the end; the sweeper stops |
| Cached and Redis store `cached_store.go`, `store.go` | L1 cache, Redis keys | IsDuplicate, Ping, Close | several instances; lost answers, resends, late execution; Redis losing data; L1 and Redis expire separately | at most one admission per key and window; a bound on how long a key is blocked |
| MemoryStore `store.go` | map, `Err` | IsDuplicate, Ping | stands in for Redis in the tests; in production only with `Err` set | the same promise as Redis, to the tick of expiry |
| Handler `internal/handler/xaccel.go` | counters | Handle, allow, handleStoreErr | errors at each stage under the fail-open switch | each forwarded request is justified; each request counted and answered once |
| Process `cmd/server/main.go` | store, listener, channels | run, initStore, shutdown | handlers outlive the drain timeout; signals at any time; clients and Redis that stay silent | the store outlives handlers; no request lost in a clean exit; shutdown and requests end |
| Health `internal/handler/health.go` | none | Handle | the store may be the permanent fallback, which its ping then asks instead of Redis | a probe ends; the docs' 200 "when Redis is reachable" does not hold |
| Configuration `internal/config/config.go` | none after Load | Load, validate, IsMethodExcluded | timeouts that validate does not look at reach the server and the client | the limits that are checked are positive; what needs the others says so |
| Middleware `internal/middleware/middleware.go` | request metrics | chain around each handler | panics skip what follows `c.Next`; status set but not sent | headers, statuses, counters and log lines agree with what is sent |
| Fingerprint `internal/fingerprint/fingerprint.go` | pool of hashers | StreamingRedisKey, RedisKey | a failed stream returns a half-filled hasher | the key depends on the request alone |
| Metrics `internal/metrics/metrics.go` | counters | | | |

The hazards behind the middle columns are listed with their source lines in
`PROJECT.json`.

## 2. Modules

A module uses the one it points to through `EXTENDS`; the actions of the lower
one are steps of the upper one.

    XAccelDedup ─┐                  handler, exclusion, fail-open switch, counters
    Fleet ───────┴─> CachedStore    IsDuplicate over L1 cache, client and Redis
                     └─> LocalCache     shards, lazy eviction, sweeper
    CacheLen ────────────┘          what is in the map while Len runs

    Server ─> Config     life of the process and of its requests; configuration
    MemoryStore          the in-memory store
    Middleware           the chain around the handlers
    Fingerprint          the hasher pool

    DedupGate            what the Store interface promises; implemented by
                         CachedStore, in Fleet and under XAccelDedup, and by
                         MemoryStore (INSTANCE ... WITH)

Each has an `MC` module for TLC, except CachedStore (checked as part of Fleet and
XAccelDedup), Config (part of Server), CacheLen (part of LocalCache's) and DedupGate. `...Proofs` modules hold the
theorems.

**LocalCache.** `data[c][k]` is the expiry of key `k` in the cache of instance
`c`. A goroutine's `pc` says which critical section comes next. Every section
under a shard lock is one step. Every clock reading outside a lock is part of
the step before it, so that a goroutine may stall with a stale reading in `at`.
`ContainsEvict` reads the clock again inside the lock, as the code does. The
FNV-1a shard function is a parameter: any map of keys to shards.

**CacheLen.** LocalCache and, for every Len call under way, the keys that were in
the map at some point of it (`during`) and at every point of it (`always`). The two
history variables follow the steps of LocalCache and hinder none.

**CachedStore.** A call passes L1 (`ContainsCall` ... `hit` or `miss`), is sent to
Redis (`RedisSend`), executed there (`RedisExec`), answered (`RedisReply`),
written to L1 (`SetWrite`) and returned. With the L1 cache disabled the first
and the last part are skipped. Redis, the network and go-redis are external:
an answer may be lost, the client resends (`RedisRetry`; `NewRedis` leaves the
number at the library's default) and gives up (`RedisGiveUp`), a command it gave
up on may execute later (`RedisExecLate`), and Redis may lose its data
(`RedisLose`). go-redis sends whole milliseconds, which `RedisTTL` models. A
Redis key is still there at the tick of its expiry and an L1 entry is not,
as in the two implementations. History variables record when Redis created a
key (`born`, `lastBorn`), between which losses of data (`epoch`), and which
creations were reported as new (`grants`).

**Fleet.** CachedStore with instances that die at any point and start again. A
restart loses the L1 cache, the sweeper and the calls under way; their commands
may still be executed; Redis keeps its keys, and `initStore` may or may not reach
it.

**DedupGate.** The abstract store: a free key is taken for `TTL` by one caller
(`Claim`), the others are refused while it is held (`Refuse`). `Recall` is the one
licence an implementation has: to answer "duplicate" from memory to a caller that
came less than `Slack` after the hold could have ended. Under the refinement
mapping of CachedStore the gate's holds are the keys in Redis, a call's state follows
from `pc` and `reply`, and `Slack` is `ReplyLag + Window` with the L1 cache and 0
without. A resend is `Mislay`, a late execution `Orphan`, a restart `Crash`. The one
mapping serves the store alone, Fleet and XAccelDedup: a request whose body is still
being read has asked the gate nothing (`Asked`).

**MemoryStore.** `Err` is looked at before the mutex (`CheckErr`); clock, lookup,
eviction and insertion are one critical section (`CheckAndSet`). The holds of the
gate are the map itself. `Slack` is 0. Nothing protects `Err`, so that a test may
change it only between calls (`SetErr`).

**XAccelDedup.** `HandleExcluded`, or `HandleChecked`, `BodyRead` or
`BodyFails`, then the store call and one of `Allow`, `Reject`, `StoreErr`.
`checks` is `dedup_checks_total`. `Normalised` and `IsMethodExcluded` are what
`Load`, `BuildExcludeSet` and `IsMethodExcluded` make of the configured methods.
The L1 hit and miss counters, the latency histogram and the log are left out:
nothing reads them.

**Config.** A configuration file is the set of keys it holds, over `Defaults`.
`Loads` says whether `Load` returns a configuration: the file can be read, each
duration parses and `Validate` accepts. `ServerReadTimeout`, `CanDial` and
`ClientReads` are what `main.go`, `NewRedis` and go-redis derive from timeouts
that `validate` does not look at.

**Server.** `phase` is where `run()` is: `init`, `select`, `drain`, `return` (the
deferred `closeStore` is still to run), and `down` for no process. `stage` is what
each request waits for: its body, the store, or the ping of `/healthz`. Such a
wait is ended by the client, by Redis or by a timeout that is configured.
Handlers go on running through all phases.

**Middleware.** `at` is where in the chain a request is; a panic goes to `panic`,
which only Recovery handles. `resp` is gin's response writer: a status that is set
may change until the first write, and headers count until then. An unmatched
route, which is what the dedup handler serves, starts out as a 404. The handlers
are reduced to what they may do to the response (`Handled`). `sent` records the
responses of the chain, Recovery's included, and `recovered` those of panicked requests.

**Fingerprint.** `written[h]` is what hasher `h` has been fed since its last
reset; the digest stands for that sequence, which takes SHA-256 to be injective. The
handler uses the streaming path only; the buffered one (`FromHTTPFails`, `HashInto`)
is what tests and benchmarks call.

Definitions called *fault variant* in a comment are what a plausible mistake in
the code would look like. They are no part of any specification; each shows
that the property it is paired with in `PROJECT.json` can fail.

## 3. Runs

`tlc -config <cfg> <module>`; deadlock is checked in all of them. The
approximate number of distinct states is in brackets.

| Run | Shows |
|---|---|
| `LocalCache` [314k] | `NoLiveEviction`: neither the lazy eviction nor the sweeper with its old clock reading removes a live entry. `LenSound`: Len lies between what was there all the time and what was there at some time. `ExpiredEventuallyGone`, `CloseStopsSweep`. |
| `StoreCached` [527k] | `NoDoubleAdmit`, `BlockBound` and `ImplementsGate` for two goroutines of one instance with L1 cache, sweeper, Close, a late execution and a crash. |
| `StoreRedis` [606k] | `NoDoubleAdmit` and `ImplementsGate` (slack 0) for two instances with a resend, a late execution, a loss of data and a crash. |
| `Handler` [242k] | `OutcomesAccounted`, `ForwardedAreBacked`, `ImplementsGate` and `EveryRequestAnswered`, fail-open or not, with a start without Redis, a resend and a late execution, whether Redis answers or not. |
| `Server` [70k] | `StoreOutlivesHandlers`, `CleanExitLosesNothing` over two lives, each with one of 24 configuration files, of which Load refuses 18 for a reason each; `ShutdownCompletes`, with handlers that may hang for ever; `RequestsEnd`, for a positive Redis read timeout. |
| `Middleware` [618k] | `HeadersOnEveryResponse`, `PanicsAnswered`, `RedirectsAreOK`, `ProblemsSurface` for two goroutines and three requests, with panics before and after the first write. `CountersAgree`: the request counter is never ahead of the responses, and behind them by no more than the requests that panicked. |
| `MemoryStore` [95k] | `MemoryImplementsGate` for three callers on two keys. |
| `FingerprintPool` [163k] | `KeyOfRequestOnly`: a key depends on the request alone, after failed streams too, and the streamed key is the buffered one. |

Four runs are expected to find a violation. Each states what the repository
says of itself and TLC shows an execution of the code that contradicts it.

| Run | Statement | What happens |
|---|---|---|
| `L1OutlivesRedis` | `cached_store.go:19` "False positives: impossible" | a duplicate seen late in the window starts a full window in L1, which outlives the Redis key |
| `RetryIsDuplicate` | `store.go:27`, a key that does not exist yields "not a duplicate" | the answer to the first `SET NX` is lost, the client resends it and finds the key it made itself. This rests on the resends of go-redis, which is external: a `MaxRetries` that is unset or 0 means 3 there, and only -1 means none (in the models the constant is the number of resends itself) |
| `HealthAfterFallback` | `health.go:5`, `main.go:5` and `README.md:273`, `/healthz` returns 200 when Redis is reachable | an instance that started without Redis pings its fallback store, and answers 503 until it is restarted, with Redis reachable again |
| `FingerprintPrefix` | `README.md:41` and `config.go:45`, the first `MaxBodyBytes` are hashed | the whole body is hashed, streamed or, as in the trace, buffered; `MaxBodyBytes` is validated and logged and limits nothing; `fingerprint_test.go` expects just that |

**Bounds.** Two goroutines are enough for each race here: every hazard is one
actor between two of its steps and another one moving. One key suffices for the
store since keys do not interact in IsDuplicate; the cache run uses two keys in
two shards, for Len and the sweeper. The window is one tick (two in `MemoryStore`)
and the clock runs far enough for a key to be created, to expire and to be created
again. `MaxRetries`, `MaxLate` and `MaxLosses` are 0 or 1 per run: a late
execution is in all runs of the store, a resend in `StoreRedis` and `Handler`, a loss
of data in `StoreRedis`, because all of them together with the L1 cache exceed what
TLC finishes in a few minutes. The proofs have no such split. One restart per run: what a
restart forgets, it forgets entirely. In `Server` and `Middleware` three requests let a
goroutine be used again while the other one is under way. `Server` has two lives,
so that something left over from the first would show in the second. Symmetry is
used in runs without liveness properties only: goroutines are interchangeable,
and in `StoreRedis` the two instances together with their goroutines.

**Fairness.** `CacheFairness`: the ticker fires for ever and a goroutine that can
run does (weak); Go's select chooses at random among ready cases, so a cancelled
context is picked in the end (strong, for `SweepStop`). Handler: a goroutine in
`Handle` goes on (weak), because the server's read timeout ends the wait for a
body and the client's I/O timeouts end the wait for Redis; nothing is assumed of
Redis, and the clock need not move. That those timeouts exist is what Server does
not take for granted: there a wait ends by itself only if the configuration gives
it a timeout (`BodyTimesOut`, `StoreFails`, `PingFails`), which `validate` does not
ask for, and `RequestsEnd` says when it does. Server: main goes on, the shutdown
timeout and the configured timeouts fire (weak); clients and Redis get no
fairness.

## 4. Proofs

`tlapm <module>` for each of the eight `...Proofs` modules. The theorems hold for
any goroutines, instances, keys, shards, window, lag, requests, configuration
files and bounds, under the named assumptions of the modules (a shard for each
key, a finite non-empty set of keys, positive window and millisecond; finitely
many goroutines where something is counted).

- `CacheTypeCorrect`, `StoreTypeCorrect`, `FleetTypeCorrect`: the type invariants. They
  are inductive as they stand; finite keys make the count of a shard a number.
- `EvictionSafe`: `NoLiveEviction`. It needs that the clock reading of a running
  sweep is not ahead of the clock (`SweepNowPastInvariant`).
- `LenIsSound`: `LenSound`, of `CacheLenSpec`. `LenInv` says it of a call that is half
  way: its count so far lies between what `always` and what `during` have in the
  shards behind it. No induction over the shards is needed, because one more shard
  adds exactly what a set has in it (`BeforeNext`) and the call itself goes from
  shard to shard; a writer behind or ahead of it only shrinks `always` and grows
  `during` (`BeforeMonotone`).
- `AtMostOneAdmission`: `NoDoubleAdmit`. The property speaks of a return, but what
  decides happened in Redis earlier. `Remembered` says of a
  creation in the present epoch that Redis holds the key with an expiry no
  earlier than the creation's TTL demands; `RepliesPlaced` says where in a call an
  answer can be held. `AdmitInv` asks for `Remembered` of every grant and of every
  "OK" still under way, and that these are more than a TTL apart.
- `BlockBounded`: `BlockBound`. `BlockInv` adds that a key in Redis expires at most a
  TTL after its last creation, that an attempt that was executed was sent no
  later than that, and that an expiry about to be written is below the bound.
  An L1 hit returns without a Set, so an entry never prolongs itself.
- `StoreImplementsGate`: every step of the store is a step of the gate or changes
  nothing in it. The one hard case is an L1 hit (`LookupIsRecall`): that the entry
  was trusted within the slack is `BlockInv`. `LookupOnlyWithL1` is there because the
  slack is 0 without the cache. Together with the type invariant these make up
  `StoreInv`, which Fleet and XAccelDedup keep as well.
- `FleetAdmitsOnce`, `FleetBlockBounded`, `FleetImplementsGate`: the same for instances
  that die and restart. A restart only forgets calls and L1 entries, which
  `StoreInv` allows, and is a `Crash` of the gate.
- `MemoryRefinesGate`: the critical section is `Claim` or `Refuse` (`SectionDecides`).
- `HandlerAdmitsOnce`, `HandlerBlockBounded`, `HandlerImplementsGate`: the store's promises
  when it is the handler that calls it. The handler's own steps keep `StoreInv`
  (`CallerStep`) and are hidden from the gate but for the end of the body, which is
  where it asks (`CallerStepIsGateStep`).
- `HandlerAccounts`, `HandlerForwardsBacked`: `HandlerInv` adds to `StoreInv` that allowed
  requests are as many as grants (`Books`). That a grant is a new one, and not
  the same creation reported twice, is where `AdmitInv` is needed (`GrantIsNew`): this
  is the store's guarantee carried through to what reaches the upstream.
- `ServerStoreOutlives`, `ServerCleanExit`: `ServerInv` counts what was accepted as answered or running (`Ledger`) and says in which phase handlers
  may run, the store is open and which exit is decided (`Places`).
- `FingerprintOfRequest`: `KeyInv` says that a hasher in use is in nobody else's hands
  nor in the pool (`Exclusive`), and that it holds the method, the URI and the part of
  the body copied so far (`Copied`).
- `MiddlewareHeaders`, `MiddlewarePanics`, `MiddlewareRedirects`, `MiddlewareCounts`,
  `MiddlewareSurfaces`: `ChainInv` says for each place in the chain which headers are
  set and which statuses are possible (`HeadersAt`, `VerdictAt`). `CountersAgree` is
  two inequalities and not inductive; `Tally` is the equation behind them, with the
  requests that are counted and not sent yet and those that panicked. Its step needs
  that the set counted under a status changes by one element.

`NoDoubleAdmit` does not depend on `ReplyLag`. `BlockBound` does: a goroutine
that stalls between sending a command and `cache.Set` extends the block by its
stall, and `ReplyLag` names the longest such stall.

Only model-checked: the liveness properties (`ExpiredEventuallyGone`, `CloseStopsSweep`,
`EveryRequestAnswered`, `ShutdownCompletes`, `RequestsEnd`), which rest on fairness and
are out of the prover's reach. Every safety property of a passing run is a theorem.

## 5. Not modelled

- `shardIndex`: a parameter, any map of keys to shards. Which shard a key is in
  matters to no property but the spread of the load. Its 64-bit products are beyond
  TLC's integers.
- Hex encoding, TLS setup, log rotation, pprof, GC tuning: they carry no state that a
  property here tells apart. `NotFound` is registered nowhere.
- The metric labels method and path, the histograms, and the L1 hit and miss
  counters. An unmatched path becomes a label of its own, so the number of series is
  not bounded; there is no promise to check.
- A wall clock that is set back. The L1 cache compares `UnixNano` values and
  would keep entries longer; the clock of the models only moves forward. All
  instances and Redis share one clock, which only the L1 expiry relies on.
- A panic inside Logging or Recovery. `MetricsPanics` is the one panic of the
  middleware that the code can meet.
- The client going away, which cancels the request's context: for the store call it
  is one more reason to give up (`RedisGiveUp`).
- Nginx, Docker and monitoring configuration.

Divergences met while modelling that have no run of their own:

- `metrics.go:14` says that `RequestsTotal` "counts all incoming HTTP requests". A
  request that panics is not counted, nor one that the router answers itself.
  `CountersAgree` is what holds: it allows for the panicked ones to be missing.
- A body that cannot be read is answered through `handleStoreErr`, with the text
  "deduplication store is unreachable" (`health.go:22`), although the store was not
  asked.
- `middleware.go:65` says that RequestID "ensures every request has a unique
  X-Request-ID header". gin's redirects for a trailing slash run no middleware.
- A panic in Metrics after `allow` turns the response into a 500 that still carries
  `X-Accel-Redirect`; `RedirectsAreOK` therefore leaves panicked requests out.
- The repository's README gives `redis.dial_timeout` a default of 500ms; the code's
  is 2s.
