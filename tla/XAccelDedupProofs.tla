------------------------- MODULE XAccelDedupProofs --------------------------
(***************************************************************************)
(* What the handler promises, for any number of goroutines, instances and  *)
(* requests: the counters account for every request, every request that is *)
(* forwarded is backed, and the store keeps its promises under it.         *)
(***************************************************************************)
EXTENDS XAccelDedup, CachedStoreProofs, FiniteSetTheorems

\* What the verdicts add up to.  "allowed" is counted apart from the creations
\* granted, so that each is seen to grow with the other.
Books ==
    /\ IsFiniteSet(grants)
    /\ checks["allowed"] = Cardinality(grants)
    /\ responses["redirect"] = checks["excluded"] + checks["allowed"]
                               + (IF failOpen THEN checks["error"] ELSE 0)

HandlerInv == TypeOK /\ StoreInv /\ OutcomesAccounted /\ Books

\* Steps of the store under a request that is in flight before and after.
StoreInside(g) == StoreStep(g) \/ RedisExec(g)

-----------------------------------------------------------------------------
(* Requests in flight *)

LEMMA InFlightFinite == IsFiniteSet(InFlight) /\ Cardinality(InFlight) \in Nat
  BY HandlerAssumptions, FS_Subset, FS_CardinalityType DEF InFlight

LEMMA InFlightGrows ==
  ASSUME NEW g \in Goroutines, pc[g] = "idle", pc'[g] # "idle",
         \A h \in Goroutines : h # g => pc'[h] = pc[h]
  PROVE  Cardinality(InFlight') = Cardinality(InFlight) + 1
<1>1. InFlight' = InFlight \cup {g} /\ g \notin InFlight
  BY DEF InFlight
<1> QED
  BY <1>1, InFlightFinite, FS_AddElement

LEMMA InFlightShrinks ==
  ASSUME NEW g \in Goroutines, pc[g] # "idle", pc'[g] = "idle",
         \A h \in Goroutines : h # g => pc'[h] = pc[h]
  PROVE  Cardinality(InFlight') = Cardinality(InFlight) - 1
<1>1. InFlight' = InFlight \ {g} /\ g \in InFlight
  BY DEF InFlight
<1> QED
  BY <1>1, InFlightFinite, FS_RemoveElement

LEMMA InFlightKept ==
  ASSUME \A h \in Goroutines : (pc'[h] = "idle") <=> (pc[h] = "idle")
  PROVE  InFlight' = InFlight
  BY DEF InFlight

\* What a step of the store does to the requests in flight: nothing.
LEMMA InsideKeeps ==
  ASSUME StoreTypeOK, NEW g \in Goroutines, StoreInside(g)
  PROVE  InFlight' = InFlight /\ grants' = grants
<1>1. pc \in [Goroutines -> StorePCs]
  BY DEF StoreTypeOK
<1>2. /\ pc[g] # "idle" /\ pc'[g] # "idle" /\ grants' = grants
      /\ \A h \in Goroutines : h # g => pc'[h] = pc[h]
  BY <1>1 DEF StoreInside, StoreStep, ContainsLookup, ContainsEvict, SetWrite, RedisSend,
     BackendFails, RedisReply, SetCall, RedisRetry, RedisGiveUp, RedisExec, Goto,
     onlyStoreVars
<1> QED
  BY <1>2, InFlightKept

LEMMA BackgroundKeeps ==
  ASSUME StoreBackground
  PROVE  pc' = pc /\ grants' = grants
  BY DEF StoreBackground, SweepTick, SweepShard, SweepStop, Tick, Close, RedisExecLate,
         RedisLose, cacheVars, onlyStoreVars

\* A verdict ends the request.
LEMMA EndKeeps ==
  ASSUME StoreTypeOK, NEW g \in Goroutines, pc[g] # "idle", EndCall(g)
  PROVE  Cardinality(InFlight') = Cardinality(InFlight) - 1
<1>1. pc \in [Goroutines -> StorePCs]
  BY DEF StoreTypeOK
<1> QED
  BY <1>1, InFlightShrinks DEF EndCall, Goto

-----------------------------------------------------------------------------
(* The store keeps its invariants under the handler *)

\* Steps of the handler that are no steps of the store: they leave the shared
\* state alone and touch no answer.
LEMMA CallerStep ==
  ASSUME StoreInv, NEW g \in Goroutines,
         \/ \E m \in Methods, k \in Keys : HandleChecked(g, m, k)
         \/ BodyRead(g)
         \/ BodyFails(g)
  PROVE  StoreInv'
<1> USE DEF StoreInv
<1>0. /\ pc \in [Goroutines -> StorePCs]
      /\ key \in [Goroutines -> Keys]
      /\ reply \in [Goroutines -> {"none", "OK", "Nil"}]
      /\ pc[g] \in {"idle", "body"}
  BY DEF StoreTypeOK, CacheDataOK, StoreDataOK, HandleChecked, BodyRead, BodyFails
<1>1. reply[g] = "none" /\ sent \in [Goroutines -> Nat] /\ now \in Nat /\ sent[g] <= now
  BY <1>0 DEF AdmitInv, RepliesPlaced, ReplyPCs, BlockInv, StoreTypeOK, StoreDataOK, CacheDataOK
<1>2. CASE \E m \in Methods, k \in Keys : HandleChecked(g, m, k)
  <2>1. PICK m \in Methods, k \in Keys : HandleChecked(g, m, k)
    BY <1>2
  <2>2. StoreTypeOK'
    BY <1>0, <2>1, KeyChangeTypes
    DEF HandleChecked, Goto, StoreTypeOK, StoreDataOK, StorePCs, onlyStoreVars, callVars,
        redisVars
  <2>3. RepliesPlaced'
    BY <1>0, <1>1, <2>1
    DEF HandleChecked, Goto, AdmitInv, RepliesPlaced, ReplyPCs, onlyStoreVars, callVars
  <2>4. AdmitInv'
    BY <1>0, <1>1, <2>1, <2>3, AdmitFrame
    DEF HandleChecked, TokenOf, onlyStoreVars, callVars, redisVars
  <2>5. BlockInv'
    BY <1>0, <1>1, <2>1, BlockFrame
    DEF HandleChecked, Goto, onlyStoreVars, callVars, redisVars
  <2>6. LookupOnlyWithL1'
    BY <1>0, <2>1 DEF HandleChecked, Goto, LookupOnlyWithL1
  <2> QED
    BY <2>2, <2>4, <2>5, <2>6
<1>3. CASE BodyRead(g)
  <2>0. /\ Goto(g, IF LocalCacheEnabled THEN "lookup" ELSE "miss")
        /\ key' = [key EXCEPT ![g] = key[g]]
        /\ at' = at \/ at' = [at EXCEPT ![g] = now]
        /\ UNCHANGED <<now, data, lenVars, done, sweepVars>>
        /\ UNCHANGED onlyStoreVars
    BY <1>3 DEF BodyRead, IsDuplicateCall, ContainsCall
  <2>1. /\ key' = key
        /\ pc' \in [Goroutines -> StorePCs]
        /\ pc'[g] \in {"lookup", "miss"}
        /\ UNCHANGED onlyStoreVars
    BY <1>0, <2>0 DEF Goto, StorePCs, CachePCs
  <2>2. \A h \in Goroutines : h # g => pc'[h] = pc[h]
    BY <1>0, <2>0 DEF Goto
  <2>3. StoreTypeOK'
    <3>1. CacheDataOK'
      BY <2>0, <2>1 DEF StoreTypeOK, CacheDataOK, lenVars, sweepVars
    <3>2. StoreDataOK'
      BY <2>1 DEF StoreTypeOK, StoreDataOK, onlyStoreVars, callVars, redisVars
    <3> QED
      BY <2>1, <3>1, <3>2 DEF StoreTypeOK
  <2>4. RepliesPlaced'
    BY <1>0, <1>1, <2>1, <2>2 DEF AdmitInv, RepliesPlaced, ReplyPCs, onlyStoreVars, callVars
  <2>5. AdmitInv'
    BY <2>1, <2>4, AdmitFrame DEF TokenOf, onlyStoreVars, callVars, redisVars
  <2>6. BlockInv'
    <3>1. \A h \in Goroutines : h # g => at'[h] = at[h]
      BY <2>0 DEF StoreTypeOK, CacheDataOK
    <3> QED
      BY <1>1, <2>0, <2>1, <2>2, <3>1, BlockFrame DEF onlyStoreVars, callVars, redisVars
  <2>7. LookupOnlyWithL1'
    BY <1>0, <2>0 DEF Goto, LookupOnlyWithL1
  <2> QED
    BY <2>3, <2>5, <2>6, <2>7
<1>4. CASE BodyFails(g)
  <2>1. StoreTypeOK'
    BY <1>0, <1>4, KeyChangeTypes, NoArgType
    DEF BodyFails, EndCall, ForgetCall, Goto, StoreTypeOK, StoreDataOK, StorePCs, CachePCs,
        Expiry, redisVars
  <2>2. RepliesPlaced'
    BY <1>0, <1>4
    DEF BodyFails, EndCall, ForgetCall, Goto, StoreTypeOK, StoreDataOK, AdmitInv,
        RepliesPlaced, ReplyPCs
  <2>3. AdmitInv'
    BY <1>0, <1>4, <2>2, AdmitFrame
    DEF BodyFails, EndCall, ForgetCall, TokenOf, redisVars, StoreTypeOK, StoreDataOK
  <2>4. BlockInv'
    <3>1. /\ now' = now /\ UNCHANGED <<data, redis, lastBorn>> /\ sent'[g] = 0
          /\ pc'[g] = "idle"
          /\ \A h \in Goroutines : h # g =>
                pc'[h] = pc[h] /\ key'[h] = key[h] /\ at'[h] = at[h] /\ sent'[h] = sent[h]
      BY <1>0, <1>1, <1>4
      DEF BodyFails, EndCall, ForgetCall, Goto, redisVars, StoreTypeOK, CacheDataOK
    <3> QED
      BY <1>1, <3>1, BlockFrame
  <2>5. LookupOnlyWithL1'
    BY <1>0, <1>4 DEF BodyFails, EndCall, Goto, LookupOnlyWithL1
  <2> QED
    BY <2>1, <2>3, <2>4, <2>5
<1> QED
  BY <1>2, <1>3, <1>4

\* What a step of the server is to the store: one of the store's own, one of its
\* caller, or none.
LEMMA ServerStep ==
  ASSUME [Next]_vars
  PROVE  \/ StoreNext
         \/ \E g \in Goroutines :
               \/ \E m \in Methods, k \in Keys : HandleChecked(g, m, k)
               \/ BodyRead(g)
               \/ BodyFails(g)
         \/ UNCHANGED storeVars
  BY DEF Next, HandlerStep, StoreNext, StoreReturn, Allow, Reject, StoreErr,
         HandleExcluded, Waiting, vars

LEMMA StoreKept ==
  ASSUME StoreInv, [Next]_vars
  PROVE  StoreInv'
  BY ServerStep, CallerStep, StoreInvStep, StoreInvStutter

-----------------------------------------------------------------------------
(* The counters *)

\* The sums, apart from what is counted: a request that arrives or ends.
LEMMA CountedOnce ==
  ASSUME checks \in [Outcomes -> Nat], responses \in [Kinds -> Nat],
         NEW o \in Outcomes, NEW r \in Kinds, Respond(o, r)
  PROVE  /\ checks' \in [Outcomes -> Nat] /\ responses' \in [Kinds -> Nat]
         /\ \A p \in Outcomes : checks'[p] = IF p = o THEN checks[p] + 1 ELSE checks[p]
         /\ \A q \in Kinds :
               responses'[q] = IF q = r THEN responses[q] + 1 ELSE responses[q]
  BY DEF Respond

\* A granted creation is a new one: the invariant keeps it apart from all the
\* others, and no creation is apart from itself.
LEMMA GrantIsNew ==
  ASSUME StoreTypeOK, AdmitInv, NEW g \in Goroutines, ReturnNew(g)
  PROVE  TokenOf(g) \notin grants
<1>1. TokenOf(g).born \in Int
  BY TokenTypes DEF Tokens, Expiry, Absent
<1>2. Conflict(TokenOf(g), TokenOf(g))
  BY <1>1, RedisTTLType DEF Conflict
<1> QED
  BY <1>2 DEF AdmitInv, ReturnNew

LEMMA AllowStep ==
  ASSUME HandlerInv, NEW g \in Goroutines, Allow(g)
  PROVE  OutcomesAccounted' /\ Books'
<1>0. /\ StoreTypeOK /\ AdmitInv /\ failOpen' = failOpen /\ failOpen \in BOOLEAN
      /\ arrived \in Nat /\ arrived' = arrived
      /\ checks \in [Outcomes -> Nat] /\ responses \in [Kinds -> Nat]
      /\ Respond("allowed", "redirect") /\ ReturnNew(g) /\ EndCall(g)
      /\ pc[g] # "idle" /\ grants' = grants \cup {TokenOf(g)}
  BY HandlerAssumptions DEF HandlerInv, StoreInv, TypeOK, Allow, ReturnNew, Answered
<1>1. /\ checks'["allowed"] = checks["allowed"] + 1
      /\ checks'["excluded"] = checks["excluded"]
      /\ checks'["duplicate"] = checks["duplicate"]
      /\ checks'["error"] = checks["error"]
      /\ responses'["redirect"] = responses["redirect"] + 1
      /\ \A o \in Outcomes : checks[o] \in Nat
      /\ responses["redirect"] \in Nat
  BY <1>0, CountedOnce DEF Outcomes, Kinds
<1>2. /\ Cardinality(InFlight) \in Nat
      /\ Cardinality(InFlight') = Cardinality(InFlight) - 1
  BY <1>0, EndKeeps, InFlightFinite
<1>3. IsFiniteSet(grants') /\ Cardinality(grants') = Cardinality(grants) + 1
  BY <1>0, GrantIsNew, FS_AddElement DEF HandlerInv, Books
<1>4. OutcomesAccounted'
  BY <1>0, <1>1, <1>2 DEF HandlerInv, OutcomesAccounted, Outcomes
<1>5. Cardinality(grants) \in Nat
  BY FS_CardinalityType DEF HandlerInv, Books
<1> QED
  BY <1>0, <1>1, <1>3, <1>4, <1>5 DEF HandlerInv, Books, Outcomes

\* The other three verdicts grant nothing.
LEMMA EndStep ==
  ASSUME HandlerInv, NEW g \in Goroutines, Reject(g) \/ StoreErr(g) \/ BodyFails(g)
  PROVE  OutcomesAccounted' /\ Books'
<1>0. /\ StoreTypeOK /\ failOpen' = failOpen /\ failOpen \in BOOLEAN
      /\ arrived \in Nat /\ arrived' = arrived
      /\ checks \in [Outcomes -> Nat] /\ responses \in [Kinds -> Nat]
      /\ pc[g] # "idle" /\ EndCall(g) /\ grants' = grants
  BY HandlerAssumptions
  DEF HandlerInv, TypeOK, Reject, StoreErr, BodyFails, ReturnDuplicate, ReturnError, Answered
<1>1. /\ Cardinality(InFlight) \in Nat
      /\ Cardinality(InFlight') = Cardinality(InFlight) - 1
  BY <1>0, EndKeeps, InFlightFinite
<1>2. CASE Respond("duplicate", "conflict")
  <2>1. /\ checks'["allowed"] = checks["allowed"]
        /\ checks'["excluded"] = checks["excluded"]
        /\ checks'["duplicate"] = checks["duplicate"] + 1
        /\ checks'["error"] = checks["error"]
        /\ responses'["redirect"] = responses["redirect"]
        /\ \A o \in Outcomes : checks[o] \in Nat
    BY <1>0, <1>2, CountedOnce DEF Outcomes, Kinds
  <2>2. OutcomesAccounted'
    BY <1>0, <1>1, <2>1 DEF HandlerInv, OutcomesAccounted, Outcomes
  <2> QED
    BY <1>0, <2>1, <2>2 DEF HandlerInv, Books
<1>3. CASE Respond("error", StoreErrKind)
  <2>1. /\ checks'["allowed"] = checks["allowed"]
        /\ checks'["excluded"] = checks["excluded"]
        /\ checks'["duplicate"] = checks["duplicate"]
        /\ checks'["error"] = checks["error"] + 1
        /\ responses'["redirect"] = IF failOpen THEN responses["redirect"] + 1
                                               ELSE responses["redirect"]
        /\ \A o \in Outcomes : checks[o] \in Nat
        /\ responses["redirect"] \in Nat
    BY <1>0, <1>3, CountedOnce DEF Outcomes, Kinds, StoreErrKind
  <2>2. OutcomesAccounted'
    BY <1>0, <1>1, <2>1 DEF HandlerInv, OutcomesAccounted, Outcomes
  <2> QED
    BY <1>0, <2>1, <2>2 DEF HandlerInv, Books, Outcomes
<1> QED
  BY <1>2, <1>3 DEF Reject, StoreErr, BodyFails

\* Requests that enter Handle.
LEMMA ArriveStep ==
  ASSUME HandlerInv, NEW g \in Goroutines,
         \/ \E m \in Methods : HandleExcluded(g, m)
         \/ \E m \in Methods, k \in Keys : HandleChecked(g, m, k)
  PROVE  OutcomesAccounted' /\ Books'
<1>0. /\ pc \in [Goroutines -> StorePCs] /\ failOpen' = failOpen
      /\ failOpen \in BOOLEAN
      /\ arrived \in Nat /\ arrived' = arrived + 1 /\ grants' = grants /\ pc[g] = "idle"
      /\ checks \in [Outcomes -> Nat] /\ responses \in [Kinds -> Nat]
      /\ Cardinality(InFlight) \in Nat
  BY HandlerAssumptions, InFlightFinite
  DEF HandlerInv, TypeOK, StoreTypeOK, HandleExcluded, HandleChecked, storeVars, onlyStoreVars
<1>1. CASE \E m \in Methods : HandleExcluded(g, m)
  <2>1. InFlight' = InFlight
    BY <1>1, InFlightKept DEF HandleExcluded, storeVars, cacheVars
  <2>2. /\ checks'["allowed"] = checks["allowed"]
        /\ checks'["excluded"] = checks["excluded"] + 1
        /\ checks'["duplicate"] = checks["duplicate"]
        /\ checks'["error"] = checks["error"]
        /\ responses'["redirect"] = responses["redirect"] + 1
        /\ \A o \in Outcomes : checks[o] \in Nat
        /\ responses["redirect"] \in Nat
    BY <1>0, <1>1, CountedOnce DEF Outcomes, Kinds, HandleExcluded
  <2>3. OutcomesAccounted'
    BY <1>0, <2>1, <2>2 DEF HandlerInv, OutcomesAccounted, Outcomes
  <2> QED
    BY <1>0, <2>2, <2>3 DEF HandlerInv, Books, Outcomes
<1>2. CASE \E m \in Methods, k \in Keys : HandleChecked(g, m, k)
  <2>1. UNCHANGED <<checks, responses>>
    BY <1>2 DEF HandleChecked
  <2>2. Cardinality(InFlight') = Cardinality(InFlight) + 1
    BY <1>0, <1>2, InFlightGrows DEF HandleChecked, Goto
  <2>3. OutcomesAccounted'
    BY <1>0, <2>1, <2>2 DEF HandlerInv, OutcomesAccounted, Outcomes
  <2> QED
    BY <1>0, <2>1, <2>3 DEF HandlerInv, Books
<1> QED
  BY <1>1, <1>2

\* Steps that leave the counters and the number of requests in flight alone.
LEMMA QuietStep ==
  ASSUME HandlerInv, InFlight' = InFlight, UNCHANGED <<grants, handlerVars>>
  PROVE  OutcomesAccounted' /\ Books'
  BY DEF HandlerInv, OutcomesAccounted, Books, handlerVars

-----------------------------------------------------------------------------
(* The theorems *)

LEMMA HandlerInvInit == Init => HandlerInv
<1> SUFFICES ASSUME Init PROVE HandlerInv
  OBVIOUS
<1>1. StoreInv
  BY StoreInvInit DEF Init
<1>2. TypeOK
  BY <1>1, HandlerAssumptions DEF Init, TypeOK, StoreInv
<1>3. InFlight = {} /\ grants = {}
  BY DEF Init, StoreInit, CacheInit, InFlight
<1>4. Cardinality({}) = 0 /\ IsFiniteSet({})
  BY FS_EmptySet
<1>5. /\ checks["excluded"] = 0 /\ checks["allowed"] = 0 /\ checks["duplicate"] = 0
      /\ checks["error"] = 0 /\ responses["redirect"] = 0 /\ arrived = 0
  BY DEF Init, Outcomes, Kinds
<1> QED
  BY <1>1, <1>2, <1>3, <1>4, <1>5 DEF HandlerInv, OutcomesAccounted, Books

LEMMA HandlerInvStep ==
  ASSUME HandlerInv, [Next]_vars
  PROVE  HandlerInv'
<1>1. StoreInv' /\ StoreTypeOK'
  BY StoreKept DEF HandlerInv, StoreInv
<1>2. TypeOK'
  <2>1. /\ failOpen \in BOOLEAN /\ arrived \in 0..MaxRequests /\ MaxRequests \in Nat
        /\ checks \in [Outcomes -> Nat] /\ responses \in [Kinds -> Nat]
    BY HandlerAssumptions DEF HandlerInv, TypeOK
  <2>2. CASE \E o \in Outcomes, r \in Kinds : Respond(o, r)
    <3>1. checks' \in [Outcomes -> Nat] /\ responses' \in [Kinds -> Nat]
      BY <2>1, <2>2, CountedOnce
    <3>2. failOpen' = failOpen /\ arrived' \in 0..MaxRequests
      BY <2>1 DEF Next, HandlerStep, HandleExcluded, HandleChecked, BodyRead, BodyFails,
                  Allow, Reject, StoreErr, Waiting, handlerVars, vars
    <3> QED
      BY <1>1, <2>1, <3>1, <3>2 DEF TypeOK
  <2>3. CASE UNCHANGED <<checks, responses>>
    <3>1. failOpen' = failOpen /\ arrived' \in 0..MaxRequests
      BY <2>1 DEF Next, HandlerStep, HandleExcluded, HandleChecked, BodyRead, BodyFails,
                  Allow, Reject, StoreErr, Waiting, handlerVars, vars
    <3> QED
      BY <1>1, <2>1, <2>3, <3>1 DEF TypeOK
  <2>4. StoreErrKind \in Kinds
    BY DEF StoreErrKind, Kinds
  <2>5. \/ \E o \in Outcomes, r \in Kinds : Respond(o, r)
        \/ UNCHANGED <<checks, responses>>
    BY <2>4 DEF Next, HandlerStep, HandleExcluded, HandleChecked, BodyRead, BodyFails,
                Allow, Reject, StoreErr, Waiting, handlerVars, vars, Outcomes, Kinds
  <2> QED
    BY <2>2, <2>3, <2>5
<1>3. OutcomesAccounted' /\ Books'
  <2>0. StoreTypeOK /\ pc \in [Goroutines -> StorePCs]
    BY DEF HandlerInv, TypeOK, StoreTypeOK
  <2>1. CASE \E g \in Goroutines :
              \/ \E m \in Methods : HandleExcluded(g, m)
              \/ \E m \in Methods, k \in Keys : HandleChecked(g, m, k)
    BY <2>1, ArriveStep
  <2>2. CASE \E g \in Goroutines : BodyRead(g)
    <3>1. PICK g \in Goroutines : BodyRead(g)
      BY <2>2
    <3>2. \A h \in Goroutines : (pc'[h] = "idle") <=> (pc[h] = "idle")
      BY <2>0, <3>1 DEF BodyRead, IsDuplicateCall, ContainsCall, Goto
    <3> QED
      BY <3>1, <3>2, InFlightKept, QuietStep DEF BodyRead, IsDuplicateCall, onlyStoreVars
  <2>3. CASE \E g \in Goroutines : Reject(g) \/ StoreErr(g) \/ BodyFails(g)
    BY <2>3, EndStep
  <2>4. CASE \E g \in Goroutines : Allow(g)
    BY <2>4, AllowStep
  <2>5. CASE (\E g \in Goroutines : StoreInside(g)) /\ UNCHANGED handlerVars
    BY <2>0, <2>5, InsideKeeps, QuietStep
  <2>6. CASE StoreBackground /\ UNCHANGED handlerVars
    BY <2>6, BackgroundKeeps, InFlightKept, QuietStep
  <2>7. CASE UNCHANGED vars
    BY <2>7, InFlightKept, QuietStep DEF vars, storeVars, cacheVars, onlyStoreVars
  <2> QED
    BY <2>1, <2>2, <2>3, <2>4, <2>5, <2>6, <2>7
    DEF Next, HandlerStep, StoreInside, Waiting
<1> QED
  BY <1>1, <1>2, <1>3 DEF HandlerInv

LEMMA HandlerInvariant == Spec => []HandlerInv
  BY HandlerInvInit, HandlerInvStep, PTL DEF Spec

\* The handler's variables keep their types: TypeOK.
THEOREM HandlerTypeCorrect == Spec => []TypeOK
  BY HandlerInvariant, PTL DEF HandlerInv

\* Every request that entered Handle is in flight or counted under exactly one
\* outcome of dedup_checks_total: OutcomesAccounted.
THEOREM HandlerAccounts == Spec => []OutcomesAccounted
  BY HandlerInvariant, PTL DEF HandlerInv

\* The upstream gets the excluded requests, one request for each creation of a
\* key and, when failing open, those that could not be checked, and no other:
\* ForwardedAreBacked.
THEOREM HandlerForwardsBacked == Spec => []ForwardedAreBacked
<1>1. HandlerInv => ForwardedAreBacked
  BY DEF HandlerInv, Books, ForwardedAreBacked
<1> QED
  BY <1>1, HandlerInvariant, PTL

-----------------------------------------------------------------------------
(* The store's promises, under the handler *)

\* IsDuplicate admits a key at most once per window also when it is the handler
\* that calls it: NoDoubleAdmit.
THEOREM HandlerAdmitsOnce == Spec => NoDoubleAdmit
<1> DEFINE Apart == \A g \in Goroutines :
              ReturnNew(g) => \A s \in grants : ~Conflict(s, TokenOf(g))
<1>1. HandlerInv /\ [Next]_vars => [Apart]_storeVars
  BY DEF HandlerInv, StoreInv, AdmitInv, ReturnNew
<1> QED
  BY <1>1, HandlerInvariant, PTL DEF Spec, NoDoubleAdmit

\* Whatever requests come, no L1 entry outlives the creation of its key by more
\* than the Redis TTL, the reply lag and a window: BlockBound.
THEOREM HandlerBlockBounded == Spec => []BlockBound
<1>1. HandlerInv => BlockBound
  BY DEF HandlerInv, StoreInv, BlockInv
<1> QED
  BY <1>1, HandlerInvariant, PTL

\* What the handler does before and instead of asking is hidden from the gate;
\* the end of the body is the moment it asks.
LEMMA CallerStepIsGateStep ==
  ASSUME StoreInv, NEW g \in Goroutines,
         \/ \E m \in Methods, k \in Keys : HandleChecked(g, m, k)
         \/ BodyRead(g)
         \/ BodyFails(g)
  PROVE  Gate!GateNext \/ UNCHANGED Gate!gateVars
<1>0. /\ pc \in [Goroutines -> StorePCs] /\ at \in [Goroutines -> Nat]
      /\ key \in [Goroutines -> Keys]
      /\ reply \in [Goroutines -> {"none", "OK", "Nil"}]
  BY DEF StoreInv, StoreTypeOK, StoreDataOK, CacheDataOK
<1>1. CASE BodyRead(g)
  BY <1>0, <1>1, CallIsAsk, GateNextIntro DEF BodyRead
<1>2. CASE (\E m \in Methods, k \in Keys : HandleChecked(g, m, k)) \/ BodyFails(g)
  <2>1. /\ pc[g] \in {"idle", "body"} /\ pc'[g] \in {"idle", "body"}
        /\ \A h \in Goroutines : h # g =>
              pc'[h] = pc[h] /\ key'[h] = key[h] /\ at'[h] = at[h] /\ reply'[h] = reply[h]
        /\ UNCHANGED <<now, redis, lastBorn>>
    BY <1>0, <1>2
    DEF HandleChecked, BodyFails, EndCall, ForgetCall, Goto, onlyStoreVars, callVars, redisVars
  <2>2. \A h \in Goroutines : CallState(h)' = CallState(h)
    BY <2>1 DEF CallState
  <2>3. Calls' = Calls /\ Sinces' = Sinces
    BY <2>1, <2>2, CallsKept, SincesKept
  <2>4. CallState(g) = "none"
    BY <2>1 DEF CallState
  <2>5. Asked' = Asked
    BY <2>1, <2>2, <2>4 DEF Asked
  <2> QED
    BY <2>1, <2>3, <2>5 DEF Gate!gateVars
<1> QED
  BY <1>1, <1>2

\* Every request that is checked is checked by the one abstract gate, whatever
\* its body, its method or its instance: ImplementsGate.
THEOREM HandlerImplementsGate == Spec => ImplementsGate
<1>1. Init => Gate!GateInit
  BY GateInitially DEF Init
<1>2. HandlerInv /\ [Next]_vars => [Gate!GateNext]_(Gate!gateVars)
  BY ServerStep, StoreStepIsGateStep, CallerStepIsGateStep, GateStutter DEF HandlerInv
<1> QED
  BY <1>1, <1>2, HandlerInvariant, PTL DEF Spec, ImplementsGate, Gate!GateSpec

=============================================================================
