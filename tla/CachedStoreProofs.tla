-------------------------- MODULE CachedStoreProofs -------------------------
(***************************************************************************)
(* What IsDuplicate promises, for any number of instances, goroutines and  *)
(* keys, any window, reply lag and number of retries: type correctness,    *)
(* NoDoubleAdmit and BlockBound, and that it implements DedupGate.         *)
(***************************************************************************)
EXTENDS CachedStore, LocalCacheProofs

LEMMA RedisTTLType == RedisTTL \in Nat
<1>1. Window \in Nat /\ Ms \in Nat \ {0}
  BY CacheAssumptions, StoreAssumptions
<1>2. Window % Ms \in 0..(Ms - 1)
  BY <1>1
<1> QED
  BY <1>1, <1>2 DEF RedisTTL

\* The steps that touch only the cache's variables.
CacheOnly(g) == ContainsLookup(g) \/ ContainsEvict(g) \/ SetWrite(g)

SweepOnly(c) == SweepTick(c) \/ SweepShard(c) \/ SweepStop(c) \/ Close(c)

\* What a step of the store is, one case per action.
LEMMA StoreCases ==
  ASSUME StoreNext, NEW P,
         \A g \in Goroutines :
            /\ CacheOnly(g) /\ UNCHANGED onlyStoreVars => P
            /\ RedisSend(g) => P
            /\ BackendFails(g) => P
            /\ RedisExec(g) => P
            /\ RedisReply(g) => P
            /\ RedisRetry(g) => P
            /\ RedisGiveUp(g) => P
            /\ ReturnNew(g) => P
            /\ ReturnDuplicate(g) => P
            /\ ReturnError(g) => P,
         \A g \in Goroutines, k \in Keys :
            pc[g] = "idle" /\ IsDuplicateCall(g, k) => P,
         \A c \in Caches : SweepOnly(c) /\ UNCHANGED onlyStoreVars => P,
         Tick /\ UNCHANGED onlyStoreVars => P,
         \A k \in Keys : RedisExecLate(k) => P,
         RedisLose => P
  PROVE  P
  BY DEF StoreNext, StoreCall, StoreStep, StoreReturn, StoreBackground,
         CacheOnly, SweepOnly

-----------------------------------------------------------------------------
(* Types *)

LEMMA CacheOnlyTypes ==
  ASSUME CacheDataOK, NEW g \in Goroutines, CacheOnly(g)
  PROVE  CacheDataOK'
  BY CallerTypes, NoArgType DEF CacheOnly

\* A step that leaves the cache's variables but pc and key alone.
LEMMA KeyChangeTypes ==
  ASSUME CacheDataOK, key' \in [Goroutines -> Keys],
         UNCHANGED <<now, data, at, lenVars, done, sweepVars>>
  PROVE  CacheDataOK'
  BY DEF CacheDataOK, lenVars, sweepVars

LEMMA SetNXTypes ==
  ASSUME CacheDataOK, StoreDataOK, NEW k \in Keys, SetNX(k)
  PROVE  redis' \in [Keys -> Expiry] /\ lastBorn' \in [Keys -> Expiry]
<1>1. now \in Expiry /\ now + RedisTTL \in Expiry
  BY RedisTTLType DEF CacheDataOK, Expiry
<1> QED
  BY <1>1 DEF SetNX, StoreDataOK

LEMMA AbandonTypes ==
  ASSUME CacheDataOK, StoreDataOK, NEW g \in Goroutines, Abandon(g)
  PROVE  late' \in [Keys -> Nat]
<1>1. key[g] \in Keys
  BY DEF CacheDataOK
<1> QED
  BY <1>1 DEF Abandon, StoreDataOK

LEMMA StoreTypeStep ==
  ASSUME StoreTypeOK, StoreNext
  PROVE  StoreTypeOK'
<1> USE StoreAssumptions, RedisTTLType
        DEF StoreTypeOK, onlyStoreVars, callVars, redisVars
<1>1. ASSUME NEW g \in Goroutines, CacheOnly(g), UNCHANGED onlyStoreVars
      PROVE  StoreTypeOK'
  <2>1. CacheDataOK'
    BY <1>1, CacheOnlyTypes
  <2>2. StoreDataOK'
    BY <1>1 DEF StoreDataOK
  <2>3. (pc \in [Goroutines -> StorePCs])'
    BY <1>1 DEF CacheOnly, ContainsLookup, ContainsEvict, SetWrite, Goto,
                StorePCs, CachePCs
  <2> QED
    BY <2>1, <2>2, <2>3
<1>2. ASSUME NEW g \in Goroutines, RedisSend(g)
      PROVE  StoreTypeOK'
  <2>1. CacheDataOK'
    BY <1>2, KeyChangeTypes DEF RedisSend, CacheDataOK
  <2>2. StoreDataOK'
    BY <1>2 DEF RedisSend, StoreDataOK, CacheDataOK
  <2> QED
    BY <1>2, <2>1, <2>2 DEF RedisSend, Goto, StorePCs
<1>3. ASSUME NEW g \in Goroutines, BackendFails(g)
      PROVE  StoreTypeOK'
  <2>1. CacheDataOK'
    BY <1>3, KeyChangeTypes DEF BackendFails, CacheDataOK
  <2>2. StoreDataOK'
    BY <1>3 DEF BackendFails, StoreDataOK
  <2> QED
    BY <1>3, <2>1, <2>2 DEF BackendFails, Goto, StorePCs
<1>4. ASSUME NEW g \in Goroutines, RedisExec(g)
      PROVE  StoreTypeOK'
  <2>1. CacheDataOK'
    BY <1>4, KeyChangeTypes DEF RedisExec, CacheDataOK
  <2>2. StoreDataOK'
    <3>1. redis' \in [Keys -> Expiry] /\ lastBorn' \in [Keys -> Expiry]
      BY <1>4, SetNXTypes DEF RedisExec, CacheDataOK
    <3>2. now \in Nat /\ now \in Expiry /\ epoch \in Nat
      BY DEF CacheDataOK, StoreDataOK, Expiry
    <3>3. /\ reply' \in [Goroutines -> {"none", "OK", "Nil"}]
          /\ born' \in [Goroutines -> Expiry]
          /\ bornEpoch' \in [Goroutines -> Nat]
      BY <1>4, <3>2 DEF RedisExec, StoreDataOK
    <3> QED
      BY <1>4, <3>1, <3>3 DEF RedisExec, StoreDataOK
  <2> QED
    BY <1>4, <2>1, <2>2 DEF RedisExec, Goto, StorePCs
<1>5. ASSUME NEW g \in Goroutines, RedisReply(g)
      PROVE  StoreTypeOK'
  <2>1. CacheDataOK'
    <3>1. key[g] \in Keys /\ Window \in Nat
      BY CacheAssumptions DEF CacheDataOK
    <3>2. CASE SetCall(g, key[g], Window)
      BY <3>1, <3>2, CallerTypes
    <3>3. CASE UNCHANGED <<now, data, key, at, lenVars, done, sweepVars>>
      BY <3>3, KeyChangeTypes DEF CacheDataOK
    <3> QED
      BY <1>5, <3>2, <3>3 DEF RedisReply
  <2>2. StoreDataOK'
    BY <1>5 DEF RedisReply, StoreDataOK
  <2> QED
    BY <1>5, <2>1, <2>2 DEF RedisReply, SetCall, Goto, StorePCs, CachePCs
<1>6. ASSUME NEW g \in Goroutines, RedisRetry(g)
      PROVE  StoreTypeOK'
  <2>1. CacheDataOK'
    BY <1>6, KeyChangeTypes DEF RedisRetry, CacheDataOK
  <2>2. StoreDataOK'
    <3>1. late' \in [Keys -> Nat]
      BY <1>6, AbandonTypes DEF RedisRetry
    <3> QED
      BY <1>6, <3>1 DEF RedisRetry, StoreDataOK, CacheDataOK
  <2> QED
    BY <1>6, <2>1, <2>2 DEF RedisRetry, Goto, StorePCs
<1>7. ASSUME NEW g \in Goroutines, RedisGiveUp(g)
      PROVE  StoreTypeOK'
  <2>1. CacheDataOK'
    BY <1>7, KeyChangeTypes DEF RedisGiveUp, CacheDataOK
  <2>2. StoreDataOK'
    <3>1. late' \in [Keys -> Nat]
      BY <1>7, AbandonTypes DEF RedisGiveUp
    <3> QED
      BY <1>7, <3>1 DEF RedisGiveUp, ForgetCall, StoreDataOK, Expiry
  <2> QED
    BY <1>7, <2>1, <2>2 DEF RedisGiveUp, Goto, StorePCs
<1>8. ASSUME NEW g \in Goroutines, EndCall(g), grants' \subseteq Tokens
      PROVE  StoreTypeOK'
  <2>1. CacheDataOK'
    BY <1>8, KeyChangeTypes, NoArgType DEF EndCall, CacheDataOK
  <2>2. StoreDataOK'
    BY <1>8 DEF EndCall, ForgetCall, StoreDataOK, Expiry
  <2> QED
    BY <1>8, <2>1, <2>2 DEF EndCall, Goto, StorePCs, CachePCs
<1>9. ASSUME NEW g \in Goroutines, NEW k \in Keys, IsDuplicateCall(g, k)
      PROVE  StoreTypeOK'
  <2>1. CacheDataOK'
    <3>1. CASE ContainsCall(g, k)
      BY <3>1, CallerTypes, CacheAssumptions
    <3>2. CASE ~LocalCacheEnabled
      BY <1>9, <3>2, KeyChangeTypes DEF IsDuplicateCall, CacheDataOK
    <3> QED
      BY <1>9, <3>1, <3>2 DEF IsDuplicateCall
  <2>2. StoreDataOK'
    BY <1>9 DEF IsDuplicateCall, StoreDataOK
  <2> QED
    BY <1>9, <2>1, <2>2 DEF IsDuplicateCall, ContainsCall, Goto, StorePCs, CachePCs
<1>10. ASSUME NEW c \in Caches, SweepOnly(c), UNCHANGED onlyStoreVars
       PROVE  StoreTypeOK'
  <2>1. CacheDataOK'
    BY <1>10, BackgroundTypes DEF SweepOnly
  <2>2. StoreDataOK' /\ pc' = pc
    BY <1>10 DEF StoreDataOK, SweepOnly, SweepTick, SweepShard, SweepStop, Close
  <2> QED
    BY <2>1, <2>2
<1>11. CASE Tick /\ UNCHANGED onlyStoreVars
  <2>1. CacheDataOK' /\ pc' = pc
    BY <1>11, CacheAssumptions DEF Tick, CacheDataOK, lenVars, sweepVars
  <2>2. StoreDataOK'
    BY <1>11 DEF StoreDataOK
  <2> QED
    BY <2>1, <2>2
<1>12. ASSUME NEW k \in Keys, RedisExecLate(k)
       PROVE  StoreTypeOK'
  <2>1. CacheDataOK' /\ pc' = pc
    BY <1>12 DEF RedisExecLate, CacheDataOK, cacheVars, lenVars, sweepVars
  <2>2. StoreDataOK'
    <3>1. redis' \in [Keys -> Expiry] /\ lastBorn' \in [Keys -> Expiry]
      BY <1>12, SetNXTypes DEF RedisExecLate
    <3>2. late' \in [Keys -> Nat]
      BY <1>12 DEF RedisExecLate, StoreDataOK
    <3> QED
      BY <1>12, <3>1, <3>2 DEF RedisExecLate, StoreDataOK
  <2> QED
    BY <2>1, <2>2
<1>13. CASE RedisLose
  <2>1. CacheDataOK' /\ pc' = pc
    BY <1>13 DEF RedisLose, CacheDataOK, cacheVars, lenVars, sweepVars
  <2>2. StoreDataOK'
    BY <1>13 DEF RedisLose, StoreDataOK, Expiry
  <2> QED
    BY <2>1, <2>2
<1>14. ASSUME NEW g \in Goroutines, ReturnNew(g) PROVE StoreTypeOK'
  <2>1. TokenOf(g) \in Tokens
    BY <1>14 DEF TokenOf, Tokens, StoreDataOK, CacheDataOK
  <2> QED
    BY <1>8, <1>14, <2>1 DEF ReturnNew, StoreDataOK
<1>15. ASSUME NEW g \in Goroutines, ReturnDuplicate(g) \/ ReturnError(g)
       PROVE  StoreTypeOK'
  BY <1>8, <1>15 DEF ReturnDuplicate, ReturnError, StoreDataOK
<1> QED
  BY ONLY StoreNext, StoreCases, <1>1, <1>2, <1>3, <1>4, <1>5, <1>6, <1>7,
     <1>9, <1>10, <1>11, <1>12, <1>13, <1>14, <1>15


\* The store keeps its types, whatever the constants.
THEOREM StoreTypeCorrect == StoreSpec => []StoreTypeOK
<1>1. StoreInit => StoreTypeOK
  BY CacheAssumptions, NoArgType
  DEF StoreInit, CacheInit, StoreTypeOK, StoreDataOK, CacheDataOK, StorePCs,
      CachePCs, Expiry
<1>2. StoreTypeOK /\ [StoreNext]_storeVars => StoreTypeOK'
  <2>1. ASSUME StoreTypeOK, UNCHANGED storeVars PROVE StoreTypeOK'
    BY <2>1 DEF StoreTypeOK, StoreDataOK, CacheDataOK, storeVars, onlyStoreVars,
                cacheVars, lenVars, sweepVars, callVars, redisVars
  <2> QED
    BY <2>1, StoreTypeStep
<1> QED
  BY <1>1, <1>2, PTL DEF StoreSpec

-----------------------------------------------------------------------------
(* At most one admission per window *)

\* A call holds the answer "OK" only between the execution of its command and
\* its return.
ReplyPCs == {"executed", "write", "stored", "answered"}

RepliesPlaced ==
    \A g \in Goroutines : reply[g] # "none" => pc[g] \in ReplyPCs

\* A token of the present epoch is remembered by Redis for its whole TTL.
Remembered(t) ==
    /\ t.epoch <= epoch
    /\ t.epoch = epoch => redis[t.key] # Absent /\ t.born + RedisTTL <= redis[t.key]

\* Creations already granted and creations whose answer is still under way are
\* remembered, and apart from one another.
AdmitInv ==
    /\ RepliesPlaced
    /\ \A t \in grants : Remembered(t)
    /\ \A g \in Goroutines : reply[g] = "OK" =>
          /\ Remembered(TokenOf(g))
          /\ \A t \in grants : ~Conflict(t, TokenOf(g))
          /\ \A h \in Goroutines :
                h # g /\ reply[h] = "OK" => ~Conflict(TokenOf(h), TokenOf(g))


\* A step that grants nothing, leaves Redis's memory alone and gives nobody a
\* new "OK" keeps the invariant.
LEMMA AdmitFrame ==
  ASSUME AdmitInv, RepliesPlaced', UNCHANGED <<grants, redis, epoch>>,
         \A g \in Goroutines :
            reply'[g] = "OK" => reply[g] = "OK" /\ TokenOf(g)' = TokenOf(g)
  PROVE  AdmitInv'
<1>1. \A t : Remembered(t)' <=> Remembered(t)
  BY DEF Remembered
<1>2. \A s, t : Conflict(s, t)' <=> Conflict(s, t)
  BY DEF Conflict
<1>3. \A t \in grants' : Remembered(t)'
  BY <1>1 DEF AdmitInv
<1>4. ASSUME NEW g \in Goroutines, reply'[g] = "OK"
      PROVE  /\ Remembered(TokenOf(g))'
             /\ \A t \in grants' : ~Conflict(t, TokenOf(g))'
             /\ \A h \in Goroutines : h # g /\ reply'[h] = "OK"
                   => ~Conflict(TokenOf(h), TokenOf(g))'
  BY <1>4 DEF AdmitInv, Remembered, Conflict
<1> QED
  BY <1>3, <1>4 DEF AdmitInv

\* A key that Redis does not hold live is new: a creation now conflicts with
\* no token of the present epoch that Redis would remember.
LEMMA FreshCreation ==
  ASSUME StoreTypeOK, NEW t \in Tokens, Remembered(t), NEW u \in Tokens,
         u.born = now, u.epoch = epoch, ~Live(u.key)
  PROVE  ~Conflict(t, u) /\ ~Conflict(u, t)
  BY RedisTTLType
  DEF StoreTypeOK, StoreDataOK, CacheDataOK, Tokens, Remembered, Live, Conflict,
      Expiry, Absent


\* SET NX never shortens what Redis remembers.
LEMMA SetNXRemembers ==
  ASSUME StoreTypeOK, NEW k \in Keys, SetNX(k), epoch' = epoch,
         NEW t \in Tokens, Remembered(t)
  PROVE  Remembered(t)'
<1>1. CASE Live(k)
  BY <1>1 DEF SetNX, Remembered
<1>2. CASE ~Live(k)
  <2>1. redis' = [redis EXCEPT ![k] = now + RedisTTL]
    BY <1>2 DEF SetNX
  <2> QED
    BY <1>2, <2>1, RedisTTLType
    DEF Live, Remembered, StoreTypeOK, StoreDataOK, CacheDataOK, Tokens, Expiry, Absent
<1> QED
  BY <1>1, <1>2

LEMMA TokenTypes ==
  ASSUME StoreTypeOK, NEW g \in Goroutines
  PROVE  TokenOf(g) \in Tokens
  BY DEF StoreTypeOK, StoreDataOK, CacheDataOK, TokenOf, Tokens

LEMMA AdmitExec ==
  ASSUME StoreTypeOK, AdmitInv, NEW g \in Goroutines, RedisExec(g)
  PROVE  AdmitInv'
<1> USE DEF StoreTypeOK, StoreDataOK
<1>1. RepliesPlaced'
  BY DEF RedisExec, Goto, AdmitInv, RepliesPlaced, ReplyPCs
<1>2. CASE Live(key[g])
  <2>1. UNCHANGED <<grants, redis, epoch, born, bornEpoch, key>>
    BY <1>2 DEF RedisExec, SetNX
  <2>2. \A h \in Goroutines : reply'[h] = "OK" => reply[h] = "OK"
    BY <1>2 DEF RedisExec
  <2> QED
    BY <1>1, <2>1, <2>2, AdmitFrame DEF TokenOf
<1>3. CASE ~Live(key[g])
  <2>0. key[g] \in Keys /\ SetNX(key[g]) /\ epoch' = epoch /\ key' = key /\ grants' = grants
    BY DEF RedisExec, CacheDataOK
  <2>1. \A t \in Tokens : Remembered(t) => Remembered(t)'
    BY <2>0, SetNXRemembers
  <2>2. \A h \in Goroutines : h # g =>
           reply'[h] = reply[h] /\ TokenOf(h)' = TokenOf(h)
    BY <1>3, <2>0 DEF RedisExec, TokenOf
  <2>3. TokenOf(g)' \in Tokens /\ TokenOf(g)' = [key |-> key[g], born |-> now, epoch |-> epoch]
    BY <1>3, <2>0 DEF RedisExec, TokenOf, Tokens, CacheDataOK, Expiry
  <2>4. PICK u \in Tokens : TokenOf(g)' = u /\ u.key = key[g] /\ u.born = now /\ u.epoch = epoch
    BY <2>3
  <2>5. Remembered(u)'
    <3>1. redis' = [redis EXCEPT ![key[g]] = now + RedisTTL]
      BY <1>3, <2>0 DEF SetNX
    <3>2. redis'[key[g]] = now + RedisTTL /\ now + RedisTTL # Absent
      BY <2>0, <3>1, RedisTTLType DEF CacheDataOK, Absent
    <3>3. now + RedisTTL \in Int /\ epoch \in Int
      BY RedisTTLType DEF CacheDataOK
    <3> QED
      BY ONLY <2>0, <2>4, <3>2, <3>3 DEF Remembered
  <2>6. \A t \in Tokens : Remembered(t) => ~Conflict(t, u) /\ ~Conflict(u, t)
    BY <1>3, <2>4, FreshCreation
  <2>7. \A h \in Goroutines : TokenOf(h) \in Tokens
    BY TokenTypes
  <2>8. \A t \in grants' : Remembered(t)'
    BY <2>0, <2>1 DEF AdmitInv
  <2>9. ASSUME NEW x \in Goroutines, reply'[x] = "OK"
        PROVE  /\ Remembered(TokenOf(x))'
               /\ \A t \in grants' : ~Conflict(t, TokenOf(x))'
               /\ \A h \in Goroutines : h # x /\ reply'[h] = "OK"
                     => ~Conflict(TokenOf(h), TokenOf(x))'
    <3>1. CASE x = g
      <4>1. Remembered(TokenOf(x))'
        BY <3>1, <2>4, <2>5 DEF Remembered
      <4>2. \A t \in grants' : ~Conflict(t, TokenOf(x))'
        BY <3>1, <2>0, <2>4, <2>6 DEF Conflict, AdmitInv
      <4>3. \A h \in Goroutines : h # x /\ reply'[h] = "OK"
                     => ~Conflict(TokenOf(h), TokenOf(x))'
        BY <3>1, <2>2, <2>4, <2>6, <2>7 DEF Conflict, AdmitInv
      <4> QED
        BY <4>1, <4>2, <4>3
    <3>2. CASE x # g
      <4>0. reply[x] = "OK" /\ TokenOf(x)' = TokenOf(x)
        BY <3>2, <2>2, <2>9
      <4>1. Remembered(TokenOf(x))'
        BY <4>0, <2>1, <2>7 DEF AdmitInv, Remembered
      <4>2. \A t \in grants' : ~Conflict(t, TokenOf(x))'
        BY <4>0, <2>0 DEF Conflict, AdmitInv
      <4>3. ASSUME NEW h \in Goroutines, h # x, reply'[h] = "OK"
            PROVE  ~Conflict(TokenOf(h), TokenOf(x))'
        <5>1. CASE h = g
          BY <5>1, <4>0, <2>4, <2>6, <2>7 DEF Conflict, AdmitInv
        <5>2. CASE h # g
          BY <5>2, <4>0, <4>3, <2>2 DEF Conflict, AdmitInv
        <5> QED
          BY <5>1, <5>2
      <4> QED
        BY <4>1, <4>2, <4>3
    <3> QED
      BY <3>1, <3>2
  <2> QED
    BY <1>1, <2>8, <2>9 DEF AdmitInv
<1> QED
  BY <1>2, <1>3


LEMMA AdmitStep ==
  ASSUME StoreTypeOK, AdmitInv, StoreNext
  PROVE  AdmitInv'
<1> USE DEF onlyStoreVars, callVars, redisVars
<1>0. /\ reply \in [Goroutines -> {"none", "OK", "Nil"}]
      /\ pc \in [Goroutines -> StorePCs]
      /\ RepliesPlaced
  BY DEF StoreTypeOK, StoreDataOK, AdmitInv
<1>1. ASSUME NEW g \in Goroutines, CacheOnly(g), UNCHANGED onlyStoreVars
      PROVE  AdmitInv'
  <2>1. RepliesPlaced' /\ key' = key
    BY <1>0, <1>1 DEF RepliesPlaced, ReplyPCs, CacheOnly, ContainsLookup,
                      ContainsEvict, SetWrite, Goto
  <2> QED
    BY <1>1, <2>1, AdmitFrame DEF TokenOf
<1>2. ASSUME NEW g \in Goroutines, RedisSend(g)
      PROVE  AdmitInv'
  <2>1. RepliesPlaced'
    BY <1>0, <1>2 DEF RepliesPlaced, ReplyPCs, RedisSend, Goto
  <2> QED
    BY <1>2, <2>1, AdmitFrame DEF RedisSend, TokenOf
<1>3. ASSUME NEW g \in Goroutines, BackendFails(g)
      PROVE  AdmitInv'
  <2>1. RepliesPlaced'
    BY <1>0, <1>3 DEF RepliesPlaced, ReplyPCs, BackendFails, Goto
  <2> QED
    BY <1>3, <2>1, AdmitFrame DEF BackendFails, TokenOf
<1>4. ASSUME NEW g \in Goroutines, RedisReply(g)
      PROVE  AdmitInv'
  <2>1. RepliesPlaced'
    BY <1>0, <1>4 DEF RepliesPlaced, ReplyPCs, RedisReply, SetCall, Goto
  <2>2. key' = key
    BY <1>4 DEF RedisReply, SetCall, StoreTypeOK, CacheDataOK
  <2> QED
    BY <1>4, <2>1, <2>2, AdmitFrame DEF RedisReply, TokenOf
<1>5. ASSUME NEW g \in Goroutines, RedisRetry(g)
      PROVE  AdmitInv'
  <2>1. RepliesPlaced'
    BY <1>0, <1>5 DEF RepliesPlaced, ReplyPCs, RedisRetry, Goto
  <2> QED
    BY <1>0, <1>5, <2>1, AdmitFrame DEF RedisRetry, TokenOf
<1>6. ASSUME NEW g \in Goroutines, pc' = [pc EXCEPT ![g] = "failed"] \/ Goto(g, "idle"),
             ForgetCall(g), UNCHANGED <<grants, redis, epoch>>,
             \A h \in Goroutines : h # g => key'[h] = key[h]
      PROVE  AdmitInv'
  <2>1. RepliesPlaced'
    BY <1>0, <1>6 DEF RepliesPlaced, ReplyPCs, ForgetCall, Goto
  <2>2. \A h \in Goroutines : reply'[h] = "OK" =>
           h # g /\ reply[h] = "OK" /\ born'[h] = born[h] /\ bornEpoch'[h] = bornEpoch[h]
    BY <1>0, <1>6 DEF ForgetCall, StoreTypeOK, StoreDataOK
  <2> QED
    BY <1>6, <2>1, <2>2, AdmitFrame DEF TokenOf
<1>7. ASSUME NEW g \in Goroutines, RedisGiveUp(g)
      PROVE  AdmitInv'
  BY <1>6, <1>7 DEF RedisGiveUp, Goto
<1>8. ASSUME NEW g \in Goroutines, EndCall(g), grants' = grants
      PROVE  AdmitInv'
  BY <1>6, <1>8 DEF EndCall, StoreTypeOK, CacheDataOK
<1>9. ASSUME NEW g \in Goroutines, ReturnNew(g)
      PROVE  AdmitInv'
  <2> DEFINE u == TokenOf(g)
  <2>1. RepliesPlaced'
    BY <1>0, <1>9 DEF RepliesPlaced, ReplyPCs, ReturnNew, EndCall, ForgetCall, Goto
  <2>2. \A h \in Goroutines : reply'[h] = "OK" =>
           h # g /\ reply[h] = "OK" /\ TokenOf(h)' = TokenOf(h)
    BY <1>0, <1>9 DEF ReturnNew, EndCall, ForgetCall, TokenOf, StoreTypeOK,
                      StoreDataOK, CacheDataOK
  <2>3. reply[g] = "OK" /\ grants' = grants \cup {u} /\ UNCHANGED <<redis, epoch>>
    BY <1>9 DEF ReturnNew, EndCall
  <2>4. \A t : Remembered(t) => Remembered(t)'
    BY <2>3 DEF Remembered
  <2>5. \A t \in grants' : Remembered(t)'
    BY <1>0, <2>3, <2>4 DEF AdmitInv
  <2>6. ASSUME NEW x \in Goroutines, reply'[x] = "OK"
        PROVE  /\ Remembered(TokenOf(x))'
               /\ \A t \in grants' : ~Conflict(t, TokenOf(x))'
               /\ \A h \in Goroutines : h # x /\ reply'[h] = "OK"
                     => ~Conflict(TokenOf(h), TokenOf(x))'
    <3>0. x # g /\ reply[x] = "OK" /\ TokenOf(x)' = TokenOf(x)
      BY <2>2, <2>6
    <3>1. Remembered(TokenOf(x))'
      BY <3>0, <2>3 DEF AdmitInv, Remembered
    <3>2. \A t \in grants' : ~Conflict(t, TokenOf(x))'
      BY <3>0, <2>3 DEF AdmitInv, Conflict
    <3>3. \A h \in Goroutines : h # x /\ reply'[h] = "OK"
                     => ~Conflict(TokenOf(h), TokenOf(x))'
      BY <3>0, <2>2 DEF AdmitInv, Conflict
    <3> QED
      BY <3>1, <3>2, <3>3
  <2> QED
    BY <2>1, <2>5, <2>6 DEF AdmitInv
<1>10. ASSUME NEW g \in Goroutines, NEW k \in Keys, pc[g] = "idle", IsDuplicateCall(g, k)
       PROVE  AdmitInv'
  <2>1. reply[g] = "none"
    BY <1>0, <1>10 DEF RepliesPlaced, ReplyPCs
  <2>2. \A h \in Goroutines : h # g => key'[h] = key[h] /\ pc'[h] = pc[h]
    BY <1>0, <1>10 DEF IsDuplicateCall, ContainsCall, Goto, StoreTypeOK, CacheDataOK
  <2>3. UNCHANGED onlyStoreVars
    BY <1>10 DEF IsDuplicateCall
  <2>4. RepliesPlaced'
    BY <1>0, <2>1, <2>2, <2>3 DEF RepliesPlaced
  <2> QED
    BY <2>1, <2>2, <2>3, <2>4, AdmitFrame DEF TokenOf
<1>11. ASSUME pc' = pc, key' = key, UNCHANGED <<callVars, grants, redis, epoch>>
       PROVE  AdmitInv'
  <2>1. RepliesPlaced'
    BY <1>0, <1>11 DEF RepliesPlaced
  <2> QED
    BY <1>11, <2>1, AdmitFrame DEF TokenOf
<1>12. ASSUME NEW c \in Caches, SweepOnly(c), UNCHANGED onlyStoreVars
       PROVE  AdmitInv'
  BY <1>11, <1>12 DEF SweepOnly, SweepTick, SweepShard, SweepStop, Close
<1>13. CASE Tick /\ UNCHANGED onlyStoreVars
  BY <1>11, <1>13 DEF Tick
<1>14. ASSUME pc' = pc, key' = key, UNCHANGED <<callVars, grants>>,
              \A t \in Tokens : Remembered(t) => Remembered(t)'
       PROVE  AdmitInv'
  <2>1. RepliesPlaced' /\ \A g \in Goroutines : TokenOf(g)' = TokenOf(g)
    BY <1>0, <1>14 DEF RepliesPlaced, TokenOf
  <2>2. \A g \in Goroutines : TokenOf(g) \in Tokens
    BY TokenTypes
  <2>3. \A t \in grants' : Remembered(t)'
    BY <1>14 DEF AdmitInv, StoreTypeOK, StoreDataOK
  <2>4. \A g \in Goroutines : reply'[g] = "OK" => Remembered(TokenOf(g))'
    BY <1>14, <2>1, <2>2 DEF AdmitInv, Remembered
  <2> QED
    BY <1>14, <2>1, <2>3, <2>4 DEF AdmitInv, Conflict
<1>15. ASSUME NEW k \in Keys, RedisExecLate(k)
       PROVE  AdmitInv'
  BY <1>14, <1>15, SetNXRemembers DEF RedisExecLate, cacheVars
<1>16. CASE RedisLose
  <2>1. \A t \in Tokens : Remembered(t) => Remembered(t)'
    BY <1>16 DEF RedisLose, Remembered, Tokens, StoreTypeOK, StoreDataOK
  <2> QED
    BY <1>14, <1>16, <2>1 DEF RedisLose, cacheVars
<1>17. ASSUME NEW g \in Goroutines, ReturnDuplicate(g) \/ ReturnError(g)
       PROVE  AdmitInv'
  BY <1>8, <1>17 DEF ReturnDuplicate, ReturnError
<1>18. ASSUME NEW g \in Goroutines, RedisExec(g)
       PROVE  AdmitInv'
  BY <1>18, AdmitExec
<1> QED
  BY ONLY StoreNext, StoreCases, <1>1, <1>2, <1>3, <1>4, <1>5, <1>7, <1>9,
     <1>10, <1>12, <1>13, <1>15, <1>16, <1>17, <1>18

\* Creations granted or under way stay remembered by Redis and apart.
LEMMA AdmitInvariant == StoreSpec => []AdmitInv
<1>1. StoreInit => AdmitInv
  BY DEF StoreInit, AdmitInv, RepliesPlaced
<1>2. StoreTypeOK /\ AdmitInv /\ [StoreNext]_storeVars => AdmitInv'
  <2>1. ASSUME StoreTypeOK, AdmitInv, UNCHANGED storeVars PROVE AdmitInv'
    <3>1. RepliesPlaced'
      BY <2>1 DEF AdmitInv, RepliesPlaced, storeVars, cacheVars, onlyStoreVars, callVars
    <3> QED
      BY <2>1, <3>1, AdmitFrame
      DEF TokenOf, storeVars, cacheVars, onlyStoreVars, callVars, redisVars
  <2> QED
    BY <2>1, AdmitStep
<1> QED
  BY <1>1, <1>2, StoreTypeCorrect, PTL DEF StoreSpec

\* IsDuplicate admits a key at most once per Redis TTL, over all instances and
\* in the face of retries, lost answers and late executions: NoDoubleAdmit.
THEOREM AtMostOneAdmission == StoreSpec => NoDoubleAdmit
<1> DEFINE Apart == \A g \in Goroutines :
              ReturnNew(g) => \A s \in grants : ~Conflict(s, TokenOf(g))
<1>1. AdmitInv /\ [StoreNext]_storeVars => [Apart]_storeVars
  BY DEF AdmitInv, ReturnNew
<1> QED
  BY <1>1, AdmitInvariant, PTL DEF StoreSpec, NoDoubleAdmit

-----------------------------------------------------------------------------
(* How long a key stays blocked *)

\* How long an entry for k may live, given when Redis last created k.
Horizon(k) == lastBorn[k] + RedisTTL + ReplyLag + Window

\* Redis's expiry, a command that has been executed and an expiry that is about
\* to be written all descend from the last creation of the key.
BlockInv ==
    /\ BlockBound
    /\ \A k \in Keys :
          /\ lastBorn[k] <= now
          /\ redis[k] # Absent =>
                lastBorn[k] # Absent /\ redis[k] <= lastBorn[k] + RedisTTL
    /\ \A g \in Goroutines :
          /\ sent[g] <= now
          /\ pc[g] = "executed" =>
                /\ lastBorn[key[g]] # Absent
                /\ sent[g] <= lastBorn[key[g]] + RedisTTL
          /\ pc[g] = "write" =>
                lastBorn[key[g]] # Absent /\ at[g] <= Horizon(key[g])

\* The arithmetic of the bounds, away from the state.
LEMMA Through ==
  ASSUME NEW x \in Int, NEW y \in Int, NEW z \in Int, NEW d \in Int,
         x <= y + d, y <= z
  PROVE  x <= z + d
  OBVIOUS

LEMMA LeqTrans ==
  ASSUME NEW x \in Int, NEW y \in Int, NEW z \in Int, x <= y, y <= z
  PROVE  x <= z
  OBVIOUS

LEMMA LagSum ==
  ASSUME NEW n \in Int, NEW s \in Int, NEW b \in Int,
         NEW ttl \in Int, NEW lag \in Int, NEW w \in Int,
         n <= s + lag, s <= b + ttl
  PROVE  n + w <= b + ttl + lag + w
  OBVIOUS

LEMMA BelowSum ==
  ASSUME NEW a \in Int, NEW e \in Int, NEW b \in Int,
         NEW ttl \in Int, NEW lag \in Int, NEW w \in Int,
         ~(a >= e), e <= b + ttl + lag + w
  PROVE  a < b + ttl + (lag + w)
  OBVIOUS

\* All the numbers of BlockInv are integers.
LEMMA BlockTypes ==
  ASSUME StoreTypeOK
  PROVE  /\ now \in Nat /\ RedisTTL \in Nat /\ ReplyLag \in Nat /\ Window \in Nat
         /\ key \in [Goroutines -> Keys]
         /\ \A k \in Keys : redis[k] \in Int /\ lastBorn[k] \in Int
         /\ \A g \in Goroutines : sent[g] \in Nat /\ at[g] \in Nat /\ cacheOf[g] \in Caches
         /\ \A c \in Caches, k \in Keys : data[c][k] \in Int
  BY RedisTTLType, CacheAssumptions, StoreAssumptions
  DEF StoreTypeOK, StoreDataOK, CacheDataOK, Expiry, Absent

\* Creations only move forward in time, and so does every bound taken from them.
LEMMA SetNXBlock ==
  ASSUME StoreTypeOK, BlockInv, NEW k \in Keys, SetNX(k), now' = now
  PROVE  \A j \in Keys :
            /\ lastBorn'[j] \in Int /\ lastBorn[j] <= lastBorn'[j] /\ lastBorn'[j] <= now
            /\ lastBorn[j] # Absent => lastBorn'[j] # Absent
            /\ redis'[j] # Absent =>
                  lastBorn'[j] # Absent /\ redis'[j] <= lastBorn'[j] + RedisTTL
            /\ j = k => lastBorn'[j] # Absent /\ now <= lastBorn'[j] + RedisTTL
<1>1. CASE Live(k)
  <2>1. UNCHANGED <<redis, lastBorn>> /\ redis[k] # Absent /\ now <= redis[k]
    BY <1>1 DEF SetNX, Live
  <2>2. \A j \in Keys :
           /\ lastBorn[j] <= now
           /\ redis[j] # Absent => lastBorn[j] # Absent /\ redis[j] <= lastBorn[j] + RedisTTL
    BY DEF BlockInv
  <2>3. \A j \in Keys :
           /\ now \in Int /\ redis[j] \in Int
           /\ lastBorn[j] \in Int /\ lastBorn[j] + RedisTTL \in Int
    BY BlockTypes
  <2>4. lastBorn[k] # Absent /\ now <= lastBorn[k] + RedisTTL
    <3>1. redis[k] <= lastBorn[k] + RedisTTL /\ lastBorn[k] # Absent
      BY <2>1, <2>2
    <3> QED
      BY ONLY k \in Keys, <2>1, <2>3, <3>1, LeqTrans
  <2>5. \A j \in Keys : lastBorn[j] <= lastBorn[j]
    BY ONLY <2>3
  <2> QED
    BY ONLY <2>1, <2>2, <2>3, <2>4, <2>5
<1>2. CASE ~Live(k)
  <2>1. /\ redis' = [redis EXCEPT ![k] = now + RedisTTL]
        /\ lastBorn' = [lastBorn EXCEPT ![k] = now]
    BY <1>2 DEF SetNX
  <2>2. redis \in [Keys -> Expiry] /\ lastBorn \in [Keys -> Expiry]
    BY DEF StoreTypeOK, StoreDataOK
  <2>3. now \in Nat /\ RedisTTL \in Nat
    BY BlockTypes
  <2>4. \A j \in Keys :
           /\ lastBorn[j] <= now
           /\ redis[j] # Absent => lastBorn[j] # Absent /\ redis[j] <= lastBorn[j] + RedisTTL
    BY DEF BlockInv
  <2>5. ASSUME NEW j \in Keys
        PROVE  \/ /\ j = k /\ lastBorn'[j] = now /\ redis'[j] = now + RedisTTL
               \/ /\ j # k /\ lastBorn'[j] = lastBorn[j] /\ redis'[j] = redis[j]
    BY ONLY <2>1, <2>2, j \in Keys
  <2>6. \A j \in Keys : lastBorn[j] \in Int
    BY BlockTypes
  <2>7. now # Absent /\ now <= now + RedisTTL
    BY ONLY <2>3 DEF Absent
  <2>8. ASSUME NEW j \in Keys
        PROVE  /\ lastBorn'[j] \in Int /\ lastBorn[j] <= lastBorn'[j] /\ lastBorn'[j] <= now
               /\ lastBorn[j] # Absent => lastBorn'[j] # Absent
               /\ redis'[j] # Absent =>
                     lastBorn'[j] # Absent /\ redis'[j] <= lastBorn'[j] + RedisTTL
               /\ j = k => lastBorn'[j] # Absent /\ now <= lastBorn'[j] + RedisTTL
    <3>1. /\ lastBorn[j] \in Int /\ lastBorn[j] <= now
          /\ redis[j] # Absent =>
                lastBorn[j] # Absent /\ redis[j] <= lastBorn[j] + RedisTTL
      BY <2>4, <2>6
    <3>2. CASE j = k /\ lastBorn'[j] = now /\ redis'[j] = now + RedisTTL
      BY ONLY <2>3, <2>7, <3>1, <3>2
    <3>3. CASE j # k /\ lastBorn'[j] = lastBorn[j] /\ redis'[j] = redis[j]
      BY ONLY <3>1, <3>3
    <3> QED
      BY ONLY <2>5, <3>2, <3>3, j \in Keys
  <2> QED
    BY ONLY <2>8
<1> QED
  BY <1>1, <1>2

\* A write to the L1 map touches the entry of the running call only.
LEMMA KeepEffect ==
  ASSUME StoreTypeOK, NEW g \in Goroutines, NEW e, Keep(g, e)
  PROVE  \A c \in Caches, k \in Keys :
            data'[c][k] = data[c][k] \/ (k = key[g] /\ data'[c][k] = e)
<1>1. data \in [Caches -> [Keys -> Expiry]]
  BY DEF StoreTypeOK, CacheDataOK
<1>2. data' = [data EXCEPT ![cacheOf[g]][key[g]] = e]
  BY DEF Keep
<1> QED
  BY ONLY <1>1, <1>2

\* The invariant when the server executes SET NX for k: nothing else changes but
\* that goroutines waiting for this answer may now have it.
LEMMA SetNXKeepsBlock ==
  ASSUME StoreTypeOK, BlockInv, NEW k \in Keys, SetNX(k),
         UNCHANGED <<now, data, key, at, sent>>,
         \A h \in Goroutines :
            pc'[h] = pc[h] \/ (pc'[h] = "executed" /\ key[h] = k)
  PROVE  BlockInv'
<1>1. /\ now \in Nat /\ RedisTTL \in Nat /\ ReplyLag \in Nat /\ Window \in Nat
      /\ \A j \in Keys : lastBorn[j] \in Int
      /\ \A h \in Goroutines : key[h] \in Keys /\ sent[h] \in Nat /\ at[h] \in Nat
      /\ \A c \in Caches, j \in Keys : data[c][j] \in Int
  BY BlockTypes
<1>2. \A j \in Keys :
         /\ lastBorn'[j] \in Int /\ lastBorn[j] <= lastBorn'[j] /\ lastBorn'[j] <= now
         /\ lastBorn[j] # Absent => lastBorn'[j] # Absent
         /\ redis'[j] # Absent =>
               lastBorn'[j] # Absent /\ redis'[j] <= lastBorn'[j] + RedisTTL
         /\ j = k => lastBorn'[j] # Absent /\ now <= lastBorn'[j] + RedisTTL
  BY SetNXBlock
<1>3. BlockBound'
  <2>1. ASSUME NEW c \in Caches, NEW j \in Keys, data[c][j] # Absent
        PROVE  /\ lastBorn'[j] # Absent
               /\ data[c][j] <= lastBorn'[j] + RedisTTL + ReplyLag + Window
    <3>1. /\ lastBorn[j] # Absent
          /\ data[c][j] <= lastBorn[j] + RedisTTL + ReplyLag + Window
      BY <2>1 DEF BlockInv, BlockBound
    <3>2. /\ lastBorn'[j] \in Int /\ lastBorn[j] \in Int /\ data[c][j] \in Int
          /\ lastBorn[j] <= lastBorn'[j] /\ lastBorn'[j] # Absent
      BY <1>1, <1>2, <3>1
    <3>3. RedisTTL \in Int /\ ReplyLag \in Int /\ Window \in Int
      BY ONLY <1>1
    <3> HIDE <1>1, <1>2
    <3> QED
      BY ONLY <3>1, <3>2, <3>3
  <2> QED
    BY ONLY <2>1, UNCHANGED data DEF BlockBound
<1>4. ASSUME NEW h \in Goroutines
      PROVE  /\ sent[h] <= now
             /\ pc'[h] = "executed" =>
                   /\ lastBorn'[key[h]] # Absent
                   /\ sent[h] <= lastBorn'[key[h]] + RedisTTL
             /\ pc'[h] = "write" =>
                   /\ lastBorn'[key[h]] # Absent
                   /\ at[h] <= lastBorn'[key[h]] + RedisTTL + ReplyLag + Window
  <2> DEFINE old == lastBorn[key[h]]
             new == lastBorn'[key[h]]
  <2>1. /\ sent[h] <= now
        /\ pc[h] = "executed" => old # Absent /\ sent[h] <= old + RedisTTL
        /\ pc[h] = "write" =>
              old # Absent /\ at[h] <= old + RedisTTL + ReplyLag + Window
    BY DEF BlockInv, Horizon
  <2>2. /\ old \in Int /\ new \in Int /\ old <= new
        /\ old # Absent => new # Absent
        /\ key[h] = k => new # Absent /\ now <= new + RedisTTL
        /\ sent[h] \in Nat /\ at[h] \in Nat
    BY <1>1, <1>2
  <2>3. pc'[h] = pc[h] \/ (pc'[h] = "executed" /\ key[h] = k)
    OBVIOUS
  <2> HIDE DEF old, new
  <2>4. /\ pc'[h] = "executed" => new # Absent /\ sent[h] <= new + RedisTTL
        /\ pc'[h] = "write" =>
              new # Absent /\ at[h] <= new + RedisTTL + ReplyLag + Window
    <3>1. /\ now \in Nat /\ RedisTTL \in Nat /\ ReplyLag \in Nat /\ Window \in Nat
      BY <1>1
    <3>2. CASE pc'[h] = "executed" /\ key[h] = k
      <4>1. sent[h] <= now /\ now <= new + RedisTTL /\ new # Absent
        BY ONLY <2>1, <2>2, <3>2
      <4>2. sent[h] \in Int /\ now \in Int /\ new + RedisTTL \in Int
        BY ONLY <2>2, <3>1
      <4>3. sent[h] <= new + RedisTTL
        BY ONLY <4>1, <4>2, LeqTrans
      <4> QED
        BY ONLY <3>2, <4>1, <4>3
    <3>3. CASE pc'[h] = pc[h]
      <4>1. pc[h] = "executed" => sent[h] <= new + RedisTTL
        BY ONLY <2>1, <2>2, <3>1, Through
      <4>2. pc[h] = "write" => at[h] <= new + (RedisTTL + ReplyLag + Window)
        <5>1. pc[h] = "write" => at[h] <= old + (RedisTTL + ReplyLag + Window)
          BY ONLY <2>1, <2>2, <3>1
        <5> QED
          BY ONLY <2>2, <3>1, <5>1, Through
      <4> QED
        BY ONLY <2>1, <2>2, <3>1, <3>3, <4>1, <4>2
    <3> QED
      BY ONLY <2>3, <3>2, <3>3
  <2> QED
    BY ONLY <2>1, <2>4 DEF new
<1>5. \A j \in Keys :
         /\ lastBorn'[j] <= now'
         /\ redis'[j] # Absent =>
               lastBorn'[j] # Absent /\ redis'[j] <= lastBorn'[j] + RedisTTL
  BY ONLY <1>2, UNCHANGED now
<1> QED
  BY ONLY <1>3, <1>4, <1>5, UNCHANGED <<now, key, at, sent>> DEF BlockInv, Horizon

\* The invariant when an entry may appear in the L1 caches only from a bounded
\* expiry, and no goroutine but g moves.
LEMMA BlockFrame ==
  ASSUME StoreTypeOK, BlockInv, NEW g \in Goroutines,
         now \in Nat, now' = now, UNCHANGED <<data, redis, lastBorn>>,
         \A h \in Goroutines : h # g =>
            pc'[h] = pc[h] /\ key'[h] = key[h] /\ at'[h] = at[h] /\ sent'[h] = sent[h],
         sent'[g] <= now,
         pc'[g] \notin {"executed", "write"}
  PROVE  BlockInv'
<1>1. BlockBound'
  BY DEF BlockInv, BlockBound
<1> QED
  BY <1>1 DEF BlockInv, Horizon

LEMMA BlockStep ==
  ASSUME StoreTypeOK, BlockInv, StoreNext
  PROVE  BlockInv'
<1> USE DEF onlyStoreVars, callVars, redisVars
<1>0. /\ pc \in [Goroutines -> StorePCs]
      /\ key \in [Goroutines -> Keys]
      /\ at \in [Goroutines -> Nat]
      /\ sent \in [Goroutines -> Nat]
      /\ now \in Nat
  BY DEF StoreTypeOK, StoreDataOK, CacheDataOK
<1>1. ASSUME NEW g \in Goroutines, ContainsLookup(g), UNCHANGED onlyStoreVars
      PROVE  BlockInv'
  <2>1. pc'[g] \notin {"executed", "write"} /\ sent'[g] <= now
    BY <1>0, <1>1 DEF ContainsLookup, Goto, BlockInv
  <2> QED
    BY <1>0, <1>1, <2>1, BlockFrame DEF ContainsLookup, Goto
<1>2. ASSUME UNCHANGED <<now, onlyStoreVars, key>>,
             NEW g \in Goroutines, pc'[g] \notin {"executed", "write"},
             \A h \in Goroutines : h # g => pc'[h] = pc[h] /\ at'[h] = at[h],
             BlockBound'
      PROVE  BlockInv'
  BY <1>2 DEF BlockInv, Horizon
<1>3. ASSUME NEW g \in Goroutines, ContainsEvict(g), UNCHANGED onlyStoreVars
      PROVE  BlockInv'
  <2>1. \A c \in Caches, k \in Keys : data'[c][k] = data[c][k] \/ data'[c][k] = Absent
    <3>1. CASE Keep(g, Absent)
      BY ONLY StoreTypeOK, g \in Goroutines, <3>1, KeepEffect
    <3>2. CASE UNCHANGED data
      BY ONLY <3>2
    <3> QED
      BY <1>3, <3>1, <3>2 DEF ContainsEvict
  <2>2. BlockBound'
    BY <1>3, <2>1 DEF BlockInv, BlockBound
  <2> QED
    BY <1>0, <1>2, <1>3, <2>2 DEF ContainsEvict, Goto
<1>4. ASSUME NEW g \in Goroutines, SetWrite(g), UNCHANGED onlyStoreVars
      PROVE  BlockInv'
  <2>1. \A c \in Caches, k \in Keys :
           data'[c][k] = data[c][k] \/ (k = key[g] /\ data'[c][k] = at[g])
    <3>1. Keep(g, at[g])
      BY <1>4 DEF SetWrite
    <3> QED
      BY ONLY StoreTypeOK, g \in Goroutines, <3>1, KeepEffect
  <2>2. lastBorn[key[g]] # Absent /\ at[g] <= Horizon(key[g])
    BY <1>4 DEF SetWrite, BlockInv
  <2>3. UNCHANGED lastBorn /\ BlockBound
    BY <1>4 DEF BlockInv
  <2>4. BlockBound'
    BY ONLY <2>1, <2>2, <2>3 DEF BlockBound, Horizon
  <2> QED
    BY <1>0, <1>2, <1>4, <2>4 DEF SetWrite, Goto
<1>5. ASSUME NEW g \in Goroutines, RedisSend(g) PROVE BlockInv'
  BY <1>0, <1>5, BlockFrame DEF RedisSend, Goto
<1>6. ASSUME NEW g \in Goroutines, BackendFails(g) PROVE BlockInv'
  <2>1. sent'[g] <= now
    BY <1>6 DEF BackendFails, BlockInv
  <2> QED
    BY <1>0, <1>6, <2>1, BlockFrame DEF BackendFails, Goto
<1>7. ASSUME NEW g \in Goroutines, RedisExec(g) PROVE BlockInv'
  <2>1. /\ key[g] \in Keys /\ SetNX(key[g])
        /\ UNCHANGED <<now, data, key, at, sent>>
        /\ pc' = [pc EXCEPT ![g] = "executed"]
    BY <1>0, <1>7 DEF RedisExec, Goto
  <2>2. \A h \in Goroutines :
           pc'[h] = pc[h] \/ (pc'[h] = "executed" /\ key[h] = key[g])
    BY ONLY <1>0, <2>1
  <2> QED
    BY <2>1, <2>2, SetNXKeepsBlock
<1>8. ASSUME NEW g \in Goroutines, RedisReply(g) PROVE BlockInv'
  <2>1. CASE LocalCacheEnabled
    <3>1. /\ UNCHANGED <<now, data, key, redis, lastBorn>>
          /\ pc' = [pc EXCEPT ![g] = "write"]
          /\ at' = [at EXCEPT ![g] = now + Window]
          /\ sent' = [sent EXCEPT ![g] = 0]
      BY <1>0, <1>8, <2>1 DEF RedisReply, SetCall, Goto
    <3>2. lastBorn[key[g]] # Absent /\ now + Window <= Horizon(key[g])
      <4>1. pc[g] = "executed" /\ now <= sent[g] + ReplyLag
        BY <1>8 DEF RedisReply
      <4>2. /\ lastBorn[key[g]] # Absent
            /\ sent[g] <= lastBorn[key[g]] + RedisTTL
        BY ONLY BlockInv, g \in Goroutines, <4>1 DEF BlockInv
      <4>3. /\ now \in Int /\ sent[g] \in Int /\ lastBorn[key[g]] \in Int
            /\ RedisTTL \in Int /\ ReplyLag \in Int /\ Window \in Int
        BY ONLY StoreTypeOK, g \in Goroutines, BlockTypes
      <4> QED
        BY ONLY <4>1, <4>2, <4>3, LagSum DEF Horizon
    <3> HIDE <1>8
    <3>3. BlockBound'
      BY <3>1 DEF BlockInv, BlockBound
    <3>4. \A h \in Goroutines : h # g =>
             pc'[h] = pc[h] /\ at'[h] = at[h] /\ sent'[h] = sent[h]
      BY ONLY <1>0, <3>1
    <3>5. pc'[g] = "write" /\ at'[g] = now + Window /\ sent'[g] <= now
      BY ONLY <1>0, <3>1, g \in Goroutines
    <3>6. UNCHANGED <<now, key, redis, lastBorn>>
      BY <3>1
    <3>7. ASSUME NEW h \in Goroutines
          PROVE  /\ sent'[h] <= now
                 /\ pc'[h] = "executed" =>
                       /\ lastBorn[key[h]] # Absent
                       /\ sent'[h] <= lastBorn[key[h]] + RedisTTL
                 /\ pc'[h] = "write" =>
                       lastBorn[key[h]] # Absent /\ at'[h] <= Horizon(key[h])
      <4>1. CASE h = g
        BY ONLY <3>2, <3>5, <4>1
      <4>2. CASE h # g
        BY ONLY BlockInv, h \in Goroutines, <3>4, <4>2 DEF BlockInv
      <4> QED
        BY ONLY <4>1, <4>2
    <3>8. \A k \in Keys :
             /\ lastBorn[k] <= now
             /\ redis[k] # Absent =>
                   lastBorn[k] # Absent /\ redis[k] <= lastBorn[k] + RedisTTL
      BY ONLY BlockInv DEF BlockInv
    <3> QED
      BY ONLY <3>3, <3>6, <3>7, <3>8 DEF BlockInv, Horizon
  <2>2. CASE ~LocalCacheEnabled
    <3>0. sent[g] <= now
      BY DEF BlockInv
    <3>1. /\ now' = now /\ UNCHANGED <<data, redis, lastBorn>>
          /\ sent'[g] <= now /\ pc'[g] \notin {"executed", "write"}
          /\ \A h \in Goroutines : h # g =>
                pc'[h] = pc[h] /\ key'[h] = key[h] /\ at'[h] = at[h] /\ sent'[h] = sent[h]
      BY <1>0, <1>8, <2>2, <3>0 DEF RedisReply, Goto
    <3> QED
      BY <1>0, <3>1, BlockFrame
  <2> QED
    BY <2>1, <2>2
<1>9. ASSUME NEW g \in Goroutines, RedisRetry(g) PROVE BlockInv'
  <2>1. /\ now' = now /\ UNCHANGED <<data, redis, lastBorn>>
        /\ sent'[g] <= now /\ pc'[g] \notin {"executed", "write"}
        /\ \A h \in Goroutines : h # g =>
              pc'[h] = pc[h] /\ key'[h] = key[h] /\ at'[h] = at[h] /\ sent'[h] = sent[h]
    BY <1>0, <1>9 DEF RedisRetry, Goto
  <2> QED
    BY <1>0, <2>1, BlockFrame
<1>10. ASSUME NEW g \in Goroutines, RedisGiveUp(g) PROVE BlockInv'
  <2>1. /\ now' = now /\ UNCHANGED <<data, redis, lastBorn>>
        /\ sent'[g] <= now /\ pc'[g] \notin {"executed", "write"}
        /\ \A h \in Goroutines : h # g =>
              pc'[h] = pc[h] /\ key'[h] = key[h] /\ at'[h] = at[h] /\ sent'[h] = sent[h]
    BY <1>0, <1>10 DEF RedisGiveUp, ForgetCall, Goto
  <2> QED
    BY <1>0, <2>1, BlockFrame
<1>11. ASSUME NEW g \in Goroutines, EndCall(g) PROVE BlockInv'
  <2>1. /\ now' = now /\ UNCHANGED <<data, redis, lastBorn>>
        /\ sent'[g] <= now /\ pc'[g] \notin {"executed", "write"}
        /\ \A h \in Goroutines : h # g =>
              pc'[h] = pc[h] /\ key'[h] = key[h] /\ at'[h] = at[h] /\ sent'[h] = sent[h]
    BY <1>0, <1>11 DEF EndCall, ForgetCall, Goto
  <2> QED
    BY <1>0, <2>1, BlockFrame
<1>12. ASSUME NEW g \in Goroutines, NEW k \in Keys, IsDuplicateCall(g, k)
       PROVE  BlockInv'
  <2>1. sent'[g] <= now
    BY <1>12 DEF IsDuplicateCall, BlockInv
  <2> QED
    BY <1>0, <1>12, <2>1, BlockFrame DEF IsDuplicateCall, ContainsCall, Goto
<1>13. ASSUME NEW c \in Caches, SweepOnly(c), UNCHANGED onlyStoreVars
       PROVE  BlockInv'
  <2>1. \A d \in Caches, k \in Keys : data'[d][k] = data[d][k] \/ data'[d][k] = Absent
    <3>1. data \in [Caches -> [Keys -> Expiry]]
      BY DEF StoreTypeOK, CacheDataOK
    <3>2. CASE SweepShard(c)
      <4>1. data' = [data EXCEPT ![c] = [k \in Keys |->
                       IF k \in SweptFrom(c, sweepIdx[c]) THEN Absent ELSE data[c][k]]]
        BY <3>1, <3>2 DEF SweepShard
      <4> QED
        BY ONLY <3>1, <4>1
    <3>3. CASE UNCHANGED data
      BY ONLY <3>3
    <3> QED
      BY <1>13, <3>2, <3>3 DEF SweepOnly, SweepTick, SweepStop, Close
  <2>2. UNCHANGED <<now, pc, key, at>>
    BY <1>13 DEF SweepOnly, SweepTick, SweepShard, SweepStop, Close
  <2>3. BlockBound'
    BY <1>13, <2>1 DEF BlockInv, BlockBound
  <2> QED
    BY <1>13, <2>2, <2>3 DEF BlockInv, Horizon
<1>14. CASE Tick /\ UNCHANGED onlyStoreVars
  <2>1. BlockBound'
    BY <1>14 DEF Tick, BlockInv, BlockBound
  <2>2. now' \in Int /\ now <= now' /\ UNCHANGED <<pc, key, at, sent, redis, lastBorn>>
    BY <1>0, <1>14 DEF Tick
  <2>3. /\ now \in Int
        /\ \A k \in Keys : lastBorn[k] \in Int
        /\ \A g \in Goroutines : sent[g] \in Int
    BY ONLY StoreTypeOK, BlockTypes
  <2>4. /\ \A k \in Keys : lastBorn[k] <= now'
        /\ \A g \in Goroutines : sent[g] <= now'
    <3>1. /\ \A k \in Keys : lastBorn[k] <= now
          /\ \A g \in Goroutines : sent[g] <= now
      BY ONLY BlockInv DEF BlockInv
    <3>2. now' \in Int /\ now <= now'
      BY <2>2
    <3> QED
      BY ONLY <2>3, <3>1, <3>2, LeqTrans
  <2> QED
    BY ONLY BlockInv, <2>1, <2>2, <2>4 DEF BlockInv, Horizon
<1>15. ASSUME NEW k \in Keys, RedisExecLate(k) PROVE BlockInv'
  <2>1. SetNX(k) /\ UNCHANGED <<now, data, pc, key, at, sent>>
    BY <1>15 DEF RedisExecLate, cacheVars
  <2> QED
    BY <2>1, SetNXKeepsBlock
<1>16. CASE RedisLose
  <2>1. /\ UNCHANGED <<now, data, pc, key, at, sent, lastBorn>>
        /\ \A k \in Keys : redis'[k] = Absent
    BY <1>16 DEF RedisLose, cacheVars
  <2>2. BlockBound'
    BY <2>1 DEF BlockInv, BlockBound
  <2> QED
    BY <2>1, <2>2 DEF BlockInv, Horizon
<1>17. ASSUME NEW g \in Goroutines, ReturnNew(g) \/ ReturnDuplicate(g) \/ ReturnError(g)
       PROVE  BlockInv'
  BY <1>11, <1>17 DEF ReturnNew, ReturnDuplicate, ReturnError
<1>18. ASSUME NEW g \in Goroutines, CacheOnly(g), UNCHANGED onlyStoreVars
       PROVE  BlockInv'
  BY <1>1, <1>3, <1>4, <1>18 DEF CacheOnly
<1> QED
  BY ONLY StoreNext, StoreCases, <1>5, <1>6, <1>7, <1>8, <1>9, <1>10, <1>12,
     <1>13, <1>14, <1>15, <1>16, <1>17, <1>18

\* An L1 entry outlives the creation of its key by at most the Redis TTL, the
\* reply lag and one window: BlockBound, for every value of the constants.
THEOREM BlockBounded == StoreSpec => []BlockBound
<1>1. StoreInit => BlockInv
  BY DEF StoreInit, CacheInit, BlockInv, BlockBound, Absent
<1>2. StoreTypeOK /\ BlockInv /\ [StoreNext]_storeVars => BlockInv'
  <2>1. ASSUME BlockInv, UNCHANGED storeVars PROVE BlockInv'
    BY <2>1 DEF BlockInv, BlockBound, Horizon, storeVars, cacheVars, onlyStoreVars,
                callVars, redisVars
  <2> QED
    BY <2>1, BlockStep
<1>3. BlockInv => BlockBound
  BY DEF BlockInv
<1> QED
  BY <1>1, <1>2, <1>3, StoreTypeCorrect, PTL DEF StoreSpec

-----------------------------------------------------------------------------
(* All the invariants together *)

\* Without the L1 cache nobody looks a key up in it.
LookupOnlyWithL1 == ~LocalCacheEnabled => \A g \in Goroutines : pc[g] # "lookup"

\* The invariant that all the promises and the refinement rest on.
StoreInv == StoreTypeOK /\ AdmitInv /\ BlockInv /\ LookupOnlyWithL1

LEMMA LookupStep ==
  ASSUME StoreTypeOK, LookupOnlyWithL1, StoreNext
  PROVE  LookupOnlyWithL1'
<1>1. pc \in [Goroutines -> StorePCs]
  BY DEF StoreTypeOK
<1> SUFFICES ASSUME ~LocalCacheEnabled, NEW h \in Goroutines, pc'[h] = "lookup"
             PROVE  FALSE
  BY DEF LookupOnlyWithL1
<1>2. pc[h] # "lookup"
  BY DEF LookupOnlyWithL1
<1>3. ASSUME NEW g \in Goroutines, StoreCall(g) PROVE FALSE
  BY <1>1, <1>2, <1>3 DEF StoreCall, IsDuplicateCall, Goto
<1>4. ASSUME NEW g \in Goroutines, StoreStep(g) PROVE FALSE
  BY <1>1, <1>2, <1>4
  DEF StoreStep, ContainsLookup, ContainsEvict, SetWrite, RedisSend, BackendFails, RedisReply,
      RedisRetry, RedisGiveUp, Goto
<1>5. ASSUME NEW g \in Goroutines, RedisExec(g) \/ StoreReturn(g) PROVE FALSE
  BY <1>1, <1>2, <1>5
  DEF RedisExec, StoreReturn, ReturnNew, ReturnDuplicate, ReturnError, EndCall, Goto
<1>6. ASSUME StoreBackground PROVE FALSE
  BY <1>2, <1>6
  DEF StoreBackground, SweepTick, SweepShard, SweepStop, Tick, Close, RedisExecLate,
      RedisLose, cacheVars
<1> QED
  BY ONLY StoreNext, <1>3, <1>4, <1>5, <1>6 DEF StoreNext

LEMMA StoreInvInit == StoreInit => StoreInv
<1>1. StoreInit => StoreTypeOK
  BY CacheAssumptions, NoArgType
  DEF StoreInit, CacheInit, StoreTypeOK, StoreDataOK, CacheDataOK, StorePCs, CachePCs, Expiry
<1>2. StoreInit => AdmitInv
  BY DEF StoreInit, AdmitInv, RepliesPlaced
<1>3. StoreInit => BlockInv
  BY DEF StoreInit, CacheInit, BlockInv, BlockBound, Absent
<1>4. StoreInit => LookupOnlyWithL1
  BY DEF StoreInit, CacheInit, LookupOnlyWithL1
<1> QED
  BY <1>1, <1>2, <1>3, <1>4 DEF StoreInv

LEMMA StoreInvStep ==
  ASSUME StoreInv, StoreNext
  PROVE  StoreInv'
  BY StoreTypeStep, AdmitStep, BlockStep, LookupStep DEF StoreInv

LEMMA StoreInvStutter ==
  ASSUME StoreInv, UNCHANGED storeVars
  PROVE  StoreInv'
<1>1. StoreTypeOK'
  BY DEF StoreInv, StoreTypeOK, StoreDataOK, CacheDataOK, storeVars, onlyStoreVars,
         cacheVars, lenVars, sweepVars, callVars, redisVars
<1>2. AdmitInv'
  <2>1. RepliesPlaced'
    BY DEF StoreInv, AdmitInv, RepliesPlaced, storeVars, cacheVars, onlyStoreVars, callVars
  <2> QED
    BY <2>1, AdmitFrame
    DEF StoreInv, TokenOf, storeVars, cacheVars, onlyStoreVars, callVars, redisVars
<1>3. BlockInv'
  BY DEF StoreInv, BlockInv, BlockBound, Horizon, storeVars, cacheVars, onlyStoreVars,
         callVars, redisVars
<1>4. LookupOnlyWithL1'
  BY DEF StoreInv, LookupOnlyWithL1, storeVars, cacheVars
<1> QED
  BY <1>1, <1>2, <1>3, <1>4 DEF StoreInv

-----------------------------------------------------------------------------
(* Refinement *)

\* The call of one goroutine moves to another state of the gate.
LEMMA CallMove ==
  ASSUME NEW g \in Goroutines, NEW s, CallState(g)' = s,
         \A h \in Goroutines : h # g => pc'[h] = pc[h] /\ reply'[h] = reply[h]
  PROVE  Calls' = [Calls EXCEPT ![g] = s]
<1>1. \A h \in Goroutines : h # g => CallState(h)' = CallState(h)
  BY DEF CallState
<1> QED
  BY <1>1 DEF Calls

LEMMA CallsKept ==
  ASSUME \A h \in Goroutines : CallState(h)' = CallState(h)
  PROVE  Calls' = Calls
  BY DEF Calls

LEMMA SinceMove ==
  ASSUME NEW g \in Goroutines, NEW v,
         v = IF pc'[g] = "lookup" THEN at'[g] ELSE 0,
         \A h \in Goroutines : h # g => pc'[h] = pc[h] /\ at'[h] = at[h]
  PROVE  Sinces' = [Sinces EXCEPT ![g] = v]
  BY DEF Sinces

LEMMA SincesKept ==
  ASSUME NEW g \in Goroutines, pc[g] # "lookup", pc'[g] # "lookup",
         \A h \in Goroutines : h # g => pc'[h] = pc[h] /\ at'[h] = at[h]
  PROVE  Sinces' = Sinces
  BY DEF Sinces

LEMMA AskedMove ==
  ASSUME NEW g \in Goroutines, NEW k, key' = [key EXCEPT ![g] = k], key \in [Goroutines -> Keys],
         CallState(g)' = "none" => k = NoArg,
         \A h \in Goroutines : h # g => CallState(h)' = CallState(h)
  PROVE  Asked' = [Asked EXCEPT ![g] = k]
  BY DEF Asked

LEMMA AskedKept ==
  ASSUME key' = key,
         \A h \in Goroutines : (CallState(h)' = "none") <=> (CallState(h) = "none")
  PROVE  Asked' = Asked
  BY DEF Asked

\* A lookup in the L1 cache is an answer from memory, and stays within the slack.
LEMMA LookupIsRecall ==
  ASSUME StoreInv, NEW g \in Goroutines, ContainsLookup(g), UNCHANGED onlyStoreVars,
         LocalCacheEnabled
  PROVE  Gate!Recall(g) \/ Gate!Pass(g)
<1> USE DEF StoreInv, onlyStoreVars, callVars, redisVars
<1>0. pc \in [Goroutines -> StorePCs] /\ at \in [Goroutines -> Nat] /\ key[g] \in Keys
  BY DEF StoreTypeOK, StoreDataOK, CacheDataOK
<1>1. /\ pc[g] = "lookup" /\ pc'[g] \in {"miss", "evict", "hit"}
      /\ \A h \in Goroutines : h # g => pc'[h] = pc[h] /\ at'[h] = at[h] /\ reply'[h] = reply[h]
      /\ UNCHANGED <<now, redis, lastBorn, key>>
  BY <1>0 DEF ContainsLookup, Goto
<1>2. Calls[g] = "asked" /\ Sinces[g] = at[g] /\ Asked[g] = key[g] /\ Asked' = Asked
  BY <1>1, AskedKept DEF Calls, CallState, Sinces, Asked
<1>3. Sinces' = [Sinces EXCEPT ![g] = 0]
  BY <1>1, SinceMove
<1>4. CASE pc'[g] = "hit"
  <2>1. Calls' = [Calls EXCEPT ![g] = "duplicate"]
    BY <1>1, <1>4, CallMove DEF CallState
  <2>2. EntryOf(g) # Absent /\ ~(at[g] >= EntryOf(g))
    BY <1>0, <1>4 DEF ContainsLookup, Goto
  <2>3. cacheOf[g] \in Caches /\ data[cacheOf[g]][key[g]] \in Int
    BY <1>0, BlockTypes
  <2>4. /\ lastBorn[key[g]] # Absent
        /\ EntryOf(g) <= lastBorn[key[g]] + RedisTTL + ReplyLag + Window
    BY <1>0, <2>2, <2>3 DEF EntryOf, BlockInv, BlockBound
  <2>5. /\ lastBorn[key[g]] \in Int /\ RedisTTL \in Int /\ ReplyLag \in Int
        /\ Window \in Int /\ at[g] \in Int /\ EntryOf(g) \in Int
    <3>1. /\ lastBorn[key[g]] \in Int /\ RedisTTL \in Nat /\ ReplyLag \in Nat
          /\ Window \in Nat /\ at[g] \in Nat
      BY <1>0, BlockTypes
    <3>2. EntryOf(g) \in Int
      BY ONLY <2>3 DEF EntryOf
    <3> QED
      BY ONLY <3>1, <3>2
  <2>6. at[g] < lastBorn[key[g]] + RedisTTL + (ReplyLag + Window)
    BY ONLY <2>2, <2>4, <2>5, BelowSum
  <2> QED
    BY <1>1, <1>2, <1>3, <2>1, <2>4, <2>6
    DEF Gate!Recall, Gate!Becomes, Gate!Free, Absent, L1Slack
<1>5. CASE pc'[g] # "hit"
  <2>1. Calls' = [Calls EXCEPT ![g] = "pending"]
    BY <1>1, <1>5, CallMove DEF CallState
  <2> QED
    BY <1>1, <1>2, <1>3, <2>1 DEF Gate!Pass, Gate!Becomes
<1> QED
  BY <1>4, <1>5

\* The server's SET NX is the gate's decision.
LEMMA ExecDecides ==
  ASSUME StoreInv, NEW g \in Goroutines, RedisExec(g)
  PROVE  Gate!Claim(g) \/ Gate!Refuse(g)
<1> USE DEF StoreInv
<1>0. /\ pc \in [Goroutines -> StorePCs] /\ key[g] \in Keys
      /\ reply \in [Goroutines -> {"none", "OK", "Nil"}]
  BY DEF StoreTypeOK, StoreDataOK, CacheDataOK
<1>1. /\ pc[g] = "sent" /\ pc'[g] = "executed"
      /\ \A h \in Goroutines : h # g => pc'[h] = pc[h] /\ at'[h] = at[h] /\ reply'[h] = reply[h]
      /\ UNCHANGED <<now, key>> /\ SetNX(key[g])
      /\ reply'[g] = IF Live(key[g]) THEN "Nil" ELSE "OK"
  BY <1>0 DEF RedisExec, Goto
<1>2. Calls[g] = "pending" /\ Sinces' = Sinces /\ Asked[g] = key[g] /\ Asked' = Asked
  BY <1>1, SincesKept, AskedKept DEF Calls, CallState, Asked
<1>3. Gate!Held(key[g]) <=> Live(key[g])
  BY DEF Gate!Held, Gate!Free, Live, Absent
<1>4. CASE Live(key[g])
  <2>1. Calls' = [Calls EXCEPT ![g] = "duplicate"]
    BY <1>1, <1>4, CallMove DEF CallState
  <2> QED
    BY <1>1, <1>2, <1>3, <1>4, <2>1 DEF SetNX, Gate!Refuse, Gate!Becomes
<1>5. CASE ~Live(key[g])
  <2>1. Calls' = [Calls EXCEPT ![g] = "new"]
    BY <1>1, <1>5, CallMove DEF CallState
  <2> QED
    BY <1>1, <1>2, <1>3, <1>5, <2>1 DEF SetNX, Gate!Claim, Gate!Take, Gate!Becomes
<1> QED
  BY <1>4, <1>5

\* Any other step of a goroutine moves its call and leaves the keys alone.
LEMMA CallSteps ==
  ASSUME StoreInv, NEW g \in Goroutines,
         UNCHANGED <<now, redis, lastBorn>>,
         \A h \in Goroutines : h # g =>
            pc'[h] = pc[h] /\ at'[h] = at[h] /\ reply'[h] = reply[h]
  PROVE  /\ key' = key /\ Calls[g] \in {"pending", "new", "duplicate"}
            /\ pc[g] # "lookup" /\ pc'[g] = "failed" => Gate!Fail(g)
         /\ key' = key /\ pc[g] \in {"sent", "executed"} /\ pc'[g] = "sent"
            => Gate!Mislay(g) \/ UNCHANGED Gate!gateVars
         /\ /\ Calls[g] \in {"new", "duplicate", "error"} /\ pc[g] # "lookup"
            /\ pc'[g] = "idle" /\ key' = [key EXCEPT ![g] = NoArg]
            => Gate!Answer(g)
         /\ /\ key' = key /\ {pc[g], pc'[g]} \cap {"lookup", "body"} = {}
            /\ CallState(g)' = CallState(g)
            => UNCHANGED Gate!gateVars
<1>1. ASSUME key' = key, Calls[g] \in {"pending", "new", "duplicate"},
             pc[g] # "lookup", pc'[g] = "failed"
      PROVE  Gate!Fail(g)
  <2>1. Calls' = [Calls EXCEPT ![g] = "error"]
    BY <1>1, CallMove DEF CallState
  <2>2. \A h \in Goroutines : (CallState(h)' = "none") <=> (CallState(h) = "none")
    BY <1>1 DEF Calls, CallState
  <2>3. Sinces' = Sinces /\ Asked' = Asked
    BY <1>1, <2>2, SincesKept, AskedKept
  <2> QED
    BY <1>1, <2>1, <2>3 DEF Gate!Fail, Gate!Becomes
<1>2. ASSUME key' = key, {pc[g], pc'[g]} \cap {"lookup", "body"} = {},
             CallState(g)' = CallState(g)
      PROVE  UNCHANGED Gate!gateVars
  <2>1. \A h \in Goroutines : CallState(h)' = CallState(h)
    BY <1>2 DEF CallState
  <2>2. Calls' = Calls /\ Sinces' = Sinces /\ Asked' = Asked
    BY <1>2, <2>1, CallsKept, SincesKept, AskedKept
  <2> QED
    BY <1>2, <2>2 DEF Gate!gateVars
<1>3. ASSUME key' = key, pc[g] \in {"sent", "executed"}, pc'[g] = "sent"
      PROVE  Gate!Mislay(g) \/ UNCHANGED Gate!gateVars
  <2>1. CASE pc[g] = "sent"
    BY <1>2, <1>3, <2>1 DEF CallState
  <2>2. CASE pc[g] = "executed"
    <3>1. Calls' = [Calls EXCEPT ![g] = "pending"]
      BY <1>3, CallMove DEF CallState
    <3>2. \A h \in Goroutines : (CallState(h)' = "none") <=> (CallState(h) = "none")
      BY <1>3 DEF CallState
    <3>3. Sinces' = Sinces /\ Asked' = Asked
      BY <1>3, <3>2, SincesKept, AskedKept
    <3>4. Calls[g] \in {"new", "duplicate"}
      BY <2>2 DEF Calls, CallState
    <3> QED
      BY <1>3, <3>1, <3>3, <3>4 DEF Gate!Mislay, Gate!Becomes
  <2> QED
    BY <1>3, <2>1, <2>2
<1>4. ASSUME Calls[g] \in {"new", "duplicate", "error"}, pc[g] # "lookup",
             pc'[g] = "idle", key' = [key EXCEPT ![g] = NoArg]
      PROVE  Gate!Answer(g)
  <2>1. Calls' = [Calls EXCEPT ![g] = "none"]
    BY <1>4, CallMove DEF CallState
  <2>2. key \in [Goroutines -> Keys]
    BY DEF StoreInv, StoreTypeOK, CacheDataOK
  <2>3. Sinces' = Sinces /\ Asked' = [Asked EXCEPT ![g] = NoArg]
    <3>1. \A h \in Goroutines : h # g => CallState(h)' = CallState(h)
      BY DEF CallState
    <3> QED
      BY <1>4, <2>2, <3>1, SincesKept, AskedMove
  <2> QED
    BY <1>4, <2>1, <2>3 DEF Gate!Answer, Gate!Becomes, NoArg, Gate!NoKey
<1> QED
  BY <1>1, <1>2, <1>3, <1>4

\* A step that moves no goroutine.
LEMMA NobodyMoves ==
  ASSUME UNCHANGED <<pc, key, at, reply>>
  PROVE  UNCHANGED <<Calls, Sinces, Asked>>
<1>1. \A h \in Goroutines : CallState(h)' = CallState(h)
  BY DEF CallState
<1> QED
  BY <1>1, CallsKept DEF Sinces, Asked

LEMMA GateNextIntro ==
  /\ \A g \in Goroutines :
        \/ \E k \in Keys : Gate!Ask(g, k) \/ Gate!Enter(g, k)
        \/ Gate!Recall(g) \/ Gate!Pass(g) \/ Gate!Claim(g) \/ Gate!Refuse(g)
        \/ Gate!Mislay(g) \/ Gate!Fail(g) \/ Gate!Answer(g)
        => Gate!GateNext
  /\ \A k \in Keys : Gate!Orphan(k) => Gate!GateNext
  /\ \A S \in SUBSET Goroutines : Gate!Crash(S) => Gate!GateNext
  /\ Gate!Wipe \/ Gate!Elapse => Gate!GateNext
  BY DEF Gate!GateNext

\* A call begins with the L1 lookup, or at the backend when the L1 cache is off.
LEMMA CallIsAsk ==
  ASSUME StoreInv, NEW g \in Goroutines, NEW k \in Keys, pc[g] \in {"idle", "body"},
         IsDuplicateCall(g, k)
  PROVE  Gate!Ask(g, k) \/ Gate!Enter(g, k)
<1>0. /\ pc \in [Goroutines -> StorePCs] /\ at \in [Goroutines -> Nat]
      /\ key \in [Goroutines -> Keys]
  BY DEF StoreInv, StoreTypeOK, CacheDataOK
<1>1. /\ UNCHANGED <<now, redis, lastBorn>> /\ key' = [key EXCEPT ![g] = k]
      /\ \A h \in Goroutines : h # g =>
            pc'[h] = pc[h] /\ at'[h] = at[h] /\ reply'[h] = reply[h]
      /\ \/ pc'[g] = "lookup" /\ at'[g] = now
         \/ pc'[g] = "miss"
  BY <1>0 DEF IsDuplicateCall, ContainsCall, Goto, onlyStoreVars, callVars, redisVars
<1>2. Calls[g] = "none" /\ Asked' = [Asked EXCEPT ![g] = k]
  <2>1. /\ Calls[g] = "none" /\ CallState(g)' # "none"
        /\ \A h \in Goroutines : h # g => CallState(h)' = CallState(h)
    BY <1>1 DEF Calls, CallState
  <2> QED
    BY <1>0, <1>1, <2>1, AskedMove
<1>3. CASE pc'[g] = "lookup" /\ at'[g] = now
  <2>0. CallState(g)' = "asked"
    BY <1>3 DEF CallState
  <2>1. Calls' = [Calls EXCEPT ![g] = "asked"]
    BY <1>1, <2>0, CallMove
  <2>2. Sinces' = [Sinces EXCEPT ![g] = now]
    BY <1>1, <1>3 DEF Sinces
  <2> QED
    BY <1>1, <1>2, <2>1, <2>2 DEF Gate!Ask, Gate!Becomes
<1>4. CASE pc'[g] = "miss"
  <2>0. CallState(g)' = "pending"
    BY <1>4 DEF CallState
  <2>1. Calls' = [Calls EXCEPT ![g] = "pending"]
    BY <1>1, <2>0, CallMove
  <2>2. Sinces' = Sinces
    BY <1>1, <1>4, SincesKept
  <2> QED
    BY <1>1, <1>2, <2>1, <2>2 DEF Gate!Enter, Gate!Becomes
<1> QED
  BY <1>1, <1>3, <1>4

\* An abandoned command that is executed takes the key for nobody.
LEMMA LateIsOrphan ==
  ASSUME StoreInv, NEW k \in Keys, RedisExecLate(k)
  PROVE  Gate!Orphan(k) \/ UNCHANGED Gate!gateVars
<1>1. UNCHANGED <<pc, key, at, reply, now>> /\ SetNX(k)
  BY DEF RedisExecLate, cacheVars, callVars
<1>2. UNCHANGED <<Calls, Sinces, Asked>>
  BY <1>1, NobodyMoves
<1>3. Gate!Held(k) <=> Live(k)
  BY DEF Gate!Held, Gate!Free, Live, Absent
<1> QED
  BY <1>1, <1>2, <1>3 DEF SetNX, Gate!Orphan, Gate!Take, Gate!gateVars

\* Every step of the store is a step of the gate, or none that it can see.
LEMMA StoreStepIsGateStep ==
  ASSUME StoreInv, StoreNext
  PROVE  Gate!GateNext \/ UNCHANGED Gate!gateVars
<1> DEFINE P == Gate!GateNext \/ UNCHANGED Gate!gateVars
<1> USE DEF onlyStoreVars, callVars, redisVars
<1>0. /\ pc \in [Goroutines -> StorePCs] /\ at \in [Goroutines -> Nat]
      /\ key \in [Goroutines -> Keys]
      /\ reply \in [Goroutines -> {"none", "OK", "Nil"}]
  BY DEF StoreInv, StoreTypeOK, StoreDataOK, CacheDataOK
<1>1. ASSUME NEW g \in Goroutines, CacheOnly(g), UNCHANGED onlyStoreVars PROVE P
  <2>1. CASE ContainsLookup(g)
    <3>1. LocalCacheEnabled
      BY <2>1 DEF StoreInv, LookupOnlyWithL1, ContainsLookup
    <3> QED
      BY <1>1, <2>1, <3>1, LookupIsRecall, GateNextIntro
  <2>2. CASE ContainsEvict(g)
    <3>1. /\ pc[g] = "evict" /\ pc'[g] = "miss"
          /\ UNCHANGED <<now, redis, lastBorn, key>>
          /\ \A h \in Goroutines : h # g =>
                pc'[h] = pc[h] /\ at'[h] = at[h] /\ reply'[h] = reply[h]
      BY <1>0, <1>1, <2>2 DEF ContainsEvict, Goto
    <3>2. CallState(g)' = CallState(g)
      BY <3>1 DEF CallState
    <3> QED
      BY <3>1, <3>2, CallSteps
  <2>3. CASE SetWrite(g)
    <3>1. /\ pc[g] = "write" /\ pc'[g] = "stored" /\ reply' = reply
          /\ UNCHANGED <<now, redis, lastBorn, key>>
          /\ \A h \in Goroutines : h # g =>
                pc'[h] = pc[h] /\ at'[h] = at[h] /\ reply'[h] = reply[h]
      BY <1>0, <1>1, <2>3 DEF SetWrite, Goto
    <3>2. CallState(g)' = CallState(g)
      BY <3>1 DEF CallState
    <3> QED
      BY <3>1, <3>2, CallSteps
  <2> QED
    BY <1>1, <2>1, <2>2, <2>3 DEF CacheOnly
<1>2. ASSUME NEW g \in Goroutines, RedisSend(g) PROVE P
  <2>1. /\ pc[g] = "miss" /\ pc'[g] = "sent" /\ UNCHANGED <<now, redis, lastBorn, key>>
        /\ \A h \in Goroutines : h # g =>
              pc'[h] = pc[h] /\ at'[h] = at[h] /\ reply'[h] = reply[h]
    BY <1>0, <1>2 DEF RedisSend, Goto
  <2>2. CallState(g)' = CallState(g)
    BY <2>1 DEF CallState
  <2> QED
    BY <2>1, <2>2, CallSteps
<1>3. ASSUME NEW g \in Goroutines, BackendFails(g) PROVE P
  <2>1. /\ pc[g] = "miss" /\ pc'[g] = "failed" /\ UNCHANGED <<now, redis, lastBorn, key>>
        /\ \A h \in Goroutines : h # g =>
              pc'[h] = pc[h] /\ at'[h] = at[h] /\ reply'[h] = reply[h]
    BY <1>0, <1>3 DEF BackendFails, Goto
  <2>2. Calls[g] = "pending"
    BY <2>1 DEF Calls, CallState
  <2> QED
    BY <2>1, <2>2, CallSteps, GateNextIntro
<1>4. ASSUME NEW g \in Goroutines, RedisExec(g) PROVE P
  BY <1>4, ExecDecides, GateNextIntro
<1>5. ASSUME NEW g \in Goroutines, RedisReply(g) PROVE P
  <2>1. /\ pc[g] = "executed" /\ pc'[g] \in {"write", "answered"} /\ reply' = reply
        /\ UNCHANGED <<now, redis, lastBorn, key>>
        /\ \A h \in Goroutines : h # g =>
              pc'[h] = pc[h] /\ at'[h] = at[h] /\ reply'[h] = reply[h]
    BY <1>0, <1>5 DEF RedisReply, SetCall, Goto
  <2>2. CallState(g)' = CallState(g)
    BY <2>1 DEF CallState
  <2> QED
    BY <2>1, <2>2, CallSteps
<1>6. ASSUME NEW g \in Goroutines, RedisRetry(g) PROVE P
  <2>1. /\ pc[g] \in {"sent", "executed"} /\ pc'[g] = "sent"
        /\ UNCHANGED <<now, redis, lastBorn, key>>
        /\ \A h \in Goroutines : h # g =>
              pc'[h] = pc[h] /\ at'[h] = at[h] /\ reply'[h] = reply[h]
    BY <1>0, <1>6 DEF RedisRetry, Goto
  <2> QED
    BY <2>1, CallSteps, GateNextIntro
<1>7. ASSUME NEW g \in Goroutines, RedisGiveUp(g) PROVE P
  <2>1. /\ pc[g] \in {"sent", "executed"} /\ pc'[g] = "failed"
        /\ UNCHANGED <<now, redis, lastBorn, key>>
        /\ \A h \in Goroutines : h # g =>
              pc'[h] = pc[h] /\ at'[h] = at[h] /\ reply'[h] = reply[h]
    BY <1>0, <1>7 DEF RedisGiveUp, ForgetCall, Goto
  <2>2. Calls[g] \in {"pending", "new", "duplicate"}
    BY <2>1 DEF Calls, CallState
  <2> QED
    BY <2>1, <2>2, CallSteps, GateNextIntro
<1>8. ASSUME NEW g \in Goroutines, EndCall(g),
             pc[g] \in {"hit", "stored", "answered", "failed"}
      PROVE  P
  <2>1. /\ pc'[g] = "idle" /\ key' = [key EXCEPT ![g] = NoArg]
        /\ UNCHANGED <<now, redis, lastBorn>>
        /\ \A h \in Goroutines : h # g =>
              pc'[h] = pc[h] /\ at'[h] = at[h] /\ reply'[h] = reply[h]
    BY <1>0, <1>8 DEF EndCall, ForgetCall, Goto
  <2>2. Calls[g] \in {"new", "duplicate", "error"}
    BY <1>8 DEF Calls, CallState
  <2> QED
    BY <1>8, <2>1, <2>2, CallSteps, GateNextIntro
<1>9. ASSUME NEW g \in Goroutines, ReturnNew(g) \/ ReturnDuplicate(g) \/ ReturnError(g)
      PROVE  P
  BY <1>8, <1>9 DEF ReturnNew, ReturnDuplicate, ReturnError, Answered
<1>10. ASSUME NEW g \in Goroutines, NEW k \in Keys, pc[g] = "idle", IsDuplicateCall(g, k)
       PROVE  P
  BY <1>10, CallIsAsk, GateNextIntro
<1>11. ASSUME NEW c \in Caches, SweepOnly(c), UNCHANGED onlyStoreVars PROVE P
  <2>1. UNCHANGED <<pc, key, at, reply, now, redis, lastBorn>>
    BY <1>11 DEF SweepOnly, SweepTick, SweepShard, SweepStop, Close
  <2> QED
    BY <2>1, NobodyMoves DEF Gate!gateVars
<1>12. ASSUME Tick, UNCHANGED onlyStoreVars PROVE P
  <2>1. UNCHANGED <<pc, key, at, reply, redis, lastBorn>> /\ now' = now + 1
    BY <1>12 DEF Tick
  <2> QED
    BY <2>1, NobodyMoves, GateNextIntro DEF Gate!Elapse
<1>13. ASSUME NEW k \in Keys, RedisExecLate(k) PROVE P
  BY <1>13, LateIsOrphan, GateNextIntro
<1>14. ASSUME RedisLose PROVE P
  <2>1. /\ UNCHANGED <<pc, key, at, reply, now, lastBorn>>
        /\ redis' = [k \in Keys |-> Absent]
    BY <1>14 DEF RedisLose, cacheVars
  <2> QED
    BY <2>1, NobodyMoves, GateNextIntro DEF Gate!Wipe, Gate!Free, Absent
<1> HIDE DEF P
<1>15. P
  BY ONLY StoreNext, StoreCases, <1>1, <1>2, <1>3, <1>4, <1>5, <1>6, <1>7, <1>9,
     <1>10, <1>11, <1>12, <1>13, <1>14
<1> QED
  BY <1>15 DEF P

LEMMA GateInitially == StoreInit => Gate!GateInit
<1>1. StoreInit => Calls = [g \in Goroutines |-> "none"]
  BY DEF StoreInit, CacheInit, Calls, CallState
<1>2. StoreInit => Sinces = [g \in Goroutines |-> 0]
  BY DEF StoreInit, CacheInit, Sinces
<1>3. StoreInit => Asked = [g \in Goroutines |-> Gate!NoKey]
  BY DEF StoreInit, CacheInit, Asked, NoArg, Gate!NoKey
<1> QED
  BY <1>1, <1>2, <1>3 DEF StoreInit, CacheInit, Gate!GateInit, Gate!Free, Absent

LEMMA GateStutter ==
  ASSUME UNCHANGED storeVars
  PROVE  UNCHANGED Gate!gateVars
<1>1. UNCHANGED <<pc, key, at, reply, now, redis, lastBorn>>
  BY DEF storeVars, cacheVars, onlyStoreVars, callVars, redisVars
<1> QED
  BY <1>1, NobodyMoves DEF Gate!gateVars

\* IsDuplicate, called by anybody at any time in any number of instances, is
\* the one abstract gate, for every value of the constants: ImplementsGate.
THEOREM StoreImplementsGate == StoreSpec => ImplementsGate
<1>1. StoreInv /\ [StoreNext]_storeVars => StoreInv'
  BY StoreInvStep, StoreInvStutter
<1>2. StoreInv /\ [StoreNext]_storeVars => [Gate!GateNext]_(Gate!gateVars)
  BY StoreStepIsGateStep, GateStutter
<1> QED
  BY <1>1, <1>2, StoreInvInit, GateInitially, PTL DEF StoreSpec, ImplementsGate, Gate!GateSpec

=============================================================================
