---------------------------- MODULE FleetProofs -----------------------------
(***************************************************************************)
(* The promises of the store survive restarts of the instances, and the    *)
(* fleet implements DedupGate, for every value of the constants.           *)
(***************************************************************************)
EXTENDS Fleet, CachedStoreProofs

LEMMA ResetValue ==
  ASSUME NEW f, NEW c, NEW v, NEW g \in Goroutines
  PROVE  Reset(f, c, v)[g] = IF cacheOf[g] = c THEN v ELSE f[g]
  BY DEF Reset

LEMMA ResetType ==
  ASSUME NEW S, NEW f \in [Goroutines -> S], NEW c, NEW v \in S
  PROVE  Reset(f, c, v) \in [Goroutines -> S]
  BY DEF Reset

LEMMA RestartTypes ==
  ASSUME StoreTypeOK, NEW c \in Caches, Restart(c)
  PROVE  StoreTypeOK'
<1> USE DEF StoreTypeOK
<1>0. Absent \in Expiry /\ NoArg \in Keys /\ 0 \in Nat /\ "idle" \in StorePCs
  BY NoArgType DEF Expiry, StorePCs, CachePCs
<1>1. /\ pc' \in [Goroutines -> StorePCs]
      /\ key' \in [Goroutines -> Keys]
      /\ at' \in [Goroutines -> Nat]
      /\ attempt' \in [Goroutines -> Nat]
      /\ sent' \in [Goroutines -> Nat]
      /\ reply' \in [Goroutines -> {"none", "OK", "Nil"}]
      /\ born' \in [Goroutines -> Expiry]
      /\ bornEpoch' \in [Goroutines -> Nat]
  BY <1>0, ResetType DEF Restart, DropCalls, CacheDataOK, StoreDataOK
<1>2. late' \in [Keys -> Nat]
  BY StoreAssumptions DEF Restart, DropCalls
<1>3. data' \in [Caches -> [Keys -> Expiry]]
  BY <1>0 DEF Restart, CacheDataOK
<1>4. CacheDataOK'
  BY <1>1, <1>3, CacheAssumptions DEF Restart, CacheDataOK, lenVars
<1>5. StoreDataOK'
  BY <1>1, <1>2 DEF Restart, StoreDataOK
<1> QED
  BY <1>1, <1>4, <1>5

LEMMA RestartAdmit ==
  ASSUME StoreTypeOK, AdmitInv, NEW c \in Caches, Restart(c)
  PROVE  AdmitInv'
<1>1. \A g \in Goroutines :
         IF cacheOf[g] = c THEN reply'[g] = "none"
         ELSE /\ reply'[g] = reply[g] /\ pc'[g] = pc[g] /\ key'[g] = key[g]
              /\ born'[g] = born[g] /\ bornEpoch'[g] = bornEpoch[g]
  BY ResetValue DEF Restart, DropCalls
<1>2. RepliesPlaced'
  BY <1>1 DEF AdmitInv, RepliesPlaced
<1>3. UNCHANGED <<grants, redis, epoch>>
  BY DEF Restart
<1> QED
  BY <1>1, <1>2, <1>3, AdmitFrame DEF TokenOf

LEMMA RestartBlock ==
  ASSUME StoreTypeOK, BlockInv, NEW c \in Caches, Restart(c)
  PROVE  BlockInv'
<1>1. \A g \in Goroutines :
         IF cacheOf[g] = c THEN pc'[g] = "idle" /\ sent'[g] = 0
         ELSE /\ pc'[g] = pc[g] /\ key'[g] = key[g]
              /\ at'[g] = at[g] /\ sent'[g] = sent[g]
  BY ResetValue DEF Restart, DropCalls
<1>2. \A d \in Caches, k \in Keys : data'[d][k] = data[d][k] \/ data'[d][k] = Absent
  <2>1. data \in [Caches -> [Keys -> Expiry]]
    BY DEF StoreTypeOK, CacheDataOK
  <2>2. data' = [data EXCEPT ![c] = [k \in Keys |-> Absent]]
    BY DEF Restart
  <2> QED
    BY ONLY <2>1, <2>2
<1>3. UNCHANGED <<now, redis, lastBorn>>
  BY DEF Restart
<1>4. BlockBound'
  BY <1>2, <1>3 DEF BlockInv, BlockBound
<1>5. 0 <= now
  BY BlockTypes
<1> QED
  BY <1>1, <1>3, <1>4, <1>5 DEF BlockInv, Horizon

-----------------------------------------------------------------------------

LEMMA FleetInvariant == FleetSpec => []StoreInv
<1>1. FleetInit => StoreInv
  BY StoreInvInit DEF FleetInit
<1>2. StoreInv /\ [FleetNext]_fleetVars => StoreInv'
  <2>1. ASSUME StoreInv, NEW c \in Caches, Restart(c) PROVE StoreInv'
    <3>1. LookupOnlyWithL1'
      BY <2>1, ResetValue DEF StoreInv, LookupOnlyWithL1, Restart, DropCalls
    <3> QED
      BY <2>1, <3>1, RestartTypes, RestartAdmit, RestartBlock DEF StoreInv
  <2> QED
    BY <2>1, StoreInvStep, StoreInvStutter DEF FleetNext, fleetVars
<1> QED
  BY <1>1, <1>2, PTL DEF FleetSpec

\* The store keeps its types when instances come and go: StoreTypeOK.
THEOREM FleetTypeCorrect == FleetSpec => []StoreTypeOK
<1>1. StoreInv => StoreTypeOK
  BY DEF StoreInv
<1> QED
  BY <1>1, FleetInvariant, PTL

\* A key is admitted at most once per Redis TTL although instances die between
\* creating a key and answering, and come back with an empty L1 cache:
\* NoDoubleAdmit.
THEOREM FleetAdmitsOnce == FleetSpec => NoDoubleAdmit
<1> DEFINE Apart == \A g \in Goroutines :
              ReturnNew(g) => \A s \in grants : ~Conflict(s, TokenOf(g))
<1>1. StoreInv /\ [FleetNext]_fleetVars => [Apart]_storeVars
  BY DEF StoreInv, AdmitInv, ReturnNew
<1> QED
  BY <1>1, FleetInvariant, PTL DEF FleetSpec, NoDoubleAdmit

\* Restarts do not make a block longer: BlockBound.
THEOREM FleetBlockBounded == FleetSpec => []BlockBound
<1>1. StoreInv => BlockBound
  BY DEF StoreInv, BlockInv
<1> QED
  BY <1>1, FleetInvariant, PTL

-----------------------------------------------------------------------------
(* Refinement *)

\* An instance that dies takes its callers with it, and no key.
LEMMA RestartIsCrash ==
  ASSUME NEW c \in Caches, Restart(c)
  PROVE  Gate!Crash({g \in Goroutines : cacheOf[g] = c})
<1> DEFINE S == {g \in Goroutines : cacheOf[g] = c}
<1>1. UNCHANGED <<now, redis, lastBorn>>
  BY DEF Restart
<1>2. \A g \in Goroutines :
         IF g \in S THEN pc'[g] = "idle"
         ELSE pc'[g] = pc[g] /\ at'[g] = at[g] /\ reply'[g] = reply[g]
  <2>1. /\ pc' = Reset(pc, c, "idle")
        /\ at' = Reset(at, c, 0)
        /\ reply' = Reset(reply, c, "none")
    BY DEF Restart, DropCalls
  <2> QED
    BY ONLY <2>1, ResetValue DEF S
<1>3. \A g \in Goroutines : CallState(g)' = IF g \in S THEN "none" ELSE CallState(g)
  BY <1>2 DEF CallState
<1>4. Calls' = [g \in Goroutines |-> IF g \in S THEN "none" ELSE Calls[g]]
  BY <1>3 DEF Calls
<1>5. Sinces' = [g \in Goroutines |-> IF g \in S THEN 0 ELSE Sinces[g]]
  BY <1>2 DEF Sinces
<1>6. Asked' = [g \in Goroutines |-> IF g \in S THEN Gate!NoKey ELSE Asked[g]]
  <2>1. \A g \in Goroutines : key'[g] = IF g \in S THEN NoArg ELSE key[g]
    BY ResetValue DEF Restart, DropCalls
  <2>2. NoArg = Gate!NoKey
    BY ONLY DEF NoArg, Gate!NoKey
  <2> QED
    BY <1>3, <2>1, <2>2 DEF Asked
<1> QED
  BY <1>1, <1>4, <1>5, <1>6 DEF Gate!Crash

\* For any number of instances, goroutines, keys, retries, losses and restarts,
\* what the fleet does is what the one abstract gate may do: ImplementsGate.
THEOREM FleetImplementsGate == FleetSpec => ImplementsGate
<1>1. FleetInit => Gate!GateInit
  BY GateInitially DEF FleetInit
<1>2. StoreInv /\ [FleetNext]_fleetVars => [Gate!GateNext]_(Gate!gateVars)
  <2>1. ASSUME NEW c \in Caches, Restart(c) PROVE Gate!GateNext
    BY <2>1, RestartIsCrash, GateNextIntro
  <2> QED
    BY <2>1, StoreStepIsGateStep, GateStutter DEF FleetNext, fleetVars
<1> QED
  BY <1>1, <1>2, FleetInvariant, PTL DEF FleetSpec, ImplementsGate, Gate!GateSpec

=============================================================================
