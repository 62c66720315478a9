---------------------------- MODULE ServerProofs ----------------------------
(***************************************************************************)
(* What the process promises for any number of request goroutines, lives,  *)
(* requests and configuration files.                                       *)
(***************************************************************************)
EXTENDS Server, FiniteSetTheorems, TLAPS

\* Every accepted request is running or answered, and where run() is says what
\* may run and how the process may end.
Ledger == phase # "down" => accepted = answered + Cardinality(Handling)

Places ==
    /\ phase \in {"down", "init"} => Handling = {}
    /\ phase \in {"select", "drain"} => storeOpen
    /\ phase \in {"init", "select", "drain"} => exit = "none"
    /\ phase = "return" => exit \in {"clean", "error"}
    /\ phase = "return" /\ exit = "clean" => Handling = {}
    /\ exit = "clean" => answered = accepted

ServerInv == TypeOK /\ Ledger /\ Places

-----------------------------------------------------------------------------

LEMMA HandlingFinite == IsFiniteSet(Handling) /\ Cardinality(Handling) \in Nat
  BY ServerAssumptions, FS_Subset, FS_CardinalityType DEF Handling

LEMMA DefaultLimits ==
  /\ Defaults["shutdown"] > 0 /\ Defaults["window"] > 0
  /\ Defaults["storeTimeout"] > 0 /\ Defaults["maxBody"] > 0 /\ Defaults["pool"] > 0
<1>1. Defaults["shutdown"] = 10000
  BY DEF Defaults
<1>2. Defaults["window"] = 10000
  BY DEF Defaults
<1>3. Defaults["storeTimeout"] = 500
  BY DEF Defaults
<1>4. Defaults["maxBody"] = 65536
  BY DEF Defaults
<1>5. Defaults["pool"] = 100
  BY DEF Defaults
<1> QED
  BY <1>1, <1>2, <1>3, <1>4, <1>5

LEMMA NoneHandling ==
  ASSUME stage = [g \in Goroutines |-> "none"]
  PROVE  Handling = {} /\ Cardinality(Handling) = 0
  BY FS_EmptySet DEF Handling

\* A request moves on inside its handler.
LEMMA MovesKeep ==
  ASSUME ServerInv, NEW g \in Goroutines, stage[g] # "none",
         NEW to \in Stages \ {"none"}, Moves(g, to)
  PROVE  ServerInv'
<1>1. stage \in [Goroutines -> Stages]
  BY DEF ServerInv, TypeOK
<1>2. stage' \in [Goroutines -> Stages] /\ Handling' = Handling
  BY <1>1 DEF Moves, Handling
<1>3. TypeOK'
  BY <1>2 DEF ServerInv, TypeOK, Moves, srvVars
<1> QED
  BY <1>2, <1>3 DEF ServerInv, Moves, Ledger, Places

LEMMA AcceptKeeps ==
  ASSUME ServerInv, NEW g \in Goroutines, Accept(g)
  PROVE  ServerInv'
<1>1. /\ stage \in [Goroutines -> Stages] /\ accepted \in 0..MaxAccepted
      /\ answered \in Nat /\ MaxAccepted \in Nat
  BY ServerAssumptions DEF ServerInv, TypeOK
<1>2. PICK first \in {"ping", "done", "body"} : stage' = [stage EXCEPT ![g] = first]
  BY DEF Accept
<1>3. Handling' = Handling \cup {g} /\ g \notin Handling
  BY <1>1, <1>2 DEF Accept, Handling
<1>4. Cardinality(Handling') = Cardinality(Handling) + 1 /\ Cardinality(Handling) \in Nat
  BY <1>3, HandlingFinite, FS_AddElement
<1>5. stage' \in [Goroutines -> Stages] /\ accepted' \in 0..MaxAccepted
  BY <1>1, <1>2 DEF Accept, Stages
<1>6. TypeOK'
  BY <1>5 DEF ServerInv, TypeOK, Accept, srvVars
<1>7. Ledger'
  BY <1>1, <1>4 DEF ServerInv, Ledger, Accept
<1>8. Places'
  BY DEF ServerInv, Places, Accept
<1> QED
  BY <1>6, <1>7, <1>8 DEF ServerInv

LEMMA AnswerKeeps ==
  ASSUME ServerInv, NEW g \in Goroutines, Answer(g)
  PROVE  ServerInv'
<1>1. /\ stage \in [Goroutines -> Stages] /\ accepted \in 0..MaxAccepted
      /\ answered \in 0..MaxAccepted /\ MaxAccepted \in Nat
  BY ServerAssumptions DEF ServerInv, TypeOK
<1>2. Handling' = Handling \ {g} /\ g \in Handling
  BY <1>1 DEF Answer, Handling
<1>3. Cardinality(Handling') = Cardinality(Handling) - 1 /\ Cardinality(Handling) \in Nat
      /\ Cardinality(Handling') \in Nat
  BY <1>2, HandlingFinite, FS_RemoveElement, FS_CardinalityType
<1>4. phase \notin {"down", "init"} /\ ~(phase = "return" /\ exit = "clean")
  BY <1>2 DEF ServerInv, Places
<1>5. Ledger' /\ answered' \in 0..MaxAccepted
  BY <1>1, <1>3, <1>4 DEF ServerInv, Ledger, Answer
<1>6. stage' \in [Goroutines -> Stages]
  BY <1>1 DEF Answer, Stages
<1>7. TypeOK'
  BY <1>5, <1>6 DEF ServerInv, TypeOK, Answer, srvVars
<1>8. exit' # "clean" /\ phase' = phase /\ exit' = exit /\ storeOpen' = storeOpen
  BY <1>4 DEF ServerInv, TypeOK, Phases, Places, Answer
<1>9. Places'
  BY <1>4, <1>8 DEF ServerInv, Places
<1> QED
  BY <1>5, <1>7, <1>9 DEF ServerInv

\* The process ends: nothing runs any more.  An end called clean has answered
\* everything.
LEMMA GoneKeeps ==
  ASSUME ServerInv, NEW how \in {"clean", "error", "killed"}, Gone(how),
         how = "clean" => answered = accepted
  PROVE  ServerInv'
<1>1. Handling' = {}
  BY DEF Gone, Handling
<1>2. TypeOK'
  <2>1. \A l \in {"shutdown", "window", "storeTimeout", "maxBody", "pool"} : Defaults[l] > 0
    BY DefaultLimits
  <2> QED
    BY <2>1 DEF ServerInv, TypeOK, Gone, Phases, Stages
<1>3. Ledger' /\ Places'
  BY <1>1 DEF Gone, Ledger, Places
<1> QED
  BY <1>2, <1>3 DEF ServerInv

\* A step of the listener, a signal or Redis: nothing the invariant is about.
LEMMA OutsideKeeps ==
  ASSUME ServerInv,
         Listen \/ ListenFails \/ ListenClosed \/ Signal \/ RedisFlips
  PROVE  ServerInv'
<1>1. UNCHANGED <<phase, starts, cfg, store, storeOpen, stage, accepted, answered, exit>>
  BY DEF Listen, ListenFails, ListenClosed, Signal, RedisFlips, reqVars
<1>2. TypeOK'
  <2>1. redisUp' \in BOOLEAN
    BY DEF ServerInv, TypeOK, Listen, ListenFails, ListenClosed, Signal, RedisFlips
  <2>2. bound' \in BOOLEAN /\ quit' \in BOOLEAN
    BY DEF ServerInv, TypeOK, Listen, ListenFails, ListenClosed, Signal, RedisFlips, srvVars
  <2>3. /\ listener' \in {"off", "starting", "serving", "closed"}
        /\ serverErr' \in {"empty", "err", "closed"}
    BY DEF ServerInv, TypeOK, Listen, ListenFails, ListenClosed, Signal, RedisFlips, srvVars
  <2> QED
    BY ONLY ServerInv, <1>1, <2>1, <2>2, <2>3 DEF ServerInv, TypeOK
<1>3. Handling' = Handling
  BY <1>1 DEF Handling
<1> QED
  BY <1>1, <1>2, <1>3 DEF ServerInv, Ledger, Places

\* The supervisor starts a process that was down.
LEMMA StartKeeps ==
  ASSUME ServerInv, NEW file, Start(file) \/ StartRefused(file)
  PROVE  ServerInv'
<1>1. /\ phase = "down" /\ Handling = {} /\ accepted' = 0 /\ answered' = 0
      /\ stage' = stage /\ store' = store /\ exit' \in {"none", "error"}
      /\ phase' \in {"init", "down"} /\ (phase' = "init" => exit' = "none")
      /\ starts' = starts + 1 /\ starts < MaxStarts
      /\ UNCHANGED <<redisUp, storeOpen, listener, bound, serverErr, quit>>
  BY DEF ServerInv, Places, Start, StartRefused, srvVars
<1>2. starts' \in 0..MaxStarts /\ accepted' \in 0..MaxAccepted /\ answered' \in 0..MaxAccepted
  BY <1>1, ServerAssumptions DEF ServerInv, TypeOK
<1>3. \A l \in {"shutdown", "window", "storeTimeout", "maxBody", "pool"} : cfg'[l] > 0
  <2>1. CASE cfg' = cfg
    BY <2>1 DEF ServerInv, TypeOK
  <2>2. CASE Validate(cfg')
    BY <2>2 DEF Validate
  <2> QED
    BY <2>1, <2>2 DEF Start, StartRefused, Loads
<1>4. TypeOK'
  BY <1>1, <1>2, <1>3 DEF ServerInv, TypeOK, Phases
<1>5. Handling' = {} /\ Cardinality({}) = 0
  BY <1>1, FS_EmptySet DEF Handling
<1>6. Ledger' /\ Places'
  BY <1>1, <1>5 DEF Ledger, Places
<1> QED
  BY <1>1, <1>4, <1>6 DEF ServerInv

\* run() goes on with the requests as they are.
LEMMA MainKeeps ==
  ASSUME ServerInv,
         InitStore \/ SelectError \/ SelectQuit \/ DrainDone \/ DrainTimeout \/ CloseStore
  PROVE  ServerInv'
<1>1. UNCHANGED <<starts, cfg, redisUp, stage, accepted, answered>>
  BY DEF InitStore, SelectError, SelectQuit, DrainDone, DrainTimeout, CloseStore, reqVars
<1>2. TypeOK'
  <2>1. /\ phase' \in Phases
        /\ store' \in {"none", "redis", "failing"}
        /\ listener' \in {"off", "starting", "serving", "closed"}
        /\ serverErr' \in {"empty", "err", "closed"}
        /\ exit' \in {"none", "clean", "error", "killed"}
    BY DEF ServerInv, TypeOK, Phases, InitStore, SelectError, SelectQuit, DrainDone,
           DrainTimeout, CloseStore, srvVars
  <2>2. storeOpen' \in BOOLEAN /\ bound' \in BOOLEAN /\ quit' \in BOOLEAN
    BY DEF ServerInv, TypeOK, InitStore, SelectError, SelectQuit, DrainDone, DrainTimeout,
           CloseStore, srvVars
  <2> QED
    BY ONLY ServerInv, <1>1, <2>1, <2>2 DEF ServerInv, TypeOK
<1>3. Handling' = Handling
  BY <1>1 DEF Handling
<1>4. phase # "down" /\ Ledger'
  BY <1>1, <1>3
  DEF ServerInv, Ledger, InitStore, SelectError, SelectQuit, DrainDone, DrainTimeout,
      CloseStore
<1>5. Places'
  <2>1. CASE InitStore \/ SelectError \/ SelectQuit \/ DrainTimeout \/ CloseStore
    BY <1>1, <1>3, <2>1
    DEF ServerInv, Places, InitStore, SelectError, SelectQuit, DrainTimeout, CloseStore
  <2>2. CASE DrainDone
    <3>1. Handling = {} /\ Cardinality({}) = 0
      BY <2>2, FS_EmptySet DEF DrainDone
    <3>2. accepted = answered
      BY <1>4, <3>1 DEF ServerInv, TypeOK, Ledger
    <3> QED
      BY <1>1, <1>3, <2>2, <3>1, <3>2 DEF ServerInv, Places, DrainDone
  <2> QED
    BY <2>1, <2>2
<1> QED
  BY <1>2, <1>4, <1>5 DEF ServerInv

-----------------------------------------------------------------------------

LEMMA ServerInvStep ==
  ASSUME ServerInv, [Next]_vars
  PROVE  ServerInv'
<1>1. ASSUME NEW file, Start(file) \/ StartRefused(file) PROVE ServerInv'
  BY <1>1, StartKeeps
<1>2. CASE SetupFails \/ SignalEarly \/ InitRefused
  BY <1>2, GoneKeeps DEF SetupFails, SignalEarly, InitRefused
<1>3. CASE Exit
  BY <1>3, GoneKeeps DEF Exit, ServerInv, Places
<1>4. CASE InitStore \/ SelectError \/ SelectQuit \/ DrainDone \/ DrainTimeout \/ CloseStore
  BY <1>4, MainKeeps
<1>5. CASE Listen \/ ListenFails \/ ListenClosed \/ Signal \/ RedisFlips
  BY <1>5, OutsideKeeps
<1>6. ASSUME NEW g \in Goroutines, Accept(g) \/ Answer(g) PROVE ServerInv'
  BY <1>6, AcceptKeeps, AnswerKeeps
<1>7. ASSUME NEW g \in Goroutines,
             \/ BodyArrives(g) \/ BodyTimesOut(g)
             \/ StoreAnswers(g) \/ StoreFails(g)
             \/ PingAnswers(g) \/ PingFails(g)
      PROVE  ServerInv'
  <2>1. PICK to \in {"store", "done", "healthy", "unhealthy"} :
           Moves(g, to) /\ stage[g] # "none"
    BY <1>7 DEF BodyArrives, BodyTimesOut, StoreAnswers, StoreFails, PingAnswers, PingFails,
                Connected, Ping
  <2> QED
    BY <2>1, MovesKeep DEF Stages
<1>8. CASE UNCHANGED vars
  <2>1. Handling' = Handling
    BY <1>8 DEF vars, reqVars, Handling
  <2> QED
    BY <1>8, <2>1
    DEF vars, srvVars, reqVars, ServerInv, TypeOK, Ledger, Places
<1> HIDE DEF ServerInv
<1> QED
  BY <1>1, <1>2, <1>3, <1>4, <1>5, <1>6, <1>7, <1>8 DEF Next, MainStep, RequestStep

LEMMA ServerInvariant == Spec => []ServerInv
<1>1. Init => ServerInv
  <2> SUFFICES ASSUME Init PROVE ServerInv
    OBVIOUS
  <2>1. TypeOK
    <3>1. \A l \in {"shutdown", "window", "storeTimeout", "maxBody", "pool"} : cfg[l] > 0
      BY DefaultLimits DEF Init
    <3>2. /\ 0 \in 0..MaxStarts /\ 0 \in 0..MaxAccepted
      BY ServerAssumptions
    <3> QED
      BY <3>1, <3>2 DEF Init, TypeOK, Phases, Stages
  <2>2. Handling = {}
    BY DEF Init, Handling
  <2> QED
    BY <2>1, <2>2 DEF Init, ServerInv, Ledger, Places
<1> QED
  BY <1>1, ServerInvStep, PTL DEF Spec

\* The variables of the process keep their types, and it only ever runs with
\* positive limits: TypeOK.
THEOREM ServerTypeCorrect == Spec => []TypeOK
  BY ServerInvariant, PTL DEF ServerInv

\* The deferred closeStore never closes the store under a running handler,
\* except after a drain that timed out or a listener that failed:
\* StoreOutlivesHandlers.
THEOREM ServerStoreOutlives == Spec => []StoreOutlivesHandlers
<1>1. ServerInv => StoreOutlivesHandlers
  BY DEF ServerInv, TypeOK, Phases, Places, StoreOutlivesHandlers
<1> QED
  BY <1>1, ServerInvariant, PTL

\* A process that exits cleanly has answered every request it accepted:
\* CleanExitLosesNothing.
THEOREM ServerCleanExit == Spec => []CleanExitLosesNothing
<1>1. ServerInv => CleanExitLosesNothing
  BY DEF ServerInv, Places, CleanExitLosesNothing
<1> QED
  BY <1>1, ServerInvariant, PTL

=============================================================================
