------------------------------- MODULE Server -------------------------------
(***************************************************************************)
(* The life of the process in cmd/server/main.go: choosing the store at    *)
(* startup, listening, signals, graceful shutdown with its timeout, the    *)
(* deferred close of the store, exit, and a new start by the supervisor.   *)
(*                                                                         *)
(* Requests are goroutines in a stage of their handler: waiting for the    *)
(* body or for the store (the dedup handler, in detail in XAccelDedup) or  *)
(* for the ping of /healthz.  Whether such a wait is sure to end depends   *)
(* on the timeouts of the configuration.  Handlers go on running while     *)
(* main drains, gives up draining and closes the store, until the process  *)
(* exits.                                                                  *)
(***************************************************************************)
EXTENDS Config, FiniteSets

CONSTANTS
    Goroutines,  \* request goroutines of the HTTP server
    Files,       \* configuration files the process may find
    MaxStarts,   \* bound on starts by the supervisor
    MaxAccepted  \* bound on requests in one life of the process

ASSUME ServerAssumptions ==
    /\ IsFiniteSet(Goroutines)
    /\ MaxStarts \in Nat
    /\ MaxAccepted \in Nat

VARIABLES
    phase,      \* where run() is
    starts,     \* starts so far
    cfg,        \* the configuration of this life
    redisUp,    \* Redis is reachable
    store,      \* what initStore returned
    storeOpen,  \* closeStore has not run yet
    listener,   \* the goroutine around ListenAndServe
    bound,      \* the address was bound: clients may hold open connections
    serverErr,  \* its error channel: "empty", "err" or "closed"
    quit,       \* a signal waits in the channel of size one
    stage,      \* where each request goroutine is, "none" outside any handler
    accepted,   \* requests accepted in this life
    answered,   \* requests answered in this life
    exit        \* how the last life ended

srvVars == <<listener, bound, serverErr, quit>>
reqVars == <<stage, accepted, answered>>
vars == <<phase, starts, cfg, redisUp, store, storeOpen, srvVars, reqVars, exit>>

Stages == {"none", "body", "store", "ping", "healthy", "unhealthy", "done"}

\* Goroutines running a handler.
Handling == {g \in Goroutines : stage[g] # "none"}

Phases == {"down", "init", "select", "drain", "return"}

\* Type invariant of the process; it runs with limits that make sense.
TypeOK ==
    /\ phase \in Phases
    /\ starts \in 0..MaxStarts
    /\ \A l \in {"shutdown", "window", "storeTimeout", "maxBody", "pool"} : cfg[l] > 0
    /\ redisUp \in BOOLEAN
    /\ store \in {"none", "redis", "failing"}
    /\ storeOpen \in BOOLEAN
    /\ listener \in {"off", "starting", "serving", "closed"}
    /\ bound \in BOOLEAN
    /\ serverErr \in {"empty", "err", "closed"}
    /\ quit \in BOOLEAN
    /\ stage \in [Goroutines -> Stages]
    /\ accepted \in 0..MaxAccepted
    /\ answered \in 0..MaxAccepted
    /\ exit \in {"none", "clean", "error", "killed"}

Init ==
    /\ phase = "down"
    /\ starts = 0
    /\ cfg = Defaults
    /\ redisUp \in BOOLEAN
    /\ store = "none"
    /\ storeOpen = FALSE
    /\ listener = "off"
    /\ bound = FALSE
    /\ serverErr = "empty"
    /\ quit = FALSE
    /\ stage = [g \in Goroutines |-> "none"]
    /\ accepted = 0
    /\ answered = 0
    /\ exit = "none"

-----------------------------------------------------------------------------
(* Startup *)

\* The supervisor starts the process, which loads the configuration it finds.
Start(file) ==
    /\ phase = "down"
    /\ starts < MaxStarts
    /\ Loads(file)
    /\ starts' = starts + 1
    /\ cfg' = Settings(file)
    /\ phase' = "init"
    /\ accepted' = 0
    /\ answered' = 0
    /\ exit' = "none"
    /\ UNCHANGED <<redisUp, store, storeOpen, srvVars, stage>>

\* config.Load returns an error: nothing is served.
StartRefused(file) ==
    /\ phase = "down"
    /\ starts < MaxStarts
    /\ ~Loads(file)
    /\ starts' = starts + 1
    /\ accepted' = 0
    /\ answered' = 0
    /\ exit' = "error"
    /\ UNCHANGED <<phase, cfg, redisUp, store, storeOpen, srvVars, stage>>

\* The process is gone, and everything that ran in it.
Gone(how) ==
    /\ phase' = "down"
    /\ exit' = how
    /\ cfg' = Defaults
    /\ store' = "none"
    /\ storeOpen' = FALSE
    /\ listener' = "off"
    /\ bound' = FALSE
    /\ serverErr' = "empty"
    /\ quit' = FALSE
    /\ stage' = [g \in Goroutines |-> "none"]
    /\ UNCHANGED <<starts, redisUp, accepted, answered>>

\* The log directory cannot be made.
SetupFails == phase = "init" /\ Gone("error")

\* The ping of NewRedis.
FirstPing == redisUp /\ CanDial(cfg)

\* initStore when the first ping succeeds, or fails and failing open is
\* allowed; then the router, signal.Notify and the server goroutine.
InitStore ==
    /\ phase = "init"
    /\ FirstPing \/ cfg.failOpen
    /\ store' = IF FirstPing THEN "redis" ELSE "failing"
    /\ storeOpen' = TRUE
    /\ listener' = "starting"
    /\ phase' = "select"
    /\ UNCHANGED <<starts, cfg, redisUp, bound, serverErr, quit, reqVars, exit>>

\* initStore without Redis in fail-closed mode: refuse to start.
InitRefused ==
    /\ phase = "init"
    /\ ~FirstPing /\ ~cfg.failOpen
    /\ Gone("error")

\* Before signal.Notify the default action of a signal ends the process.
SignalEarly == phase = "init" /\ Gone("killed")

-----------------------------------------------------------------------------
(* The server goroutine and the requests *)

\* ListenAndServe binds its address.
Listen ==
    /\ listener = "starting"
    /\ phase = "select"
    /\ listener' = "serving"
    /\ bound' = TRUE
    /\ UNCHANGED <<phase, starts, cfg, redisUp, store, storeOpen, serverErr, quit,
                   reqVars, exit>>

\* ListenAndServe fails with an error other than ErrServerClosed.
ListenFails ==
    /\ listener \in {"starting", "serving"}
    /\ phase = "select"
    /\ listener' = "closed"
    /\ serverErr' = "err"
    /\ UNCHANGED <<phase, starts, cfg, redisUp, store, storeOpen, bound, quit, reqVars, exit>>

\* ListenAndServe returns ErrServerClosed once Shutdown has been called, even
\* before it had bound its address; the channel is closed without an error.
ListenClosed ==
    /\ listener \in {"starting", "serving"}
    /\ phase \in {"drain", "return"}
    /\ listener' = "closed"
    /\ serverErr' = "closed"
    /\ UNCHANGED <<phase, starts, cfg, redisUp, store, storeOpen, bound, quit, reqVars, exit>>

\* What a request does next, and nothing else.
Moves(g, to) ==
    /\ stage' = [stage EXCEPT ![g] = to]
    /\ UNCHANGED <<phase, starts, cfg, redisUp, store, storeOpen, srvVars, accepted,
                   answered, exit>>

\* A request reaches its handler, also on a connection that was open before
\* Shutdown began, or that nobody shuts down because run() returned an error.
\* It is a probe, a request whose method is excluded, or one with a body.
Accept(g) ==
    /\ bound
    /\ phase \in {"select", "drain"} \/ (phase = "return" /\ exit = "error")
    /\ stage[g] = "none"
    /\ accepted < MaxAccepted
    /\ \E first \in {"ping", "done", "body"} : stage' = [stage EXCEPT ![g] = first]
    /\ accepted' = accepted + 1
    /\ UNCHANGED <<phase, starts, cfg, redisUp, store, storeOpen, srvVars, answered, exit>>

\* The client has sent its body, and the store is asked.
BodyArrives(g) == stage[g] = "body" /\ Moves(g, "store")

\* Fault variant: the server is made without a read timeout.
BodyNeverTimesOut(g) == FALSE /\ stage[g] = "body" /\ Moves(g, "done")

\* The server's read timeout ends the wait for the body.
BodyTimesOut(g) ==
    /\ stage[g] = "body"
    /\ ServerReadTimeout(cfg) > 0
    /\ Moves(g, "done")

\* The client is connected to a Redis that may answer.
Connected == store = "redis" /\ storeOpen

StoreAnswers(g) == stage[g] = "store" /\ Connected /\ redisUp /\ Moves(g, "done")

\* A failing or closed store returns at once, a silent Redis after a timeout.
StoreFails(g) ==
    /\ stage[g] = "store"
    /\ ~Connected \/ ClientReads(cfg)
    /\ Moves(g, "done")

\* Ping of the store: a failing store returns its error, a closed client too.
Ping == Connected /\ redisUp

\* /healthz: the store's Ping succeeds, and the response will be 200.
PingAnswers(g) == stage[g] = "ping" /\ Ping /\ Moves(g, "healthy")

\* /healthz: the store's Ping fails, and the response will be 503.
PingFails(g) ==
    /\ stage[g] = "ping"
    /\ ~Connected \/ ClientReads(cfg)
    /\ Moves(g, "unhealthy")

\* The handler returns and the response is written.
Answer(g) ==
    /\ stage[g] \in {"healthy", "unhealthy", "done"}
    /\ stage' = [stage EXCEPT ![g] = "none"]
    /\ answered' = answered + 1
    /\ UNCHANGED <<phase, starts, cfg, redisUp, store, storeOpen, srvVars, accepted, exit>>

-----------------------------------------------------------------------------
(* Shutdown *)

\* A signal after signal.Notify; one more than fits in the channel is dropped.
Signal ==
    /\ phase \in {"select", "drain", "return"}
    /\ quit' = TRUE
    /\ UNCHANGED <<phase, starts, cfg, redisUp, store, storeOpen, listener, bound,
                   serverErr, reqVars, exit>>

\* The select of run() takes the error of the server: return it.
SelectError ==
    /\ phase = "select"
    /\ serverErr = "err"
    /\ serverErr' = "closed"
    /\ phase' = "return"
    /\ exit' = "error"
    /\ UNCHANGED <<starts, cfg, redisUp, store, storeOpen, listener, bound, quit, reqVars>>

\* The select takes the signal: srv.Shutdown begins to drain.
SelectQuit ==
    /\ phase = "select"
    /\ quit
    /\ quit' = FALSE
    /\ phase' = "drain"
    /\ UNCHANGED <<starts, cfg, redisUp, store, storeOpen, listener, bound, serverErr,
                   reqVars, exit>>

\* Fault variant: Shutdown does not wait for the handlers.
DrainDoneAtOnce ==
    /\ phase = "drain"
    /\ phase' = "return"
    /\ exit' = "clean"
    /\ UNCHANGED <<starts, cfg, redisUp, store, storeOpen, srvVars, reqVars>>

\* Shutdown returns when no handler runs any more.
DrainDone ==
    /\ phase = "drain"
    /\ Handling = {}
    /\ phase' = "return"
    /\ exit' = "clean"
    /\ UNCHANGED <<starts, cfg, redisUp, store, storeOpen, srvVars, reqVars>>

\* Fault variant: Shutdown without a timeout.
DrainForEver == FALSE /\ UNCHANGED vars

\* ShutdownTimeout passes first: an error, handlers possibly still running.
DrainTimeout ==
    /\ phase = "drain"
    /\ phase' = "return"
    /\ exit' = "error"
    /\ UNCHANGED <<starts, cfg, redisUp, store, storeOpen, srvVars, reqVars>>

\* The deferred closeStore.
CloseStore ==
    /\ phase = "return"
    /\ storeOpen
    /\ storeOpen' = FALSE
    /\ UNCHANGED <<phase, starts, cfg, redisUp, store, srvVars, reqVars, exit>>

\* run() has returned and main exits.
Exit == phase = "return" /\ ~storeOpen /\ Gone(exit)

-----------------------------------------------------------------------------

\* Redis goes away or comes back.
RedisFlips ==
    /\ redisUp' = ~redisUp
    /\ UNCHANGED <<phase, starts, cfg, store, storeOpen, srvVars, reqVars, exit>>

\* What run() does by itself once a signal or an error is there.
MainStep ==
    \/ InitStore \/ InitRefused
    \/ SelectError \/ SelectQuit
    \/ DrainDone \/ DrainTimeout
    \/ CloseStore \/ Exit

\* What a request does by itself, whatever its client and Redis do.
RequestStep(g) == BodyTimesOut(g) \/ StoreFails(g) \/ PingFails(g) \/ Answer(g)

Next ==
    \/ \E file \in Files : Start(file) \/ StartRefused(file)
    \/ SetupFails \/ SignalEarly \/ MainStep
    \/ Listen \/ ListenFails \/ ListenClosed
    \/ \E g \in Goroutines :
          \/ Accept(g) \/ BodyArrives(g) \/ StoreAnswers(g) \/ PingAnswers(g)
          \/ RequestStep(g)
    \/ Signal \/ RedisFlips

Spec == Init /\ [][Next]_vars

\* main runs, the shutdown timeout fires and so do the timeouts that are
\* configured.  Clients and Redis may stay silent for ever.
FairSpec ==
    /\ Spec
    /\ WF_vars(MainStep)
    /\ \A g \in Goroutines : WF_vars(RequestStep(g))

-----------------------------------------------------------------------------
(* Properties *)

\* While main drains, and after a drain that succeeded, the store is never
\* closed under a running handler; the one exception is the drain timeout or a
\* failed listener, after which the exit is an error.
StoreOutlivesHandlers ==
    Handling # {} /\ ~storeOpen => phase = "return" /\ exit = "error"

\* A clean exit has answered every request it accepted.
CleanExitLosesNothing == exit = "clean" => answered = accepted

\* The docs' reading of /healthz, 200 when Redis is reachable: a probe fails only
\* while Redis is out of reach, or because the client had a connection and got no
\* answer in time.
HealthyWhenReachable ==
    [][\A g \in Goroutines :
          stage[g] = "ping" /\ stage'[g] = "unhealthy" => ~redisUp \/ Connected]_vars

\* A signal that run() has taken leads to the end of the process, even when a
\* handler hangs for ever and whatever Redis and the timeouts that validate does
\* not look at are.
ShutdownCompletes == phase = "drain" ~> phase = "down"

\* No request hangs, however silent its client and Redis are, provided that the
\* Redis read timeout, which is also what the server's read timeout is made of,
\* is positive.  validate does not ask for that.
RequestsEnd ==
    \A g \in Goroutines : (stage[g] # "none" /\ cfg.read > 0) ~> stage[g] = "none"

=============================================================================
