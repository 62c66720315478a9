---------------------------- MODULE XAccelDedup -----------------------------
(***************************************************************************)
(* The request handler of internal/handler/xaccel.go on top of the store:  *)
(* method exclusion, reading and fingerprinting the body, the store call,  *)
(* the fail-open or fail-closed verdict, the dedup_checks_total counters.  *)
(*                                                                         *)
(* A request is abstracted to its method and the key its fingerprint       *)
(* yields.  The verdict, its counter and the response are one step with    *)
(* the return of the store call: nothing in between blocks or is shared.   *)
(***************************************************************************)
EXTENDS CachedStore

CONSTANTS
    Texts,           \* method names as anybody may write them
    Methods,         \* those a request may have
    upper,           \* strings.ToUpper
    trim,            \* strings.TrimSpace
    ExcludeMethods,  \* dedup.exclude_methods, as written in the file
    MaxRequests      \* bound on requests

ASSUME HandlerAssumptions ==
    /\ IsFiniteSet(Goroutines)
    /\ upper \in [Texts -> Texts]
    /\ trim \in [Texts -> Texts]
    /\ ExcludeMethods \subseteq Texts
    /\ Methods \subseteq Texts
    /\ MaxRequests \in Nat

VARIABLES
    failOpen,  \* cfg.FailOpen, fixed when the process starts
    arrived,   \* requests that entered Handle
    checks,    \* dedup_checks_total, by outcome
    responses  \* responses written, by kind

handlerVars == <<failOpen, arrived, checks, responses>>
vars == <<storeVars, handlerVars>>

Outcomes == {"excluded", "allowed", "duplicate", "error"}

Kinds == {"redirect", "conflict", "error500"}

\* Type invariant of the handler.
TypeOK ==
    /\ StoreTypeOK
    /\ failOpen \in BOOLEAN
    /\ arrived \in 0..MaxRequests
    /\ checks \in [Outcomes -> Nat]
    /\ responses \in [Kinds -> Nat]

\* initStore: without Redis the service starts only when it may fail open.
Init ==
    /\ StoreInit
    /\ failOpen \in BOOLEAN
    /\ failOpen \/ backend = [c \in Caches |-> "redis"]
    /\ arrived = 0
    /\ checks = [o \in Outcomes |-> 0]
    /\ responses = [r \in Kinds |-> 0]

-----------------------------------------------------------------------------

\* Load's normalisation: upper case, trimmed, blanks dropped.
Normalised == {trim[upper[m]] : m \in ExcludeMethods} \ {""}

\* BuildExcludeSet and IsMethodExcluded: compared in upper case.
IsMethodExcluded(m) == upper[m] \in {upper[x] : x \in Normalised}

\* A verdict: its counter and its response.
Respond(outcome, kind) ==
    /\ checks' = [checks EXCEPT ![outcome] = @ + 1]
    /\ responses' = [responses EXCEPT ![kind] = @ + 1]

\* Fault variant: the switch ignored.
StoreErrKindOpen == "redirect"

\* handleStoreErr
StoreErrKind == IF failOpen THEN "redirect" ELSE "error500"

\* Handle for an excluded method: redirected without a look at the store.
HandleExcluded(g, m) ==
    /\ pc[g] = "idle"
    /\ arrived < MaxRequests
    /\ IsMethodExcluded(m)
    /\ arrived' = arrived + 1
    /\ Respond("excluded", "redirect")
    /\ UNCHANGED <<storeVars, failOpen>>

\* Handle for any other method: the body is being read and hashed.
HandleChecked(g, m, k) ==
    /\ pc[g] = "idle"
    /\ arrived < MaxRequests
    /\ ~IsMethodExcluded(m)
    /\ arrived' = arrived + 1
    /\ Goto(g, "body")
    /\ key' = [key EXCEPT ![g] = k]
    /\ UNCHANGED <<now, data, at, lenVars, done, sweepVars, onlyStoreVars,
                   failOpen, checks, responses>>

\* The body is read to its end and the store is asked.
BodyRead(g) ==
    /\ pc[g] = "body"
    /\ IsDuplicateCall(g, key[g])
    /\ UNCHANGED handlerVars

\* Fault variant: the outcome is not counted.
BodyFailsUncounted(g) ==
    /\ pc[g] = "body"
    /\ responses' = [responses EXCEPT ![StoreErrKind] = @ + 1]
    /\ EndCall(g)
    /\ UNCHANGED <<grants, failOpen, arrived, checks>>

\* Reading the body fails: treated like an error of the store.
BodyFails(g) ==
    /\ pc[g] = "body"
    /\ Respond("error", StoreErrKind)
    /\ EndCall(g)
    /\ UNCHANGED <<grants, failOpen, arrived>>

Allow(g) ==
    /\ ReturnNew(g)
    /\ Respond("allowed", "redirect")
    /\ UNCHANGED <<failOpen, arrived>>

Reject(g) ==
    /\ ReturnDuplicate(g)
    /\ Respond("duplicate", "conflict")
    /\ UNCHANGED <<failOpen, arrived>>

StoreErr(g) ==
    /\ ReturnError(g)
    /\ Respond("error", StoreErrKind)
    /\ UNCHANGED <<failOpen, arrived>>

-----------------------------------------------------------------------------

\* Steps of a goroutine inside Handle that wait for nobody without a deadline.
HandlerStep(g) ==
    \/ BodyRead(g) \/ BodyFails(g)
    \/ StoreStep(g) /\ UNCHANGED handlerVars
    \/ Allow(g) \/ Reject(g) \/ StoreErr(g)

InFlight == {g \in Goroutines : pc[g] # "idle"}

\* With no request in flight the server may wait for ever; with one it may not.
Waiting == InFlight = {} /\ UNCHANGED vars

Next ==
    \/ \E g \in Goroutines :
          \/ \E m \in Methods : HandleExcluded(g, m)
          \/ \E m \in Methods, k \in Keys : HandleChecked(g, m, k)
          \/ HandlerStep(g)
          \/ RedisExec(g) /\ UNCHANGED handlerVars
    \/ StoreBackground /\ UNCHANGED handlerVars
    \/ Waiting

Spec == Init /\ [][Next]_vars

\* Goroutines run, the I/O deadlines of the client end every wait for Redis and
\* the server's read timeout ends the wait for a body.  Nothing is assumed of
\* Redis, the network or the clock.
Fairness == \A g \in Goroutines : WF_vars(HandlerStep(g))

FairSpec == Spec /\ Fairness

-----------------------------------------------------------------------------
(* Properties *)

\* dedup_checks_total accounts for every request: each one that entered Handle
\* is either still in flight or counted under exactly one outcome.
OutcomesAccounted ==
    arrived = checks["excluded"] + checks["allowed"] + checks["duplicate"]
              + checks["error"] + Cardinality(InFlight)

\* What reaches the upstream is exactly: excluded requests, one request for
\* each distinct key creation in Redis, and, only when failing open, requests
\* that could not be checked.  No creation lets two requests through.
ForwardedAreBacked ==
    responses["redirect"] = checks["excluded"] + Cardinality(grants)
                            + (IF failOpen THEN checks["error"] ELSE 0)

\* Every request gets its response, with Redis answering or not.
EveryRequestAnswered == \A g \in Goroutines : pc[g] # "idle" ~> pc[g] = "idle"

=============================================================================
