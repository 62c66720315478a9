----------------------------- MODULE Middleware -----------------------------
(***************************************************************************)
(* The chain of internal/middleware/middleware.go as main.go registers it, *)
(* around any of the handlers: Recovery, RequestID, SecurityHeaders,       *)
(* Logging, Metrics.  Logging and Metrics only read the clock on the way   *)
(* in; their work is done on the way out, unless a panic unwinds past it.  *)
(*                                                                         *)
(* Gin is external: a status that is set and not written may still change, *)
(* the first write sends status and headers, an unmatched request starts   *)
(* out as a 404 (and is the dedup handler's), and a path that lacks or has *)
(* an extra slash is redirected by the router with no middleware run.      *)
(***************************************************************************)
EXTENDS Integers, FiniteSets

CONSTANTS
    Goroutines,
    MaxRequests  \* bound on requests

ASSUME MiddlewareAssumptions ==
    /\ IsFiniteSet(Goroutines)
    /\ MaxRequests \in Nat

VARIABLES
    disabled,       \* cfg.DisableRequestLogging
    at,             \* where in the chain each goroutine is
    req,            \* its request: the route, over TLS or not, slow or not
    resp,           \* its response: status, headers, whether they are sent
    panicked,       \* "no", or whether it panicked "before" or "after" a write
    logged,         \* the level of its log line
    arrived,        \* requests so far
    requestsTotal,  \* dedup_http_requests_total, by status
    sent,           \* history: responses of the chain by status, Recovery's included
    recovered       \* history: those of them whose request panicked

vars == <<disabled, at, req, resp, panicked, logged, arrived, requestsTotal, sent, recovered>>

Stages == {"idle", "id", "security", "handler", "metrics", "logging", "panic", "flush"}

Routes == {"dedup", "health", "tool"}

Statuses == {200, 400, 404, 409, 500, 503}

Headers == {"X-Request-ID", "Content-Security-Policy", "Strict-Transport-Security",
            "X-Accel-Redirect"}

Levels == {"none", "debug", "warn", "error"}

ReqType == [route : Routes, https : BOOLEAN, slow : BOOLEAN]

RespType == [status : Statuses, head : SUBSET Headers, written : BOOLEAN]

NoReq == [route |-> "tool", https |-> FALSE, slow |-> FALSE]

NoResp == [status |-> 200, head |-> {}, written |-> FALSE]

\* Type invariant of the chain: these are all the statuses the service sends.
MiddlewareTypeOK ==
    /\ disabled \in BOOLEAN
    /\ at \in [Goroutines -> Stages]
    /\ req \in [Goroutines -> ReqType]
    /\ resp \in [Goroutines -> RespType]
    /\ panicked \in [Goroutines -> {"no", "before", "after"}]
    /\ logged \in [Goroutines -> Levels]
    /\ arrived \in 0..MaxRequests
    /\ requestsTotal \in [Statuses -> Nat]
    /\ sent \in [Statuses -> Nat]
    /\ recovered \in [Statuses -> Nat]

Init ==
    /\ disabled \in BOOLEAN
    /\ at = [g \in Goroutines |-> "idle"]
    /\ req = [g \in Goroutines |-> NoReq]
    /\ resp = [g \in Goroutines |-> NoResp]
    /\ panicked = [g \in Goroutines |-> "no"]
    /\ logged = [g \in Goroutines |-> "none"]
    /\ arrived = 0
    /\ requestsTotal = [s \in Statuses |-> 0]
    /\ sent = [s \in Statuses |-> 0]
    /\ recovered = [s \in Statuses |-> 0]

-----------------------------------------------------------------------------
(* Gin's response writer *)

\* c.Header has no effect on what is already sent.
Header(r, names) == IF r.written THEN r ELSE [r EXCEPT !.head = @ \cup names]

\* c.Status
Status(r, code) == IF r.written THEN r ELSE [r EXCEPT !.status = code]

\* c.JSON, c.Data
Data(r, code) == [Status(r, code) EXCEPT !.written = TRUE]

-----------------------------------------------------------------------------
(* The way in *)

Goto(g, stage) == at' = [at EXCEPT ![g] = stage]

Respond(g, r) == resp' = [resp EXCEPT ![g] = r]

\* A request enters the chain; Recovery has deferred its function.
Enter(g, r) ==
    /\ at[g] = "idle"
    /\ arrived < MaxRequests
    /\ arrived' = arrived + 1
    /\ req' = [req EXCEPT ![g] = r]
    /\ Respond(g, Status(NoResp, IF r.route = "dedup" THEN 404 ELSE 200))
    /\ Goto(g, "id")
    /\ UNCHANGED <<disabled, panicked, logged, requestsTotal, sent, recovered>>

\* The router answers by itself.
RouterRedirects(g) ==
    /\ at[g] = "idle"
    /\ arrived < MaxRequests
    /\ arrived' = arrived + 1
    /\ UNCHANGED <<disabled, at, req, resp, panicked, logged, requestsTotal, sent, recovered>>

RequestID(g) ==
    /\ at[g] = "id"
    /\ Respond(g, Header(resp[g], {"X-Request-ID"}))
    /\ Goto(g, "security")
    /\ UNCHANGED <<disabled, req, panicked, logged, arrived, requestsTotal, sent, recovered>>

\* Fault variant: both headers inside the condition.
SecurityHeadersTogether(g) ==
    /\ at[g] = "security"
    /\ Respond(g, Header(resp[g], IF req[g].https
                                  THEN {"Strict-Transport-Security", "Content-Security-Policy"}
                                  ELSE {}))
    /\ Goto(g, "handler")
    /\ UNCHANGED <<disabled, req, panicked, logged, arrived, requestsTotal, sent, recovered>>

\* HSTS over TLS only, directly or at the proxy.
SecurityHeaders(g) ==
    /\ at[g] = "security"
    /\ Respond(g, Header(resp[g], {"Content-Security-Policy"} \cup
                  IF req[g].https THEN {"Strict-Transport-Security"} ELSE {}))
    /\ Goto(g, "handler")
    /\ UNCHANGED <<disabled, req, panicked, logged, arrived, requestsTotal, sent, recovered>>

-----------------------------------------------------------------------------
(* The handlers *)

\* Fault variant: the status is left as the router set it.
AllowNoStatus(r) == Header(r, {"X-Accel-Redirect"})

\* Fault variant: a redirect of HTTP's own.
AllowFound(r) == Status(Header(r, {"X-Accel-Redirect"}), 302)

\* allow: the redirect is set and not written.
Allow(r) == Status(Header(r, {"X-Accel-Redirect"}), 200)

\* What the handler of a route makes of the response it is given.
Handled(route, r) ==
    [dedup  |-> {Allow(r), Data(r, 409), Data(r, 500)},
     health |-> {Data(r, 200), Data(r, 503)},
     tool   |-> {Data(r, 200), Data(r, 400), Data(r, 500)}][route]

Handle(g) ==
    /\ at[g] = "handler"
    /\ \E r \in Handled(req[g].route, resp[g]) : Respond(g, r)
    /\ Goto(g, "metrics")
    /\ UNCHANGED <<disabled, req, panicked, logged, arrived, requestsTotal, sent, recovered>>

\* The goroutine panics, with its response in state r.
Panics(g, r) ==
    /\ Respond(g, r)
    /\ panicked' = [panicked EXCEPT ![g] = IF r.written THEN "after" ELSE "before"]
    /\ Goto(g, "panic")
    /\ UNCHANGED <<disabled, req, logged, arrived, requestsTotal, sent, recovered>>

\* A handler panics, before it has answered or after.
HandlerPanics(g) ==
    /\ at[g] = "handler"
    /\ \E r \in {resp[g]} \cup Handled(req[g].route, resp[g]) : Panics(g, r)

-----------------------------------------------------------------------------
(* The way out *)

\* Fault variant: the request is counted before it is handled.
MetricsEarly(g) ==
    /\ at[g] = "metrics"
    /\ requestsTotal' = [requestsTotal EXCEPT ![IF req[g].route = "dedup" THEN 404 ELSE 200]
                            = @ + 1]
    /\ Goto(g, "logging")
    /\ UNCHANGED <<disabled, req, resp, panicked, logged, arrived, sent, recovered>>

Metrics(g) ==
    /\ at[g] = "metrics"
    /\ requestsTotal' = [requestsTotal EXCEPT ![resp[g].status] = @ + 1]
    /\ Goto(g, "logging")
    /\ UNCHANGED <<disabled, req, resp, panicked, logged, arrived, sent, recovered>>

\* WithLabelValues panics on a label value it does not take, which only the
\* path of an unmatched route can be.
MetricsPanics(g) ==
    /\ at[g] = "metrics"
    /\ req[g].route = "dedup"
    /\ Panics(g, resp[g])

\* Fault variant: duplicates are quiet, however slow.
LevelConflictQuiet(status, slow) ==
    IF disabled
    THEN IF status >= 400 \/ slow THEN "warn" ELSE "none"
    ELSE IF status >= 500 THEN "error"
         ELSE IF status # 409 /\ (status >= 400 \/ slow) THEN "warn" ELSE "debug"

\* The level Logging chooses; "none" when it writes nothing.
Level(status, slow) ==
    IF disabled
    THEN IF status >= 400 \/ slow THEN "warn" ELSE "none"
    ELSE IF status >= 500 THEN "error"
         ELSE IF (status >= 400 /\ status # 409) \/ slow THEN "warn" ELSE "debug"

Logging(g) ==
    /\ at[g] = "logging"
    /\ logged' = [logged EXCEPT ![g] = Level(resp[g].status, req[g].slow)]
    /\ Goto(g, "flush")
    /\ UNCHANGED <<disabled, req, resp, panicked, arrived, requestsTotal, sent, recovered>>

\* Fault variant: the chain is aborted and the status left alone.
RecoveryAborts(g) ==
    /\ at[g] = "panic"
    /\ logged' = [logged EXCEPT ![g] = "error"]
    /\ Goto(g, "flush")
    /\ UNCHANGED <<disabled, req, resp, panicked, arrived, requestsTotal, sent, recovered>>

\* Recovery's deferred function: AbortWithStatusJSON.
Recovery(g) ==
    /\ at[g] = "panic"
    /\ logged' = [logged EXCEPT ![g] = "error"]
    /\ Respond(g, Data(resp[g], 500))
    /\ Goto(g, "flush")
    /\ UNCHANGED <<disabled, req, panicked, arrived, requestsTotal, sent, recovered>>

\* The router sends what is not sent yet, and the goroutine is free.
Flush(g) ==
    /\ at[g] = "flush"
    /\ sent' = [sent EXCEPT ![resp[g].status] = @ + 1]
    /\ recovered' = IF panicked[g] = "no" THEN recovered
                    ELSE [recovered EXCEPT ![resp[g].status] = @ + 1]
    /\ req' = [req EXCEPT ![g] = NoReq]
    /\ Respond(g, NoResp)
    /\ panicked' = [panicked EXCEPT ![g] = "no"]
    /\ logged' = [logged EXCEPT ![g] = "none"]
    /\ Goto(g, "idle")
    /\ UNCHANGED <<disabled, arrived, requestsTotal>>

Waiting == (\A g \in Goroutines : at[g] = "idle") /\ UNCHANGED vars

Next ==
    \/ \E g \in Goroutines :
          \/ \E r \in ReqType : Enter(g, r)
          \/ RouterRedirects(g)
          \/ RequestID(g) \/ SecurityHeaders(g)
          \/ Handle(g) \/ HandlerPanics(g)
          \/ Metrics(g) \/ MetricsPanics(g)
          \/ Logging(g) \/ Recovery(g) \/ Flush(g)
    \/ Waiting

Spec == Init /\ [][Next]_vars

-----------------------------------------------------------------------------
(* Properties *)

\* Every response of the chain, also one that Recovery made and one that the
\* handler wrote at once, carries X-Request-ID and the content policy, and HSTS
\* exactly over TLS.
HeadersOnEveryResponse ==
    \A g \in Goroutines : resp[g].written \/ at[g] = "flush" =>
        /\ {"X-Request-ID", "Content-Security-Policy"} \subseteq resp[g].head
        /\ "Strict-Transport-Security" \in resp[g].head <=> req[g].https

\* A panic anywhere below Recovery is answered with 500, unless the handler had
\* sent another status already.
PanicsAnswered ==
    \A g \in Goroutines :
        at[g] = "flush" /\ panicked[g] = "before" => resp[g].status = 500

\* nginx is told to forward by an ordinary 200: a response with a redirect has
\* another status only when it is that of a request that panicked.
RedirectsAreOK ==
    \A g \in Goroutines :
        at[g] = "flush" /\ "X-Accel-Redirect" \in resp[g].head /\ panicked[g] = "no"
            => resp[g].status = 200

\* Requests that are past Metrics or Recovery, about to be sent with status s.
WayOut(s) == {g \in Goroutines : at[g] \in {"logging", "flush"} /\ resp[g].status = s}

\* dedup_http_requests_total never runs ahead of the responses, so that none is
\* counted twice or under a status its client did not get, and it falls behind
\* by no more than the requests that panicked.  Those are missing from it, since
\* a panic unwinds past Metrics: metrics.go says that all requests are counted.
CountersAgree ==
    \A s \in Statuses :
        /\ requestsTotal[s] <= sent[s] + Cardinality(WayOut(s))
        /\ sent[s] - recovered[s] <= requestsTotal[s]

\* "slow or error responses are elevated so they always surface": a request that
\* was slow, failed with a 5xx or panicked leaves a line of level warn or above,
\* with request logging disabled or not.
ProblemsSurface ==
    \A g \in Goroutines :
        at[g] = "flush" /\ (req[g].slow \/ resp[g].status >= 500 \/ panicked[g] # "no")
            => logged[g] \in {"warn", "error"}

=============================================================================
