-------------------------- MODULE MiddlewareProofs --------------------------
(***************************************************************************)
(* The promises of the middleware chain, for any number of goroutines and  *)
(* requests.  Chain says, for one request, what holds at each stage.       *)
(***************************************************************************)
EXTENDS Middleware, FiniteSetTheorems, TLAPS

Quiet == {"idle", "id", "security", "handler", "metrics", "logging"}

\* What the headers are at each stage.
HeadersAt(g) ==
    /\ at[g] \in {"idle", "id", "security"} =>
          ~resp[g].written /\ "Strict-Transport-Security" \notin resp[g].head
    /\ at[g] \in {"security", "handler", "metrics", "logging", "panic", "flush"} =>
          "X-Request-ID" \in resp[g].head
    /\ at[g] \in {"handler", "metrics", "logging", "panic", "flush"} =>
          /\ "Content-Security-Policy" \in resp[g].head
          /\ "Strict-Transport-Security" \in resp[g].head <=> req[g].https

\* What is known of the verdict, of a panic and of the log line.
VerdictAt(g) ==
    /\ at[g] \in Quiet => panicked[g] = "no"
    /\ at[g] = "panic" => panicked[g] # "no"
    /\ at[g] = "panic" /\ panicked[g] = "before" => ~resp[g].written
    /\ at[g] \in {"idle", "id", "security", "handler"} => "X-Accel-Redirect" \notin resp[g].head
    /\ at[g] \in {"metrics", "logging", "flush"} /\ panicked[g] = "no"
          /\ "X-Accel-Redirect" \in resp[g].head => resp[g].status = 200
    /\ at[g] = "flush" /\ panicked[g] = "before" => resp[g].status = 500
    /\ at[g] = "flush" /\ panicked[g] # "no" => logged[g] = "error"
    /\ at[g] = "flush" /\ (req[g].slow \/ resp[g].status >= 500) =>
          logged[g] \in {"warn", "error"}

Chain(g) == HeadersAt(g) /\ VerdictAt(g)

\* Requests on their way out that Metrics has seen, with status s.
Counted(s) == {g \in WayOut(s) : panicked[g] = "no"}

\* How far the counter is from the responses: by the requests that it has seen
\* and that are not sent yet, and by those that panicked.
Tally ==
    \A s \in Statuses : requestsTotal[s] + recovered[s] = sent[s] + Cardinality(Counted(s))

ChainInv == MiddlewareTypeOK /\ Tally /\ \A g \in Goroutines : Chain(g)

-----------------------------------------------------------------------------
(* Gin's response writer *)

LEMMA HeaderEffect ==
  ASSUME NEW r \in RespType, NEW hs \in SUBSET Headers
  PROVE  /\ Header(r, hs) \in RespType
         /\ Header(r, hs).written = r.written
         /\ Header(r, hs).status = r.status
         /\ Header(r, hs).head = IF r.written THEN r.head ELSE r.head \cup hs
  BY DEF RespType, Header

LEMMA StatusEffect ==
  ASSUME NEW r \in RespType, NEW c \in Statuses
  PROVE  /\ Status(r, c) \in RespType
         /\ Status(r, c).written = r.written
         /\ Status(r, c).head = r.head
         /\ Status(r, c).status = IF r.written THEN r.status ELSE c
  BY DEF RespType, Status

LEMMA DataEffect ==
  ASSUME NEW r \in RespType, NEW c \in Statuses
  PROVE  /\ Data(r, c) \in RespType
         /\ Data(r, c).written
         /\ Data(r, c).head = r.head
         /\ Data(r, c).status = IF r.written THEN r.status ELSE c
  BY DEF RespType, Status, Data

\* What a handler may leave behind.
LEMMA HandledEffect ==
  ASSUME NEW r \in RespType, NEW route \in Routes, NEW q \in Handled(route, r)
  PROVE  /\ q \in RespType
         /\ r.head \subseteq q.head
         /\ q.head \subseteq r.head \cup {"X-Accel-Redirect"}
         /\ "X-Accel-Redirect" \in q.head /\ "X-Accel-Redirect" \notin r.head
               => q.status = 200
<1>1. CASE \E c \in Statuses : q = Data(r, c)
  <2>1. PICK c \in Statuses : q = Data(r, c)
    BY <1>1
  <2>2. q \in RespType /\ q.head = r.head
    BY <2>1, DataEffect
  <2> QED
    BY <2>2
<1>2. CASE q = Allow(r)
  <2>1. {"X-Accel-Redirect"} \in SUBSET Headers /\ 200 \in Statuses
    BY DEF Headers, Statuses
  <2>2. PICK h : h = Header(r, {"X-Accel-Redirect"})
    OBVIOUS
  <2>3. /\ h \in RespType /\ h.written = r.written
        /\ h.head = IF r.written THEN r.head ELSE r.head \cup {"X-Accel-Redirect"}
    BY <2>1, <2>2, HeaderEffect
  <2>4. q = Status(h, 200)
    BY <1>2, <2>2 DEF Allow
  <2>5. q \in RespType /\ q.head = h.head /\ q.status = IF h.written THEN h.status ELSE 200
    BY <2>1, <2>3, <2>4, StatusEffect
  <2>6. r.written \in BOOLEAN
    BY DEF RespType
  <2> QED
    BY <2>3, <2>5, <2>6
<1>3. \/ q \in {Allow(r), Data(r, 409), Data(r, 500)}
      \/ q \in {Data(r, 200), Data(r, 503)}
      \/ q \in {Data(r, 200), Data(r, 400)}
  BY DEF Handled, Routes
<1> QED
  BY <1>1, <1>2, <1>3 DEF Statuses

-----------------------------------------------------------------------------
(* Steps *)

\* The types that every step below starts from.
LEMMA Types ==
  ASSUME ChainInv
  PROVE  /\ at \in [Goroutines -> Stages]
         /\ req \in [Goroutines -> ReqType]
         /\ resp \in [Goroutines -> RespType]
         /\ panicked \in [Goroutines -> {"no", "before", "after"}]
         /\ logged \in [Goroutines -> Levels]
         /\ requestsTotal \in [Statuses -> Nat]
         /\ sent \in [Statuses -> Nat]
         /\ recovered \in [Statuses -> Nat]
         /\ arrived \in 0..MaxRequests
         /\ MaxRequests \in Nat
         /\ \A g \in Goroutines : Chain(g)
  BY MiddlewareAssumptions DEF ChainInv, MiddlewareTypeOK

\* Goroutine g takes a step that the counters do not see.
LEMMA Uncounted ==
  ASSUME ChainInv, NEW g \in Goroutines,
         NEW stage \in Stages, NEW q \in ReqType, NEW r \in RespType,
         NEW p \in {"no", "before", "after"}, NEW l \in Levels,
         at' = [at EXCEPT ![g] = stage], req' = [req EXCEPT ![g] = q],
         resp' = [resp EXCEPT ![g] = r], panicked' = [panicked EXCEPT ![g] = p],
         logged' = [logged EXCEPT ![g] = l],
         disabled' = disabled, arrived' \in 0..MaxRequests,
         UNCHANGED <<requestsTotal, sent, recovered>>,
         \/ at[g] \notin {"logging", "flush"} /\ (stage \notin {"logging", "flush"} \/ p # "no")
         \/ at[g] = "logging" /\ stage = "flush" /\ p = panicked[g] /\ r = resp[g],
         Chain(g)'
  PROVE  ChainInv'
<1>1. MiddlewareTypeOK'
  BY Types DEF ChainInv, MiddlewareTypeOK
<1>2. \A h \in Goroutines : h # g =>
         /\ at'[h] = at[h] /\ req'[h] = req[h] /\ resp'[h] = resp[h]
         /\ panicked'[h] = panicked[h] /\ logged'[h] = logged[h]
  BY Types
<1>3. ASSUME NEW h \in Goroutines, h # g PROVE Chain(h)'
  BY <1>2, <1>3, Types DEF Chain, HeadersAt, VerdictAt
<1>4. /\ at'[g] = stage /\ resp'[g] = r /\ panicked'[g] = p
  BY Types
<1>5. ASSUME NEW s \in Statuses PROVE Counted(s)' = Counted(s)
  BY ONLY <1>2, <1>4, g \in Goroutines,
     \/ at[g] \notin {"logging", "flush"} /\ (stage \notin {"logging", "flush"} \/ p # "no")
     \/ at[g] = "logging" /\ stage = "flush" /\ p = panicked[g] /\ r = resp[g]
  DEF Counted, WayOut
<1>6. Tally'
  BY <1>5 DEF ChainInv, Tally
<1> QED
  BY <1>1, <1>3, <1>6 DEF ChainInv

LEMMA CountedFinite ==
  ASSUME NEW s
  PROVE  IsFiniteSet(Counted(s)) /\ Cardinality(Counted(s)) \in Nat
  BY MiddlewareAssumptions, FS_Subset, FS_CardinalityType DEF Counted, WayOut

LEMMA WayInStep ==
  ASSUME ChainInv, NEW g \in Goroutines,
         (\E r \in ReqType : Enter(g, r)) \/ RequestID(g) \/ SecurityHeaders(g)
  PROVE  ChainInv'
<1>0. /\ resp[g] \in RespType /\ req[g] \in ReqType /\ Chain(g) /\ at[g] \in Stages
      /\ panicked[g] \in {"no", "before", "after"} /\ logged[g] \in Levels
  BY Types
<1>1. CASE \E r \in ReqType : Enter(g, r)
  <2>1. PICK q \in ReqType : Enter(g, q)
    BY <1>1
  <2>2. PICK c \in Statuses : c = IF q.route = "dedup" THEN 404 ELSE 200
    BY DEF Statuses
  <2>3. NoResp \in RespType /\ NoResp.written = FALSE /\ NoResp.head = {}
    BY DEF NoResp, RespType, Statuses
  <2>4. PICK r \in RespType : r = Status(NoResp, c) /\ r.written = FALSE /\ r.head = {}
    BY <2>2, <2>3, StatusEffect
  <2>5. /\ at' = [at EXCEPT ![g] = "id"] /\ req' = [req EXCEPT ![g] = q]
        /\ resp' = [resp EXCEPT ![g] = r] /\ at[g] = "idle"
        /\ UNCHANGED <<disabled, panicked, logged, requestsTotal, sent, recovered>>
        /\ arrived' = arrived + 1 /\ arrived < MaxRequests
    BY <2>1, <2>2, <2>4 DEF Enter, Respond, Goto
  <2>6. arrived' \in 0..MaxRequests
    BY <2>5, Types
  <2>7. /\ panicked' = [panicked EXCEPT ![g] = panicked[g]]
        /\ logged' = [logged EXCEPT ![g] = logged[g]]
    BY <2>5, Types
  <2>8. Chain(g)'
    <3>1. at'[g] = "id" /\ resp'[g] = r /\ panicked'[g] = "no"
      BY <1>0, <2>5, Types DEF Chain, VerdictAt, Quiet
    <3> QED
      BY <2>4, <3>1 DEF Chain, HeadersAt, VerdictAt, Quiet
  <2> QED
    BY <1>0, <2>5, <2>6, <2>7, <2>8, Uncounted DEF Stages
<1>2. CASE RequestID(g)
  <2>1. {"X-Request-ID"} \in SUBSET Headers
    BY DEF Headers
  <2>2. at[g] = "id" /\ ~resp[g].written /\ panicked[g] = "no"
        /\ "X-Accel-Redirect" \notin resp[g].head
        /\ "Strict-Transport-Security" \notin resp[g].head
    BY <1>0, <1>2 DEF RequestID, Chain, HeadersAt, VerdictAt, Quiet
  <2>3. PICK r \in RespType : /\ r = Header(resp[g], {"X-Request-ID"}) /\ ~r.written
                              /\ r.head = resp[g].head \cup {"X-Request-ID"}
    BY <1>0, <2>1, <2>2, HeaderEffect
  <2>4. /\ at' = [at EXCEPT ![g] = "security"] /\ resp' = [resp EXCEPT ![g] = r]
        /\ UNCHANGED <<disabled, req, panicked, logged, arrived, requestsTotal, sent, recovered>>
    BY <1>2, <2>3 DEF RequestID, Respond, Goto
  <2>5. /\ panicked' = [panicked EXCEPT ![g] = panicked[g]]
        /\ logged' = [logged EXCEPT ![g] = logged[g]]
        /\ req' = [req EXCEPT ![g] = req[g]] /\ arrived' \in 0..MaxRequests
    BY <2>4, Types
  <2>6. at'[g] = "security" /\ resp'[g] = r /\ panicked'[g] = "no" /\ req'[g] = req[g]
    BY <2>2, <2>4, Types
  <2>7. Chain(g)'
    BY <2>2, <2>3, <2>6 DEF Chain, HeadersAt, VerdictAt, Quiet
  <2> QED
    BY <1>0, <2>2, <2>4, <2>5, <2>7, Uncounted DEF Stages
<1>3. CASE SecurityHeaders(g)
  <2>0. at[g] = "security" /\ ~resp[g].written /\ panicked[g] = "no"
        /\ "X-Request-ID" \in resp[g].head
        /\ "X-Accel-Redirect" \notin resp[g].head
        /\ "Strict-Transport-Security" \notin resp[g].head
    BY <1>0, <1>3 DEF SecurityHeaders, Chain, HeadersAt, VerdictAt, Quiet
  <2>1. PICK hs \in SUBSET Headers :
           hs = {"Content-Security-Policy"} \cup
                IF req[g].https THEN {"Strict-Transport-Security"} ELSE {}
    BY DEF Headers
  <2>2. /\ "Content-Security-Policy" \in hs /\ "X-Accel-Redirect" \notin hs
        /\ "Strict-Transport-Security" \in hs <=> req[g].https
    BY <2>1
  <2>3. PICK r \in RespType : r = Header(resp[g], hs) /\ r.head = resp[g].head \cup hs
    BY <1>0, <2>0, HeaderEffect
  <2>4. /\ at' = [at EXCEPT ![g] = "handler"] /\ resp' = [resp EXCEPT ![g] = r]
        /\ UNCHANGED <<disabled, req, panicked, logged, arrived, requestsTotal, sent, recovered>>
    BY <1>3, <2>1, <2>3 DEF SecurityHeaders, Respond, Goto
  <2>5. /\ panicked' = [panicked EXCEPT ![g] = panicked[g]]
        /\ logged' = [logged EXCEPT ![g] = logged[g]]
        /\ req' = [req EXCEPT ![g] = req[g]] /\ arrived' \in 0..MaxRequests
    BY <2>4, Types
  <2>6. at'[g] = "handler" /\ resp'[g] = r /\ panicked'[g] = "no" /\ req'[g] = req[g]
    BY <2>0, <2>4, Types
  <2>7. Chain(g)'
    BY <2>0, <2>2, <2>3, <2>6 DEF Chain, HeadersAt, VerdictAt, Quiet
  <2> QED
    BY <1>0, <2>0, <2>4, <2>5, <2>7, Uncounted DEF Stages
<1> QED
  BY <1>1, <1>2, <1>3

LEMMA HandleStep ==
  ASSUME ChainInv, NEW g \in Goroutines, Handle(g)
  PROVE  ChainInv'
<1>0. /\ resp[g] \in RespType /\ req[g] \in ReqType /\ Chain(g) /\ req[g].route \in Routes
      /\ panicked[g] \in {"no", "before", "after"} /\ logged[g] \in Levels
  BY Types DEF ReqType
<1>1. /\ at[g] = "handler" /\ panicked[g] = "no"
      /\ "X-Request-ID" \in resp[g].head /\ "Content-Security-Policy" \in resp[g].head
      /\ "Strict-Transport-Security" \in resp[g].head <=> req[g].https
      /\ "X-Accel-Redirect" \notin resp[g].head
  BY <1>0 DEF Handle, Chain, HeadersAt, VerdictAt, Quiet
<1>2. PICK r \in Handled(req[g].route, resp[g]) : Respond(g, r)
  BY DEF Handle
<1>3. /\ r \in RespType /\ resp[g].head \subseteq r.head
      /\ r.head \subseteq resp[g].head \cup {"X-Accel-Redirect"}
      /\ "X-Accel-Redirect" \in r.head => r.status = 200
  BY <1>0, <1>1, <1>2, HandledEffect
<1>4. /\ at' = [at EXCEPT ![g] = "metrics"] /\ resp' = [resp EXCEPT ![g] = r]
      /\ UNCHANGED <<disabled, req, panicked, logged, arrived, requestsTotal, sent, recovered>>
  BY <1>2 DEF Handle, Respond, Goto
<1>5. /\ panicked' = [panicked EXCEPT ![g] = panicked[g]]
      /\ logged' = [logged EXCEPT ![g] = logged[g]]
      /\ req' = [req EXCEPT ![g] = req[g]] /\ arrived' \in 0..MaxRequests
  BY <1>4, Types
<1>6. at'[g] = "metrics" /\ resp'[g] = r /\ panicked'[g] = "no" /\ req'[g] = req[g]
  BY <1>1, <1>4, Types
<1>7. Chain(g)'
  BY <1>1, <1>3, <1>6 DEF Chain, HeadersAt, VerdictAt, Quiet
<1>8. /\ r \in RespType /\ "metrics" \in Stages /\ "metrics" \notin {"logging", "flush"}
      /\ at[g] \notin {"logging", "flush"}
  BY <1>1, <1>3 DEF Stages
<1> QED
  BY ONLY ChainInv, g \in Goroutines, <1>0, <1>4, <1>5, <1>7, <1>8, Uncounted

LEMMA PanicStep ==
  ASSUME ChainInv, NEW g \in Goroutines, HandlerPanics(g) \/ MetricsPanics(g)
  PROVE  ChainInv'
<1>0. /\ resp[g] \in RespType /\ req[g] \in ReqType /\ Chain(g) /\ req[g].route \in Routes
      /\ logged[g] \in Levels
  BY Types DEF ReqType
<1>1. /\ at[g] \in {"handler", "metrics"}
      /\ "X-Request-ID" \in resp[g].head /\ "Content-Security-Policy" \in resp[g].head
      /\ "Strict-Transport-Security" \in resp[g].head <=> req[g].https
  BY <1>0 DEF HandlerPanics, MetricsPanics, Chain, HeadersAt
<1>2. PICK r \in {resp[g]} \cup Handled(req[g].route, resp[g]) : Panics(g, r)
  BY DEF HandlerPanics, MetricsPanics
<1>3. /\ r \in RespType /\ resp[g].head \subseteq r.head
      /\ r.head \subseteq resp[g].head \cup {"X-Accel-Redirect"}
  BY <1>0, <1>2, HandledEffect
<1>4. PICK p \in {"before", "after"} : p = IF r.written THEN "after" ELSE "before"
  OBVIOUS
<1>5. /\ at' = [at EXCEPT ![g] = "panic"] /\ resp' = [resp EXCEPT ![g] = r]
      /\ panicked' = [panicked EXCEPT ![g] = p]
      /\ UNCHANGED <<disabled, req, logged, arrived, requestsTotal, sent, recovered>>
  BY <1>2, <1>4 DEF Panics, Respond, Goto
<1>6. /\ logged' = [logged EXCEPT ![g] = logged[g]]
      /\ req' = [req EXCEPT ![g] = req[g]] /\ arrived' \in 0..MaxRequests
  BY <1>5, Types
<1>7. at'[g] = "panic" /\ resp'[g] = r /\ panicked'[g] = p /\ req'[g] = req[g]
  BY <1>5, Types
<1>8. Chain(g)'
  BY <1>1, <1>3, <1>4, <1>7 DEF Chain, HeadersAt, VerdictAt, Quiet
<1> QED
  BY <1>0, <1>1, <1>3, <1>5, <1>6, <1>8, Uncounted DEF Stages

LEMMA RecoveryStep ==
  ASSUME ChainInv, NEW g \in Goroutines, Recovery(g)
  PROVE  ChainInv'
<1>0. /\ resp[g] \in RespType /\ req[g] \in ReqType /\ Chain(g)
      /\ panicked[g] \in {"no", "before", "after"}
  BY Types
<1>1. /\ at[g] = "panic" /\ panicked[g] # "no"
      /\ panicked[g] = "before" => ~resp[g].written
      /\ "X-Request-ID" \in resp[g].head /\ "Content-Security-Policy" \in resp[g].head
      /\ "Strict-Transport-Security" \in resp[g].head <=> req[g].https
  BY <1>0 DEF Recovery, Chain, HeadersAt, VerdictAt
<1>2. PICK r \in RespType : /\ r = Data(resp[g], 500) /\ r.head = resp[g].head
                            /\ r.status = IF resp[g].written THEN resp[g].status ELSE 500
  BY <1>0, DataEffect DEF Statuses
<1>3. /\ at' = [at EXCEPT ![g] = "flush"] /\ resp' = [resp EXCEPT ![g] = r]
      /\ logged' = [logged EXCEPT ![g] = "error"]
      /\ UNCHANGED <<disabled, req, panicked, arrived, requestsTotal, sent, recovered>>
  BY <1>2 DEF Recovery, Respond, Goto
<1>4. /\ panicked' = [panicked EXCEPT ![g] = panicked[g]]
      /\ req' = [req EXCEPT ![g] = req[g]] /\ arrived' \in 0..MaxRequests
  BY <1>3, Types
<1>5. /\ at'[g] = "flush" /\ resp'[g] = r /\ panicked'[g] = panicked[g] /\ req'[g] = req[g]
      /\ logged'[g] = "error"
  BY <1>3, Types
<1>6. Chain(g)'
  BY <1>1, <1>2, <1>5 DEF Chain, HeadersAt, VerdictAt, Quiet
<1> QED
  BY <1>0, <1>1, <1>3, <1>4, <1>6, Uncounted DEF Stages, Levels

LEMMA LoggingStep ==
  ASSUME ChainInv, NEW g \in Goroutines, Logging(g)
  PROVE  ChainInv'
<1>0. /\ resp[g] \in RespType /\ req[g] \in ReqType /\ Chain(g)
      /\ panicked[g] \in {"no", "before", "after"}
      /\ resp[g].status \in Nat /\ req[g].slow \in BOOLEAN
  BY Types DEF RespType, Statuses, ReqType
<1>1. /\ at[g] = "logging" /\ panicked[g] = "no"
      /\ "X-Request-ID" \in resp[g].head /\ "Content-Security-Policy" \in resp[g].head
      /\ "Strict-Transport-Security" \in resp[g].head <=> req[g].https
      /\ "X-Accel-Redirect" \in resp[g].head => resp[g].status = 200
  BY <1>0 DEF Logging, Chain, HeadersAt, VerdictAt, Quiet
<1>2. PICK l \in Levels : l = Level(resp[g].status, req[g].slow)
  BY DEF Level, Levels
<1>3. resp[g].status >= 500 \/ req[g].slow => l \in {"warn", "error"}
  BY <1>0, <1>2 DEF Level
<1>4. /\ at' = [at EXCEPT ![g] = "flush"] /\ logged' = [logged EXCEPT ![g] = l]
      /\ UNCHANGED <<disabled, req, resp, panicked, arrived, requestsTotal, sent, recovered>>
  BY <1>2 DEF Logging, Goto
<1>5. /\ panicked' = [panicked EXCEPT ![g] = panicked[g]]
      /\ resp' = [resp EXCEPT ![g] = resp[g]]
      /\ req' = [req EXCEPT ![g] = req[g]] /\ arrived' \in 0..MaxRequests
  BY <1>4, Types
<1>6. /\ at'[g] = "flush" /\ resp'[g] = resp[g] /\ panicked'[g] = "no" /\ req'[g] = req[g]
      /\ logged'[g] = l
  BY <1>1, <1>4, Types
<1>7. Chain(g)'
  BY <1>1, <1>3, <1>6 DEF Chain, HeadersAt, VerdictAt, Quiet
<1>8. at[g] = "logging" /\ "flush" \in Stages
  BY <1>1 DEF Stages
<1> QED
  BY ONLY ChainInv, g \in Goroutines, <1>0, <1>4, <1>5, <1>7, <1>8, Uncounted

\* Only Metrics and Flush change what is counted: a request joins Counted with
\* its counter and leaves it with its response.
LEMMA MetricsStep ==
  ASSUME ChainInv, NEW g \in Goroutines, Metrics(g)
  PROVE  ChainInv'
<1>0. /\ resp[g].status \in Statuses /\ Chain(g)
      /\ at[g] = "metrics" /\ panicked[g] = "no"
  BY Types DEF RespType, Metrics, Chain, VerdictAt, Quiet
<1>1. /\ at' = [at EXCEPT ![g] = "logging"]
      /\ requestsTotal' = [requestsTotal EXCEPT ![resp[g].status] = @ + 1]
      /\ UNCHANGED <<disabled, req, resp, panicked, logged, arrived, sent, recovered>>
  BY DEF Metrics, Goto
<1>2. MiddlewareTypeOK'
  BY <1>0, <1>1, Types DEF ChainInv, MiddlewareTypeOK, Stages
<1>3. at'[g] = "logging" /\ \A h \in Goroutines : h # g => at'[h] = at[h]
  BY <1>1, Types
<1>4. ASSUME NEW h \in Goroutines PROVE Chain(h)'
  <2>1. CASE h # g
    BY <1>1, <1>3, <2>1, Types DEF Chain, HeadersAt, VerdictAt
  <2>2. CASE h = g
    BY <1>0, <1>1, <1>3, <2>2 DEF Chain, HeadersAt, VerdictAt, Quiet
  <2> QED
    BY <2>1, <2>2
<1>5. Tally'
  <2> SUFFICES ASSUME NEW s \in Statuses
               PROVE  requestsTotal'[s] + recovered'[s] = sent'[s] + Cardinality(Counted(s)')
    BY DEF Tally
  <2>0. /\ requestsTotal[s] + recovered[s] = sent[s] + Cardinality(Counted(s))
        /\ requestsTotal[s] \in Nat /\ recovered[s] \in Nat
        /\ recovered'[s] = recovered[s] /\ sent'[s] = sent[s] /\ sent[s] \in Nat /\ Cardinality(Counted(s)) \in Nat
    BY <1>1, Types, CountedFinite DEF ChainInv, Tally
  <2>1. CASE s = resp[g].status
    <3>1. Counted(s)' = Counted(s) \cup {g} /\ g \notin Counted(s)
      BY <1>0, <1>1, <1>3, <2>1 DEF Counted, WayOut
    <3>2. Cardinality(Counted(s)') = Cardinality(Counted(s)) + 1
      BY <3>1, CountedFinite, FS_AddElement
    <3>3. requestsTotal'[s] = requestsTotal[s] + 1
      BY <1>1, <2>1, Types
    <3> QED
      BY <2>0, <3>2, <3>3
  <2>2. CASE s # resp[g].status
    <3>1. Counted(s)' = Counted(s)
      BY <1>0, <1>1, <1>3, <2>2 DEF Counted, WayOut
    <3>2. requestsTotal'[s] = requestsTotal[s]
      BY <1>1, <2>2, Types
    <3> QED
      BY <2>0, <3>1, <3>2
  <2> QED
    BY <2>1, <2>2
<1> QED
  BY <1>2, <1>4, <1>5 DEF ChainInv

LEMMA FlushStep ==
  ASSUME ChainInv, NEW g \in Goroutines, Flush(g)
  PROVE  ChainInv'
<1>0. resp[g].status \in Statuses /\ Chain(g) /\ at[g] = "flush"
  BY Types DEF RespType, Flush
<1>1. /\ at' = [at EXCEPT ![g] = "idle"]
      /\ req' = [req EXCEPT ![g] = NoReq]
      /\ resp' = [resp EXCEPT ![g] = NoResp]
      /\ panicked' = [panicked EXCEPT ![g] = "no"]
      /\ logged' = [logged EXCEPT ![g] = "none"]
      /\ sent' = [sent EXCEPT ![resp[g].status] = @ + 1]
      /\ recovered' = IF panicked[g] = "no" THEN recovered
                      ELSE [recovered EXCEPT ![resp[g].status] = @ + 1]
      /\ UNCHANGED <<disabled, arrived, requestsTotal>>
  BY DEF Flush, Respond, Goto
<1>2. MiddlewareTypeOK'
  <2>1. NoReq \in ReqType /\ NoResp \in RespType /\ "idle" \in Stages /\ "none" \in Levels
    BY DEF NoReq, NoResp, ReqType, RespType, Routes, Statuses, Stages, Levels
  <2>2. sent' \in [Statuses -> Nat] /\ recovered' \in [Statuses -> Nat]
    BY <1>0, <1>1, Types
  <2> QED
    BY <1>1, <2>1, <2>2, Types DEF ChainInv, MiddlewareTypeOK
<1>3. /\ at'[g] = "idle" /\ resp'[g] = NoResp /\ panicked'[g] = "no"
      /\ \A h \in Goroutines : h # g =>
            /\ at'[h] = at[h] /\ req'[h] = req[h] /\ resp'[h] = resp[h]
            /\ panicked'[h] = panicked[h] /\ logged'[h] = logged[h]
  BY <1>1, Types
<1>4. ASSUME NEW h \in Goroutines PROVE Chain(h)'
  <2>1. CASE h # g
    BY <1>3, <2>1, Types DEF Chain, HeadersAt, VerdictAt
  <2>2. CASE h = g
    <3>1. NoResp.written = FALSE /\ NoResp.head = {}
      BY DEF NoResp
    <3> QED
      BY <1>3, <2>2, <3>1 DEF Chain, HeadersAt, VerdictAt
  <2> QED
    BY <2>1, <2>2
<1>5. Tally'
  <2> SUFFICES ASSUME NEW s \in Statuses
               PROVE  requestsTotal'[s] + recovered'[s] = sent'[s] + Cardinality(Counted(s)')
    BY DEF Tally
  <2>0. /\ requestsTotal[s] + recovered[s] = sent[s] + Cardinality(Counted(s))
        /\ requestsTotal[s] \in Nat /\ recovered[s] \in Nat
        /\ requestsTotal'[s] = requestsTotal[s]
        /\ sent[s] \in Nat /\ Cardinality(Counted(s)) \in Nat
    BY <1>1, Types, CountedFinite DEF ChainInv, Tally
  <2>1. CASE s = resp[g].status /\ panicked[g] = "no"
    <3>1. Counted(s)' = Counted(s) \ {g} /\ g \in Counted(s)
      BY <1>0, <1>3, <2>1 DEF Counted, WayOut
    <3>2. Cardinality(Counted(s)') = Cardinality(Counted(s)) - 1
      BY <3>1, CountedFinite, FS_RemoveElement
    <3>3. sent'[s] = sent[s] + 1 /\ recovered'[s] = recovered[s]
      BY <1>1, <2>1, Types
    <3> QED
      BY <2>0, <3>2, <3>3
  <2>2. CASE s # resp[g].status \/ panicked[g] # "no"
    <3>1. Counted(s)' = Counted(s)
      BY <1>0, <1>3, <2>2 DEF Counted, WayOut
    <3>2. CASE s # resp[g].status
      <4>1. sent'[s] = sent[s] /\ recovered'[s] = recovered[s]
        BY <1>1, <3>2, Types
      <4> QED
        BY <2>0, <3>1, <4>1
    <3>3. CASE s = resp[g].status /\ panicked[g] # "no"
      <4>1. sent'[s] = sent[s] + 1 /\ recovered'[s] = recovered[s] + 1
        BY <1>1, <3>3, Types
      <4> QED
        BY <2>0, <3>1, <4>1
    <3> QED
      BY <2>2, <3>2, <3>3
  <2> QED
    BY <2>1, <2>2
<1> QED
  BY <1>2, <1>4, <1>5 DEF ChainInv

-----------------------------------------------------------------------------
(* The theorems *)

\* A step that moves no goroutine.
LEMMA StillStep ==
  ASSUME ChainInv, arrived' \in 0..MaxRequests,
         UNCHANGED <<disabled, at, req, resp, panicked, logged, requestsTotal, sent, recovered>>
  PROVE  ChainInv'
<1>1. MiddlewareTypeOK'
  BY DEF ChainInv, MiddlewareTypeOK
<1>2. ASSUME NEW h \in Goroutines PROVE Chain(h)'
  BY Types DEF Chain, HeadersAt, VerdictAt
<1>3. \A s \in Statuses : Counted(s)' = Counted(s)
  BY DEF Counted, WayOut
<1>4. Tally'
  BY <1>3 DEF ChainInv, Tally
<1> QED
  BY <1>1, <1>2, <1>4 DEF ChainInv

LEMMA ChainInvariant == Spec => []ChainInv
<1>1. Init => ChainInv
  <2> SUFFICES ASSUME Init PROVE ChainInv
    OBVIOUS
  <2>1. NoReq \in ReqType /\ NoResp \in RespType /\ "idle" \in Stages /\ "none" \in Levels
        /\ NoResp.written = FALSE /\ NoResp.head = {}
    BY DEF NoReq, NoResp, ReqType, RespType, Routes, Statuses, Stages, Levels
  <2>2. MiddlewareTypeOK
    BY <2>1, MiddlewareAssumptions DEF Init, MiddlewareTypeOK
  <2>3. \A g \in Goroutines : Chain(g)
    BY <2>1 DEF Init, Chain, HeadersAt, VerdictAt
  <2>4. \A s \in Statuses : Counted(s) = {}
    BY DEF Init, Counted, WayOut
  <2>5. Tally
    BY <2>4, FS_EmptySet DEF Init, Tally
  <2> QED
    BY <2>2, <2>3, <2>5 DEF ChainInv
<1>2. ChainInv /\ [Next]_vars => ChainInv'
  <2> SUFFICES ASSUME ChainInv, [Next]_vars PROVE ChainInv'
    OBVIOUS
  <2>1. CASE UNCHANGED vars
    BY <2>1, StillStep, Types DEF vars
  <2>2. ASSUME NEW g \in Goroutines, RouterRedirects(g) PROVE ChainInv'
    <3>1. arrived' \in 0..MaxRequests
      BY <2>2, Types DEF RouterRedirects
    <3> QED
      BY <2>2, <3>1, StillStep DEF RouterRedirects
  <2>3. ASSUME NEW g \in Goroutines,
               \/ (\E r \in ReqType : Enter(g, r)) \/ RequestID(g) \/ SecurityHeaders(g)
               \/ Handle(g) \/ HandlerPanics(g) \/ Metrics(g) \/ MetricsPanics(g)
               \/ Logging(g) \/ Recovery(g) \/ Flush(g)
        PROVE  ChainInv'
    BY ONLY ChainInv, <2>3, WayInStep, HandleStep, PanicStep, MetricsStep, LoggingStep,
       RecoveryStep, FlushStep
  <2> QED
    BY ONLY [Next]_vars, <2>1, <2>2, <2>3 DEF Next, Waiting
<1> QED
  BY <1>1, <1>2, PTL DEF Spec

\* The chain's variables keep their types, and no status but these is sent:
\* MiddlewareTypeOK.
THEOREM MiddlewareTypeCorrect == Spec => []MiddlewareTypeOK
  BY ChainInvariant, PTL DEF ChainInv

\* Responses carry the headers of RequestID and SecurityHeaders, those of
\* Recovery included: HeadersOnEveryResponse.
THEOREM MiddlewareHeaders == Spec => []HeadersOnEveryResponse
<1>1. ChainInv => HeadersOnEveryResponse
  BY Types DEF HeadersOnEveryResponse, Chain, HeadersAt, Stages
<1> QED
  BY <1>1, ChainInvariant, PTL

\* A panic is answered with 500 unless something was sent before:
\* PanicsAnswered.
THEOREM MiddlewarePanics == Spec => []PanicsAnswered
<1>1. ChainInv => PanicsAnswered
  BY DEF ChainInv, PanicsAnswered, Chain, VerdictAt
<1> QED
  BY <1>1, ChainInvariant, PTL

\* A redirect to the upstream is a 200 unless the request panicked:
\* RedirectsAreOK.
THEOREM MiddlewareRedirects == Spec => []RedirectsAreOK
<1>1. ChainInv => RedirectsAreOK
  BY DEF ChainInv, RedirectsAreOK, Chain, VerdictAt
<1> QED
  BY <1>1, ChainInvariant, PTL

\* dedup_http_requests_total counts no response twice or under another status
\* than the one sent, and misses none but those of panicked requests:
\* CountersAgree.
THEOREM MiddlewareCounts == Spec => []CountersAgree
<1>1. ChainInv => CountersAgree
  <2> SUFFICES ASSUME ChainInv, NEW s \in Statuses
               PROVE  /\ requestsTotal[s] <= sent[s] + Cardinality(WayOut(s))
                      /\ sent[s] - recovered[s] <= requestsTotal[s]
    BY DEF CountersAgree
  <2>1. IsFiniteSet(WayOut(s)) /\ Counted(s) \subseteq WayOut(s)
    BY MiddlewareAssumptions, FS_Subset DEF WayOut, Counted
  <2>2. /\ Cardinality(Counted(s)) \in Nat /\ Cardinality(WayOut(s)) \in Nat
        /\ Cardinality(Counted(s)) <= Cardinality(WayOut(s))
    BY <2>1, FS_Subset, FS_CardinalityType, CountedFinite
  <2>3. /\ requestsTotal[s] \in Nat /\ recovered[s] \in Nat /\ sent[s] \in Nat
        /\ requestsTotal[s] + recovered[s] = sent[s] + Cardinality(Counted(s))
    BY Types DEF ChainInv, Tally
  <2> QED
    BY <2>2, <2>3
<1> QED
  BY <1>1, ChainInvariant, PTL

\* Slow requests, 5xx responses and panics leave a line of level warn or above:
\* ProblemsSurface.
THEOREM MiddlewareSurfaces == Spec => []ProblemsSurface
<1>1. ChainInv => ProblemsSurface
  BY DEF ChainInv, ProblemsSurface, Chain, VerdictAt
<1> QED
  BY <1>1, ChainInvariant, PTL

=============================================================================
