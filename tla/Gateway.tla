------------------------------ MODULE Gateway ------------------------------
(***************************************************************************)
(* The stage9 mini-gateway: Gateway.Handler serving concurrent requests.  *)
(* Each request is matched by the prefix router, runs the filter chain     *)
(* (CORS, API-key auth, rate limit, logging), and its final handler picks *)
(* a target round robin and forwards through the gateway's one circuit    *)
(* breaker.  Requests run on their own net/http goroutines; the state      *)
(* they share is the balancer counter (atomic), the breaker (its mutex)   *)
(* and the metrics counters (atomic).                                      *)
(*                                                                         *)
(* A path is a sequence of characters, so strings.HasPrefix is IsPrefix.  *)
(* Time is a tick counter; the backend is a nondeterministic answer.      *)
(***************************************************************************)
EXTENDS Integers, Sequences, SequencesExt, FiniteSets

CONSTANTS
    Clients,       \* goroutines of the HTTP server, each serving one request at a time
    Methods,       \* request methods
    OPTIONS,       \* http.MethodOptions, a member of Methods
    Paths,         \* request paths (sequences of characters)
    Keys,          \* X-API-Key header values
    NoKey,         \* the empty string: a route without APIKey, a request without the header
    Targets,       \* backend addresses
    Routes,        \* GatewayConfig.Routes: [prefix, methods, apiKey, targets, qps, burst]
    Threshold,     \* breaker.New threshold (5 in NewGateway)
    Timeout,       \* breaker.New timeout (time.Second), in ticks
    MaxRequests,   \* bound: requests served
    MaxTime        \* bound: clock ticks

\* The statuses filters write; Relayed stands for whatever status the
\* backend answered with (404 and 502 are counted by IncError).
StatusNoContent == 204
StatusUnauthorized == 401
StatusTooManyRequests == 429
Relayed == 200

Closed == "closed"
Open == "open"
HalfOpen == "halfopen"

\* Verdicts of a filter chain other than a status it writes.
CallNext == 0
FinalHandler == 1

Request == [method : Methods, path : Paths, key : Keys \cup {NoKey}]
NoRoute == 0

VARIABLES
    now,        \* the clock
    counter,    \* balancer.RoundRobin.counter
    cb,         \* the breaker: [state, failureCount, lastFailure]
    metrics,    \* monitoring.Metrics: [requests, errors]
    h,          \* h[c]: the Handler call goroutine c is in, [pc, req, route, target, status]
    served,     \* ghost: requests served so far
    forwarded,  \* ghost: the <<request, route>> of every request sent to a backend
    picks,      \* ghost: picks[i][t], requests of route i the balancer sent to t
    streak      \* ghost: failures recorded since the last success

vars == <<now, counter, cb, metrics, h, served, forwarded, picks, streak>>

Breaker == [state : {Closed, Open, HalfOpen}, failureCount : 0 .. MaxRequests,
            lastFailure : 0 .. MaxTime]
NoRequest == [method |-> OPTIONS, path |-> <<>>, key |-> NoKey]
Call == [pc : {"idle", "pick", "allow", "forward", "record"},
         req : Request \cup {NoRequest}, route : NoRoute .. Len(Routes),
         target : Targets \cup {NoKey}, status : {0, Relayed}]
\* A goroutine between requests.
Idle == [pc |-> "idle", req |-> NoRequest, route |-> NoRoute, target |-> NoKey, status |-> 0]

TypeOK ==
    /\ now \in 0 .. MaxTime
    /\ counter \in 0 .. MaxRequests
    /\ cb \in Breaker
    /\ metrics \in [requests : 0 .. MaxRequests, errors : 0 .. MaxRequests]
    /\ h \in [Clients -> Call]
    /\ served \in 0 .. MaxRequests
    /\ forwarded \subseteq Request \X (1 .. Len(Routes))
    /\ picks \in [1 .. Len(Routes) -> [Targets -> 0 .. MaxRequests]]
    /\ streak \in 0 .. MaxRequests

-----------------------------------------------------------------------------
(* Routing and filters: router.go, filter/*.go, limiter/token_bucket.go.   *)

\* Router.Match: the first route whose prefix the path has and which
\* lists the method (a route listing none takes every method).
Match(r) ==
    SelectInSeq(Routes, LAMBDA rt : /\ IsPrefix(rt.prefix, r.path)
                                    /\ rt.methods = {} \/ r.method \in rt.methods)

\* NewTokenBucket(qps, burst): a full bucket of burst tokens (burst
\* defaults to qps, qps to 1000).
NewTokenBucket(qps, burst) ==
    LET q == IF qps <= 0 THEN 1000 ELSE qps
        b == IF burst <= 0 THEN q ELSE burst
    IN [capacity |-> b, tokens |-> b, rate |-> q]

\* TokenBucket.Allow after `elapsed` ticks: refill, cap, take one token.
Allow(bucket, elapsed) ==
    LET t == IF bucket.tokens + elapsed * bucket.rate > bucket.capacity
             THEN bucket.capacity ELSE bucket.tokens + elapsed * bucket.rate
    IN t >= 1

\* The filters' verdicts on a request: CallNext, or the status written.
\* CORS answers a preflight itself.
CORS(r) == IF r.method = OPTIONS THEN StatusNoContent ELSE CallNext

\* APIKeyAuth(route.Config.APIKey): checks X-API-Key when the route has a key.
APIKeyAuth(rt, r) ==
    IF rt.apiKey # NoKey /\ r.key # rt.apiKey THEN StatusUnauthorized ELSE CallNext

\* RateLimit(bucket) with the bucket Handler made for this very request.
RateLimit(rt) ==
    IF Allow(NewTokenBucket(rt.qps, rt.burst), 0) THEN CallNext ELSE StatusTooManyRequests

\* Logging calls next and logs afterwards.
Logging == CallNext

FilterVerdict(f, r, rt) ==
    [cors |-> CORS(r), auth |-> APIKeyAuth(rt, r), ratelimit |-> RateLimit(rt),
     logging |-> Logging][f]

\* The filters in the order Handler passes them to Chain.
Filters == <<"cors", "auth", "ratelimit", "logging">>

\* Mutant: Chain's loop stops before the first filter.
ChainSkipsFirst(fs, r, rt) ==
    LET stops == {i \in 2 .. Len(fs) : FilterVerdict(fs[i], r, rt) # CallNext}
    IN IF stops = {} THEN FinalHandler ELSE FilterVerdict(fs[Min(stops)], r, rt)

\* filter.Chain wraps final in the filters from the last to the first, so
\* the first filter runs first; the result is the first verdict other than
\* CallNext, or FinalHandler when every filter passes the request on.
RECURSIVE Chain(_, _, _)
Chain(fs, r, rt) ==
    IF fs = <<>> THEN FinalHandler
    ELSE IF FilterVerdict(Head(fs), r, rt) = CallNext THEN Chain(Tail(fs), r, rt)
    ELSE FilterVerdict(Head(fs), r, rt)

-----------------------------------------------------------------------------
(* The breaker: breaker/circuit.go.                                        *)

\* breaker.New
NewBreaker == [state |-> Closed, failureCount |-> 0, lastFailure |-> 0]

\* CircuitBreaker.allow, under cb.mu: an open breaker goes half-open and
\* lets the request through once Timeout has passed since the last failure.
AllowCB(b, t) ==
    IF b.state = Open /\ t - b.lastFailure >= Timeout
    THEN [ok |-> TRUE, cb |-> [b EXCEPT !.state = HalfOpen]]
    ELSE [ok |-> b.state # Open, cb |-> b]

\* Mutant: the failure time is stored as the time the breaker may reopen.
OnFailureStoresDeadline(b, t) ==
    [b EXCEPT !.failureCount = @ + 1, !.lastFailure = t + Timeout,
              !.state = IF b.failureCount + 1 >= Threshold THEN Open ELSE @]

\* CircuitBreaker.onFailure
OnFailure(b, t) ==
    [b EXCEPT !.failureCount = @ + 1, !.lastFailure = t,
              !.state = IF b.failureCount + 1 >= Threshold THEN Open ELSE @]

\* Mutant: the failure count survives a success.
OnSuccessKeepsCount(b) == [b EXCEPT !.state = Closed]

\* CircuitBreaker.onSuccess
OnSuccess(b) == [b EXCEPT !.failureCount = 0, !.state = Closed]

-----------------------------------------------------------------------------
(* Gateway.Handler, one step per access to shared state.                   *)

\* Metrics.IncRequest and Metrics.IncError (atomic adds).
IncRequest(m) == [m EXCEPT !.requests = @ + 1]
IncError(m) == [m EXCEPT !.errors = @ + 1]

\* Write an error status and return from Handler: IncError.
Finish(c) ==
    /\ h' = [h EXCEPT ![c] = Idle]
    /\ metrics' = IncError(metrics)

\* A request arrives: IncRequest, Router.Match (404 and an error when no
\* route matches), then the filter chain, which answers the request itself
\* or calls the final handler.
Handle(c, r) ==
    LET rt == Match(r)
        v == Chain(Filters, r, Routes[rt])
    IN /\ h[c].pc = "idle" /\ served < MaxRequests
       /\ served' = served + 1
       /\ metrics' = IF rt = NoRoute THEN IncError(IncRequest(metrics)) ELSE IncRequest(metrics)
       /\ IF rt # NoRoute /\ v = FinalHandler
          THEN h' = [h EXCEPT ![c] = [Idle EXCEPT !.pc = "pick", !.req = r, !.route = rt]]
          ELSE UNCHANGED h
       /\ UNCHANGED <<now, counter, cb, forwarded, picks, streak>>

\* Mutant: the counter is read but not incremented.
PickNoIncrement(c) ==
    LET i == h[c].route
        ts == Routes[i].targets
        t == ts[(counter % Len(ts)) + 1]
    IN /\ h[c].pc = "pick" /\ ts # <<>>
       /\ h' = [h EXCEPT ![c].target = t, ![c].pc = "allow"]
       /\ picks' = [picks EXCEPT ![i][t] = @ + 1]
       /\ UNCHANGED <<counter, metrics>>

\* RoundRobin.Pick: atomic.AddUint64, then index by the new value.
Pick(c) ==
    LET i == h[c].route
        ts == Routes[i].targets
        t == ts[((counter + 1) % Len(ts)) + 1]
    IN /\ h[c].pc = "pick" /\ ts # <<>>
       /\ counter' = counter + 1
       /\ h' = [h EXCEPT ![c].target = t, ![c].pc = "allow"]
       /\ picks' = [picks EXCEPT ![i][t] = @ + 1]
       /\ UNCHANGED metrics

\* The final handler: Pick, or 502 "no target" for a route without targets.
PickTarget(c) ==
    /\ \/ Pick(c)
       \/ /\ h[c].pc = "pick" /\ Routes[h[c].route].targets = <<>>
          /\ Finish(c)
          /\ UNCHANGED <<counter, picks>>
    /\ UNCHANGED <<now, cb, served, forwarded, streak>>

\* Execute's allow: a request the breaker refuses gets 502 (ErrOpen).
AllowRequest(c) ==
    LET a == AllowCB(cb, now)
    IN /\ h[c].pc = "allow"
       /\ cb' = a.cb
       /\ IF a.ok
          THEN /\ h' = [h EXCEPT ![c].pc = "forward"]
               /\ forwarded' = forwarded \cup {<<h[c].req, h[c].route>>}
               /\ UNCHANGED metrics
          ELSE /\ Finish(c)
               /\ UNCHANGED forwarded
       /\ UNCHANGED <<now, counter, served, picks, streak>>

\* proxy.Forward: the backend's answer is copied to the client, or the
\* call fails (bad address, connection refused, Do error) writing nothing.
Forward(c) ==
    /\ h[c].pc = "forward"
    /\ \E st \in {Relayed, 0} : h' = [h EXCEPT ![c].status = st, ![c].pc = "record"]
    /\ UNCHANGED <<now, counter, cb, metrics, served, forwarded, picks, streak>>

\* Execute after fn: onSuccess, or onFailure and the handler's 502.
Record(c) ==
    /\ h[c].pc = "record"
    /\ IF h[c].status = Relayed
       THEN /\ cb' = OnSuccess(cb)
            /\ streak' = 0
            /\ h' = [h EXCEPT ![c] = Idle]
            /\ UNCHANGED metrics
       ELSE /\ cb' = OnFailure(cb, now)
            /\ streak' = streak + 1
            /\ Finish(c)
    /\ UNCHANGED <<now, counter, served, forwarded, picks>>

\* Time passes.
Tick ==
    /\ now < MaxTime
    /\ now' = now + 1
    /\ UNCHANGED <<counter, cb, metrics, h, served, forwarded, picks, streak>>

-----------------------------------------------------------------------------

\* main: NewGateway; no request yet.
Init ==
    /\ now = 0 /\ counter = 0
    /\ cb = NewBreaker
    /\ metrics = [requests |-> 0, errors |-> 0]
    /\ h = [c \in Clients |-> Idle]
    /\ served = 0 /\ forwarded = {}
    /\ picks = [i \in 1 .. Len(Routes) |-> [t \in Targets |-> 0]]
    /\ streak = 0

Step(c) ==
    \/ \E r \in Request : Handle(c, r)
    \/ PickTarget(c) \/ AllowRequest(c) \/ Forward(c) \/ Record(c)

Next == Tick \/ \E c \in Clients : Step(c)

\* Only safety is checked: http.DefaultClient.Do has no timeout, so no
\* fairness on the backend call would be justified by the code.
Spec == Init /\ [][Next]_vars

-----------------------------------------------------------------------------
(* Properties.                                                             *)

\* The router and the filter chain compose into one admission rule: a
\* request reaches a backend only if the first route matching it is the
\* route it was forwarded on, it is not a CORS preflight (answered 204 by
\* the outermost filter), and it carries the route's API key when the
\* route has one.
OnlyAdmittedForwarded ==
    \A f \in forwarded :
        LET r == f[1]
            i == f[2]
        IN /\ Match(r) = i
           /\ r.method # OPTIONS
           /\ Routes[i].apiKey \in {NoKey, r.key}

\* The breaker, shared by every request and updated by each one after its
\* backend call returns, is open or half-open only when at least
\* Threshold failures were recorded since the last recorded success.
BreakerTripsOnStreak ==
    cb.state \in {Open, HalfOpen} => streak >= Threshold

\* A route's requests are spread over its targets round robin.
BalancedPicks ==
    \A i \in 1 .. Len(Routes) :
        \A t1, t2 \in Range(Routes[i].targets) : picks[i][t1] <= picks[i][t2] + 1

=============================================================================
