------------------------------- MODULE Gateway -------------------------------
(***************************************************************************)
(* api-gateway: the route of a proxied request through the rate limiter,   *)
(* the circuit breaker of its service and the proxy (cmd/server/main.go:   *)
(* Limit, then CircuitBreakerMiddleware, then Forward).                    *)
(*                                                                         *)
(* A goroutine serves one request at a time. Its call to the service runs  *)
(* for any time up to the proxy's timeout, while others pass the breaker.  *)
(***************************************************************************)
EXTENDS Integers

CONSTANTS
  Goroutines,    \* that serve requests at the same time
  Clients, MaxRequests, Window,              \* see RateLimiter
  MaxFailures, ResetTimeout, HalfOpenMax,    \* see CircuitBreaker
  MaxPerTick     \* bound: requests a client sends in one tick

VARIABLES
  count, ttl, admitted, sent,
  state, failures, successes, quiet,
  forwarded   \* goroutines that wait for the service

limiter == <<count, ttl, admitted, sent>>
breaker == <<state, failures, successes, quiet>>
gateway == <<count, ttl, admitted, sent, state, failures, successes, quiet, forwarded>>

L == INSTANCE RateLimiter
CB == INSTANCE CircuitBreaker

ASSUME GatewayAssumption ==
  /\ {MaxFailures, ResetTimeout, HalfOpenMax, Window} \subseteq Nat \ {0}
  /\ MaxRequests \in Nat

GatewayInit == L!Init /\ CB!Init /\ forwarded = {}

(* A request that the limiter lets through goes on to the breaker, which   *)
(* forwards or rejects it.                                                 *)
Request(c, h) ==
  /\ h \notin forwarded
  /\ sent[c] < MaxPerTick
  /\ L!Admit(c) \/ L!FailOpen(c)
  /\ forwarded' = IF CB!Allow THEN forwarded \cup {h} ELSE forwarded
  /\ UNCHANGED breaker

Limited(c) ==
  /\ sent[c] < MaxPerTick
  /\ L!Refuse(c)
  /\ UNCHANGED <<breaker, forwarded>>

(* The service answers, or the proxy writes 502: it cannot reach the       *)
(* service, has waited 90 seconds, or its own client has gone away.        *)
Answer(h) ==
  /\ h \in forwarded
  /\ CB!RecordSuccess \/ CB!RecordFailure
  /\ forwarded' = forwarded \ {h}
  /\ UNCHANGED limiter

Tick ==
  /\ L!Tick /\ CB!Tick
  /\ UNCHANGED forwarded

GatewayNext ==
  \/ \E c \in Clients : (\E h \in Goroutines : Request(c, h)) \/ Limited(c)
  \/ \E h \in Goroutines : Answer(h)
  \/ Tick

(* Time passes, and the proxy's timeout ends every call.                   *)
Fairness == WF_gateway(Tick) /\ \A h \in Goroutines : WF_gateway(Answer(h))

GatewaySpec == GatewayInit /\ [][GatewayNext]_gateway /\ Fairness
-----------------------------------------------------------------------------
(* rate_limiter.go:13 calls itself a "sliding window rate limiter": in no  *)
(* window of time, wherever it starts, are more than MaxRequests requests  *)
(* of a client admitted on Redis's word, whatever pipelines fail on the    *)
(* way.                                                                    *)
SlidingWindowBound == \A c \in Clients : L!Recent(c) <= MaxRequests

(* The breaker never shuts a service out for good: failures of requests    *)
(* forwarded earlier extend the rejection, but it always ends.             *)
NeverShutForGood == []<>CB!Allow
=============================================================================
