----------------------------- MODULE Resilience -----------------------------
(***************************************************************************)
(* The three middlewares of the resilience crate in one chain              *)
(* (crates/core/src/middleware.rs): on_request runs in the order of        *)
(* registration, on_response in reverse, and the first error ends either   *)
(* run.  The breaker and the limiter keep their state behind a mutex each, *)
(* taken for one call, so the steps of concurrent requests interleave      *)
(* between any two middlewares.                                            *)
(*                                                                         *)
(* CircuitBreaker's actions are the breaker's part of the steps; its       *)
(* variable req says which requests it has admitted and not heard of since.*)
(* main.rs registers none of the three, so any order is a possible host:   *)
(* chain is chosen once, from Orders.  All three look up the channel the   *)
(* router selected, so they are registered after the router.               *)
(***************************************************************************)
EXTENDS CircuitBreaker, RateLimiter, Sequences

CONSTANTS Orders,      \* orders of registration
          MaxRetries,  \* RetryConfig.max_retries
          Span         \* how many ticks of admissions the history keeps

ASSUME ChainAssumption == /\ MaxRetries \in Nat /\ Span \in Nat \ {0}
                          /\ Orders \subseteq Seq({"breaker", "limiter", "retry"}) \ {<<>>}
                          /\ \A order \in Orders : \A i, j \in DOMAIN order :
                               order[i] = order[j] => i = j

VARIABLES chain,    \* the middlewares in the order of registration
          stage,    \* [request -> where it is in the chain, channel, status]
          recent    \* history: [channel -> [k -> admissions now and in the k ticks before]]

rvars == <<circuits, req, buckets, chain, stage, recent>>

NotStarted == [at |-> "idle", pos |-> 0, channel |-> NoChannel, status |-> "ok"]

AgeRange == 0..(Span - 1)

RInit ==
  /\ Init
  /\ buckets = [c \in Channels |-> NewBucket]
  /\ chain \in Orders
  /\ stage = [r \in Requests |-> NotStarted]
  /\ recent = [c \in Channels |-> [k \in AgeRange |-> 0]]

-----------------------------------------------------------------------------
(* run_on_request_chain, run_on_response_chain *)

\* Request r is at middleware mw on its way out, or on its way back.
OutAt(r, mw) == stage[r].at = "out" /\ chain[stage[r].pos] = mw
BackAt(r, mw) == stage[r].at = "back" /\ chain[stage[r].pos] = mw

\* The middleware returned Ok: the next one, then the upstream.
Onward(r) ==
  stage' = IF stage[r].pos < Len(chain) THEN [stage EXCEPT ![r].pos = @ + 1]
                                         ELSE [stage EXCEPT ![r].at = "upstream"]

\* The middleware returned Ok: the one registered before it, then the client.
Back(r) ==
  stage' = IF stage[r].pos > 1 THEN [stage EXCEPT ![r].pos = @ - 1]
                                ELSE [stage EXCEPT ![r] = NotStarted]

\* The middleware returned Err, or the upstream cannot be reached: the client is
\* answered and the middlewares not yet reached never hear of the request.
Ends(r) ==
  /\ stage' = [stage EXCEPT ![r] = NotStarted]
  /\ IF req[r].pc = "sent" THEN Abandon(r) ELSE UNCHANGED <<circuits, req>>

\* The router has selected a channel for a request; NoChannel is a channel with an
\* empty name, or none at all.
Start(r, c) ==
  /\ stage[r].at = "idle"
  /\ stage' = [stage EXCEPT ![r] = [at |-> "out", pos |-> 1, channel |-> c,
                                     status |-> "ok"]]
  /\ UNCHANGED <<circuits, req, buckets, chain, recent>>

\* Mutant: the response chain runs in the order of registration.
AnswersInOrder(r, status) ==
  /\ stage[r].at = "upstream"
  /\ stage' = [stage EXCEPT ![r] = [at |-> "back", pos |-> 1, channel |-> @.channel,
                                     status |-> status]]
  /\ UNCHANGED <<circuits, req, buckets, chain, recent>>

\* The upstream answers: the response starts at the middleware registered last.
UpstreamAnswers(r, status) ==
  /\ stage[r].at = "upstream"
  /\ stage' = [stage EXCEPT ![r] = [at |-> "back", pos |-> Len(chain),
                                     channel |-> @.channel, status |-> status]]
  /\ UNCHANGED <<circuits, req, buckets, chain, recent>>

\* The upstream cannot be reached, or no channel was selected.
UpstreamFails(r) ==
  /\ stage[r].at = "upstream"
  /\ Ends(r)
  /\ UNCHANGED <<buckets, chain, recent>>

-----------------------------------------------------------------------------
(* The circuit breaker *)

BreakerRequest(r) ==
  LET c == stage[r].channel
  IN  /\ OutAt(r, "breaker")
      /\ \/ c = NoChannel /\ OnRequestNoChannel(r) /\ Onward(r)
         \/ c # NoChannel /\ OnRequestAllowed(r, c) /\ Onward(r)
         \/ /\ c # NoChannel /\ OnRequestRejected(r, c)
            /\ stage' = [stage EXCEPT ![r] = NotStarted]
      /\ UNCHANGED <<buckets, chain, recent>>

BreakerResponse(r) ==
  /\ BackAt(r, "breaker")
  /\ OnResponseNoChannel(r) \/ OnResponse(r, stage[r].status)
  /\ Back(r)
  /\ UNCHANGED <<buckets, chain, recent>>

-----------------------------------------------------------------------------
(* The rate limiter *)

\* on_request, without a channel
LimiterNoChannel(r) ==
  /\ OutAt(r, "limiter") /\ stage[r].channel = NoChannel
  /\ Onward(r)
  /\ UNCHANGED <<circuits, req, buckets, chain, recent>>

\* on_request, check_rate_limit is Ok
LimiterAdmits(r) ==
  LET c == stage[r].channel
  IN  /\ OutAt(r, "limiter") /\ c # NoChannel
      /\ Consumes(buckets[c])
      /\ buckets' = [buckets EXCEPT ![c] = TryConsume(@)]
      /\ recent' = [recent EXCEPT ![c] = [k \in AgeRange |-> @[k] + 1]]
      /\ Onward(r)
      /\ UNCHANGED <<circuits, req, chain>>

\* on_request, check_rate_limit is RateLimited: the bucket is refilled all the same
LimiterRejects(r) ==
  LET c == stage[r].channel
  IN  /\ OutAt(r, "limiter") /\ c # NoChannel
      /\ ~Consumes(buckets[c])
      /\ buckets' = [buckets EXCEPT ![c] = TryConsume(@)]
      /\ Ends(r)
      /\ UNCHANGED <<chain, recent>>

\* on_response
LimiterResponse(r) ==
  /\ BackAt(r, "limiter")
  /\ Back(r)
  /\ UNCHANGED <<circuits, req, buckets, chain, recent>>

-----------------------------------------------------------------------------
(* The retry middleware *)

\* on_request
RetryRequest(r) ==
  /\ OutAt(r, "retry")
  /\ Onward(r)
  /\ UNCHANGED <<circuits, req, buckets, chain, recent>>

\* The attempt on_response reads from the context: nothing ever writes it.
Attempt == 0

\* Mutant: only a 5xx is retryable.
SwallowsServerErrors(status) == status = "server_error" /\ Attempt < MaxRetries

\* on_response returns RateLimited for a retryable status.
Swallows(status) == IsRetryable(status) /\ Attempt < MaxRetries

\* on_response
RetryResponse(r) ==
  /\ BackAt(r, "retry")
  /\ IF Swallows(stage[r].status)
     THEN Ends(r)
     ELSE Back(r) /\ UNCHANGED <<circuits, req>>
  /\ UNCHANGED <<buckets, chain, recent>>

-----------------------------------------------------------------------------

Older(counts) == [k \in AgeRange |-> IF k = 0 THEN 0 ELSE counts[k - 1]]

\* Time passes for the circuits and for the buckets.
RTick ==
  /\ IF \E c \in Channels : Ages(circuits[c]) THEN Tick ELSE UNCHANGED <<circuits, req>>
  /\ buckets' = [c \in Channels |-> Later(buckets[c])]
  /\ recent' = [c \in Channels |-> Older(recent[c])]
  /\ UNCHANGED <<chain, stage>>

\* The steps of a request that is in the proxy.
InFlight(r) ==
  \/ BreakerRequest(r) \/ LimiterNoChannel(r) \/ LimiterAdmits(r) \/ LimiterRejects(r)
  \/ RetryRequest(r)
  \/ \E status \in Statuses : UpstreamAnswers(r, status)
  \/ UpstreamFails(r)
  \/ BreakerResponse(r) \/ LimiterResponse(r) \/ RetryResponse(r)

RNext == \/ RTick
         \/ \E r \in Requests : \/ \E c \in Channels \cup {NoChannel} : Start(r, c)
                                \/ InFlight(r)

RSpec == RInit /\ [][RNext]_rvars

\* Time passes; a request in the proxy goes on (the engine's HTTP client has a
\* timeout); clients keep asking for every channel.
RFairness ==
  /\ WF_rvars(RTick)
  /\ \A r \in Requests : /\ WF_rvars(InFlight(r))
                         /\ \A c \in Channels : SF_rvars(Start(r, c))

RFairSpec == RSpec /\ RFairness

-----------------------------------------------------------------------------
(* Properties *)

\* Bucket levels and ages, positions and statuses are in range.
ResilienceTypeOK ==
  /\ TypeOK
  /\ buckets \in [Channels -> TokenBucket]
  /\ chain \in Orders
  /\ stage \in [Requests -> [at : {"idle", "out", "upstream", "back"}, pos : 0..Len(chain),
                             channel : Channels \cup {NoChannel}, status : Statuses]]

\* What a bucket would hold if it had been refilled up to now.
Level(b) == LET full == b.tokens + b.since * MaxRequests
            IN  IF full < Capacity THEN full ELSE Capacity

Credit == INSTANCE TokenCredit WITH
            Names <- Channels, Full <- Capacity, PerTick <- MaxRequests, Price <- Token,
            credit <- [c \in Channels |-> Level(buckets[c])]

\* The bucket that is refilled only when asked is the bucket that is refilled all
\* the time: a channel's credit grows with the clock alone, a refused request
\* neither costs it credit nor time, and requests of other channels (there are
\* none in the run, any number in the proof), the breaker and the order of the
\* chain have no part in it.
LazyRefillIsExact == Credit!Spec

\* However requests are spread, no k ticks see more than max_requests admissions
\* and what k ticks earn: an idle bucket saves up one burst and no more.
BurstBounded ==
  \A c \in Channels : \A k \in AgeRange :
    recent[c][k] * Token <= Capacity + k * MaxRequests

Before(a, b) == \E i, j \in DOMAIN chain : i < j /\ chain[i] = a /\ chain[j] = b

\* A response the breaker waits for reaches it before the client is answered,
\* unless retry, registered after the breaker, turns a retryable status into
\* an error first: then the breaker counts neither a failure nor a success.
BreakerHears ==
  [][\A r \in Requests :
       stage[r].at = "back" /\ stage'[r].at = "idle" /\ req[r].pc = "sent"
       => \/ chain[stage[r].pos] = "breaker"
          \/ Before("breaker", "retry") /\ Swallows(stage[r].status)]_rvars

\* "after N consecutive failures the circuit opens" is lost with that order: as
\* long as retry answers for failures first, no circuit ever counts one.
DeafBreaker ==
  Before("breaker", "retry") /\ MaxRetries > 0
  => \A c \in Channels : circuits[c] = NewCircuit

=============================================================================
