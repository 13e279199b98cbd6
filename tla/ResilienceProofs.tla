-------------------------- MODULE ResilienceProofs --------------------------
(***************************************************************************)
(* Proofs about CircuitBreaker and Resilience, for any channels, requests, *)
(* orders of the chain and any threshold, cooldown, max_requests, window   *)
(* and max_retries: the circuits stay coherent; the lazily refilled        *)
(* buckets of the rate limiter implement the credit of TokenCredit and let *)
(* no burst through; the chain implements the circuit breaker's own        *)
(* specification; and which responses the breaker hears in it.             *)
(***************************************************************************)
EXTENDS Resilience, TLAPS

-----------------------------------------------------------------------------
(* The circuit breaker *)

\* A half-open circuit got there through an expired cooldown, and time has no
\* effect on it any more.
HalfOpenExpired ==
  \A c \in Channels :
    circuits[c].state = "HalfOpen" => circuits[c].elapsed = Cooldown

\* The inductive invariant.
IInv == TypeOK /\ CircuitCoherent /\ HalfOpenExpired

USE ThresholdAssumption, CooldownAssumption, NoChannelAssumption

\* What the circuit operators return, stated once for the actions: they keep a
\* circuit well typed and coherent.
Coherent(cc) ==
  /\ cc \in Circuit
  /\ IF cc.state = "Closed"
     THEN cc.failure_count < FailureThreshold /\ cc.elapsed = NotOpened
     ELSE cc.failure_count >= FailureThreshold /\ cc.elapsed # NotOpened
  /\ cc.state = "HalfOpen" => cc.elapsed = Cooldown

\* The invariant says that requests are well typed and every circuit is coherent.
LEMMA IInvPointwise ==
  IInv <=> /\ DOMAIN circuits = Channels
           /\ circuits = [c \in Channels |-> circuits[c]]
           /\ \A c \in Channels : Coherent(circuits[c])
           /\ req \in [Requests -> RequestState]
  BY DEF IInv, TypeOK, CircuitCoherent, HalfOpenExpired, Coherent

\* ChannelCircuit::new is coherent (the threshold is not zero).
LEMMA NewCircuitCoherent == Coherent(NewCircuit)
  BY DEF Coherent, NewCircuit, Circuit, States, Elapsed, NotOpened

\* allow_request keeps a circuit coherent when it lets a request through.
LEMMA AllowCoherent ==
  ASSUME NEW cc, Coherent(cc), Allows(cc)
  PROVE  Coherent(AfterAllow(cc))
  BY DEF Coherent, Allows, AfterAllow, CooldownOver, Circuit, States, Elapsed,
         NotOpened

\* record_failure keeps a circuit coherent, in whichever state it finds it.
LEMMA FailureCoherent ==
  ASSUME NEW cc, Coherent(cc)
  PROVE  Coherent(RecordFailure(cc))
  BY DEF Coherent, RecordFailure, Circuit, States, Elapsed, NotOpened

\* on_response keeps a circuit coherent whatever the status is.
LEMMA ResponseCoherent ==
  ASSUME NEW cc, Coherent(cc), NEW status
  PROVE  Coherent(AfterResponse(cc, status))
  BY NewCircuitCoherent, FailureCoherent DEF AfterResponse, RecordSuccess

\* Time keeps a circuit coherent.
LEMMA TickCoherent ==
  ASSUME NEW cc, Coherent(cc), Ages(cc)
  PROVE  Coherent([cc EXCEPT !.elapsed = @ + 1])
  BY DEF Coherent, Ages, Circuit, States, Elapsed, NotOpened

\* Every step of the middleware, of its clients or of time preserves IInv.
LEMMA NextPreservesIInv == IInv /\ [Next]_vars => IInv'
<1> SUFFICES ASSUME IInv, [Next]_vars PROVE IInv'
  OBVIOUS
<1>0. /\ circuits = [c \in Channels |-> circuits[c]]
      /\ \A c \in Channels : Coherent(circuits[c])
      /\ req \in [Requests -> RequestState]
  BY IInvPointwise
<1> DEFINE Goal == /\ circuits' = [c \in Channels |-> circuits'[c]]
                   /\ \A c \in Channels : Coherent(circuits'[c])
                   /\ req' \in [Requests -> RequestState]
<1>a. SUFFICES Goal
  BY DEF IInv, TypeOK, CircuitCoherent, HalfOpenExpired, Coherent
<1>b. \A r \in Requests : \A q \in RequestState :
        [req EXCEPT ![r] = q] \in [Requests -> RequestState]
  BY <1>0
<1>c. Idle \in RequestState /\ [Idle EXCEPT !.pc = "sent"] \in RequestState
  BY DEF Idle, RequestState
<1>1. CASE Tick
  <2>1. \A c \in Channels : Coherent(circuits'[c])
    BY <1>0, <1>1, TickCoherent DEF Tick
  <2> QED BY <1>0, <1>1, <2>1 DEF Tick
<1>2. ASSUME NEW r \in Requests, OnRequestNoChannel(r)
      PROVE Goal
  BY <1>0, <1>b, <1>c, <1>2 DEF OnRequestNoChannel
<1>3. ASSUME NEW r \in Requests, NEW c \in Channels, OnRequestAllowed(r, c)
      PROVE Goal
  <2>1. Coherent(AfterAllow(circuits[c]))
    BY <1>0, <1>3, AllowCoherent DEF OnRequestAllowed
  <2>2. \A d \in Channels : Coherent(circuits'[d])
    BY <1>0, <1>3, <2>1 DEF OnRequestAllowed
  <2>3. [pc |-> "sent", channel |-> c] \in RequestState
    BY DEF RequestState
  <2> QED BY <1>0, <1>b, <1>3, <2>2, <2>3 DEF OnRequestAllowed
<1>4. ASSUME NEW r \in Requests, NEW c \in Channels, OnRequestRejected(r, c)
      PROVE Goal
  BY <1>0, <1>4 DEF OnRequestRejected, vars
<1>5. ASSUME NEW r \in Requests, OnResponseNoChannel(r)
      PROVE Goal
  BY <1>0, <1>b, <1>c, <1>5 DEF OnResponseNoChannel
<1>6. ASSUME NEW r \in Requests, NEW status \in Statuses, OnResponse(r, status)
      PROVE Goal
  <2>1. req[r].channel \in Channels
    BY <1>0, <1>6 DEF OnResponse, RequestState
  <2>2. Coherent(AfterResponse(circuits[req[r].channel], status))
    BY <1>0, <2>1, ResponseCoherent
  <2>3. \A d \in Channels : Coherent(circuits'[d])
    BY <1>0, <1>6, <2>1, <2>2 DEF OnResponse
  <2> QED BY <1>0, <1>b, <1>c, <1>6, <2>3 DEF OnResponse
<1>7. ASSUME NEW r \in Requests, Abandon(r)
      PROVE Goal
  BY <1>0, <1>b, <1>c, <1>7 DEF Abandon
<1>8. CASE UNCHANGED vars
  BY <1>0, <1>8 DEF vars
<1> HIDE DEF Goal
<1> QED
  BY <1>1, <1>2, <1>3, <1>4, <1>5, <1>6, <1>7, <1>8 DEF Next, RequestStep

\* The inductive invariant holds in every reachable state.
THEOREM Invariance == Spec => []IInv
<1>1. Init => IInv
  BY NewCircuitCoherent DEF Init, IInv, TypeOK, CircuitCoherent,
     HalfOpenExpired, Coherent, Idle, RequestState
<1> QED BY <1>1, NextPreservesIInv, PTL DEF Spec

\* Circuits and requests are well typed, and the fields of every circuit agree
\* in every interleaving of requests and responses.
THEOREM Coherence == Spec => [](TypeOK /\ CircuitCoherent)
<1>1. IInv => TypeOK /\ CircuitCoherent
  BY DEF IInv
<1> QED BY <1>1, Invariance, PTL

\* Every response that reaches a half-open circuit closes it cleanly or re-opens
\* it with a whole cooldown ahead; nothing else changes a half-open circuit.
THEOREM ProbeDecision == Spec => ProbeDecides
<1> DEFINE Decides ==
      \A c \in Channels :
        circuits[c].state = "HalfOpen" /\ circuits'[c] # circuits[c]
        => \/ circuits'[c] = NewCircuit
           \/ circuits'[c].state = "Open" /\ circuits'[c].elapsed = 0
<1>1. ASSUME IInv, [Next]_vars PROVE Decides
  <2> SUFFICES ASSUME NEW c \in Channels, circuits[c].state = "HalfOpen",
                      circuits'[c] # circuits[c]
               PROVE  \/ circuits'[c] = NewCircuit
                      \/ circuits'[c].state = "Open" /\ circuits'[c].elapsed = 0
    OBVIOUS
  <2>0. /\ circuits = [d \in Channels |-> circuits[d]]
        /\ Coherent(circuits[c])
        /\ req \in [Requests -> RequestState]
    BY <1>1, IInvPointwise
  <2>1. CASE Tick
    <3>1. ~Ages(circuits[c])
      BY <2>0 DEF Coherent, Ages
    <3> QED BY <2>1, <3>1 DEF Tick
  <2>2. ASSUME NEW r \in Requests, NEW d \in Channels, OnRequestAllowed(r, d)
        PROVE FALSE
    <3>1. AfterAllow(circuits[c]) = circuits[c]
      BY DEF AfterAllow
    <3> QED BY <2>0, <2>2, <3>1 DEF OnRequestAllowed
  <2>3. ASSUME NEW r \in Requests, NEW status \in Statuses, OnResponse(r, status)
        PROVE  \/ circuits'[c] = NewCircuit
               \/ circuits'[c].state = "Open" /\ circuits'[c].elapsed = 0
    <3>1. circuits'[c] = AfterResponse(circuits[c], status)
      BY <2>0, <2>3 DEF OnResponse
    <3>2. circuits[c].failure_count = FailureThreshold
      BY <2>0 DEF Coherent, Circuit
    <3>3. RecordFailure(circuits[c]).state = "Open"
          /\ RecordFailure(circuits[c]).elapsed = 0
      BY <3>2 DEF RecordFailure
    <3> QED BY <3>1, <3>3 DEF AfterResponse, RecordSuccess
  <2> QED
    BY <1>1, <2>1, <2>2, <2>3
    DEF Next, RequestStep, OnRequestNoChannel, OnRequestRejected,
        OnResponseNoChannel, Abandon, vars
<1>2. IInv /\ [Next]_vars => [Decides]_vars
  BY <1>1
<1> QED BY <1>2, Invariance, PTL DEF Spec, ProbeDecides

-----------------------------------------------------------------------------
(* The rate limiter *)

USE LimitAssumption

\* The inductive invariant: every channel has a well-typed bucket.
BucketsOK == buckets \in [Channels -> TokenBucket]

\* The sizes are numbers, and a whole window earns a whole bucket.
LEMMA Sizes ==
  /\ Capacity \in Nat /\ Token \in Nat \ {0}
  /\ Token <= Capacity
  /\ Window * MaxRequests = Capacity
  BY DEF Capacity, Token

\* What a bucket has earned since its last refill is a number.
LEMMA Earned ==
  ASSUME NEW b \in TokenBucket
  PROVE  /\ b.tokens \in Nat /\ b.tokens <= Capacity
         /\ b.since \in Nat /\ b.since <= Window
         /\ b.since * MaxRequests \in Nat
  BY Sizes DEF TokenBucket

\* The level of a bucket is a number up to its capacity.
LEMMA LevelRange ==
  ASSUME NEW b \in TokenBucket
  PROVE  Level(b) \in 0..Capacity
  BY Earned, Sizes DEF Level

\* refill() brings a bucket to its level, and the level is not moved by it.
LEMMA RefillKeepsLevel ==
  ASSUME NEW b \in TokenBucket
  PROVE  /\ Refill(b) \in TokenBucket
         /\ Refill(b).tokens = Level(b)
         /\ Refill(b).since = 0
  BY Earned, Sizes DEF Refill, Level, TokenBucket

\* A bucket without time behind it is at its level.
LEMMA FreshLevel ==
  ASSUME NEW b \in TokenBucket, b.since = 0
  PROVE  Level(b) = b.tokens
  BY Earned, Sizes DEF Level, TokenBucket

\* try_consume succeeds exactly if the level is worth a token, and takes one then.
LEMMA ConsumeSpends ==
  ASSUME NEW b \in TokenBucket
  PROVE  /\ Consumes(b) <=> Level(b) >= Token
         /\ TryConsume(b) \in TokenBucket
         /\ Level(TryConsume(b)) = IF Consumes(b) THEN Level(b) - Token ELSE Level(b)
<1> DEFINE r == Refill(b)
<1>1. r \in TokenBucket /\ r.tokens = Level(b) /\ r.since = 0
  BY RefillKeepsLevel
<1>2. Level(b) \in 0..Capacity
  BY LevelRange
<1>3. Consumes(b) <=> Level(b) >= Token
  BY <1>1 DEF Consumes
<1>4. CASE Consumes(b)
  <2> DEFINE s == [r EXCEPT !.tokens = @ - Token]
  <2>1. TryConsume(b) = s
    BY <1>4 DEF TryConsume
  <2>2. Level(b) - Token \in 0..Capacity
    BY <1>2, <1>3, <1>4, Sizes
  <2>3. s \in TokenBucket /\ s.tokens = Level(b) - Token /\ s.since = 0
    BY <1>1, <2>2 DEF TokenBucket
  <2> QED
    BY <1>3, <1>4, <2>1, <2>3, FreshLevel
<1>5. CASE ~Consumes(b)
  <2>1. TryConsume(b) = r
    BY <1>5 DEF TryConsume
  <2> QED
    BY <1>1, <1>3, <1>5, <2>1, FreshLevel
<1> QED
  BY <1>4, <1>5

\* A tick earns max_requests / window of a token, up to a full bucket.
LEMMA LaterEarns ==
  ASSUME NEW b \in TokenBucket
  PROVE  /\ Later(b) \in TokenBucket
         /\ Level(Later(b)) = IF Level(b) + MaxRequests < Capacity
                              THEN Level(b) + MaxRequests ELSE Capacity
<1>1. CASE b.since < Window
  <2> DEFINE n == [b EXCEPT !.since = @ + 1]
  <2>1. Later(b) = n /\ n \in TokenBucket /\ n.tokens = b.tokens /\ n.since = b.since + 1
    BY <1>1, Earned DEF Later, TokenBucket
  <2>2. n.since * MaxRequests = b.since * MaxRequests + MaxRequests
    BY <2>1, Earned
  <2> QED
    BY <2>1, <2>2, Earned, Sizes DEF Level
<1>2. CASE ~(b.since < Window)
  <2>1. b.since = Window /\ Later(b) = b
    BY <1>2, Earned DEF Later
  <2>2. Level(b) = Capacity
    BY <2>1, Earned, Sizes DEF Level
  <2> QED
    BY <2>1, <2>2, Sizes
<1> QED
  BY <1>1, <1>2

-----------------------------------------------------------------------------

\* Initially the buckets are full, and so are the credits.
LEMMA InitRefines == RInit => BucketsOK /\ Credit!Init
<1> SUFFICES ASSUME RInit PROVE BucketsOK /\ Credit!Init
  OBVIOUS
<1>1. NewBucket \in TokenBucket /\ NewBucket.tokens = Capacity /\ NewBucket.since = 0
  BY Sizes DEF NewBucket, TokenBucket
<1>2. Level(NewBucket) = Capacity
  BY <1>1, FreshLevel
<1> QED
  BY <1>1, <1>2 DEF RInit, BucketsOK, Credit!Init

\* The credit the refinement maps the buckets to.
credits == [c \in Channels |-> Level(buckets[c])]

\* The limiter asks a bucket: the channel's credit pays for the request, or stays.
LEMMA AskRefines ==
  ASSUME BucketsOK, NEW c \in Channels,
         buckets' = [buckets EXCEPT ![c] = TryConsume(@)]
  PROVE  /\ BucketsOK'
         /\ IF Consumes(buckets[c]) THEN Credit!Admit(c) ELSE credits' = credits
<1>1. buckets[c] \in TokenBucket
  BY DEF BucketsOK
<1>2. /\ buckets'[c] = TryConsume(buckets[c])
      /\ \A d \in Channels : d # c => buckets'[d] = buckets[d]
  BY DEF BucketsOK
<1>3. BucketsOK'
  BY <1>1, ConsumeSpends DEF BucketsOK
<1>4. CASE Consumes(buckets[c])
  <2>1. Level(buckets[c]) >= Token /\ Level(buckets'[c]) = Level(buckets[c]) - Token
    BY <1>1, <1>2, <1>4, ConsumeSpends
  <2>2. credits' = [credits EXCEPT ![c] = @ - Token]
    <3>1. \A d \in Channels : Level(buckets'[d]) = IF d = c THEN credits[c] - Token
                                                            ELSE credits[d]
      BY <1>2, <2>1 DEF credits
    <3> DEFINE L(d) == Level(buckets'[d])
    <3>2. credits' = [d \in Channels |-> L(d)]
      BY DEF credits
    <3>3. DOMAIN credits = Channels
      BY DEF credits
    <3>4. \A d \in Channels : L(d) = IF d = c THEN credits[c] - Token ELSE credits[d]
      BY <3>1
    <3> HIDE DEF L
    <3> QED
      BY <3>2, <3>3, <3>4
  <2> QED
    BY <1>3, <1>4, <2>1, <2>2 DEF Credit!Admit, credits
<1>5. CASE ~Consumes(buckets[c])
  <2>1. Level(buckets'[c]) = Level(buckets[c])
    BY <1>1, <1>2, <1>5, ConsumeSpends
  <2> QED
    BY <1>2, <1>3, <1>5, <2>1 DEF credits
<1> QED
  BY <1>4, <1>5

\* Every step of the composition is a step of the credit, or leaves it alone.
LEMMA StepRefines ==
  ASSUME BucketsOK, [RNext]_rvars
  PROVE  BucketsOK' /\ [Credit!Next]_credits
<1>1. CASE RTick
  <2>1. \A c \in Channels : buckets[c] \in TokenBucket /\ buckets'[c] = Later(buckets[c])
    BY <1>1 DEF RTick, BucketsOK
  <2>2. BucketsOK'
    BY <1>1, <2>1, LaterEarns DEF RTick, BucketsOK
  <2>3. Credit!Earn
    BY <2>1, LaterEarns DEF Credit!Earn
  <2> QED
    BY <2>2, <2>3 DEF Credit!Next
<1>2. ASSUME NEW r \in Requests, LimiterAdmits(r) \/ LimiterRejects(r)
      PROVE  BucketsOK' /\ [Credit!Next]_credits
  <2> DEFINE c == stage[r].channel
  <2>1. CASE c \in Channels
    <3>1. buckets' = [buckets EXCEPT ![c] = TryConsume(@)]
      BY <1>2 DEF LimiterAdmits, LimiterRejects
    <3> QED
      BY <2>1, <3>1, AskRefines DEF Credit!Next
  <2>2. CASE c \notin Channels
    <3>1. buckets' = buckets
      BY <1>2, <2>2 DEF LimiterAdmits, LimiterRejects, BucketsOK
    <3> QED
      BY <3>1 DEF BucketsOK, credits
  <2> QED
    BY <2>1, <2>2
<1>3. CASE UNCHANGED buckets
  BY <1>3 DEF BucketsOK, credits
<1>4. ASSUME NEW r \in Requests, InFlight(r)
      PROVE  LimiterAdmits(r) \/ LimiterRejects(r) \/ UNCHANGED buckets
  BY <1>4 DEF InFlight, BreakerRequest, LimiterNoChannel, RetryRequest, UpstreamAnswers,
              UpstreamFails, BreakerResponse, LimiterResponse, RetryResponse
<1>5. ASSUME NEW r \in Requests, NEW c \in Channels \cup {NoChannel}, Start(r, c)
      PROVE  UNCHANGED buckets
  BY <1>5 DEF Start
<1>6. CASE UNCHANGED rvars
  BY <1>3, <1>6 DEF rvars
<1> QED
  BY <1>1, <1>2, <1>3, <1>4, <1>5, <1>6 DEF RNext

\* The buckets keep their type in every behaviour.
LEMMA BucketsKept == RSpec => []BucketsOK
<1>1. RInit => BucketsOK
  BY InitRefines
<1>2. BucketsOK /\ [RNext]_rvars => BucketsOK'
  BY StepRefines
<1> QED
  BY <1>1, <1>2, PTL DEF RSpec

\* "Tokens refill at a rate of max_requests / window, up to max_requests.  Each
\* request consumes one token": the rate limiter, which refills a bucket only when
\* it is asked, implements that continuously refilled bucket for every channel.
THEOREM RefillExact == RSpec => LazyRefillIsExact
<1>1. RInit => Credit!Init
  BY InitRefines
<1>2. BucketsOK /\ [RNext]_rvars => [Credit!Next]_credits
  BY StepRefines
<1> QED
  BY <1>1, <1>2, BucketsKept, PTL DEF RSpec, LazyRefillIsExact, Credit!Spec, credits

-----------------------------------------------------------------------------
(* The breaker in the chain *)

\* The places of a request in the chain.
Stages(n) == [at : {"idle", "out", "upstream", "back"}, pos : 0..n,
              channel : Channels \cup {NoChannel}, status : Statuses]

\* The part of the type invariant that is not the breaker's.
ChainOK == chain \in Orders /\ stage \in [Requests -> Stages(Len(chain))]

\* Moving a request on or back, ending it and starting it keep its place well typed.
LEMMA StageMoves ==
  ASSUME ChainOK, chain' = chain, NEW r \in Requests,
         \/ Onward(r) \/ Back(r)
         \/ stage' = [stage EXCEPT ![r] = NotStarted]
         \/ \E c \in Channels \cup {NoChannel} : Start(r, c)
         \/ \E status \in Statuses : UpstreamAnswers(r, status)
  PROVE  ChainOK'
<1>1. Len(chain) \in Nat \ {0}
  BY ChainAssumption DEF ChainOK
<1>2. stage[r] \in Stages(Len(chain)) /\ NotStarted \in Stages(Len(chain))
  BY <1>1 DEF ChainOK, NotStarted, Stages, Statuses
<1>3. ASSUME NEW s \in Stages(Len(chain)), stage' = [stage EXCEPT ![r] = s]
      PROVE  ChainOK'
  BY <1>3 DEF ChainOK
<1>4. CASE Onward(r)
  <2>1. CASE stage[r].pos < Len(chain)
    <3> DEFINE s == [stage[r] EXCEPT !.pos = @ + 1]
    <3>1. s \in Stages(Len(chain))
      BY <1>1, <1>2, <2>1 DEF Stages
    <3>2. stage' = [stage EXCEPT ![r] = s]
      BY <1>4, <2>1 DEF Onward
    <3> QED
      BY <1>3, <3>1, <3>2
  <2>2. CASE ~(stage[r].pos < Len(chain))
    <3> DEFINE s == [stage[r] EXCEPT !.at = "upstream"]
    <3>1. s \in Stages(Len(chain))
      BY <1>1, <1>2 DEF Stages
    <3>2. stage' = [stage EXCEPT ![r] = s]
      BY <1>4, <2>2 DEF Onward
    <3> QED
      BY <1>3, <3>1, <3>2
  <2> QED
    BY <2>1, <2>2
<1>5. CASE Back(r)
  <2>1. CASE stage[r].pos > 1
    <3> DEFINE s == [stage[r] EXCEPT !.pos = @ - 1]
    <3>1. s \in Stages(Len(chain))
      BY <1>1, <1>2, <2>1 DEF Stages
    <3>2. stage' = [stage EXCEPT ![r] = s]
      BY <1>5, <2>1 DEF Back
    <3> QED
      BY <1>3, <3>1, <3>2
  <2>2. CASE ~(stage[r].pos > 1)
    BY <1>2, <1>3, <1>5, <2>2 DEF Back
  <2> QED
    BY <2>1, <2>2
<1>6. CASE stage' = [stage EXCEPT ![r] = NotStarted]
  BY <1>2, <1>3, <1>6
<1>7. ASSUME NEW c \in Channels \cup {NoChannel}, Start(r, c)
      PROVE  ChainOK'
  <2> DEFINE s == [at |-> "out", pos |-> 1, channel |-> c, status |-> "ok"]
  <2>1. s \in Stages(Len(chain))
    BY <1>1 DEF Stages, Statuses
  <2> QED
    BY <1>3, <1>7, <2>1 DEF Start
<1>8. ASSUME NEW status \in Statuses, UpstreamAnswers(r, status)
      PROVE  ChainOK'
  <2> DEFINE s == [at |-> "back", pos |-> Len(chain), channel |-> stage[r].channel,
                   status |-> status]
  <2>1. s \in Stages(Len(chain))
    BY <1>1, <1>2 DEF Stages
  <2> QED
    BY <1>3, <1>8, <2>1 DEF UpstreamAnswers
<1> QED
  BY <1>4, <1>5, <1>6, <1>7, <1>8

\* A step of a request is a step of the breaker's specification or none of its
\* business, and keeps the chain well typed.
LEMMA InFlightComposes ==
  ASSUME ChainOK, NEW r \in Requests, InFlight(r)
  PROVE  ChainOK' /\ [Next]_vars
<1>0. /\ stage[r].channel \in Channels \cup {NoChannel}
      /\ stage[r].status \in Statuses
  BY DEF ChainOK, Stages
<1>1. ASSUME Ends(r), chain' = chain PROVE ChainOK' /\ [Next]_vars
  <2>1. ChainOK'
    BY <1>1, StageMoves DEF Ends
  <2>2. Abandon(r) \/ UNCHANGED vars
    BY <1>1 DEF Ends, vars
  <2> QED
    BY <2>1, <2>2 DEF Next, RequestStep
<1>2. CASE BreakerRequest(r)
  <2>1. ChainOK'
    BY <1>2, StageMoves DEF BreakerRequest
  <2> QED
    BY <1>0, <1>2, <2>1 DEF BreakerRequest, Next, RequestStep
<1>3. CASE BreakerResponse(r)
  <2>1. ChainOK'
    BY <1>3, StageMoves DEF BreakerResponse
  <2> QED
    BY <1>0, <1>3, <2>1 DEF BreakerResponse, Next, RequestStep
<1>4. CASE LimiterNoChannel(r) \/ LimiterAdmits(r) \/ LimiterResponse(r) \/ RetryRequest(r)
  <2>1. ChainOK'
    BY <1>4, StageMoves DEF LimiterNoChannel, LimiterAdmits, LimiterResponse, RetryRequest
  <2> QED
    BY <1>4, <2>1 DEF LimiterNoChannel, LimiterAdmits, LimiterResponse, RetryRequest, vars
<1>5. CASE LimiterRejects(r) \/ UpstreamFails(r)
  BY <1>1, <1>5 DEF LimiterRejects, UpstreamFails
<1>6. CASE RetryResponse(r)
  <2>1. CASE Ends(r)
    BY <1>1, <1>6, <2>1 DEF RetryResponse
  <2>2. CASE Back(r) /\ UNCHANGED <<circuits, req>>
    <3>1. ChainOK'
      BY <1>6, <2>2, StageMoves DEF RetryResponse
    <3> QED
      BY <2>2, <3>1 DEF vars
  <2> QED
    BY <1>6, <2>1, <2>2 DEF RetryResponse
<1>7. ASSUME NEW status \in Statuses, UpstreamAnswers(r, status)
      PROVE  ChainOK' /\ [Next]_vars
  <2>1. ChainOK'
    BY <1>7, StageMoves DEF UpstreamAnswers
  <2> QED
    BY <1>7, <2>1 DEF UpstreamAnswers, vars
<1> QED
  BY <1>2, <1>3, <1>4, <1>5, <1>6, <1>7 DEF InFlight

\* Every step of the chain is a step of the breaker's specification, or leaves its
\* state alone.
LEMMA StepComposes ==
  ASSUME ChainOK, [RNext]_rvars
  PROVE  ChainOK' /\ [Next]_vars
<1>1. CASE RTick
  <2>1. ChainOK'
    BY <1>1 DEF RTick, ChainOK
  <2> QED
    BY <1>1, <2>1 DEF RTick, Next, vars
<1>2. ASSUME NEW r \in Requests, NEW c \in Channels \cup {NoChannel}, Start(r, c)
      PROVE  ChainOK' /\ [Next]_vars
  <2>1. ChainOK'
    BY <1>2, StageMoves DEF Start
  <2> QED
    BY <1>2, <2>1 DEF Start, vars
<1>3. CASE UNCHANGED rvars
  BY <1>3 DEF rvars, vars, ChainOK
<1> QED
  BY <1>1, <1>2, <1>3, InFlightComposes DEF RNext

\* In the beginning no request is under way.
LEMMA InitComposes == RInit => ChainOK /\ Init
<1> SUFFICES ASSUME RInit PROVE ChainOK /\ Init
  OBVIOUS
<1>1. chain \in Orders /\ Len(chain) \in Nat
  BY ChainAssumption DEF RInit
<1>2. NotStarted \in Stages(Len(chain))
  BY <1>1 DEF NotStarted, Stages, Statuses
<1> QED
  BY <1>1, <1>2 DEF RInit, ChainOK

\* The breaker in a chain with the limiter and the retry middleware, in any order,
\* behaves as its own specification says.
THEOREM ChainImplementsBreaker == RSpec => Spec
<1>1. RInit => ChainOK /\ Init
  BY InitComposes
<1>2. ChainOK /\ [RNext]_rvars => ChainOK' /\ [Next]_vars
  BY StepComposes
<1> QED
  BY <1>1, <1>2, PTL DEF RSpec, Spec

\* Every state of the composition has its type.
THEOREM ResilienceTyped == RSpec => []ResilienceTypeOK
<1>1. RInit => ChainOK
  BY InitComposes
<1>2. ChainOK /\ [RNext]_rvars => ChainOK'
  BY StepComposes
<1>3. RSpec => []TypeOK
  BY ChainImplementsBreaker, Coherence, PTL
<1>4. ChainOK /\ TypeOK /\ BucketsOK => ResilienceTypeOK
  BY DEF ChainOK, Stages, BucketsOK, ResilienceTypeOK
<1> QED
  BY <1>1, <1>2, <1>3, <1>4, BucketsKept, PTL DEF RSpec

\* In any chain the fields of every circuit agree, ...
THEOREM ChainCoherence == RSpec => []CircuitCoherent
  BY ChainImplementsBreaker, Coherence, PTL

\* ... and a response that reaches a half-open circuit closes it clean or opens it
\* with a whole cooldown ahead.
THEOREM ChainProbeDecision == RSpec => ProbeDecides
  BY ChainImplementsBreaker, ProbeDecision, PTL

-----------------------------------------------------------------------------
(* Bursts *)

\* What a channel was admitted and what it has left are no more than a full bucket
\* and what the ticks earned: BurstBounded with the level of the bucket.
Earnings ==
  /\ recent \in [Channels -> [AgeRange -> Nat]]
  /\ \A c \in Channels : \A k \in AgeRange :
       recent[c][k] * Token + Level(buckets[c]) <= Capacity + k * MaxRequests

BurstInv == BucketsOK /\ Earnings

\* In the beginning nothing was admitted.
LEMMA InitEarns == RInit => BurstInv
<1> SUFFICES ASSUME RInit PROVE BurstInv
  OBVIOUS
<1>1. BucketsOK
  BY InitRefines
<1>2. recent = [c \in Channels |-> [k \in AgeRange |-> 0]]
  BY DEF RInit
<1>3. \A c \in Channels : Level(buckets[c]) \in Nat /\ Level(buckets[c]) <= Capacity
  BY <1>1, LevelRange, Sizes DEF BucketsOK
<1>4. \A k \in AgeRange : k \in Nat /\ k * MaxRequests \in Nat
  BY ChainAssumption DEF AgeRange
<1>5. \A c \in Channels : \A k \in AgeRange : recent[c][k] * Token = 0
  BY <1>2, Sizes
<1>6. Earnings
  BY <1>2, <1>3, <1>4, <1>5, Sizes DEF Earnings
<1> QED
  BY <1>1, <1>6 DEF BurstInv

\* The limiter asks a bucket: what it admits it takes from the level.
LEMMA AskEarns ==
  ASSUME BurstInv, BucketsOK', NEW c \in Channels,
         buckets' = [buckets EXCEPT ![c] = TryConsume(@)],
         recent' = IF Consumes(buckets[c])
                   THEN [recent EXCEPT ![c] = [k \in AgeRange |-> @[k] + 1]] ELSE recent
  PROVE  Earnings'
<1>1. /\ recent \in [Channels -> [AgeRange -> Nat]] /\ buckets[c] \in TokenBucket
      /\ buckets'[c] = TryConsume(buckets[c])
      /\ \A d \in Channels : d # c => buckets'[d] = buckets[d]
  BY DEF BurstInv, Earnings, BucketsOK
<1>2. recent' \in [Channels -> [AgeRange -> Nat]]
  BY <1>1
<1>3. ASSUME NEW d \in Channels, NEW k \in AgeRange
      PROVE  recent'[d][k] * Token + Level(buckets'[d]) <= Capacity + k * MaxRequests
  <2>1. recent[d][k] * Token + Level(buckets[d]) <= Capacity + k * MaxRequests
    BY DEF BurstInv, Earnings
  <2>2. CASE d # c \/ ~Consumes(buckets[c])
    <3>1. recent'[d][k] = recent[d][k]
      BY <1>1, <2>2
    <3>2. Level(buckets'[d]) = Level(buckets[d])
      BY <1>1, <2>2, ConsumeSpends
    <3> QED
      BY <2>1, <3>1, <3>2
  <2>3. CASE d = c /\ Consumes(buckets[c])
    <3>1. recent'[d][k] = recent[d][k] + 1 /\ recent[d][k] \in Nat
      BY <1>1, <2>3
    <3>2. Level(buckets'[d]) = Level(buckets[d]) - Token
      BY <1>1, <2>3, ConsumeSpends
    <3>3. Level(buckets[d]) \in Nat
      BY <1>1, <2>3, LevelRange, Sizes
    <3>4. (recent[d][k] + 1) * Token = recent[d][k] * Token + Token
      BY <3>1, Sizes
    <3>5. recent[d][k] * Token \in Nat
      BY <3>1, Sizes
    <3>6. Capacity + k * MaxRequests \in Int
      BY Sizes, ChainAssumption DEF AgeRange
    <3> DEFINE m == recent[d][k] * Token
               l == Level(buckets[d])
               b == Capacity + k * MaxRequests
    <3>7. recent'[d][k] * Token + Level(buckets'[d]) = (m + Token) + (l - Token)
      BY <3>1, <3>2, <3>4
    <3>8. m + l <= b /\ m \in Nat /\ l \in Nat /\ b \in Int
      BY <2>1, <3>3, <3>5, <3>6
    <3> HIDE DEF m, l, b
    <3>9. (m + Token) + (l - Token) <= b
      BY <3>8, Sizes
    <3> QED
      BY <3>7, <3>9 DEF b
  <2> QED
    BY <2>2, <2>3
<1> QED
  BY <1>2, <1>3 DEF Earnings

\* A tick makes every span one longer, and earns no more than a tick's worth.
LEMMA TickEarns ==
  ASSUME BurstInv, RTick
  PROVE  Earnings'
<1>1. /\ recent \in [Channels -> [AgeRange -> Nat]]
      /\ \A c \in Channels : buckets[c] \in TokenBucket /\ buckets'[c] = Later(buckets[c])
      /\ recent' = [c \in Channels |-> Older(recent[c])]
  BY DEF BurstInv, Earnings, BucketsOK, RTick
<1>2. ASSUME NEW c \in Channels, NEW k \in AgeRange
      PROVE  recent'[c][k] = IF k = 0 THEN 0 ELSE recent[c][k - 1]
  BY <1>1, <1>2 DEF Older
<1>3. \A k \in AgeRange : k \in Nat /\ (k # 0 => k - 1 \in AgeRange)
  BY ChainAssumption DEF AgeRange
<1>4. recent' \in [Channels -> [AgeRange -> Nat]]
  <2>1. \A c \in Channels : Older(recent[c]) \in [AgeRange -> Nat]
    BY <1>1, <1>3 DEF Older
  <2> QED
    BY <1>1, <2>1
<1>5. ASSUME NEW c \in Channels, NEW k \in AgeRange
      PROVE  recent'[c][k] * Token + Level(buckets'[c]) <= Capacity + k * MaxRequests
  <2>1. /\ Level(buckets[c]) \in 0..Capacity
        /\ Level(buckets'[c]) = IF Level(buckets[c]) + MaxRequests < Capacity
                                THEN Level(buckets[c]) + MaxRequests ELSE Capacity
    BY <1>1, LevelRange, LaterEarns
  <2>2. Level(buckets'[c]) \in Nat /\ Level(buckets'[c]) <= Capacity
        /\ Level(buckets'[c]) <= Level(buckets[c]) + MaxRequests
    BY <2>1, Sizes
  <2>3. CASE k = 0
    <3>1. recent'[c][k] * Token = 0 /\ k * MaxRequests = 0
      BY <1>2, <2>3, Sizes
    <3> QED
      BY <2>2, <3>1, Sizes
  <2>4. CASE k # 0
    <3> DEFINE j == k - 1
    <3>1. j \in AgeRange /\ j \in Nat /\ recent'[c][k] = recent[c][j]
      BY <1>2, <1>3, <2>4
    <3>2. recent[c][j] * Token + Level(buckets[c]) <= Capacity + j * MaxRequests
      BY <3>1 DEF BurstInv, Earnings
    <3>3. k * MaxRequests = j * MaxRequests + MaxRequests
      BY <1>3
    <3>4. recent[c][j] * Token \in Nat /\ j * MaxRequests \in Nat
      BY <1>1, <3>1, Sizes
    <3>5. Level(buckets[c]) \in Nat
      BY <2>1, Sizes
    <3> DEFINE m == recent[c][j] * Token
               e == j * MaxRequests
    <3>6. m + Level(buckets[c]) <= Capacity + e /\ m \in Nat /\ e \in Nat
      BY <3>2, <3>4
    <3>7. recent'[c][k] * Token = m /\ k * MaxRequests = e + MaxRequests
      BY <3>1, <3>3
    <3> HIDE DEF m, e, j
    <3>8. m + Level(buckets'[c]) <= Capacity + (e + MaxRequests)
      BY <2>2, <3>5, <3>6, Sizes
    <3> QED
      BY <3>7, <3>8
  <2> QED
    BY <2>3, <2>4
<1> QED
  BY <1>4, <1>5 DEF Earnings

\* Every step keeps the account.
LEMMA StepEarns ==
  ASSUME BurstInv, [RNext]_rvars
  PROVE  BurstInv'
<1>1. BucketsOK'
  BY StepRefines DEF BurstInv
<1>2. CASE RTick
  BY <1>1, <1>2, TickEarns DEF BurstInv
<1>3. ASSUME NEW r \in Requests, LimiterAdmits(r) \/ LimiterRejects(r)
      PROVE  BurstInv'
  <2> DEFINE c == stage[r].channel
  <2>1. /\ buckets' = [buckets EXCEPT ![c] = TryConsume(@)]
        /\ recent' = IF Consumes(buckets[c])
                     THEN [recent EXCEPT ![c] = [k \in AgeRange |-> @[k] + 1]] ELSE recent
    BY <1>3 DEF LimiterAdmits, LimiterRejects
  <2>2. CASE c \in Channels
    <3> HIDE DEF c
    <3> QED
      BY <1>1, <2>1, <2>2, AskEarns DEF BurstInv
  <2>3. CASE c \notin Channels
    <3> HIDE DEF c
    <3>1. buckets' = buckets /\ recent' = recent
      BY <2>1, <2>3 DEF BurstInv, BucketsOK, Earnings
    <3> QED
      BY <1>1, <3>1 DEF BurstInv, Earnings
  <2> QED
    BY <2>2, <2>3
<1>4. CASE UNCHANGED <<buckets, recent>>
  BY <1>1, <1>4 DEF BurstInv, Earnings
<1>5. ASSUME NEW r \in Requests, InFlight(r)
      PROVE  LimiterAdmits(r) \/ LimiterRejects(r) \/ UNCHANGED <<buckets, recent>>
  BY <1>5 DEF InFlight, BreakerRequest, LimiterNoChannel, RetryRequest, UpstreamAnswers,
              UpstreamFails, BreakerResponse, LimiterResponse, RetryResponse
<1>6. ASSUME NEW r \in Requests, NEW c \in Channels \cup {NoChannel}, Start(r, c)
      PROVE  UNCHANGED <<buckets, recent>>
  BY <1>6 DEF Start
<1>7. CASE UNCHANGED rvars
  BY <1>4, <1>7 DEF rvars
<1> QED
  BY <1>2, <1>3, <1>4, <1>5, <1>6, <1>7 DEF RNext

\* check_rate_limit: k ticks never see more admissions of a channel than a full
\* bucket and what k ticks earn, for any span, max_requests and window, and any
\* interleaving of its requests.
THEOREM NoBiggerBurst == RSpec => []BurstBounded
<1>1. RInit => BurstInv
  BY InitEarns
<1>2. BurstInv /\ [RNext]_rvars => BurstInv'
  BY StepEarns
<1>3. BurstInv => BurstBounded
  <2> SUFFICES ASSUME BurstInv, NEW c \in Channels, NEW k \in AgeRange
               PROVE  recent[c][k] * Token <= Capacity + k * MaxRequests
    BY DEF BurstBounded
  <2>1. recent[c][k] * Token + Level(buckets[c]) <= Capacity + k * MaxRequests
    BY DEF BurstInv, Earnings
  <2>2. Level(buckets[c]) \in Nat
    BY LevelRange, Sizes DEF BurstInv, BucketsOK
  <2>3. recent[c][k] \in Nat /\ k \in Nat
    BY ChainAssumption DEF BurstInv, Earnings, AgeRange
  <2>4. recent[c][k] * Token \in Nat /\ k * MaxRequests \in Nat
    BY <2>3, Sizes
  <2> QED
    BY <2>1, <2>2, <2>4, Sizes
<1> QED
  BY <1>1, <1>2, <1>3, PTL DEF RSpec

-----------------------------------------------------------------------------
(* What the breaker hears *)

\* A request under way is at a middleware.  If the breaker waits for its response,
\* the breaker is behind it on the way out and still before it on the way back;
\* and what came past retry on the way back is nothing retry swallows.
OnItsWay(s, q) ==
  /\ s.at # "idle" => s.pos \in DOMAIN chain
  /\ q.pc = "sent" =>
       /\ s.at # "idle"
       /\ \E i \in DOMAIN chain : /\ chain[i] = "breaker"
                                  /\ s.at = "out" => i < s.pos
                                  /\ s.at = "back" => i <= s.pos
  /\ s.at = "back" =>
       \A j \in DOMAIN chain : chain[j] = "retry" /\ s.pos < j => ~Swallows(s.status)

HearInv == ChainOK /\ \A r \in Requests : OnItsWay(stage[r], req[r])

\* The places after Onward and after Back.
Outward(s) == IF s.pos < Len(chain) THEN [s EXCEPT !.pos = @ + 1]
                                    ELSE [s EXCEPT !.at = "upstream"]

Inward(s) == IF s.pos > 1 THEN [s EXCEPT !.pos = @ - 1] ELSE NotStarted

\* A chain is a sequence that is not empty and holds a middleware once.
LEMMA ChainShape ==
  ASSUME ChainOK
  PROVE  /\ Len(chain) \in Nat \ {0} /\ DOMAIN chain = 1..Len(chain)
         /\ \A i, j \in DOMAIN chain : chain[i] = chain[j] => i = j
  BY ChainAssumption DEF ChainOK

\* A request that has passed the breaker, or that leaves it now, has it behind it.
LEMMA OutwardFine ==
  ASSUME ChainOK, NEW s \in Stages(Len(chain)), NEW q, NEW p, s.at = "out", OnItsWay(s, q),
         p = q \/ chain[s.pos] = "breaker"
  PROVE  OnItsWay(Outward(s), p)
<1>1. Len(chain) \in Nat \ {0} /\ DOMAIN chain = 1..Len(chain)
  BY ChainShape
<1>2. s.pos \in DOMAIN chain /\ s.pos \in Nat
  BY <1>1 DEF OnItsWay
<1>3. p.pc = "sent" => \E i \in DOMAIN chain : chain[i] = "breaker" /\ i <= s.pos
  <2>1. CASE p = q
    BY <1>1, <1>2, <2>1 DEF OnItsWay
  <2>2. CASE chain[s.pos] = "breaker"
    BY <1>2, <2>2
  <2> QED
    BY <2>1, <2>2
<1>4. CASE s.pos < Len(chain)
  <2> DEFINE n == [s EXCEPT !.pos = @ + 1]
  <2>1. Outward(s) = n /\ n.at = "out" /\ n.pos = s.pos + 1
    BY <1>4 DEF Outward, Stages
  <2> HIDE DEF n
  <2> QED
    BY <1>1, <1>2, <1>3, <1>4, <2>1 DEF OnItsWay
<1>5. CASE ~(s.pos < Len(chain))
  <2> DEFINE n == [s EXCEPT !.at = "upstream"]
  <2>1. Outward(s) = n /\ n.at = "upstream" /\ n.pos = s.pos
    BY <1>5 DEF Outward, Stages
  <2> HIDE DEF n
  <2> QED
    BY <1>2, <1>3, <2>1 DEF OnItsWay
<1> QED
  BY <1>4, <1>5

\* A response that goes on to the middleware before does not leave the breaker
\* waiting behind it.
LEMMA InwardFine ==
  ASSUME ChainOK, NEW s \in Stages(Len(chain)), NEW q, s.at = "back", OnItsWay(s, q),
         q.pc # "sent" \/ chain[s.pos] # "breaker",
         chain[s.pos] = "retry" => ~Swallows(s.status)
  PROVE  OnItsWay(Inward(s), q)
<1>1. Len(chain) \in Nat \ {0} /\ DOMAIN chain = 1..Len(chain)
  BY ChainShape
<1>2. s.pos \in DOMAIN chain /\ s.pos \in Nat
  BY <1>1 DEF OnItsWay
<1>3. q.pc = "sent" => \E i \in DOMAIN chain : chain[i] = "breaker" /\ i < s.pos
  <2> SUFFICES ASSUME q.pc = "sent"
               PROVE  \E i \in DOMAIN chain : chain[i] = "breaker" /\ i < s.pos
    OBVIOUS
  <2>1. PICK i \in DOMAIN chain : chain[i] = "breaker" /\ i <= s.pos
    BY DEF OnItsWay
  <2>2. i # s.pos
    BY <2>1
  <2> QED
    BY <1>1, <1>2, <2>1, <2>2
<1>4. CASE s.pos > 1
  <2> DEFINE n == [s EXCEPT !.pos = @ - 1]
  <2>1. Inward(s) = n /\ n.at = "back" /\ n.pos = s.pos - 1 /\ n.status = s.status
    BY <1>4 DEF Inward, Stages
  <2>2. n.pos \in DOMAIN chain
    BY <1>1, <1>2, <1>4, <2>1
  <2> HIDE DEF n
  <2>3. ASSUME NEW j \in DOMAIN chain, chain[j] = "retry", n.pos < j
        PROVE  ~Swallows(s.status)
    <3>1. j = s.pos \/ s.pos < j
      BY <1>1, <1>2, <2>1, <2>3
    <3> QED
      BY <2>3, <3>1 DEF OnItsWay
  <2>4. \A i \in DOMAIN chain : i < s.pos => i <= n.pos
    BY <1>1, <1>2, <2>1
  <2> QED
    BY <1>3, <2>1, <2>2, <2>3, <2>4 DEF OnItsWay
<1>5. CASE ~(s.pos > 1)
  <2>1. Inward(s) = NotStarted /\ NotStarted.at = "idle"
    BY <1>5 DEF Inward, NotStarted
  <2>2. q.pc # "sent"
    BY <1>1, <1>2, <1>3, <1>5
  <2> QED
    BY <2>1, <2>2 DEF OnItsWay
<1> QED
  BY <1>4, <1>5

\* A step that moves one request and leaves it well placed keeps the invariant.
LEMMA OneMoves ==
  ASSUME HearInv, ChainOK', chain' = chain, TypeOK, NEW r \in Requests, NEW s, NEW q,
         stage' = [stage EXCEPT ![r] = s], req' = [req EXCEPT ![r] = q], OnItsWay(s, q)
  PROVE  HearInv'
<1>1. /\ stage'[r] = s /\ req'[r] = q
      /\ \A t \in Requests \ {r} : stage'[t] = stage[t] /\ req'[t] = req[t]
  BY DEF HearInv, ChainOK, TypeOK
<1>2. ASSUME NEW t \in Requests PROVE OnItsWay(stage'[t], req'[t])
  BY <1>1 DEF HearInv
<1>3. \A t \in Requests : OnItsWay(stage[t], req[t])'
  BY <1>2 DEF OnItsWay, Swallows
<1> QED
  BY <1>3 DEF HearInv

\* A request that is answered is nowhere, and the breaker does not wait for it.
LEMMA IdleFine == OnItsWay(NotStarted, Idle)
  BY DEF OnItsWay, NotStarted, Idle

\* The steps of a request.
LEMMA InFlightHears ==
  ASSUME HearInv, TypeOK, NEW r \in Requests, InFlight(r)
  PROVE  HearInv'
<1>1. ChainOK'
  BY InFlightComposes DEF HearInv
<1>2. /\ stage[r] \in Stages(Len(chain)) /\ OnItsWay(stage[r], req[r])
      /\ req = [req EXCEPT ![r] = req[r]] /\ req[r] \in RequestState /\ ChainOK
      /\ stage \in [Requests -> Stages(Len(chain))]
  BY DEF HearInv, ChainOK, TypeOK
<1>3. chain' = chain
  BY DEF InFlight, BreakerRequest, LimiterNoChannel, LimiterAdmits, LimiterRejects, RetryRequest,
         UpstreamAnswers, UpstreamFails, BreakerResponse, LimiterResponse, RetryResponse
<1>4. Onward(r) => stage' = [stage EXCEPT ![r] = Outward(stage[r])]
  BY DEF Onward, Outward
<1>5. Back(r) => stage' = [stage EXCEPT ![r] = Inward(stage[r])]
  BY DEF Back, Inward
<1>6. ASSUME Ends(r) PROVE HearInv'
  <2>1. \E q : req' = [req EXCEPT ![r] = q] /\ q.pc # "sent"
    <3>1. CASE req[r].pc = "sent"
      <4>1. req' = [req EXCEPT ![r] = Idle] /\ Idle.pc # "sent"
        BY <1>6, <3>1 DEF Ends, Abandon, Idle
      <4> QED
        BY <4>1
    <3>2. CASE req[r].pc # "sent"
      <4>1. req' = [req EXCEPT ![r] = req[r]]
        BY <1>2, <1>6, <3>2 DEF Ends
      <4> QED
        BY <3>2, <4>1
    <3> QED
      BY <3>1, <3>2
  <2>2. PICK q : req' = [req EXCEPT ![r] = q] /\ q.pc # "sent"
    BY <2>1
  <2>3. OnItsWay(NotStarted, q)
    BY <2>2 DEF OnItsWay, NotStarted
  <2>4. stage' = [stage EXCEPT ![r] = NotStarted]
    BY <1>6 DEF Ends
  <2> QED
    BY <1>1, <1>3, <2>2, <2>3, <2>4, OneMoves
<1>7. CASE BreakerRequest(r)
  <2>1. stage[r].at = "out" /\ chain[stage[r].pos] = "breaker" /\ req[r].pc = "idle"
    BY <1>7 DEF BreakerRequest, OutAt, OnRequestNoChannel, OnRequestAllowed, OnRequestRejected
  <2>2. CASE Onward(r) /\ \E q : req' = [req EXCEPT ![r] = q]
    <3>1. PICK q : req' = [req EXCEPT ![r] = q]
      BY <2>2
    <3>2. OnItsWay(Outward(stage[r]), q)
      BY <1>2, <2>1, OutwardFine
    <3> QED
      BY <1>1, <1>3, <1>4, <2>2, <3>1, <3>2, OneMoves
  <2>3. CASE stage' = [stage EXCEPT ![r] = NotStarted] /\ UNCHANGED req
    <3>1. OnItsWay(NotStarted, req[r])
      BY <2>1 DEF OnItsWay, NotStarted
    <3> QED
      BY <1>1, <1>2, <1>3, <2>3, <3>1, OneMoves
  <2> QED
    BY <1>7, <2>2, <2>3 DEF BreakerRequest, OnRequestNoChannel, OnRequestAllowed,
                            OnRequestRejected, vars
<1>8. CASE BreakerResponse(r)
  <2>1. /\ stage[r].at = "back" /\ chain[stage[r].pos] = "breaker" /\ Back(r)
        /\ req' = [req EXCEPT ![r] = Idle]
    BY <1>8 DEF BreakerResponse, BackAt, OnResponse, OnResponseNoChannel
  <2>2. OnItsWay(stage[r], Idle) /\ Idle.pc # "sent"
    BY <1>2 DEF OnItsWay, Idle
  <2>3. OnItsWay(Inward(stage[r]), Idle)
    BY <1>2, <2>1, <2>2, InwardFine
  <2> QED
    BY <1>1, <1>3, <1>5, <2>1, <2>3, OneMoves
<1>9. CASE LimiterNoChannel(r) \/ LimiterAdmits(r) \/ RetryRequest(r)
  <2>1. stage[r].at = "out" /\ Onward(r) /\ UNCHANGED req
    BY <1>9 DEF LimiterNoChannel, LimiterAdmits, RetryRequest, OutAt
  <2>2. OnItsWay(Outward(stage[r]), req[r])
    BY <1>2, <2>1, OutwardFine
  <2> QED
    BY <1>1, <1>2, <1>3, <1>4, <2>1, <2>2, OneMoves
<1>10. CASE LimiterResponse(r) \/ (RetryResponse(r) /\ ~Ends(r))
  <2>1. /\ stage[r].at = "back" /\ chain[stage[r].pos] # "breaker" /\ Back(r) /\ UNCHANGED req
        /\ chain[stage[r].pos] = "retry" => ~Swallows(stage[r].status)
    BY <1>10 DEF LimiterResponse, RetryResponse, BackAt
  <2>2. OnItsWay(Inward(stage[r]), req[r])
    BY <1>2, <2>1, InwardFine
  <2> QED
    BY <1>1, <1>2, <1>3, <1>5, <2>1, <2>2, OneMoves
<1>11. ASSUME NEW status \in Statuses, UpstreamAnswers(r, status)
       PROVE  HearInv'
  <2> DEFINE s == [at |-> "back", pos |-> Len(chain), channel |-> stage[r].channel,
                   status |-> status]
  <2>1. stage' = [stage EXCEPT ![r] = s] /\ UNCHANGED req /\ stage[r].at = "upstream"
    BY <1>11 DEF UpstreamAnswers
  <2>2. s.at = "back" /\ s.pos = Len(chain)
    OBVIOUS
  <2> HIDE DEF s
  <2>3. Len(chain) \in Nat \ {0} /\ DOMAIN chain = 1..Len(chain)
    BY <1>2, ChainShape
  <2>4. OnItsWay(s, req[r])
    BY <1>2, <2>1, <2>2, <2>3 DEF OnItsWay
  <2> QED
    BY <1>1, <1>2, <1>3, <2>1, <2>4, OneMoves
<1>12. CASE LimiterRejects(r) \/ UpstreamFails(r) \/ Ends(r)
  BY <1>6, <1>12 DEF LimiterRejects, UpstreamFails
<1> QED
  BY <1>7, <1>8, <1>9, <1>10, <1>11, <1>12 DEF InFlight

\* Every step keeps the requests well placed.
LEMMA StepHears ==
  ASSUME HearInv, TypeOK, [RNext]_rvars
  PROVE  HearInv'
<1>1. ChainOK'
  BY StepComposes DEF HearInv
<1>2. ASSUME UNCHANGED <<chain, stage, req>> PROVE HearInv'
  BY <1>1, <1>2 DEF HearInv, OnItsWay, Swallows
<1>3. CASE RTick
  BY <1>2, <1>3 DEF RTick, Tick
<1>4. ASSUME NEW r \in Requests, NEW c \in Channels \cup {NoChannel}, Start(r, c)
      PROVE  HearInv'
  <2> DEFINE s == [at |-> "out", pos |-> 1, channel |-> c, status |-> "ok"]
  <2>1. /\ stage[r].at = "idle" /\ stage' = [stage EXCEPT ![r] = s] /\ chain' = chain
        /\ req' = [req EXCEPT ![r] = req[r]]
    BY <1>4 DEF Start, TypeOK
  <2>2. 1 \in DOMAIN chain
    BY ChainShape DEF HearInv
  <2>3. OnItsWay(s, req[r])
    BY <2>1, <2>2 DEF HearInv, OnItsWay
  <2> HIDE DEF s
  <2> QED
    BY <1>1, <2>1, <2>3, OneMoves
<1>5. CASE UNCHANGED rvars
  BY <1>2, <1>5 DEF rvars
<1> QED
  BY <1>3, <1>4, <1>5, InFlightHears DEF RNext

\* In the beginning nobody is under way.
LEMMA InitHears == RInit => HearInv
<1> SUFFICES ASSUME RInit PROVE HearInv
  OBVIOUS
<1>1. \A r \in Requests : stage[r] = NotStarted /\ req[r] = Idle
  BY DEF RInit, Init
<1> QED
  BY <1>1, IdleFine, InitComposes DEF HearInv

\* The requests are well placed in every behaviour.
LEMMA AlwaysHears == RSpec => [](HearInv /\ TypeOK)
<1>1. RSpec => []TypeOK
  BY ChainImplementsBreaker, Coherence, PTL
<1>2. RInit => HearInv
  BY InitHears
<1>3. HearInv /\ TypeOK /\ [RNext]_rvars => HearInv'
  BY StepHears
<1> QED
  BY <1>1, <1>2, <1>3, PTL DEF RSpec

\* A response on its way back leaves the breaker waiting only if retry, registered
\* after it, swallows the status (the order of run_on_response_chain).
LEMMA EndsHeard ==
  ASSUME HearInv, TypeOK, RNext, NEW r \in Requests,
         stage[r].at = "back", stage'[r].at = "idle", req[r].pc = "sent"
  PROVE  \/ chain[stage[r].pos] = "breaker"
         \/ Before("breaker", "retry") /\ Swallows(stage[r].status)
<1>1. /\ stage[r] \in Stages(Len(chain)) /\ OnItsWay(stage[r], req[r]) /\ ChainOK
      /\ stage \in [Requests -> Stages(Len(chain))]
  BY DEF HearInv, ChainOK
<1>2. Len(chain) \in Nat \ {0} /\ DOMAIN chain = 1..Len(chain)
  BY <1>1, ChainShape
<1>3. stage[r].pos \in DOMAIN chain
      /\ \E i \in DOMAIN chain : chain[i] = "breaker" /\ i <= stage[r].pos
  BY <1>1 DEF OnItsWay
<1>4. ASSUME NEW t \in Requests, NEW s, stage' = [stage EXCEPT ![t] = s]
      PROVE  t = r /\ s.at = "idle"
  BY <1>1, <1>4
<1>5. ASSUME Back(r), chain[stage[r].pos] # "breaker" PROVE FALSE
  <2>1. CASE stage[r].pos > 1
    <3> DEFINE s == [stage[r] EXCEPT !.pos = @ - 1]
    <3>1. stage' = [stage EXCEPT ![r] = s] /\ s.at = "back"
      BY <1>1, <1>5, <2>1 DEF Back, Stages
    <3> HIDE DEF s
    <3> QED
      BY <1>4, <3>1
  <2>2. CASE ~(stage[r].pos > 1)
    BY <1>2, <1>3, <1>5, <2>2
  <2> QED
    BY <2>1, <2>2
<1>6. ASSUME NEW t \in Requests, InFlight(t), t # r PROVE FALSE
  <2>1. \E s : stage' = [stage EXCEPT ![t] = s]
    BY <1>6 DEF InFlight, BreakerRequest, LimiterNoChannel, LimiterAdmits, LimiterRejects,
                RetryRequest, UpstreamAnswers, UpstreamFails, BreakerResponse, LimiterResponse,
                RetryResponse, Onward, Back, Ends
  <2> QED
    BY <1>4, <1>6, <2>1
<1>7. ASSUME NEW t \in Requests, NEW c \in Channels \cup {NoChannel}, Start(t, c) PROVE FALSE
  <2> DEFINE s == [at |-> "out", pos |-> 1, channel |-> c, status |-> "ok"]
  <2>1. stage' = [stage EXCEPT ![t] = s] /\ s.at = "out"
    BY <1>7 DEF Start
  <2> HIDE DEF s
  <2> QED
    BY <1>4, <2>1
<1>8. ~RTick
  <2>1. RTick => stage' = stage
    BY DEF RTick
  <2> QED
    BY <2>1
<1>9. InFlight(r)
  BY <1>6, <1>7, <1>8 DEF RNext
<1>10. BreakerResponse(r) \/ LimiterResponse(r) \/ RetryResponse(r)
  BY <1>9 DEF InFlight, BreakerRequest, LimiterNoChannel, LimiterAdmits, LimiterRejects,
              RetryRequest, UpstreamAnswers, UpstreamFails, OutAt
<1>11. CASE BreakerResponse(r)
  BY <1>11 DEF BreakerResponse, BackAt
<1>12. CASE LimiterResponse(r)
  BY <1>5, <1>12 DEF LimiterResponse, BackAt
<1>13. CASE RetryResponse(r)
  <2>1. chain[stage[r].pos] = "retry"
    BY <1>13 DEF RetryResponse, BackAt
  <2>2. Swallows(stage[r].status)
    BY <1>5, <1>13, <2>1 DEF RetryResponse
  <2>3. PICK i \in DOMAIN chain : chain[i] = "breaker" /\ i <= stage[r].pos
    BY <1>3
  <2>4. i < stage[r].pos
    BY <1>2, <1>3, <2>1, <2>3
  <2> QED
    BY <1>3, <2>1, <2>2, <2>3, <2>4 DEF Before
<1> QED
  BY <1>10, <1>11, <1>12, <1>13

\* In any order of registration and any interleaving, a response the breaker waits
\* for reaches it before the client is answered, unless retry is registered after
\* the breaker and swallows the status.
THEOREM BreakerHeard == RSpec => BreakerHears
<1>1. HearInv /\ TypeOK /\ [RNext]_rvars
      => [\A r \in Requests :
            stage[r].at = "back" /\ stage'[r].at = "idle" /\ req[r].pc = "sent"
            => \/ chain[stage[r].pos] = "breaker"
               \/ Before("breaker", "retry") /\ Swallows(stage[r].status)]_rvars
  BY EndsHeard
<1> QED
  BY <1>1, AlwaysHears, PTL DEF RSpec, BreakerHears

\* A new circuit does not age, and letting a request through leaves it new.
LEMMA NewStaysNew == ~Ages(NewCircuit) /\ AfterAllow(NewCircuit) = NewCircuit
  BY DEF Ages, AfterAllow, NewCircuit

\* A failure that reaches the breaker on its way back is one that retry let pass.
LEMMA StepDeaf ==
  ASSUME HearInv, TypeOK, DeafBreaker, [RNext]_rvars
  PROVE  DeafBreaker'
<1>1. chain' = chain
  BY DEF RNext, RTick, Start, InFlight, BreakerRequest, LimiterNoChannel, LimiterAdmits,
         LimiterRejects, RetryRequest, UpstreamAnswers, UpstreamFails, BreakerResponse,
         LimiterResponse, RetryResponse, rvars
<1> SUFFICES ASSUME Before("breaker", "retry"), MaxRetries > 0, NEW c \in Channels
             PROVE  circuits'[c] = NewCircuit
  BY <1>1 DEF DeafBreaker, Before
<1>2. \A d \in Channels : circuits[d] = NewCircuit
  BY DEF DeafBreaker
<1>3. DOMAIN circuits = Channels
  BY DEF TypeOK
<1>4. CASE UNCHANGED circuits
  BY <1>2, <1>4
<1>5. CASE RTick
  BY <1>2, <1>4, <1>5, NewStaysNew DEF RTick, Tick
<1>6. ASSUME NEW r \in Requests, BreakerRequest(r)
      PROVE  circuits'[c] = NewCircuit
  <2>1. UNCHANGED circuits \/ OnRequestAllowed(r, stage[r].channel)
    BY <1>6 DEF BreakerRequest, OnRequestNoChannel, OnRequestRejected, vars
  <2> QED
    BY <1>2, <1>3, <1>4, <2>1, NewStaysNew DEF OnRequestAllowed
<1>7. ASSUME NEW r \in Requests, BreakerResponse(r)
      PROVE  circuits'[c] = NewCircuit
  <2>1. stage[r].at = "back" /\ chain[stage[r].pos] = "breaker"
    BY <1>7 DEF BreakerResponse, BackAt
  <2>2. PICK i \in DOMAIN chain, j \in DOMAIN chain :
          i < j /\ chain[i] = "breaker" /\ chain[j] = "retry"
    BY DEF Before
  <2>3. stage[r].pos \in DOMAIN chain
    BY <2>1 DEF HearInv, OnItsWay
  <2>4. stage[r].pos = i
    BY <2>1, <2>2, <2>3, ChainShape DEF HearInv
  <2>5. ~Swallows(stage[r].status)
    BY <2>1, <2>2, <2>4 DEF HearInv, OnItsWay
  <2>6. ~IsRetryable(stage[r].status)
    BY <2>5 DEF Swallows, Attempt
  <2>7. AfterResponse(circuits[req[r].channel], stage[r].status) = NewCircuit
    BY <2>6 DEF AfterResponse, RecordSuccess
  <2>8. UNCHANGED circuits \/ OnResponse(r, stage[r].status)
    BY <1>7 DEF BreakerResponse, OnResponseNoChannel
  <2> QED
    BY <1>2, <1>3, <1>4, <2>7, <2>8 DEF OnResponse
<1>8. ASSUME NEW r \in Requests, InFlight(r)
      PROVE  BreakerRequest(r) \/ BreakerResponse(r) \/ UNCHANGED circuits
  BY <1>8 DEF InFlight, LimiterNoChannel, LimiterAdmits, LimiterRejects, RetryRequest,
              UpstreamAnswers, UpstreamFails, LimiterResponse, RetryResponse, Ends, Abandon
<1>9. ASSUME NEW r \in Requests, NEW d \in Channels \cup {NoChannel}, Start(r, d)
      PROVE  UNCHANGED circuits
  BY <1>9 DEF Start
<1>10. CASE UNCHANGED rvars
  BY <1>4, <1>10 DEF rvars
<1> QED
  BY <1>4, <1>5, <1>6, <1>7, <1>8, <1>9, <1>10 DEF RNext

\* With retry registered after the breaker no failure is ever counted: every
\* circuit stays as it was made, for any number of requests and failures.
THEOREM DeafForever == RSpec => []DeafBreaker
<1>1. RInit => DeafBreaker
  BY DEF RInit, Init, DeafBreaker
<1>2. HearInv /\ TypeOK /\ DeafBreaker /\ [RNext]_rvars => DeafBreaker'
  BY StepDeaf
<1> QED
  BY <1>1, <1>2, AlwaysHears, PTL DEF RSpec

=============================================================================
