---------------------------- MODULE RateLimiter ----------------------------
(***************************************************************************)
(* The token bucket of the resilience crate                                *)
(* (crates/resilience/src/rate_limiter.rs): one bucket per channel behind  *)
(* one mutex, refilled only when a request asks, by the time since the     *)
(* last time one asked.                                                    *)
(*                                                                         *)
(* Units: the code keeps tokens as an f64 that grows by max_requests /     *)
(* window per second.  Here a token is Window units and a tick adds        *)
(* MaxRequests of them, so fractions of tokens stay integers.  since is    *)
(* the time since last_refill, saturating at Window: by then any bucket    *)
(* is full.                                                                *)
(***************************************************************************)
EXTENDS Integers

CONSTANTS MaxRequests,   \* config.max_requests
          Window         \* config.window, in ticks

ASSUME LimitAssumption == MaxRequests \in Nat \ {0} /\ Window \in Nat \ {0}

VARIABLE buckets         \* [channel -> TokenBucket]

Token == Window
Capacity == MaxRequests * Token

TokenBucket == [tokens : 0..Capacity, since : 0..Window]

\* TokenBucket::new.  The entry of a channel is inserted when it is first asked
\* for and is full then, so a missing entry and a new bucket are one state.
NewBucket == [tokens |-> Capacity, since |-> 0]

\* Mutant: only whole tokens are added, the rest of the elapsed time is lost.
RefillWhole(b) ==
  LET full == b.tokens + ((b.since * MaxRequests) \div Token) * Token
  IN  [tokens |-> IF full < Capacity THEN full ELSE Capacity, since |-> 0]

\* Mutant: last_refill is not moved, the same time is credited again.
RefillTwice(b) ==
  LET full == b.tokens + b.since * MaxRequests
  IN  [tokens |-> IF full < Capacity THEN full ELSE Capacity, since |-> b.since]

Refill(b) ==
  LET full == b.tokens + b.since * MaxRequests
  IN  [tokens |-> IF full < Capacity THEN full ELSE Capacity, since |-> 0]

\* try_consume: its result, and its effect on the bucket.
Consumes(b) == Refill(b).tokens >= Token

TryConsume(b) == IF Consumes(b) THEN [Refill(b) EXCEPT !.tokens = @ - Token]
                                ELSE Refill(b)

\* Instant::now moves on.
Later(b) == IF b.since < Window THEN [b EXCEPT !.since = @ + 1] ELSE b

=============================================================================
