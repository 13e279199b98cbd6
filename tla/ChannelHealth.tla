---------------------------- MODULE ChannelHealth ----------------------------
(***************************************************************************)
(* The run-time health of one channel: ChannelState, its transitions and   *)
(* its cooldown (crates/model-router/src/types.rs).  Pure operators on a   *)
(* state; the health map that holds the states is in ModelRouter.          *)
(*                                                                         *)
(* elapsed is the time since failed_at in ticks.  It is only compared with *)
(* the cooldown of the state it belongs to and saturates there;            *)
(* consecutive_failures saturates at 3, the last value the code tells      *)
(* apart.                                                                  *)
(***************************************************************************)
EXTENDS Integers

CONSTANTS RateLimitCooldown,  \* RATE_LIMIT_COOLDOWN, 30 s
          BaseCooldown        \* BASE_COOLDOWN, 60 s

ASSUME HealthCooldownAssumption ==
  RateLimitCooldown \in Nat \ {0} /\ BaseCooldown \in Nat \ {0}

\* elapsed of a state whose failed_at is None.
NeverFailed == -1

ChannelStates ==
  [health : {"Healthy", "Unhealthy"}, failures : 0..3, elapsed : Int]

NewState == [health |-> "Healthy", failures |-> 0, elapsed |-> NeverFailed]

\* exponential_cooldown(n, BASE_COOLDOWN)
ExponentialCooldown(n) ==
  IF n <= 1 THEN BaseCooldown
  ELSE IF n = 2 THEN BaseCooldown * 5 ELSE BaseCooldown * 15

\* The cooldown is_tryable_past_cooldown compares failed_at.elapsed() with.
EffectiveCooldown(s) ==
  IF s.failures <= 1 THEN RateLimitCooldown ELSE ExponentialCooldown(s.failures)

\* Mutant: the cooldown of a rate-limited channel for every failure.
IsTryableAfterRateLimit(s) ==
  s.health = "Healthy" \/ s.elapsed = NeverFailed \/ s.elapsed >= RateLimitCooldown

\* Mutant: only the health flag is asked, which only a success sets again.
IsTryableWhenHealthy(s) == s.health = "Healthy"

IsTryablePastCooldown(s) ==
  \/ s.health = "Healthy"
  \/ s.elapsed = NeverFailed
  \/ s.elapsed >= EffectiveCooldown(s)

RecordSuccess(s) == NewState

MarkUnhealthy(s) == [health |-> "Unhealthy", failures |-> 3, elapsed |-> 0]

\* Mutant: rate limits are counted like other failures.
MarkRateLimitedCounts(s) ==
  [health |-> "Unhealthy", failures |-> s.failures + 1, elapsed |-> 0]

MarkRateLimited(s) == [health |-> "Unhealthy", failures |-> 1, elapsed |-> 0]

\* One tick of time for a failed state, up to its cooldown.
Cooling(s) == s.elapsed # NeverFailed /\ s.elapsed < EffectiveCooldown(s)

Age(s) == IF Cooling(s) THEN [s EXCEPT !.elapsed = @ + 1] ELSE s

=============================================================================
