SPECIFICATION RFairSpec
CONSTANTS
  Channels = {c1}
  NoChannel = none
  Requests = {r1, r2}
  FailureThreshold = 2
  Cooldown = 2
  MaxRequests = 2
  Window = 3
  Orders <- FourOrders
  MaxRetries = 3
  Span = 3
INVARIANTS ResilienceTypeOK CircuitCoherent BurstBounded DeafBreaker
PROPERTIES ProbeDecides BreakerHears LazyRefillIsExact OpenNotForever
