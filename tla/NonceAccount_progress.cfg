\* The patterns without a circuit breaker; liveness, so no symmetry.
SPECIFICATION FairSpec
CONSTANTS
  Tickets = {t1, t2}
  Resyncers = {r1}
  MaxNonce = 2
  CircuitBreaker = FALSE
INVARIANTS
  NoHole
PROPERTIES
  ImplementsLedger
  Progress
