\* Three reservations of three nonces, two overlapping resyncs; the adaptive
\* patterns, whose circuit breaker resyncs every account during the test.
SPECIFICATION Spec
CONSTANTS
  Tickets = {t1, t2, t3}
  Resyncers = {r1, r2}
  MaxNonce = 3
  CircuitBreaker = TRUE
SYMMETRY Symmetry
INVARIANTS
  TypeOK
  OneHolder
  FreeListSound
  NoReissue
