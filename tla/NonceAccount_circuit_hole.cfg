\* The adaptive patterns, and the hole the comment of MaybeResyncFromChain
\* says an in-test resync must not leave.
SPECIFICATION Spec
CONSTANTS
  Tickets = {t1, t2}
  Resyncers = {r1}
  MaxNonce = 3
  CircuitBreaker = TRUE
INVARIANT
  NoHole
