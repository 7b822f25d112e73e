\* Two transactions, one watcher, a send each.  The run ends.
SPECIFICATION Spec
CONSTANTS
  a = a
  b = b
  Txs = {a, b}
  Nonces = {a, b}
  NonceMaps <- Pairs
  Watchers = {w1}
  MaxSends <- OnceEach
SYMMETRY Symmetry
CHECK_DEADLOCK FALSE
INVARIANTS
  TypeOK
  NoPendingLeak
