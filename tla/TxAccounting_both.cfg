\* Two transactions of one nonce: counted as failed and as confirmed.
SPECIFICATION Spec
CONSTANTS
  a = a
  b = b
  Txs = {a, b}
  Nonces = {a, b}
  NonceMaps <- OneNonce
  Watchers = {w1}
  MaxSends <- OnceEach
CHECK_DEADLOCK FALSE
INVARIANT
  NotBoth
