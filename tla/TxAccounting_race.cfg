\* One transaction, two watchers, sent again once.  The run ends.
SPECIFICATION FairSpec
CONSTANTS
  a = a
  b = b
  Txs = {a}
  Nonces = {a, b}
  NonceMaps <- JustA
  Watchers = {w1, w2}
  MaxSends <- Twice
CHECK_DEADLOCK FALSE
INVARIANTS
  CountedPerSend
PROPERTIES
  NeverCountedAfterTooLow
  LandedIsCounted
