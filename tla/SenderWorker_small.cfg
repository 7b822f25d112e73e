\* Four configurations (see MCSenderWorker).  The nonces
\* run out, so the system may stop.
SPECIFICATION FairSpec
CONSTANTS
  w1 = w1
  w2 = w2
  Workers = {w1, w2}
  Configs <- SmallConfigs
  MaxNonce = 3
CHECK_DEADLOCK FALSE
INVARIANTS
  TypeOK
  RightBytes
  
  NoLeak
PROPERTIES
  UsesLedger
  Terminates
  NeverWedged
