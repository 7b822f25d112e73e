--------------------------- MODULE MCSenderWorker ---------------------------
(* SenderWorker on small instances.                                        *)
EXTENDS SenderWorker

CONSTANTS w1, w2

(* Pipelined: depth two, two batches at the sender at once.  Serial: depth *)
(* one, partial and full batches; a batch whose wait timed out overlaps    *)
(* the next.  Shared: two workers and one slot, so that each finds the     *)
(* sender at capacity because of the other.  Full: the slot is taken by a  *)
(* batch that was given up, and a batch of two is rolled back.             *)
Pipelined ==
  [workers |-> {w1}, batch |-> 1, depth |-> 2, slots |-> 2, nonces |-> 2]
Serial ==
  [workers |-> {w1}, batch |-> 2, depth |-> 1, slots |-> 2, nonces |-> 2]
Shared ==
  [workers |-> {w1, w2}, batch |-> 2, depth |-> 1, slots |-> 1, nonces |-> 1]

Full ==
  [workers |-> {w1}, batch |-> 2, depth |-> 1, slots |-> 1, nonces |-> 3]

SmallConfigs == {Pipelined, Serial, Shared, Full}
=============================================================================
