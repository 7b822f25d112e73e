--------------------------- MODULE MCNonceAccount ---------------------------
(* NonceAccount on small instances: model values for the reservations and  *)
(* the resyncing goroutines, which the specification treats alike.         *)
EXTENDS NonceAccount, TLC

Symmetry == Permutations(Tickets) \cup Permutations(Resyncers)
=============================================================================
