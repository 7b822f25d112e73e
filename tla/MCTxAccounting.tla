--------------------------- MODULE MCTxAccounting ---------------------------
(* TxAccounting on small instances.                                        *)
EXTENDS TxAccounting, TLC

CONSTANTS a, b

(* Two transactions with a nonce each, pending side by side; or signed     *)
(* with one nonce, before and after it was given back, with other tips.    *)
Pairs ==
  {[h \in {a, b} |-> h]} \cup {[h \in {a, b} |-> n] : n \in {a, b}}
OneNonce == {[h \in {a, b} |-> a]}
OnceEach == [h \in {a, b} |-> 1]

(* One transaction, sent again whenever its nonce is given back.           *)
JustA == {[h \in {a} |-> a]}
Twice == [h \in {a} |-> 2]

Symmetry == Permutations({a, b})
=============================================================================
