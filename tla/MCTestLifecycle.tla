-------------------------- MODULE MCTestLifecycle --------------------------
(* TestLifecycle on small instances.                                       *)
EXTENDS TestLifecycle, TLC

Symmetry == Permutations(Calls)
=============================================================================
