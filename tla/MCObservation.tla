--------------------------- MODULE MCObservation ---------------------------
(* Observation with small parts. *)
EXTENDS Observation

(* RateControl: every pattern, with the corners validateStartRequest lets    *)
(* through - a ramp from nothing, a falling one, a spike longer than its     *)
(* interval - and pendings of which each is in another band of the target.   *)
SmallRequests ==
  { [pattern |-> "constant", rate |-> 5],
    [pattern |-> "ramp", start |-> 0, end |-> 7, sec |-> 2],
    [pattern |-> "ramp", start |-> 9, end |-> 2, sec |-> 1],
    [pattern |-> "spike", baseline |-> 0, spike |-> 8, spikeSec |-> 1, everySec |-> 2],
    [pattern |-> "spike", baseline |-> 3, spike |-> 8, spikeSec |-> 2, everySec |-> 1],
    [pattern |-> "spike", baseline |-> 3, spike |-> 0, spikeSec |-> 2, everySec |-> 1],
    [pattern |-> "adaptive", initial |-> 200, target |-> 0, step |-> 0] }
SmallPressures ==
  {[kind |-> "error"], [kind |-> "garbled"], [kind |-> "status", pending |-> 50000, maxTxs |-> 0]}
SmallOutcomes ==
  {[failed |-> 0, revoked |-> 0], [failed |-> 40, revoked |-> 0], [failed |-> 0, revoked |-> 20]}

(* Two chains: one with a block out of order and a reverted transaction, one *)
(* with a deposit ahead of each block.                                       *)
Tx(from, tip, price, hash, ok) ==
  [from |-> from, tip |-> tip, price |-> price, hash |-> hash, ok |-> ok]
Deposit(hash) == Tx("system", 0, 0, hash, TRUE)
SmallChains ==
  { << <<Tx("a", 2, 2, "h1", TRUE), Tx("b", 0, 3, "h2", FALSE)>>, <<Tx("a", 1, 3, "h3", TRUE)>> >>,
    << <<Deposit("d1"), Tx("b", 1, 3, "h1", TRUE), Tx("a", 2, 3, "h2", TRUE)>>,
       <<Deposit("d2")>> >> }
=============================================================================
