------------------------------ MODULE TestRuns ------------------------------
(***************************************************************************)
(* What the load generator promises of its test runs, whatever goroutines  *)
(* carry it out: one run at a time, which is prepared, runs, is finished   *)
(* off and leaves one result, its own; a run that cannot be prepared       *)
(* leaves none.                                                            *)
(***************************************************************************)
EXTENDS Naturals

VARIABLES
  stage,    \* "none", "preparing", "running", "finishing"
  run,      \* the latest run, numbered from 1
  results   \* the runs with a stored result

vars == <<stage, run, results>>

Init == stage = "none" /\ run = 0 /\ results = {}

(* A run whose request is invalid is over at once.                         *)
Begin ==
  /\ stage = "none"
  /\ stage' \in {"preparing", "none"}
  /\ run' = run + 1
  /\ UNCHANGED results

Ready ==
  /\ stage = "preparing"
  /\ stage' = "running"
  /\ UNCHANGED <<run, results>>

(* The end of the duration, or StopTest.                                   *)
Finish ==
  /\ stage = "running"
  /\ stage' = "finishing"
  /\ UNCHANGED <<run, results>>

Store ==
  /\ stage = "finishing"
  /\ run \notin results
  /\ results' = results \cup {run}
  /\ UNCHANGED <<stage, run>>

(* A preparation that fails, the end of a run, the death of the process.   *)
Over ==
  /\ stage # "none"
  /\ stage' = "none"
  /\ UNCHANGED <<run, results>>

Delete ==
  /\ \E r \in results : results' = results \ {r}
  /\ UNCHANGED <<stage, run>>

Next == Begin \/ Ready \/ Finish \/ Store \/ Over \/ Delete

Spec == Init /\ [][Next]_vars
=============================================================================
