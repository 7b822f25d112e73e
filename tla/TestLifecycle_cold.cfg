\* The first test of a process, stopped before the verifier exists.
SPECIFICATION Spec
CONSTANTS
  Calls = {c1}
  MaxRuns = 1
  MaxCrashes = 0
  Warm = FALSE
  Polite = TRUE
  Prompt = TRUE
CHECK_DEADLOCK FALSE
INVARIANT
  ClaimedIsUnderWay
