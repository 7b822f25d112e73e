\* Two runs, a StopTest call at any moment, one crash; clients that wait for
\* the end of a run, in a process that has run a test before.  It may stop.
SPECIFICATION FairSpec
CONSTANTS
  Calls = {c1}
  MaxRuns = 2
  MaxCrashes = 1
  Warm = TRUE
  Polite = TRUE
  Prompt = TRUE
CHECK_DEADLOCK FALSE
INVARIANTS
  TypeOK
  
  SkippedOnlyIfAsked
  NothingGoesOn
  ClaimedIsUnderWay
PROPERTIES
  
  Ends
