\* Four components of their own, one per behaviour.  Runs end, and so do the
\* bounds of each part.
SPECIFICATION PartSpec
CONSTANTS
  Requests <- SmallRequests
  Levels = {0, 2000, 4001}
  Pressures <- SmallPressures
  Outcomes <- SmallOutcomes
  RateBound = 12
  TickBound = 25
  Leftovers = {0}
  MaxRuns = 2
  Waiters = {"w1", "w2"}
  Rates = {0, 2, 4}
  Second = 4
  Horizon = 4
  Backlog = 6
  MaxPermits = 5
  Layers = {"reth", "cdk-erigon"}
  MaxBlock = 4
  Start0 = 1
  MaxFetch = 2
  TpsValues = {3}
  Chains <- SmallChains
  Orderings = {"tip_desc"}
  Cap = 2
  SampleMax = 1
  EveryNth = 2
  FullSample = 1
  Polled = FALSE
CHECK_DEADLOCK FALSE
INVARIANTS
  TypesOK
  RateWithinRequest
  CircuitCeiling
  
  
  
  HashOnce
  VerdictExact
