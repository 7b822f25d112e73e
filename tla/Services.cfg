\* Four components of their own, one per behaviour.  Runs end, and so do the
\* bounds of each part.
SPECIFICATION PartSpec
CONSTANTS
  Base <- SmallBase
  Uniswap <- SmallUniswap
  BuiltIn = {b}
  Dynamic = {d}
  MaxNonce = 7
  MaxRuns = 2
  MaxRestarts = 1
  Calls <- SmallCalls
  Txs = {"t1", "t2"}
  MaxRetries = 1
  InitialBackoff = 1
  MaxBackoff = 3
  RetryAfters = {0, 7}
  Oddities = {"null", "garbled", "badhex", "error"}
  MaxHead = 1
  MaxCalls = 2
  NumFaucets = 2
  Needs = {1, 3}
  MaxAccounts = 3
  FaucetNonces = 2
  MaxStrays = 1
  FundedRuns = 2
  Configs <- SmallConfigs
  Workers = {"w1", "w2"}
  MaxReads = 2
  MaxTip = 2
CHECK_DEADLOCK FALSE
INVARIANTS
  TypesOK
  AnswersAreOwn
  ConfirmedMeansFunded
  Usable
  ReadsAddUp
  RangesWithin
