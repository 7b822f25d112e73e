# A TLA+ development of the load generator

This directory models the core logic of the GasStorm load generator
(`github.com/gateway-fm/loadgenerator`) in TLA+, model-checks it with TLC on
small instances and proves its safety properties with TLAPS for every
value of the parameters. It is kept beside the code: `PROJECT.json` ties every
definition to the lines it models and lists the hazards the properties are for.

## Inventory

The program drives transactions at an Ethereum-like chain, at a rate a load
pattern prescribes, and measures what becomes of them.

| Component (source) | State | Operations | What makes it correct |
|---|---|---|---|
| Account nonces (`internal/account/account.go`) | `nonce` counter, sorted `freeNonces`, the tickets (`*Nonce`) handed out | `ReserveNonce`, `Commit`, `Rollback`, `Resync`, `ResyncFromChain`, `ForceResync(FromChain)`, `MaybeResyncFromChain` | a nonce is in one pair of hands; an acknowledged one is not reused; no nonce below the counter is lost |
| Sender workers (`internal/loadgen/workers.go:25-479`) | batch buffers, permits, the acknowledgement channel of a batch | fill a batch, linger, queue it, wait for acknowledgements with a bound | each nonce settled once, the bytes sent are the batch's, a worker never wedges |
| Sender (`internal/sender/sender.go`) | semaphore | `SendBatchAsync`, one goroutine per batch that calls back | a slot per batch, all callbacks made |
| Transaction accounting (`internal/metrics`, `chainpoller.go`, `websocket.go`, `persistence.go`) | `TxTracker`, `txSent`, `txConfirmed`, `txFailed`, `pendingCount`, flow records | counting at send, callback, confirmation from poller, WebSocket or receipt | one transaction counted once; `pendingCount` means what the controller takes it for |
| Test lifecycle (`loadgen.go`, `init.go`, `api.go`) | `status`, `stopping`, `forceStop`, the run's context and wait group, `lg.verifier` | `StartTest`, `runInitialization`, `StopTest`/`stopTest`, completion watcher, `Reset`, `RecycleFunds` | one run at a time, every run ends, its row is its own |
| Adaptive controller, circuit breaker (`workers.go:481-760`), patterns (`internal/pattern`) | rate, `circuitOpen`, `preCircuitRate`, windowed counters, builder pressure | a rate tick every 100 ms, a controller tick every 500 ms | a rate within the request; an open circuit only probes |
| Rate limiter (`internal/ratelimit`) | next permit time, interval | `Wait`, `SetRate` | no faster than the rate |
| Block metrics (`blockmetrics.go`, `websocket.go`, `chainpoller.go`) | cumulative gas and block counts, cursors | four writers: builder WebSocket, newHeads, poller, RPC fallback | a block counted once, none after the end block |
| On-chain verification (`internal/verification`, `loadgen/verification.go`) | lists of recent blocks and hashes, snapshots | streams append, a ticker and the stop drain, sampling, aggregation | every confirmed hash in one place, a verdict that says what was sampled |
| Account manager, funding (`internal/account/manager.go`, `loadgen/accounts.go`) | built-in and dynamic accounts, the cached accounts | warm and cold start, funding rounds, re-funding, recycling | accounts called funded are funded |
| Contract deployment (`internal/contract`, `internal/uniswapv3`, `loadgen/contracts.go`) | addresses and flags in memory, `cached_contracts` | restore, deploy, prepare accounts, save | the contracts a run sends to exist |
| RPC client (`internal/rpc`) | none between calls | `Call`, `BatchCall` with retries | an answer per request, in its place |
| Read load (`internal/readload`) | counters, cached head, worker pool | `Validate`, `Start`, workers, `Stop` | sent = successes + errors, ranges within the selection |
| Storage (`internal/storage`) | SQLite tables | rows of runs, cached accounts and contracts | a row holds its run's result |
| HTTP and WebSocket API (`internal/transport`), `cmd/loadgen` | broadcast hub | validation of requests, thin calls of the lifecycle, signal handler | |
| Builders, workload, latency statistics, configuration, MCP server, `noncehealer`, `pipeline` | see `PROJECT.json` | | |

How they interact: a worker goroutine per account reserves nonces, waits for
the rate limiter and hands batches to the sender; the sender's goroutine makes
one HTTP request and runs a callback per transaction, which commits or rolls
back its nonce, moves the counters and may start a resync of the account in a
further goroutine; confirmations arrive by WebSocket or by polling and move the
same counters; the controller reads them every tick, changes the rate and, when
it opens the circuit, resyncs all accounts. The lifecycle prepares accounts and
contracts through the RPC client, starts all of these, and ends them with a
flag, a context and a bounded wait; what they recorded is verified and saved.

What is hard: callbacks, resyncs and workers interleave on one account; resyncs
read before they lock; answers are lost or late; waits time out while the
answer is still coming; requests, watchers and stop sequences share one set of
fields; everything must end when the test does.

## Modules

| Module | What it is |
|---|---|
| `NonceLedger` | abstract specification of one account: the set of nonces taken and a ticket per reservation |
| `NonceAccount` | `account.go` under its users, the endpoint and the chain; refines `NonceLedger` |
| `SenderWorker` | workers, sender, callbacks and shutdown; composes each account as a `NonceLedger` |
| `TxAccounting` | counters, send tracking and transaction log of a run, from the worker's record to the saved result |
| `TestRuns` | abstract specification of what clients see: one run at a time, with at most one result |
| `TestLifecycle` | start, initialisation, watcher, stop sequence, reset, rows, crashes; refines `TestRuns` |
| `RateControl` | patterns, rate tick, circuit breaker and adaptive controller, builder pressure |
| `RateLimiter` | the limiter with sleeping and cancelled waiters |
| `BlockMetrics` | three block streams, the RPC fallback and the totals of a run |
| `Verification` | the lists, the snapshots, the verdict |
| `RpcClient` | calls and batches with retries; what each operation makes of an answer |
| `SetupFunds` | how a run comes by its accounts |
| `Deployment` | how a run comes by its contracts |
| `ReadLoad` | the read engine |
| `Observation` | rate control, limiter, block metrics and verification, one beside the other |
| `Services` | RPC client, funds, deployment and read load, one beside the other |
| `NonceAccountProofs`, `SenderWorkerProofs`, `TxAccountingProofs`, `TestLifecycleProofs`, `RateControlProofs`, `BlockMetricsProofs` | theorems about the module they are named for |
| `ObservationProofs`, `ServicesProofs` | theorems about the parts of `Observation` and `Services` |
| `MCNonceAccount`, `MCSenderWorker`, `MCTxAccounting`, `MCTestLifecycle`, `MCObservation`, `MCServices` | instances for TLC |

`Observation` and `Services` are not compositions: their parts share no state in
the model, and a behaviour is one of the part named by the variable `part`,
which never changes, so that a run checks four specifications one beside the
other and a theorem about one of them is a theorem of `PartSpec`. Both state
what the constants of their parts may be (`ObservationAssumption`,
`ServicesAssumption`).

### NonceAccount

`nonce` and `freeNonces` are the fields of `Account`. The code's slice is
sorted and free of duplicates and its first element is popped, so it is the set
of its elements and the pop takes the least. A ticket is a `*Nonce`: `held`
when `ReserveNonce` returned it, `sent` once its batch is with the sender,
`returning` between the swap of `committed` in `Rollback` and the lock in
`rollback` (the one place where the two are not atomic). A settled ticket is
garbage, so its name is used again. `resync[r]` is a goroutine in
`MaybeResyncFromChain` (`rejection`) or in the `Resync` or `ResyncFromChain` of
`resyncAllNonces` (`circuit`); reading and applying are two steps, as in the
code, where the lock is taken after the answer. The rate limit of
`MaybeResyncFromChain` only drops or delays resyncs, and a model where they may
come at any time includes that.

`phase` is what an account can tell of the test. `Overwrite` is the effect of
`ForceResync` and `ForceResyncFromChain`; the first runs at test start, the
second after contract setup has spent nonces behind the account's back
(`SpendElsewhere`). Their guard, that no ticket is live, is an assumption the
code does not enforce: `stopTest` waits at most five seconds for the workers
and not at all for the sender's goroutines. Accounts generated for a run are
new objects, so only the built-in ones are exposed; the hazard is listed.

External: the endpoint may lose a request, or accept it although the client saw
an error; an accepted transaction stays until it is on the chain (a pool does
not drop it during the run; a `/flush-mempool` happens between runs only); a
replica may answer with an older count, never with a newer one. There is no
reorganisation that lowers the count.

### SenderWorker

One action per step of `senderWorker` at which another goroutine can interfere.
`batch[b]` is a batch with the sender: `nonces` are those the callbacks
captured, `toSend` the slice handed over, `sent` what the request carried,
`called` how many callbacks have run. `waiter` is who counts the
acknowledgements: the worker at depth one, a goroutine with a permit above, or
nobody. Acknowledgement order within a batch does not matter to `awaitAcks`,
which counts them. All answers that leave the nonce used (nil, "already known",
"nonce too low") are `used`, all others `refused`; a transaction may be
accepted and still be answered `refused` (lost answer). A missing answer of a
batch becomes an error in `doBatchRequest`, so there is one per transaction.
The linger timeout, build failures and the cancelled rate wait are choices that
may be taken whenever the code's guard allows. The resync of a callback or a
timeout is `Resync`, always possible: more often than in the code, never less.
Counters and logs of the same handlers are in `TxAccounting`.

`config` (depth, batch size, slots, workers, nonces) is chosen in `Init` and
never changes, so one run checks several configurations.

Every worker has an account of its own because `numWorkers` never exceeds the
number of accounts (`init.go:711-722`).

### TxAccounting

The same handlers, seen from the counters. The program keeps sums; the model
keeps `txSent`, `txConfirmed` and `txFailed` per transaction, which is a hash: a
nonce given back is signed again, into another transaction (`b` with the nonce
of `a`) or, the tip being fixed, into the same one (`MaxSends` 2). `tracked` is
`TxTracker.times`, `log` the status of the entries of `pendingTxs`.
`GetAndDelete` runs under the tracker's lock, so who removes the entry counts
the transaction; what comes before and after it is a step of its own: the
poller looks a hash up (`Gate`), records it (`Count`), then reduces
`pendingCount` and marks the log (`Settle`). The worker's record is two steps
(`Track`, `Enlist`), between which a watcher may meet an earlier submission of
the same hash. A callback is one step, and so is a receipt: the counters they
move are read together by no one but the properties, and the one test among
their instructions is `GetAndDelete`.

`config` is chosen once per run: confirmations come from the poller or the
WebSocket, never both (`init.go:594`, `660`); nodes behind the endpoint may lag;
the log may be off. There can be several pollers, because a start that fails
after launching one leaves it behind and it follows `lg.ctx` into the next run.
`phase` is the sequence of `stopTest`: `stopping` (context cancelled, workers
leave), `grace`, `resolving` (receipts), `saved`. `RecordEnd` waits for the
workers, although `stopTest` gives up after five seconds; callbacks of batches
under way may come at any time, after the result was saved included; only the
next run, which resets the counters, is not modelled.

External: the node may process a request again (the client retries 429 and 5xx)
and answers "already known" only for a transaction in its pool and "nonce too
low" once any transaction with the nonce has landed; it keeps one transaction
per nonce. A block holds at most one of the modelled transactions, so a scan
ends with one. The WebSocket may lose any confirmation (`WsGap`), and after the
cancellation the reader may finish the message in hand.

### TestLifecycle and TestRuns

A run is a number, in the order of the accepted `StartTest` calls. A field of
the one `LoadGenerator` that belongs to a run (`currentTestID`, the collectors,
`lg.ctx`, the read engine) holds the number of the run that set it, so that the
model can tell whose row is completed with whose measurements. `init[r]` is
where `runInitialization` of run `r` stands, one step per stage that another
goroutine can fall between, most of which may fail; `stop[s]` where a caller of
`stopTest` stands: a request, the signal handler, or the `completionWatcher` of
a run. Check and swap of `stopping` are two steps, as are the turn to
"running" and `startIncrementalVerification`, before which the builder is asked
for its status. `work` is what a sequence has gathered when it writes the row:
which run it stopped, which run was measured, whether the chain was scanned and
the result verified. `Crash` is a death of the process at any step; only `rows`
survives it.

Three constants say what is assumed of the environment:

* `Warm`: the process has run a test before, so `lg.verifier` exists;
* `Polite`: clients start and reset nothing while a run is being finished off;
* `Prompt`: no goroutine is suspended for seconds between the check and the swap
  of `stopTest`, or between the start of the watcher and the status next to it.

The code enforces neither of the last two: `StartTest` is refused only while a
test runs or initialises, so a start during "verifying" gives the fields of the
old run to the new one under the feet of the stop sequence. With `Polite` FALSE
each of `RowIsOwn`, `SkippedOnlyIfAsked`, `NothingGoesOn` and
`ClaimedIsUnderWay` has a counterexample; with `Prompt` FALSE all but
`SkippedOnlyIfAsked`. No doc or comment promises otherwise, so they are
recorded as assumptions and not as findings. What holds with them is not
obvious: `Reset`, deletions, crashes, failing initialisations, a `StopTest` at
any moment and both watchers remain.

`SkippedOnlyIfAsked` is one-sided on purpose. A `StopTest` during
initialisation sets `forceStop` and returns, and whether `ResetForRun` then
clears it depends on how far initialisation has come: the stop can be forgotten.

`TestRuns` has three variables: the stage clients can tell from the status, the
latest run and the set of stored results. The refinement maps status to stage
and the completed rows to results.

### RateControl and RateLimiter

`RateControl` counts time in the 100 ms ticks of the rate. `req` is the request
of the run, from all that `validateStartRequest` lets through; the patterns are
integer functions of the elapsed time with the rounding of the code. The
controller is two steps, the swap of `recentSends` (`SwapSends`) and all it does
after it (`Decide`), because workers and callbacks add to the counters in
between. `recent` is in percent of what the limiter lets through. `pending` is
any of `Levels`: what the counter really holds is `TxAccounting`'s question.
A circuit that was open at the end of a run stays open for the next
(`Leftovers`); `CircuitCeiling` is therefore about the run that opened it.

`RateLimiter` splits `Wait` at the unlock: `permit[w]` is the time a waiter
sleeps until. A cancelled wait gives back one `interval`, read anew; `uneven`
records that this was another interval than the one it took, and `PaceKept`
excludes it: the comment "no faster than the target rate"
(`limiter.go:13-14`) is true up to such rate changes.

### BlockMetrics

A block is its number; the model keeps how often each went into the totals and
the time series. The three streams share the cursor `lastRec`, the fallback has
one of its own, `rpcLast`. `RecordDetailed` is what builder events and polled
blocks have in common: into the totals, and every cursor moves; a new head goes
into the time series only and moves neither totals nor `rpcLast`. Status and end
block, which only the builder's handler looks at, decide whether an event that
arrives after `CancelRun` still counts. `EachPathOnce` therefore promises one count by the streams together and
one by the fallback: a block the fallback fetched may be counted by a late
stream as well, against "blocks are never counted twice" (`chainpoller.go:164`),
a comment about the cursor of that stream. Reconnection is left out: a stream
may lose any event at any time.

### Verification

`Confirm` and `NewHeader` append to `recentH` and `recentB`, which are cut at
`Cap`; the ticker and the stop sequence are two drainers that empty both lists,
one after the other, without a common lock. A snapshot checks sampled blocks and
receipts, and each request may fail. The aggregated or full verdict is compared
with an independent definition of order: `IsOrdered` walks over neighbours as the
code does, `InOrder` quantifies over all pairs of senders.

### RpcClient

One call at a time, of any operation the generator uses. An attempt that the
client gives up stays on the `wire` and may reach the node after a later one,
which is how a transaction sent once is met twice. The node answers the items of
a batch in any order, leaves some out, or answers `null`, with a wrong type or an
error object; `results` is what the caller gets, including the panic of a
quantity that is `null`. What the model had to reproduce and a reader of the
client may not expect: every HTTP error status is retried alike and
`Retry-After` has no cap; a receipt whose status does not decode counts as
reverted; a retry after a lost answer is answered "already known"; the
`isRPCError` branch of `BatchCall` is never reached.

### SetupFunds

A faucet has a counter, a slot per nonce and the nonces the chain has passed. A
round shares the accounts out in turn, sends without waiting, gives back the
nonce of a send that failed (and was perhaps delivered, or is late: `late` in the
composite), and then waits until the chain's count has grown by the number of
transactions. A wait that gives up does not stop the run (`manager.go:346`, "waits
for all funding transactions to be confirmed", notwithstanding). `vouched` is
history: the accounts whose balance was read, or whose faucet's wait was
confirmed without an older transaction (`intruder`) on one of its nonces. A failed `GetBalance` or `GetCode` counts an account as
poor or unknown and wipes the cache (`accounts.go:56-60`).

### Deployment

A contract is its name and the nonce it was created with, since the deployer is
always `accounts[0]` and addresses follow from the nonce; `None` is no
contract. Transactions may be refused, revert, stay pending or be accepted
without an answer; a failed attempt leaves behind what it sent; a restart keeps
the database and may find a new chain. A run may begin by wiping cached accounts
and contracts (`tryWarmStartAccounts`), and any deletion may fail, since the error
of `DeleteCachedContracts` is ignored by all its callers.

Three history variables name what `Usable` does not hold for. `stale` records a
deployment that began below a nonce already taken, whose addresses are then wrong.
`blind` records that a reverted transaction of the pool was taken for a good one,
which happens where receipts cannot be read and inclusion in a block has to do.
`foreign` records that rows saved on a former chain (`older`) were restored:
`ValidateCachedContracts` asks whether there is a contract at each address, not
which. Within the bounds of the run this does not happen; with three runs and two
restarts `Usable` without the exclusion is violated:
the rows of the former chain survive because they could not be read, or not be
deleted, while the run deploys its own contracts, whose addresses may then be those
of other names in the rows that were not overwritten.

### ReadLoad

Each atomic counter is one step, so a worker can be caught between any two of
them by `Stop`, whose wait has a bound. `ReadsAddUp` holds where the wait saw all
workers leave ("stopped"); after "cut short" the model promises nothing.
`RangesWithin` admits the span where it is longer than the window, because the
default span of 16 is applied after `Validate` compared the two. The comment
"Only the engine's 250ms head refresher calls this" is not true while the cached
head is 0: workers then ask for it themselves.

## Runs

| Run | Instance | Shows |
|---|---|---|
| `nonce_safety` | 3 tickets, 2 resyncs, 3 nonces, circuit breaker | `TypeOK`, `OneHolder`, `FreeListSound`, `NoReissue` |
| `nonce_progress` | 2 tickets, 1 resync, 2 nonces, no circuit breaker | `NoHole`, refinement of `NonceLedger`, `Progress` |
| `nonce_circuit_hole` | 2 tickets, 1 resync, 3 nonces, circuit breaker | `NoHole` is violated (below) |
| `workers` | pipelined: 1 worker, batch 1, depth 2, 2 slots, 2 nonces; serial: 1 worker, batch 2, depth 1, 2 slots, 2 nonces; shared: 2 workers on 1 slot; full: 1 worker, batch 2, 1 slot, 3 nonces | `TypeOK`, `RightBytes`, `InFlightBound`, `NoLeak`, `UsesLedger`, `Terminates`, `NeverWedged` |
| `accounting_pair` | 2 transactions, sent once, one nonce or two, 1 watcher | `TypeOK`, `NoPendingLeak` |
| `accounting_race` | 1 transaction, sent twice, 2 watchers | `CountedPerSend`, `NeverCountedAfterTooLow`, `LandedIsCounted` |
| `accounting_both` | 2 transactions of one nonce, 1 watcher | `NotBoth` is violated (below) |
| `lifecycle` | 2 runs, 1 call of StopTest, both watchers, 1 crash, warm | `TypeOK`, `RowIsOwn`, `SkippedOnlyIfAsked`, `NothingGoesOn`, `ClaimedIsUnderWay`, refinement of `TestRuns`, `Ends` |
| `lifecycle_cold` | 1 run, 1 call, in a first process | `ClaimedIsUnderWay` is violated (below) |
| `observation` | 7 requests, 2 runs, 25 ticks; 2 waiters, 3 rates, 5 permits; 4 blocks, 2 execution layers; 2 chains of 2 blocks, lists of 2 | `TypesOK`, `RateWithinRequest`, `CircuitCeiling`, `PaceKept`, `EachPathOnce`, `TotalsWithinRange`, `HashOnce`, `VerdictExact` |
| `services` | 15 operations with up to 2 items, 1 retry, 2 calls; 2 faucets, 3 accounts, 2 runs; 1 base contract, 2 of Uniswap, 7 nonces, 2 runs, 1 restart; 6 read configurations, 2 workers, 2 reads | `TypesOK`, `AnswersAreOwn`, `ConfirmedMeansFunded`, `Usable`, `ReadsAddUp`, `RangesWithin` |
| `swappers` | the same | `SwappersReady` is violated (below) |

Why the bounds are enough. Three nonces are the smallest number for which a
rollback can be neither the newest nor the only free one; three tickets hold
all of them; two resyncs overlap each other and a reservation. A batch of two
can be partial, and can be half acknowledged when the wait ends; two slots let
a batch that was given up overlap its successor, one slot makes the sender
refuse. Two transactions let one make the other's nonce too low, and let
`pendingCount`, one number for all, be decreased for one at the expense of the
other; a second send of one hash and a second watcher are what could count it
twice.

Two runs are what it takes for the fields of one to reach the other; a request
beside the watchers gives three callers of `stopTest`, of which two can be
between check and swap together. The requests of `observation` hold the corners
that pass validation (a ramp from nothing and a falling one, a spike longer than
its interval, a target of 0 that takes its default), and pendings far below,
near and beyond the target; 25 ticks cover a ramp of two seconds and its drain,
and four windows of the controller, enough to trip, probe and close. `RateBound`
only decides above which rate the pending count is never below its target.
Two waiters suffice for one to cancel below a permit that the other sleeps for;
four blocks and two fetched per period let each stream overtake each other, the
fallback and the end block. Lists of two are cut by a third hash. Two items are
what a batch can exchange, one retry makes an earlier attempt overtake a later
one. Two faucets with three accounts give one a second send after a failed
first. Seven nonces deploy everything once and leave one for a failure; with a
restart and a second run every path of the cache is taken. All requests of a
part are in the one run, so the next-state relation is exercised as a whole.

Deadlock is checked where the system runs forever (`nonce_safety`,
`nonce_progress`). The other instances may stop: the nonces run out, a run is
saved, the bounds on runs, calls and restarts are reached.

What `NoPendingLeak` says is one-sided: `pendingCount` can be too low, since a
WebSocket confirmation reduces it whether or not the transaction was pending,
but nothing keeps it too high for the rest of the run.

**Findings.**

`nonce_circuit_hole`: when the circuit opens, `resyncAllNonces` calls `Resync`,
which clears the whole free list during the test. A nonce that was rolled back
below others in flight is then offered by nobody, and the chain cannot pass it.
The comment of `MaybeResyncFromChain` (`account.go:271-276`) describes exactly
this as wrong during a test. The account recovers at the next forced resync.

`accounting_both`: a retried submission whose first attempt landed is answered
"nonce too low". The branch discards the tracking before it counts the failure,
so that the transaction is not counted in both counters (`workers.go:235`); but
if the watcher was faster, there is nothing left to discard and the failure is
counted all the same. `NeverCountedAfterTooLow` is what does hold: nothing is
counted after the discard.

`lifecycle_cold`: the status turns to "running" (`init.go:746`) before
`startIncrementalVerification` makes the verifier (`init.go:758`); between them
the builder is asked for its status. A `StopTest` in this window, in the first
test of a process and once a block was seen, takes the final snapshot with a nil
verifier and panics. `net/http` recovers it, so the process lives, but `stopping`
stays set with no sequence under way: the watcher and every later `StopTest`
return at the swap and the test stays "running". In a warm process the invariant
holds, and is proved.

`swappers`: `ensureContractsDeployed` takes Uniswap for deployed before
`SetupAccounts` has run, and returns early for later runs whatever new accounts
they bring. A swap run can begin with accounts that have no WETH and no approval,
against the "Per-account setup" of the repository's `README.md:381-384`.

**Other divergences met while modelling**, which no run is about:

* `README.md:514-530` gives thresholds of 5 % and 20 % and a rate of 10 for the
  circuit; the code has 30 % and 10 %, and a floor of 50. `workers.go:553` says it
  "halts sending when failure rate > 50%"; nothing halts.
* The comment at `workers.go:677-679` says "If failures are still high, circuit
  re-trips and rate halves again"; while it is open no branch halves the rate.
* Backpressure has a floor of 100, above the rate other branches may leave, so
  throttling can raise the rate.
* `workers.go:538`: the compare-and-swap before the loop sets the peak to the
  current value whether it is higher or not, so `peakRate` follows the rate down.
* `calculateOnChainMetrics` counts the block at which the run started, too.
* The verifier is made once per process and judges later runs by the deposit
  setting of the first. Uniswap setup is verified for a sample of five accounts.
* A snapshot taken while a run goes on reads its fields one by one and may show
  values of different moments.

## Fairness

`NonceAccount!Fairness`: goroutines that can step do (weak fairness of
reserving, settling, the second half of a rollback and the chain). Sending is
strongly fair because its obstacles, the rate limiter and a full sender, come
and go. For `Progress` the endpoint is live: a nonce that keeps being sent is
delivered and answered some time; without that no client makes progress.
Resyncs are not fair: progress does not depend on them.

`SenderWorker!FairSpec`: workers step and wait timers fire, nothing else. No
batch is promised an answer, so `Terminates` and `NeverWedged` show that the
bounded wait and the semaphore's non-blocking send are enough. The timer's
action includes the resync that follows it, which the HTTP client's timeout
bounds.

`TxAccounting!FairSpec`: each poller steps, nothing else; it ticks every 200 ms
and tries a block again that it could not fetch. `LandedIsCounted` needs nodes
that do not lag: with a null block the poller moves on (`SkipNullBlock`).

`TestLifecycle!FairSpec`: the initialisation goroutine of each run, its watcher
and each stop sequence keep stepping. Every wait in them has a timeout (HTTP
requests, the five seconds for the workers, the grace period) and the watcher has
a ticker. Nothing is assumed of clients, of the workers, which may stay for good,
or of crashes. `Ends` therefore says that every accepted test comes to an end by
itself.

The modules in `observation` and `services` state safety only.

## Proofs

What is proved holds for every value of the constants, from the named
assumptions of the modules, which TLC evaluates on every run.

`NonceAccountProofs`, for any sets of tickets and resyncs and any `MaxNonce`,
from the assumption `Constants` alone:

* `TypeCorrect`, `OneHolderAlways`, `FreeListSoundAlways`, `NoReissueAlways`,
  from the inductive invariant `Inv`. `OneHolder` is not inductive: a rollback
  puts a nonce back on offer, which is harmless only if it is below the
  counter and not in the free list already (`FreeListSound`); `NoReissue`
  needs both; `ReadsSound` records what a resync may have read.
* `NoHoleAlways`, without the circuit breaker: whoever stops covering a nonce
  hands it to another that does, by cases over the actions (`StepNoHole`).
* `LedgerRefinement`, without the circuit breaker: each action is a step of
  `NonceLedger` or a stutter under `taken = 0..(nonce-1) \ freeNonces`. With the
  breaker `NoHole` is false (the finding) and the refinement fails with it.

`TxAccountingProofs`, for any finite set of transactions, any way to sign them,
any watchers and any number of sends: `TypeCorrect`; `NeverOvercounted`, that is
`CountedPerSend`; and `TooLowIsFinal`, the action property
`NeverCountedAfterTooLow`. The inductive invariant `Inv` adds three parts.
`OneSender`: a transaction with a worker or in flight holds its nonce, alone, so
a send has one outcome. `Balance`: a transaction's confirmations plus its entry
in `tracked`, and its failures plus its send under way, are at most its sends;
only a send makes an entry and only its removal counts. `GivenUp`: a transaction
given up as too low is not tracked and its nonce stays spent, so it is never
tracked again.

`TestLifecycleProofs`, for any number of runs, callers and crashes, assuming
`Polite` and `Prompt` (and `Warm` for `ClaimedIsUnderWayAlways`): all five
invariants of the run `lifecycle` and `TestRunsRefinement`. None is inductive,
because each of them speaks of the end of a sequence whose steps read shared
fields again. `Inv` therefore says of every stage what it may rely on: `Phases`,
that the status fits the stage of whoever works on the run and that one stop
sequence is under way at a time; `Fields`, that the shared fields are the latest
run's from its reset on; `Gathered`, what a sequence has collected so far;
`Drained`, that nothing goes on behind it; `Claims`, that a set flag has an owner;
`Results`, that the rows are written once, for the run being finished. One lemma
per action shows that it is kept; the refinement then has one case for each
action of `TestRuns`.

`SenderWorkerProofs`, for any set of workers and any configurations of batch size,
depth and slots: all four invariants of the run `workers`, and `LedgerUsed`. None of
the four is inductive, since what a worker may do next depends on who else holds
its batches. `Inv` has three parts. `Base` says of each batch what its stage
promises (`StageOK`: the bytes sent are those signed for its nonces, which is
`RightBytes`) and that an answer "used" is backed by the endpoint
(`AnswersSound`). `Waits` says who waits for a batch and that the permits out are
exactly the batches a goroutine awaits (`PermitCount`), from which the bound on
the batches in flight follows. `Hands` says that a nonce is at one place only, in
the worker's buffer or as an unsettled item of one batch (`OnePlace`), that it is
then taken in the ledger, and `NoLeak`. For the refinement every action is, for
each account, one step of `NonceLedger` or none (`AccountStep`).

`TxAccountingProofs`, second argument: `PendingNeverInflated`, that is `NoPendingLeak`.
`pendingCount` is compared with a set, `Owed`: the transactions that somebody will
still subtract (a worker that has yet to send or give up, a callback that will
report a failure, a watcher or the tracking of one that was accepted). Whoever
leaves `Owed` is subtracted in the same step, and whoever is added enters it
(`PendingCounts`), so the counter never exceeds the size of the set, and that is at
most the number of transactions that are still open.

`RateControlProofs`, for all requests with integer fields and any outcomes,
pressures and pendings: `TypeCorrect`; `RateWithinAlways`, with lemmas that a rounded ramp
stays between its ends (`DivBetween`, `RampBetween`), and `CircuitCeilingAlways`
from the invariant that the controller works in adaptive runs only
(`Controlled`) and keeps a positive ceiling (`UnderCeiling`).

`BlockMetricsProofs`, for chains of any length: `TypeCorrect`, `EachPathOnceAlways` and
`TotalsWithinRangeAlways`. What the streams recorded is behind the cursor they
share (`StreamsBehind`), what the fallback fetched behind its own
(`FetchedBehind`), and both cursors only grow. `InRange`: once both ends of a run are
recorded, no block outside them is counted or under way, because nothing before
the recorded start was admitted and nothing is admitted after the end.

`ObservationProofs` carries these over to `PartSpec` through an instance of
`BlockMetricsProofs`, and adds:

* `PaceKeptAlways`, for any number of waiters, any rates and any order of waits,
  wakes, cancels and rate changes. The invariant `PaceOf` relates `nextPermit` to the
  sum of the intervals of those asleep, a sum over a set that grows and shrinks; it
  is carried as a function `g` on sets of waiters with `g[T \cup {w}] = g[T] +
  took[w]` (`IsSum`), so that a step can add, drop or change one waiter without
  summing anew. Whichever sleepers will have been granted theirs by some time, there
  are not too many of them (`NotTooMany`), and what is reserved beyond that time is
  what the others took (`NotTooFar`).
* `HashOnceAlways`, for any chain and any limit of the lists: a confirmed hash is in
  the list, in one drainer's hands, or processed, and only one of them, once
  (`OnePlace`).
* `VerdictExactAlways`, for any chain, sampling and number of snapshots. A block's
  senders can be put in the order of their first transactions in one way only
  (`SenderOrderIs`: positions can be enumerated, and an injection between sets of the
  same size is onto), along which neighbours in order put any two in order
  (`NeighboursSuffice`); the first pair in the wrong order is among the ten
  violations that are kept (`FaultsAreFound`). `VerdictInv` adds that what the
  snapshots looked at is on the chain and was confirmed.
* `TypesOKAlways`, the types of all four parts.

`ServicesProofs`, from `ServicesAssumption`:

* `ReadsAddUpAlways`, for any number of read workers. Between its counters a worker
  can be caught anywhere, so no sum is an invariant; what a counter lacks is in the
  workers' hands. `PerMethod` and `InTotal` say for each method and in total how
  many workers stand between which two counters, counted as cardinalities of sets
  of workers; where the wait saw all of them leave, the sets are empty. `RowKept`
  says that the row is what the counters were when it was written.
* `RangesWithinAlways`, for every request `Validate` lets through, with any integers in its
  fields: `Ranged` from lemmas on `blockTag`, `logRange` and `archiveOldestBlock`,
  among them the selection that `Validate` does not know.
* `AnswersAreOwnAlways`, for any calls, numbers of items, retries and late requests.
  Whatever is on the wire, in the reply or in the results at an item's place is an
  answer to that item, or the mark that there was none (`ReplyOwn`, `ResultsOwn`),
  and an answer that says the node has a transaction is true (`Grounded`).
* `ConfirmedMeansFundedAlways`, for any numbers of faucets, accounts and runs and any
  order of sends, answers, late sends and strangers' transactions. `Lists` and
  `Enough` say that the lists a run is put together from name no account twice and
  are as long as it needs. `Rounds` says what the nonces of a faucet since the start
  of its round are, unless an older transaction sits among them: no two of them pay
  the same account (`PaidOnce`), also counting the sends that are still on their way
  (`LateOnce`), and what the chain has taken is paid (`PaidIsRich`). A confirmed
  count means as many payments as the share has accounts; as none is paid twice,
  each is (`EachIsPaid`, by the pigeonhole principle).
* `UsableAlways`, for any lists of contracts and any number of runs, restarts and new
  chains. `Usable` is about the end of a path through memory, cache and chain, so
  `DeployInv` says for each of them what its claims rest on: `BaseOK` and `UniOK` for
  the addresses in memory, `RowsOK` for the rows saved on this chain (`NewRows`),
  `ChainOK` for the pool, `WayOK` for which of them each stage of
  `ensureContractsDeployed` relies on. A deployment that began with nothing taken at
  or above its first nonce has nothing beyond its own transactions (`AheadOK`);
  therefore what it takes for already deployed cannot be a stranger's, each nonce it
  is given is the next address it expects or a former failure's below it, and each
  address it keeps is its step's contract (`GotOK`, `PoolOK`, `SentOK`). Code, once it
  is there, stays (`Grows`, `CodeStays`).
* `TypesOKAlways`, the types of all four parts.

**Model-checked only.** Liveness (`Progress`, `Terminates`, `NeverWedged`,
`LandedIsCounted`, `Ends`), which rests on fairness and so on `ENABLED`, is out of
the prover's reach. `SwappersReady` and the other properties of the violation runs
are false. Induction on a set or a number is no obstacle as such: least elements come
from `WFMin` and `NatLessThanWellFounded` (`WellFoundedInduction`), as in `Least` of
`ServicesProofs` and `AllNumbers` of `ObservationProofs`; only the library's induction
theorems, which take an operator, are.

## Not modelled, and what could follow

Within reach, in the order of what they would add:

1. `TxTracker`: the map and its ring, eviction, and an overwritten slot that
   names a hash stored again.
2. `TestLifecycle` joined with accounts: late callbacks of one run reaching the
   built-in accounts of the next.
3. A second run in `Verification`, with the verifier it inherits.
4. The broadcast hub of the WebSocket API, reconnection of block and transaction
   streams, and `nobatch_client.go`.

Out of scope: transaction encoding, contract bytecode and amounts, SQL text and
migrations, latency sampling and Prometheus, configuration parsing, the MCP
adapter: stateless, or state nothing else depends on; and `noncehealer` and
`pipeline`, which no production code imports.
