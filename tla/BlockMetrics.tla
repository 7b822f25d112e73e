---------------------------- MODULE BlockMetrics ----------------------------
(* What the generator says of the blocks of a run.  Three streams deliver    *)
(* blocks: the builder's block metrics WebSocket, the node's newHeads (both  *)
(* in internal/loadgen/websocket.go) and the chain poller (chainpoller.go);  *)
(* a period of the time series that saw none asks the node itself            *)
(* (getBlockMetricsViaRPC).  stopTest records the end block, and             *)
(* calculateOnChainMetrics counts the blocks between start and end.          *)
(*                                                                           *)
(* A block is its number.  Of gas, transactions and times the model keeps    *)
(* how often each block went into the totals and into the time series.       *)
EXTENDS Integers

CONSTANTS
  Layers,    \* names of execution layers
  MaxBlock,  \* bound on the chain's length
  Start0,    \* the head at the start of the run
  TpsValues, \* transactions per second the streams' window may show
  MaxFetch   \* blocks fetched per period without a stream (10 in the code)

Blocks  == 1..MaxBlock
Streams == {"builder", "heads", "poller"}

VARIABLES
  streams,   \* the streams this run has
  head,      \* the chain's head
  status,    \* LoadGenerator.status: "running" or "verifying"
  ctxDone,   \* lg.ctx cancelled
  delivered, \* per stream, the last block it delivered (the poller: nextBlock - 1)
  lastRec,   \* lastRecordedBlock
  firstNum,  \* firstBlockNumber
  lastNum,   \* lastBlockNumber
  rpcLast,   \* rpcLastBlockNumber
  testStart, \* testStartBlockNumber
  testEnd,   \* testEndBlockNumber
  timed,     \* lastBlockTime is set
  slice,     \* blockMetrics: the points of the current period
  totals,    \* per block, how often cumulativeGasUsed has it
  charted,   \* per block, how often a stream put it into the time series
  fetched,   \* per block, how often the RPC fallback put it there
  fetching,  \* the blocks a period asks the node for
  peak,      \* LoadGenerator.peakRate
  onChain    \* the blocks calculateOnChainMetrics counted

vars == <<streams, head, status, ctxDone, delivered, lastRec, firstNum, lastNum, rpcLast,
          testStart, testEnd, timed, slice, totals, charted, fetched, fetching, peak, onChain>>

run    == <<streams, status, ctxDone, testStart, testEnd, peak, onChain>>
counts == <<totals, charted, fetched>>

Once(f, S) == [b \in DOMAIN f |-> IF b \in S THEN f[b] + 1 ELSE f[b]]
Higher(a, b) == IF a >= b THEN a ELSE b

(* Cursors stay within the chain, counts are natural numbers.                *)
TypeOK ==
  /\ head \in Start0..MaxBlock
  /\ status \in {"running", "verifying"} /\ ctxDone \in BOOLEAN
  /\ streams \subseteq Streams
  /\ delivered \in [Streams -> 0..MaxBlock]
  /\ {lastRec, firstNum, lastNum, rpcLast, testStart, testEnd} \subseteq 0..MaxBlock
  /\ timed \in BOOLEAN
  /\ slice \subseteq Blocks /\ fetching \subseteq Blocks /\ onChain \subseteq Blocks
  /\ peak \in TpsValues \cup {0}
  /\ \A f \in {totals, charted, fetched} : f \in [Blocks -> Nat]

(* execnode.DefaultRegistry: the layers with an external block builder have  *)
(* its preconfirmations and its block metrics, the standalone ones neither   *)
HasBuilderStreams(layer) == layer \in {"op-reth", "reth"}

(* runInitialization: which goroutines it starts, the builder's socket being *)
(* configured or not and the node's newHeads being reachable or not          *)
StreamsOf(layer, socket, heads) ==
  (IF HasBuilderStreams(layer) /\ socket THEN {"builder"} ELSE {"poller"})
    \cup (IF heads THEN {"heads"} ELSE {})

(* runInitialization: everything is cleared, the start block is asked for   *)
(* (the node may not answer), the streams are connected.                    *)
Init ==
  /\ \E layer \in Layers, socket, heads \in BOOLEAN : streams = StreamsOf(layer, socket, heads)
  /\ head = Start0
  /\ status = "running" /\ ctxDone = FALSE
  /\ testStart \in {0, Start0}
  /\ delivered = [s \in Streams |-> IF s = "poller" THEN testStart ELSE Start0]
  /\ lastRec = 0 /\ firstNum = 0 /\ lastNum = 0 /\ rpcLast = 0
  /\ testEnd = 0 /\ timed = FALSE
  /\ slice = {} /\ fetching = {} /\ onChain = {} /\ peak = 0
  /\ totals = [b \in Blocks |-> 0] /\ charted = totals /\ fetched = totals

Mine ==
  /\ head < MaxBlock
  /\ head' = head + 1
  /\ UNCHANGED <<run, delivered, lastRec, firstNum, lastNum, rpcLast, timed,
                 slice, counts, fetching>>

-----------------------------------------------------------------------------
(* The streams.  A stream delivers rising numbers and may miss some. *)

Arrives(s, n) ==
  /\ s \in streams
  /\ n \in (delivered[s] + 1)..head
  /\ delivered' = [delivered EXCEPT ![s] = n]

(* Mutant: a block another stream recorded is recorded again. *)
RecordDetailed_Again(n) ==
  /\ totals' = Once(totals, {n})
  /\ lastNum' = n /\ lastRec' = n /\ rpcLast' = Higher(rpcLast, n)
  /\ slice' = IF timed THEN slice \cup {n} ELSE slice
  /\ timed' = TRUE

(* The part processBuilderBlockMetrics and recordPolledBlockMetrics share: a *)
(* new block goes into the totals and moves every cursor; the first one has  *)
(* no block time yet and is left out of the period                           *)
RecordDetailed(n) ==
  IF n <= lastRec
  THEN UNCHANGED <<lastRec, lastNum, rpcLast, timed, slice, totals>>
  ELSE /\ totals' = Once(totals, {n})
       /\ lastNum' = n /\ lastRec' = n
       /\ rpcLast' = Higher(rpcLast, n)
       /\ slice' = IF timed THEN slice \cup {n} ELSE slice
       /\ timed' = TRUE

FirstSeen(n) == IF firstNum = 0 THEN n ELSE firstNum

(* Mutant: also what comes after the end of the run. *)
BuilderEvent_Late(n) ==
  /\ Arrives("builder", n)
  /\ firstNum' = FirstSeen(n)
  /\ RecordDetailed(n)
  /\ UNCHANGED <<head, run, charted, fetched, fetching>>

(* processBuilderBlockMetrics: only while running and up to the end block *)
BuilderEvent(n) ==
  /\ Arrives("builder", n)
  /\ IF status # "running" \/ (testEnd > 0 /\ n > testEnd)
     THEN UNCHANGED <<firstNum, lastRec, lastNum, rpcLast, timed, slice, totals>>
     ELSE /\ firstNum' = FirstSeen(n)
          /\ RecordDetailed(n)
  /\ UNCHANGED <<head, run, charted, fetched, fetching>>

(* processNewHead: no test of the status or of the end block; the period    *)
(* gets the block, the totals and the RPC cursor do not                     *)
NewHead(n) ==
  /\ Arrives("heads", n)
  /\ firstNum' = FirstSeen(n)
  /\ IF n > lastRec THEN slice' = slice \cup {n} /\ lastRec' = n
                    ELSE UNCHANGED <<slice, lastRec>>
  /\ timed' = TRUE /\ lastNum' = n
  /\ UNCHANGED <<head, run, rpcLast, counts, fetching>>

(* connectChainPoller: one block after the other up to the head, each with  *)
(* recordPolledBlockMetrics; a node that does not have it is not asked again *)
PollBlock(has) ==
  /\ ~ctxDone
  /\ LET n == delivered["poller"] + 1 IN
       /\ Arrives("poller", n)
       /\ IF has
          THEN /\ firstNum' = IF n > lastRec THEN FirstSeen(n) ELSE firstNum
               /\ RecordDetailed(n)
          ELSE UNCHANGED <<firstNum, lastRec, lastNum, rpcLast, timed, slice, totals>>
  /\ UNCHANGED <<head, run, charted, fetched, fetching>>

-----------------------------------------------------------------------------
(* getBlockMetricsForPeriod, every 200 ms *)

PeriodFromStreams ==
  /\ ~ctxDone /\ fetching = {}
  /\ slice # {}
  /\ charted' = Once(charted, slice)
  /\ slice' = {}
  /\ UNCHANGED <<head, run, delivered, lastRec, firstNum, lastNum, rpcLast, timed,
                 totals, fetched, fetching>>

(* No stream delivered: getBlockMetricsViaRPC moves its cursor to the head   *)
(* under the lock and fetches outside of it; the first call only sets it     *)
ToFetch(last) ==
  IF last = 0 THEN {} ELSE Higher(last + 1, head - MaxFetch + 1)..head

PeriodByRpc ==
  /\ ~ctxDone /\ fetching = {}
  /\ slice = {}
  /\ rpcLast # head
  /\ fetching' = ToFetch(rpcLast)
  /\ rpcLast' = head
  /\ UNCHANGED <<head, run, delivered, lastRec, firstNum, lastNum, timed, slice, counts>>

(* The blocks it got: each failing request leaves one out *)
RpcFetched(got) ==
  /\ fetching # {} /\ got \subseteq fetching
  /\ fetched' = Once(fetched, got)
  /\ totals' = Once(totals, got)
  /\ fetching' = {}
  /\ UNCHANGED <<head, run, delivered, lastRec, firstNum, lastNum, rpcLast, timed,
                 slice, charted>>

-----------------------------------------------------------------------------
(* The highest rate of the run *)

(* calculateRollingTxPerSec, for whoever asks for metrics: raises the peak  *)
RollingTps(tps) ==
  /\ ~ctxDone
  /\ tps > peak /\ peak' = tps
  /\ UNCHANGED <<streams, head, status, ctxDone, testStart, testEnd, onChain, delivered, lastRec,
                 firstNum, lastNum, rpcLast, timed, slice, counts, fetching>>

(* tpsCalculator's tick: after it has rolled the window, a compare-and-swap *)
(* with what it just loaded stores the current value whatever the peak is - *)
(* unless someone raises the peak between the load and the swap - and the   *)
(* loop after it raises the peak to the current value                       *)
TpsTick(tps, swapped) ==
  /\ ~ctxDone
  /\ peak' = IF swapped THEN tps ELSE Higher(peak, tps)
  /\ UNCHANGED <<streams, head, status, ctxDone, testStart, testEnd, onChain, delivered, lastRec,
                 firstNum, lastNum, rpcLast, timed, slice, counts, fetching>>

-----------------------------------------------------------------------------
(* stopTest: the context, then the end block, then verification *)

CancelRun ==
  /\ ~ctxDone
  /\ ctxDone' = TRUE
  /\ UNCHANGED <<streams, head, status, testStart, testEnd, peak, onChain, delivered, lastRec,
                 firstNum, lastNum, rpcLast, timed, slice, counts, fetching>>

RecordEnd(answered) ==
  /\ ctxDone /\ testEnd = 0 /\ status = "running"
  /\ testEnd' = IF answered THEN head ELSE 0
  /\ status' = IF answered THEN status ELSE "verifying"
  /\ UNCHANGED <<streams, head, ctxDone, testStart, peak, onChain, delivered, lastRec, firstNum,
                 lastNum, rpcLast, timed, slice, counts, fetching>>

(* calculateOnChainMetrics: the recorded start and end where there are any, *)
(* else what the streams saw, else the head                                 *)
RangeFirst == IF testStart > 0 THEN testStart ELSE firstNum
RangeLast  == CASE testEnd > 0               -> testEnd
                [] testEnd = 0 /\ lastNum > 0 -> lastNum
                [] OTHER                     -> head
Counted == IF RangeFirst = 0 \/ RangeLast = 0 THEN {} ELSE RangeFirst..RangeLast

Verify ==
  /\ ctxDone /\ onChain = {}
  /\ testEnd > 0 \/ status = "verifying"
  /\ Counted # {}
  /\ status' = "verifying"
  /\ onChain' = Counted
  /\ UNCHANGED <<streams, head, ctxDone, testStart, testEnd, peak, delivered, lastRec, firstNum,
                 lastNum, rpcLast, timed, slice, counts, fetching>>

Next ==
  \/ Mine
  \/ \E n \in Blocks : BuilderEvent(n)
  \/ \E n \in Blocks : NewHead(n)
  \/ \E has \in BOOLEAN : PollBlock(has)
  \/ PeriodFromStreams
  \/ PeriodByRpc
  \/ \E got \in SUBSET fetching : RpcFetched(got)
  \/ \E tps \in TpsValues : RollingTps(tps)
  \/ \E tps \in TpsValues, swapped \in BOOLEAN : TpsTick(tps, swapped)
  \/ CancelRun
  \/ \E answered \in BOOLEAN : RecordEnd(answered)
  \/ Verify

Spec == Init /\ [][Next]_vars

-----------------------------------------------------------------------------
(* Properties *)

(* Three streams and the RPC fallback report the same blocks, each in its    *)
(* own time: the time series gets a block at most once from the streams      *)
(* together and at most once from the fallback, and so do the totals.        *)
EachPathOnce ==
  \A b \in Blocks :
    /\ charted[b] + (IF b \in slice THEN 1 ELSE 0) <= 1
    /\ fetched[b] + (IF b \in fetching THEN 1 ELSE 0) <= 1
    /\ totals[b] <= fetched[b] + 1

(* Late events of the streams race with stopTest: when both ends of the run  *)
(* were recorded, no block outside the range calculateOnChainMetrics counts  *)
(* is in the totals.                                                         *)
TotalsWithinRange ==
  (testStart > 0 /\ onChain # {}) =>
    \A b \in Blocks : totals[b] > 0 /\ testEnd > 0 => b \in onChain
=============================================================================
