---------------------------- MODULE Observation ----------------------------
(* Four components that share no state: the rate a run asks for              *)
(* (RateControl) and the limiter that grants it (RateLimiter), what is       *)
(* recorded of its blocks (BlockMetrics) and what is verified at its end     *)
(* (Verification).  Each behaviour is one of one part; in the others         *)
(* RateControl stays as it begins and the rest is nothing.                   *)
EXTENDS RateControl, FiniteSets, Sequences

CONSTANTS
  Waiters, Rates, Second, Horizon, Backlog, MaxPermits,                   \* RateLimiter
  Layers, MaxBlock, Start0, TpsValues, MaxFetch,                          \* BlockMetrics
  Chains, Orderings, Cap, SampleMax, EveryNth, FullSample, Polled         \* Verification

(* The goroutines that wait are finitely many and no rate is negative; the   *)
(* chain is there before the run; a list of recent hashes has room for one;  *)
(* a block is a sequence of transactions, no tip or price is negative.       *)
ASSUME ObservationAssumption ==
  /\ IsFiniteSet(Waiters) /\ Rates \subseteq Nat /\ Rates # {}
  /\ {Second, Horizon, Backlog, MaxPermits} \subseteq Nat
  /\ MaxBlock \in Nat /\ Start0 \in 0..MaxBlock /\ MaxFetch \in Nat
  /\ Cap \in Nat \ {0}
  /\ \A c \in Chains : \A b \in DOMAIN c :
       LET txs == {c[b][i] : i \in DOMAIN c[b]} IN
         /\ c[b] \in Seq(txs)
         /\ \A t \in txs : t.tip \in Nat /\ t.price \in Nat /\ t.ok \in BOOLEAN

VARIABLES
  part,
  now, nextPermit, interval, permit, tookInterval, granted, fastest, slowest, uneven,
  streams, head, status, ctxDone, delivered, lastRec, firstNum, lastNum, rpcLast, testStart,
  testEnd, timed, slice, totals, charted, fetched, fetching, peak, onChain,
  chain, ordering, live, deposit, header, confirmed, recentB, recentH, gone, at, drained,
  snapshots, phase, result

limiterVars == <<now, nextPermit, interval, permit, tookInterval, granted, fastest, slowest, uneven>>
blockVars   == <<streams, head, status, ctxDone, delivered, lastRec, firstNum, lastNum, rpcLast,
                 testStart, testEnd, timed, slice, totals, charted, fetched, fetching, peak, onChain>>
verifyVars  == <<chain, ordering, live, deposit, header, confirmed, recentB, recentH, gone, at,
                 drained, snapshots, phase, result>>

-----------------------------------------------------------------------------
Limiter == INSTANCE RateLimiter WITH taken <- tookInterval

Metrics == INSTANCE BlockMetrics

Verifier == INSTANCE Verification WITH taken <- drained, Interval <- EveryNth

-----------------------------------------------------------------------------
NoLimiter ==
  /\ now = 0 /\ nextPermit = 0 /\ interval = 0 /\ permit = 0 /\ tookInterval = 0
  /\ granted = 0 /\ fastest = 0 /\ slowest = 0 /\ uneven = 0
NoBlocks ==
  /\ streams = 0 /\ head = 0 /\ status = 0 /\ ctxDone = 0 /\ delivered = 0 /\ lastRec = 0
  /\ firstNum = 0 /\ lastNum = 0 /\ rpcLast = 0 /\ testStart = 0 /\ testEnd = 0
  /\ timed = 0 /\ slice = 0 /\ totals = 0 /\ charted = 0 /\ fetched = 0 /\ fetching = 0
  /\ peak = 0 /\ onChain = 0
NoVerification ==
  /\ chain = 0 /\ ordering = 0 /\ live = 0 /\ deposit = 0 /\ header = 0 /\ confirmed = 0
  /\ recentB = 0 /\ recentH = 0 /\ gone = 0 /\ at = 0 /\ drained = 0 /\ snapshots = 0
  /\ phase = 0 /\ result = 0

PartInit ==
  \/ /\ part = "rate" /\ Init
     /\ NoLimiter /\ NoBlocks /\ NoVerification
  \/ /\ part = "limiter" /\ Limiter!Init
     /\ Init /\ NoBlocks /\ NoVerification
  \/ /\ part = "blocks" /\ Metrics!Init
     /\ Init /\ NoLimiter /\ NoVerification
  \/ /\ part = "verify" /\ Verifier!Init
     /\ Init /\ NoLimiter /\ NoBlocks

PartNext ==
  /\ UNCHANGED part
  /\ \/ part = "rate" /\ Next /\ UNCHANGED <<limiterVars, blockVars, verifyVars>>
     \/ part = "limiter" /\ Limiter!Next /\ UNCHANGED <<vars, blockVars, verifyVars>>
     \/ part = "blocks" /\ Metrics!Next /\ UNCHANGED <<vars, limiterVars, verifyVars>>
     \/ part = "verify" /\ Verifier!Next /\ UNCHANGED <<vars, limiterVars, blockVars>>

PartSpec == PartInit /\ [][PartNext]_<<part, vars, limiterVars, blockVars, verifyVars>>
-----------------------------------------------------------------------------
(* The properties of the parts; those of RateControl are its own. *)

(* Each part's variables keep their types: counters of what was asked,       *)
(* granted and recorded stay in their ranges whatever is interleaved.        *)
TypesOK ==
  /\ TypeOK
  /\ part = "limiter" => Limiter!TypeOK
  /\ part = "blocks" => Metrics!TypeOK
  /\ part = "verify" => Verifier!TypeOK

(* Cancelled waits and rate changes let no more through than the fastest     *)
(* rate allows.                                                              *)
PaceKept == part = "limiter" => Limiter!PaceKept

(* No stream puts a block another one has recorded into the time series.     *)
EachPathOnce == part = "blocks" => Metrics!EachPathOnce

(* Events that arrive after the end of the run stay out of its totals.       *)
TotalsWithinRange == part = "blocks" => Metrics!TotalsWithinRange

(* A confirmed hash is listed, drained or cut off, and never twice.          *)
HashOnce == part = "verify" => Verifier!HashOnce

(* The verdict of a run says what was sampled, whichever way it was made.    *)
VerdictExact == part = "verify" => Verifier!VerdictExact
=============================================================================
