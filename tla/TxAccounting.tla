---------------------------- MODULE TxAccounting ----------------------------
(***************************************************************************)
(* What a run counts: the send tracking and the counters of the metrics    *)
(* collector (metrics/collector.go), pendingCount, and the transaction log *)
(* (loadgen/persistence.go), written by the workers that record a send,    *)
(* the callbacks that learn its outcome (loadgen/workers.go), the watcher  *)
(* that sees it confirmed (loadgen/chainpoller.go, or the reader of        *)
(* loadgen/websocket.go), and the end of the run (loadgen/loadgen.go).     *)
(*                                                                         *)
(* A transaction stands for its hash.  A nonce given back is signed into a *)
(* transaction again, and with a fixed tip into the very same one, so one  *)
(* hash may be sent several times.  The counters of the program are the    *)
(* sums of txSent, txConfirmed and txFailed over the transactions.  The    *)
(* eviction of the tracker beyond its hundred thousand entries and the     *)
(* stages that only feed statistics are left out.                          *)
(***************************************************************************)
EXTENDS Integers, FiniteSets

CONSTANTS
  Txs,       \* transactions, by hash
  Nonces,    \* nonces of the accounts
  NonceMaps, \* the ways the transactions may be signed with them
  Watchers,  \* goroutines that can watch the chain
  MaxSends   \* bound: recorded sends of each transaction

ASSUME Constants ==
  /\ IsFiniteSet(Txs)
  /\ NonceMaps \subseteq [Txs -> Nonces]
  /\ MaxSends \in [Txs -> Nat]
  /\ Watchers # {}

VARIABLES
  config,       \* what is fixed for the run, see Configs
  phase,        \* where the run stands, see Phases
  forced,       \* forceStop
  endKnown,     \* testEndBlockNumber has been recorded
  chain,        \* external: what became of each transaction
  net,          \* transactions of which a request may reach the node
  reply,        \* the node's answer, on its way to the callback
  nonce,        \* "free" to reserve, "held" by a transaction, or "spent"
  sub,          \* where the worker or the callback of each one stands
  tracked,      \* txTracker.times
  txSent, txConfirmed, txFailed,
  pendingCount,
  log,          \* pendingTxs: the status of each entry
  reading,      \* the WebSocket reader has not returned
  seen,         \* transactions each watcher has passed
  gated,        \* what a poller found tracked and has not recorded yet
  settling,     \* what a watcher recorded and has not settled yet
  lookup,       \* receipts still to look up
  tooLow        \* auxiliary: transactions given up as "nonce too low"

node == <<chain, net, reply>>
metrics == <<tracked, txSent, txConfirmed, txFailed, pendingCount>>
watch == <<reading, seen, gated, settling>>
vars == <<config, phase, forced, endKnown, node, nonce, sub, metrics, log,
          watch, lookup, tooLow>>

Phases == {"running", "stopping", "grace", "resolving", "saved"}

(* "late": in a block after the run's last one; "dropped": out of the      *)
(* pool, with the notice of it not delivered yet.                          *)
Landed == {"mined", "reverted", "late"}
ChainStates == {"absent", "pool", "dropped"} \cup Landed

(* source: where confirmations come from, pollers or the WebSocket;        *)
(* lagging: nodes behind the endpoint may not have the head's blocks;      *)
(* logging: txLoggingEnabled; nonceOf: the nonce of each transaction.      *)
Configs ==
  {c \in [source : {"poller", "ws"}, lagging : BOOLEAN, logging : BOOLEAN,
          nonceOf : NonceMaps] : c.lagging => c.source = "poller"}

NonceOf(h) == config.nonceOf[h]

Init ==
  /\ config \in Configs
  /\ phase = "running"
  /\ forced = FALSE
  /\ endKnown = FALSE
  /\ chain = [h \in Txs |-> "absent"]
  /\ net = {}
  /\ reply = [h \in Txs |-> "none"]
  /\ nonce = [n \in Nonces |-> "free"]
  /\ sub = [h \in Txs |-> "idle"]
  /\ tracked = {}
  /\ txSent = [h \in Txs |-> 0]
  /\ txConfirmed = [h \in Txs |-> 0]
  /\ txFailed = [h \in Txs |-> 0]
  /\ pendingCount = 0
  /\ log = [h \in Txs |-> "none"]
  /\ reading = (config.source = "ws")
  /\ seen = [w \in Watchers |-> {}]
  /\ gated = [w \in Watchers |-> {}]
  /\ settling = [w \in Watchers |-> {}]
  /\ lookup = {}
  /\ tooLow = {}

Bump(counter, h) == [counter EXCEPT ![h] = @ + 1]

(* Mutant: subtract without the floor.                                     *)
SubSaturating_Below == pendingCount - 1

(* AtomicSubSaturating(&pendingCount, 1).                                  *)
SubSaturating == IF pendingCount = 0 THEN 0 ELSE pendingCount - 1

(* Mutant: the counter does not depend on what GetAndDelete found.         *)
RecordTxConfirmed_Always(h) ==
  /\ tracked' = tracked \ {h}
  /\ txConfirmed' = Bump(txConfirmed, h)

(* RecordTxConfirmed: GetAndDelete decides, under the tracker's lock, who  *)
(* counts the transaction.                                                 *)
RecordTxConfirmed(h) ==
  /\ tracked' = tracked \ {h}
  /\ txConfirmed' = IF h \in tracked THEN Bump(txConfirmed, h) ELSE txConfirmed

(* recordTxConfirmed: an entry there is becomes "confirmed".               *)
LogConfirmed(h) ==
  log' = [log EXCEPT ![h] = IF @ = "none" THEN @ ELSE "confirmed"]

SetNonce(h, status) == nonce' = [nonce EXCEPT ![NonceOf(h)] = status]
SetSub(h, stage) == sub' = [sub EXCEPT ![h] = stage]

-----------------------------------------------------------------------------
(* The worker.                                                             *)

(* RecordTxSent and IncTxSent of a transaction just signed.                *)
Track(h) ==
  /\ phase = "running"
  /\ sub[h] = "idle"
  /\ nonce[NonceOf(h)] = "free"
  /\ txSent[h] < MaxSends[h]
  /\ SetNonce(h, "held")
  /\ SetSub(h, "recording")
  /\ tracked' = tracked \cup {h}
  /\ txSent' = Bump(txSent, h)
  /\ UNCHANGED <<config, phase, forced, endKnown, node, txConfirmed, txFailed,
                 pendingCount, log, watch, lookup, tooLow>>

(* pendingCount and recordTxSent, which stores a fresh entry.              *)
Enlist(h) ==
  /\ sub[h] = "recording"
  /\ SetSub(h, "built")
  /\ pendingCount' = pendingCount + 1
  /\ log' = IF config.logging THEN [log EXCEPT ![h] = "pending"] ELSE log
  /\ UNCHANGED <<config, phase, forced, endKnown, node, nonce, tracked,
                 txSent, txConfirmed, txFailed, watch, lookup, tooLow>>

(* SendBatchAsync takes the batch.                                         *)
Queue(h) ==
  /\ sub[h] = "built"
  /\ SetSub(h, "flying")
  /\ net' = net \cup {h}
  /\ reply' = [reply EXCEPT ![h] = "none"]
  /\ UNCHANGED <<config, phase, forced, endKnown, chain, nonce, metrics, log,
                 watch, lookup, tooLow>>

(* Mutant: only the nonce is given back.                                   *)
Refuse_StaysPending(h) ==
  /\ sub[h] = "built"
  /\ SetSub(h, "idle")
  /\ SetNonce(h, "free")
  /\ UNCHANGED <<config, phase, forced, endKnown, node, metrics, log, watch,
                 lookup, tooLow>>

(* The sender is at capacity: nonce and pendingCount are given back.       *)
Refuse(h) ==
  /\ sub[h] = "built"
  /\ SetSub(h, "idle")
  /\ SetNonce(h, "free")
  /\ pendingCount' = SubSaturating
  /\ UNCHANGED <<config, phase, forced, endKnown, node, tracked, txSent,
                 txConfirmed, txFailed, log, watch, lookup, tooLow>>

(* Cancelled while it waits for the rate limiter, the worker returns with  *)
(* what it had already recorded for the batch.                             *)
Abandon(h) ==
  /\ sub[h] = "built"
  /\ phase # "running"
  /\ SetSub(h, "abandoned")
  /\ UNCHANGED <<config, phase, forced, endKnown, node, nonce, metrics, log,
                 watch, lookup, tooLow>>

-----------------------------------------------------------------------------
(* The node (external).  The client repeats a request that got 429 or 5xx, *)
(* and a request may arrive after its answer was given up: the node may    *)
(* process any request again, the last answer is the one that counts.      *)

Consumed(n) == \E g \in Txs : NonceOf(g) = n /\ chain[g] \in Landed

Answers(h, r) ==
  reply' = IF sub[h] = "flying" THEN [reply EXCEPT ![h] = r] ELSE reply

Process(h) ==
  /\ h \in net
  /\ \/ /\ Consumed(NonceOf(h))
        /\ Answers(h, "too_low")
        /\ UNCHANGED chain
     \/ /\ chain[h] = "pool"
        /\ Answers(h, "known")
        /\ UNCHANGED chain
     \/ /\ ~ Consumed(NonceOf(h))
        /\ \A g \in Txs : NonceOf(g) = NonceOf(h) => chain[g] # "pool"
        /\ Answers(h, "ok")
        /\ chain' = [chain EXCEPT ![h] = "pool"]
  /\ UNCHANGED <<config, phase, forced, endKnown, net, nonce, sub, metrics,
                 log, watch, lookup, tooLow>>

Mine(h) ==
  /\ chain[h] = "pool"
  /\ \E s \in Landed :
       /\ (s = "late") = (phase \notin {"running", "stopping"})
       /\ chain' = [chain EXCEPT ![h] = s]
  /\ UNCHANGED <<config, phase, forced, endKnown, net, reply, nonce, sub,
                 metrics, log, watch, lookup, tooLow>>

(* Only a stream can tell of it, and may lose the notice.                  *)
Drop(h) ==
  /\ chain[h] = "pool"
  /\ \E s \in {"absent", "dropped"} :
       /\ s = "dropped" => config.source = "ws"
       /\ chain' = [chain EXCEPT ![h] = s]
  /\ UNCHANGED <<config, phase, forced, endKnown, net, reply, nonce, sub,
                 metrics, log, watch, lookup, tooLow>>

-----------------------------------------------------------------------------
(* The callback of a send, once.                                           *)

(* No error, or "already known".                                           *)
Accepted(h) ==
  /\ sub[h] = "flying"
  /\ reply[h] \in {"ok", "known"}
  /\ SetSub(h, "idle")
  /\ SetNonce(h, "spent")
  /\ UNCHANGED <<config, phase, forced, endKnown, node, metrics, log, watch,
                 lookup, tooLow>>

(* Mutant: it stays tracked. *)
TooLow_StaysTracked(h) ==
  /\ sub[h] = "flying"
  /\ reply[h] = "too_low"
  /\ SetSub(h, "idle")
  /\ SetNonce(h, "spent")
  /\ pendingCount' = SubSaturating
  /\ txFailed' = Bump(txFailed, h)
  /\ tooLow' = tooLow \cup {h}
  /\ UNCHANGED <<config, phase, forced, endKnown, node, tracked, txSent,
                 txConfirmed, log, watch, lookup>>

(* "nonce too low": committed, out of the tracking, and a failed send.     *)
TooLow(h) ==
  /\ sub[h] = "flying"
  /\ reply[h] = "too_low"
  /\ SetSub(h, "idle")
  /\ SetNonce(h, "spent")
  /\ pendingCount' = SubSaturating
  /\ tracked' = tracked \ {h}
  /\ txFailed' = Bump(txFailed, h)
  /\ tooLow' = tooLow \cup {h}
  /\ UNCHANGED <<config, phase, forced, endKnown, node, txSent, txConfirmed,
                 log, watch, lookup>>

(* Any other error, an answer that never came among them.                  *)
Failed(h) ==
  /\ sub[h] = "flying"
  /\ SetSub(h, "idle")
  /\ SetNonce(h, "free")
  /\ pendingCount' = SubSaturating
  /\ txFailed' = Bump(txFailed, h)
  /\ UNCHANGED <<config, phase, forced, endKnown, node, tracked, txSent,
                 txConfirmed, log, watch, lookup, tooLow>>

(* The request was cancelled by the end of the run.                        *)
Cancelled(h) ==
  /\ sub[h] = "flying"
  /\ phase # "running"
  /\ SetSub(h, "idle")
  /\ SetNonce(h, "free")
  /\ pendingCount' = SubSaturating
  /\ UNCHANGED <<config, phase, forced, endKnown, node, tracked, txSent,
                 txConfirmed, txFailed, log, watch, lookup, tooLow>>

-----------------------------------------------------------------------------
(* The watcher: the chain poller, or the reader of the preconfirmations.   *)

Idle(w) == gated[w] = {} /\ settling[w] = {}

(* A start that fails after the poller was launched leaves it behind, and  *)
(* it reads lg.ctx of the next run: there may be several pollers.  They    *)
(* fetch blocks while the run lasts; what is gated then is recorded later. *)
Polling(w) == config.source = "poller" /\ phase = "running" /\ Idle(w)

(* The WebSocket has one reader.                                           *)
Reading(w) == reading /\ w = (CHOOSE v \in Watchers : TRUE) /\ Idle(w)

(* Mutant: the poller also moves past a block it could not fetch.          *)
Gate_PastFailedBlock(w, h) ==
  /\ Polling(w)
  /\ chain[h] \in Landed /\ h \notin seen[w]
  /\ seen' = [seen EXCEPT ![w] = @ \cup {h}]
  /\ \/ gated' = [gated EXCEPT ![w] = {h} \cap tracked]
     \/ UNCHANGED gated
  /\ UNCHANGED <<config, phase, forced, endKnown, node, nonce, sub, metrics,
                 log, reading, settling, lookup, tooLow>>

(* The poller comes to h in a block of the run and looks it up.  A block   *)
(* it could not fetch is tried again: no step.                             *)
Gate(w, h) ==
  /\ Polling(w)
  /\ chain[h] \in Landed /\ h \notin seen[w]
  /\ seen' = [seen EXCEPT ![w] = @ \cup {h}]
  /\ gated' = [gated EXCEPT ![w] = {h} \cap tracked]
  /\ UNCHANGED <<config, phase, forced, endKnown, node, nonce, sub, metrics,
                 log, reading, settling, lookup, tooLow>>

(* A node behind the head answers null for the block: no error, and the    *)
(* poller moves on to the next block.                                      *)
SkipNullBlock(w, h) ==
  /\ Polling(w) /\ config.lagging
  /\ chain[h] \in Landed /\ h \notin seen[w]
  /\ seen' = [seen EXCEPT ![w] = @ \cup {h}]
  /\ UNCHANGED <<config, phase, forced, endKnown, node, nonce, sub, metrics,
                 log, reading, gated, settling, lookup, tooLow>>

(* It records what it found tracked; somebody may have been faster.        *)
Count(w) ==
  \E h \in gated[w] :
    /\ RecordTxConfirmed(h)
    /\ gated' = [gated EXCEPT ![w] = {}]
    /\ settling' = [settling EXCEPT ![w] = {h}]
    /\ UNCHANGED <<config, phase, forced, endKnown, node, nonce, sub, txSent,
                   txFailed, pendingCount, log, reading, seen, lookup, tooLow>>

(* pendingCount and recordTxConfirmed, whoever counted it.                 *)
Settle(w) ==
  \E h \in settling[w] :
    /\ pendingCount' = SubSaturating
    /\ LogConfirmed(h)
    /\ settling' = [settling EXCEPT ![w] = {}]
    /\ UNCHANGED <<config, phase, forced, endKnown, node, nonce, sub, tracked,
                   txSent, txConfirmed, txFailed, reading, seen, gated, lookup,
                   tooLow>>

(* A "confirmed" event: beyond the last block only the tracking forgets    *)
(* the transaction.  No look up first: Settle follows in any case.         *)
WsConfirmed(w, h) ==
  /\ Reading(w)
  /\ chain[h] \in Landed /\ h \notin seen[w]
  /\ IF chain[h] = "late" /\ endKnown
       THEN tracked' = tracked \ {h} /\ UNCHANGED txConfirmed
       ELSE RecordTxConfirmed(h)
  /\ seen' = [seen EXCEPT ![w] = @ \cup {h}]
  /\ settling' = [settling EXCEPT ![w] = {h}]
  /\ UNCHANGED <<config, phase, forced, endKnown, node, nonce, sub, txSent,
                 txFailed, pendingCount, log, reading, gated, lookup, tooLow>>

WsDropped(w, h) ==
  /\ Reading(w)
  /\ chain[h] = "dropped"
  /\ chain' = [chain EXCEPT ![h] = "absent"]
  /\ pendingCount' = SubSaturating
  /\ UNCHANGED <<config, phase, forced, endKnown, net, reply, nonce, sub,
                 tracked, txSent, txConfirmed, txFailed, log, watch, lookup,
                 tooLow>>

(* A gap in the sequence numbers: the event is lost.                       *)
WsGap(w, h) ==
  /\ Reading(w)
  /\ chain[h] \in Landed /\ h \notin seen[w]
  /\ seen' = [seen EXCEPT ![w] = @ \cup {h}]
  /\ UNCHANGED <<config, phase, forced, endKnown, node, nonce, sub, metrics,
                 log, reading, gated, settling, lookup, tooLow>>

(* The context is cancelled: the reader ends with the message in hand.     *)
Exit(w) ==
  /\ Reading(w)
  /\ phase # "running"
  /\ reading' = FALSE
  /\ UNCHANGED <<config, phase, forced, endKnown, node, nonce, sub, metrics,
                 log, seen, gated, settling, lookup, tooLow>>

-----------------------------------------------------------------------------
(* The end of the run: stopTest.                                           *)

Complete ==
  /\ phase = "running"
  /\ phase' = "stopping"
  /\ UNCHANGED <<config, forced, endKnown, node, nonce, sub, metrics, log,
                 watch, lookup, tooLow>>

(* StopTest, of a run or of the sequence already under way.                *)
ForceStop ==
  /\ phase # "saved" /\ ~ forced
  /\ forced' = TRUE
  /\ phase' = IF phase = "running" THEN "stopping" ELSE phase
  /\ UNCHANGED <<config, endKnown, node, nonce, sub, metrics, log, watch,
                 lookup, tooLow>>

(* The workers are gone; the end block is recorded if the node answers.    *)
RecordEnd ==
  /\ phase = "stopping"
  /\ \A h \in Txs : sub[h] \notin {"recording", "built"}
  /\ phase' = "grace"
  /\ endKnown' \in BOOLEAN
  /\ UNCHANGED <<config, forced, node, nonce, sub, metrics, log, watch,
                 lookup, tooLow>>

(* After the grace period, which changes nothing by itself,                *)
(* resolvePendingViaReceipts collects the entries still pending.           *)
StartResolve ==
  /\ phase = "grace"
  /\ phase' = "resolving"
  /\ lookup' = IF forced THEN {} ELSE {h \in Txs : log[h] = "pending"}
  /\ UNCHANGED <<config, forced, endKnown, node, nonce, sub, metrics, log,
                 watch, tooLow>>

(* One receipt: only a successful one counts; a lookup may fail, and a     *)
(* forced stop skips it.                                                   *)
Resolve(h) ==
  /\ h \in lookup
  /\ lookup' = lookup \ {h}
  /\ \/ /\ ~ forced
        /\ chain[h] \in {"mined", "late"}
        /\ RecordTxConfirmed(h)
        /\ LogConfirmed(h)
        /\ pendingCount' = SubSaturating
     \/ UNCHANGED <<tracked, txConfirmed, log, pendingCount>>
  /\ UNCHANGED <<config, phase, forced, endKnown, node, nonce, sub, txSent,
                 txFailed, watch, tooLow>>

(* finalizePendingTxs and saveTestResult.                                  *)
Finalize ==
  /\ phase = "resolving" /\ lookup = {}
  /\ phase' = "saved"
  /\ log' = [h \in Txs |->
               IF log[h] = "pending" THEN "discarded" ELSE log[h]]
  /\ UNCHANGED <<config, forced, endKnown, node, nonce, sub, metrics, watch,
                 lookup, tooLow>>

-----------------------------------------------------------------------------
Worker(h) == Track(h) \/ Enlist(h) \/ Queue(h) \/ Refuse(h) \/ Abandon(h)
Node(h) == Process(h) \/ Mine(h) \/ Drop(h)
Callback(h) == Accepted(h) \/ TooLow(h) \/ Failed(h) \/ Cancelled(h)
Poller(w) == Count(w) \/ Settle(w) \/ \E h \in Txs : Gate(w, h)
Watcher(w) ==
  \/ Poller(w) \/ Exit(w)
  \/ \E h \in Txs : \/ SkipNullBlock(w, h) \/ WsConfirmed(w, h)
                    \/ WsDropped(w, h) \/ WsGap(w, h)
Stop ==
  \/ Complete \/ ForceStop \/ RecordEnd \/ StartResolve \/ Finalize
  \/ \E h \in Txs : Resolve(h)

Next ==
  \/ \E h \in Txs : Worker(h) \/ Node(h) \/ Callback(h)
  \/ \E w \in Watchers : Watcher(w)
  \/ Stop

Spec == Init /\ [][Next]_vars

(* The poller ticks every 200 ms and tries a block again until it has it.  *)
FairSpec == Spec /\ \A w \in Watchers : WF_vars(Poller(w))

-----------------------------------------------------------------------------
(* Types; pendingCount, decremented from several goroutines, is never      *)
(* negative (AtomicSubSaturating).                                         *)
TypeOK ==
  /\ config \in Configs
  /\ phase \in Phases
  /\ {forced, endKnown} \subseteq BOOLEAN
  /\ chain \in [Txs -> ChainStates]
  /\ net \subseteq Txs
  /\ reply \in [Txs -> {"none", "ok", "known", "too_low"}]
  /\ nonce \in [Nonces -> {"free", "held", "spent"}]
  /\ sub \in [Txs -> {"idle", "recording", "built", "flying", "abandoned"}]
  /\ tracked \subseteq Txs
  /\ {txSent, txConfirmed, txFailed} \subseteq [Txs -> Nat]
  /\ pendingCount \in Nat
  /\ log \in [Txs -> {"none", "pending", "confirmed", "discarded"}]
  /\ reading \in BOOLEAN
  /\ {seen, gated, settling} \subseteq [Watchers -> SUBSET Txs]
  /\ lookup \subseteq Txs
  /\ tooLow \subseteq Txs

(* However many watchers, receipts and callbacks race for a transaction,   *)
(* it is not counted as confirmed (nor as failed) more often than sent.    *)
CountedPerSend ==
  \A h \in Txs : txConfirmed[h] <= txSent[h] /\ txFailed[h] <= txSent[h]

(* Transactions that may still be pending: with the worker or in flight,   *)
(* accepted and tracked, or recorded by a watcher that has not settled     *)
(* them.  One whose send failed is tracked too, but its nonce is free.     *)
Open ==
  {h \in Txs : \/ sub[h] \in {"built", "flying", "abandoned"}
               \/ h \in tracked /\ nonce[NonceOf(h)] = "spent"
               \/ \E w \in Watchers : h \in settling[w]}

(* pendingCount, which steers the adaptive controller, never claims more   *)
(* transactions than may be pending: nothing inflates it for the whole run *)
(* (workers.go, the nonce-too-low branch).                                 *)
NoPendingLeak == pendingCount <= Cardinality(Open)

(* Once a send was given up as "nonce too low", no watcher and no receipt  *)
(* counts the transaction as confirmed, one that had already passed the    *)
(* look up included (DiscardTx).                                           *)
TooLowUncounted == \A h \in tooLow : txConfirmed'[h] = txConfirmed[h]
NeverCountedAfterTooLow == [][TooLowUncounted]_txConfirmed

(* During a run a transaction that is on chain and tracked is counted      *)
(* sooner or later, unless its nonce is found spent, if the nodes behind   *)
(* the endpoint answer for every block up to the head.                     *)
LandedIsCounted ==
  \A h \in Txs :
    (/\ config.source = "poller" /\ ~ config.lagging
     /\ chain[h] \in Landed /\ h \in tracked /\ txConfirmed[h] = 0)
    ~> (txConfirmed[h] > 0 \/ h \notin tracked \/ phase # "running")

-----------------------------------------------------------------------------
(* What the comments say, and the code does not keep.                      *)

(* workers.go, the nonce-too-low branch, collector.go, DiscardTx: a send   *)
(* counted as failed is not also counted as confirmed.                     *)
NotBoth ==
  \A h \in tooLow : txConfirmed[h] + txFailed[h] <= txSent[h]
=============================================================================
