---------------------------- MODULE SenderWorker ----------------------------
(***************************************************************************)
(* The send pipeline: sender workers (loadgen/workers.go), each pinned to  *)
(* an account of its own, that reserve nonces, fill a batch, hand it to    *)
(* the sender (sender/sender.go) and wait for its acknowledgements within  *)
(* bounds; the sender's goroutines, which make the request and run the     *)
(* callbacks; the pipeline permits of depth above one; the end of a test   *)
(* at any moment.                                                          *)
(*                                                                         *)
(* An account is what NonceLedger says of it: the set of nonces taken      *)
(* (NonceAccount shows that the code's counter and free list implement     *)
(* that).  The endpoint is external.  The metrics the same handlers count  *)
(* change none of this state and are left out.                             *)
(***************************************************************************)
EXTENDS Integers, Sequences, FiniteSets, Functions

CONSTANTS
  Workers,     \* worker goroutines, one per account
  Configs,     \* the configurations a process may be started with
  MaxNonce     \* bound: the nonces of every configuration

(* workers: those started; batch: transactions in a full batch; depth:     *)
(* batches of an account in flight (L2_PIPELINE_BATCH_DEPTH); slots: those *)
(* of the sender's semaphore; nonces: bound on the nonces of an account.   *)
ASSUME Constants ==
  /\ Configs \subseteq [workers : SUBSET Workers, batch : Nat \ {0},
                        depth : Nat \ {0}, slots : Nat \ {0},
                        nonces : 1..MaxNonce]
  /\ Configs # {}
  /\ MaxNonce \in Nat

VARIABLES
  config,      \* the configuration, for good
  phase,       \* "running"; "stopping": shouldStop; "cancelled": ctx is
  pc,          \* where each worker stands in its loop
  held,        \* the nonce reserved for the transaction being built
  buf,         \* batchData, batchNonces and batchCallbacks, by nonce
  permits,     \* len(batchPermits)
  permitHeld,  \* permitHeld of the iteration under way
  batch,       \* the batches handed to the sender
  taken,       \* each account's nonces handed out, used up or skipped
  accepted     \* nonces of each account the endpoint has accepted

worker == <<pc, held, buf, permits, permitHeld>>
vars == <<config, phase, worker, batch, taken, accepted>>

BatchSize == config.batch
Depth == config.depth
Capacity == config.slots

Nonces == 0..(MaxNonce - 1)
NoNonce == -1

(* No more than Capacity batches hold the semaphore and no more than Depth *)
(* finished ones are still waited for, so there is always a free slot.     *)
MaxBatches ==
  CHOOSE n \in {c.slots + c.depth : c \in Configs} :
    \A c \in Configs : c.slots + c.depth <= n
Batches == Workers \X (1..MaxBatches)
Owner(b) == b[1]
BatchesOf(w) == {b \in Batches : Owner(b) = w}

(* waiter: who counts the acks: the worker itself, a goroutine holding a   *)
(* permit, nobody ("none"), or somebody who stopped ("gone").              *)
NoBatch == [stage |-> "free", nonces |-> <<>>, toSend |-> <<>>, sent |-> <<>>,
            answers |-> <<>>, called |-> 0, waiter |-> "none"]

Waiting(b) == batch[b].waiter \in {"worker", "goroutine"}

(* Callbacks of the batch are still to come.                               *)
Outstanding(b) ==
  batch[b].stage # "free" /\ batch[b].called < Len(batch[b].nonces)

(* Batches that hold a slot of the semaphore.                              *)
InFlight ==
  Cardinality({b \in Batches : batch[b].stage \in {"queued", "answered"}})

Init ==
  /\ config \in Configs
  /\ phase = "running"
  /\ pc = [w \in Workers |-> IF w \in config.workers THEN "top" ELSE "done"]
  /\ held = [w \in Workers |-> NoNonce]
  /\ buf = [w \in Workers |-> <<>>]
  /\ permits = [w \in Workers |-> 0]
  /\ permitHeld = [w \in Workers |-> FALSE]
  /\ batch = [b \in Batches |-> NoBatch]
  /\ taken = [w \in Workers |-> {}]
  /\ accepted = [w \in Workers |-> {}]

Goto(w, label) == pc' = [pc EXCEPT ![w] = label]

(* Nonce.Rollback: the nonce is available again.                           *)
Rollback(w, n) == taken' = [taken EXCEPT ![w] = @ \ {n}]

-----------------------------------------------------------------------------
(* The worker, up to the batch.                                            *)

Loop(w) ==
  /\ pc[w] = "top"
  /\ Goto(w, IF phase = "running" THEN "fill" ELSE "done")
  /\ UNCHANGED <<config, phase, held, buf, permits, permitHeld, batch, taken,
                 accepted>>

ReserveNonce(w) ==
  /\ pc[w] = "fill"
  /\ phase = "running"
  /\ Len(buf[w]) < BatchSize
  /\ \E n \in Nonces \ taken[w] :
       /\ n < config.nonces
       /\ \A m \in Nonces \ taken[w] : n <= m
       /\ taken' = [taken EXCEPT ![w] = @ \cup {n}]
       /\ held' = [held EXCEPT ![w] = n]
  /\ Goto(w, "wait")
  /\ UNCHANGED <<config, phase, buf, permits, permitHeld, batch, accepted>>

DropHeld(w) ==
  /\ Rollback(w, held[w])
  /\ held' = [held EXCEPT ![w] = NoNonce]
  /\ UNCHANGED <<config, phase, buf, permits, permitHeld, batch, accepted>>

(* Building, signing or encoding fails: the loop continues.                *)
BuildFails(w) ==
  /\ pc[w] = "wait"
  /\ DropHeld(w)
  /\ Goto(w, "fill")

(* Mutant: the nonce reserved last is forgotten when the batch is flushed. *)
LingerExpires_Forgets(w) ==
  /\ pc[w] = "wait"
  /\ buf[w] # <<>>
  /\ held' = [held EXCEPT ![w] = NoNonce]
  /\ Goto(w, "permit")
  /\ UNCHANGED <<config, phase, buf, permits, permitHeld, batch, taken,
                 accepted>>

(* The batch has lingered long enough: it is sent as it is.                *)
LingerExpires(w) ==
  /\ pc[w] = "wait"
  /\ buf[w] # <<>>
  /\ DropHeld(w)
  /\ Goto(w, "permit")

(* The rate limiter's Wait fails because the context is cancelled: the     *)
(* worker returns, with whatever its batch holds.                          *)
Leave(w) ==
  /\ pc[w] = "wait"
  /\ phase = "cancelled"
  /\ DropHeld(w)
  /\ Goto(w, "done")

AddToBatch(w) ==
  /\ pc[w] = "wait"
  /\ buf' = [buf EXCEPT ![w] = Append(@, held[w])]
  /\ held' = [held EXCEPT ![w] = NoNonce]
  /\ Goto(w, "fill")
  /\ UNCHANGED <<config, phase, permits, permitHeld, batch, taken, accepted>>

EndFill(w) ==
  /\ pc[w] = "fill"
  /\ phase # "running" \/ Len(buf[w]) = BatchSize
  /\ Goto(w, IF buf[w] = <<>> THEN "top" ELSE "permit")
  /\ UNCHANGED <<config, phase, held, buf, permits, permitHeld, batch, taken,
                 accepted>>

-----------------------------------------------------------------------------
(* The worker and the sender.                                              *)

TakePermit(w) ==
  /\ pc[w] = "permit"
  /\ \/ /\ Depth = 1
        /\ UNCHANGED <<permits, permitHeld>>
     \/ /\ Depth > 1
        /\ permits[w] < Depth
        /\ permits' = [permits EXCEPT ![w] = @ + 1]
        /\ permitHeld' = [permitHeld EXCEPT ![w] = TRUE]
     \/ /\ Depth > 1
        /\ phase = "cancelled"
        /\ UNCHANGED <<permits, permitHeld>>
  /\ Goto(w, "queue")
  /\ UNCHANGED <<config, phase, held, buf, batch, taken, accepted>>

Waiter(w) ==
  CASE Depth = 1 -> "worker"
    [] permitHeld[w] -> "goroutine"
    [] OTHER -> "none"

Enqueue(w) ==
  /\ InFlight < Capacity
  /\ \E b \in BatchesOf(w) :
       /\ batch[b].stage = "free"
       /\ \A c \in BatchesOf(w) : batch[c].stage = "free" => b[2] <= c[2]
       /\ batch' = [batch EXCEPT ![b] =
                      [NoBatch EXCEPT !.stage = "queued", !.nonces = buf[w],
                                      !.toSend = buf[w], !.waiter = Waiter(w)]]
  /\ permitHeld' = [permitHeld EXCEPT ![w] = FALSE]

(* Mutant: the worker goes on at depth one as well.                        *)
Queue_NoWait(w) ==
  /\ pc[w] = "queue"
  /\ Enqueue(w)
  /\ Goto(w, "top")
  /\ buf' = [buf EXCEPT ![w] = <<>>]
  /\ UNCHANGED <<config, phase, held, permits, taken, accepted>>

(* SendBatchAsync finds a slot of the semaphore.  At depth one the worker  *)
(* then waits and keeps its buffers until it has; above, it goes on.       *)
Queue(w) ==
  /\ pc[w] = "queue"
  /\ Enqueue(w)
  /\ IF Depth = 1 THEN Goto(w, "ack") /\ UNCHANGED buf
                  ELSE Goto(w, "top") /\ buf' = [buf EXCEPT ![w] = <<>>]
  /\ UNCHANGED <<config, phase, held, permits, taken, accepted>>

(* Mutant: a permit is given back that was never taken.                    *)
AtCapacity_AlwaysReturns(w) ==
  /\ pc[w] = "queue"
  /\ InFlight = Capacity
  /\ permits' = [permits EXCEPT ![w] = @ - 1]
  /\ permitHeld' = [permitHeld EXCEPT ![w] = FALSE]
  /\ Goto(w, "drop")
  /\ UNCHANGED <<config, phase, held, buf, batch, taken, accepted>>

(* SendBatchAsync finds none: the permit goes back, the nonces follow.     *)
AtCapacity(w) ==
  /\ pc[w] = "queue"
  /\ InFlight = Capacity
  /\ permits' = [permits EXCEPT ![w] = IF permitHeld[w] THEN @ - 1 ELSE @]
  /\ permitHeld' = [permitHeld EXCEPT ![w] = FALSE]
  /\ Goto(w, "drop")
  /\ UNCHANGED <<config, phase, held, buf, batch, taken, accepted>>

DropBatch(w) ==
  /\ pc[w] = "drop"
  /\ IF buf[w] = <<>>
     THEN Goto(w, "top") /\ UNCHANGED <<taken, buf>>
     ELSE /\ Rollback(w, Head(buf[w]))
          /\ buf' = [buf EXCEPT ![w] = Tail(@)]
          /\ UNCHANGED pc
  /\ UNCHANGED <<config, phase, held, permits, permitHeld, batch, accepted>>

(* The slot is free again once nobody uses the batch.                      *)
Tidy(r) ==
  IF r.stage = "finished" /\ r.waiter \in {"none", "gone"} THEN NoBatch ELSE r

(* awaitAcks returns: inline to the worker's loop, which resets its        *)
(* buffers, or in the goroutine, which gives the permit back.              *)
StopWaiting(b) ==
  /\ batch' = [batch EXCEPT ![b] = Tidy([@ EXCEPT !.waiter = "gone"])]
  /\ IF batch[b].waiter = "worker"
     THEN /\ Goto(Owner(b), "top")
          /\ buf' = [buf EXCEPT ![Owner(b)] = <<>>]
          /\ UNCHANGED permits
     ELSE /\ permits' = [permits EXCEPT ![Owner(b)] = @ - 1]
          /\ UNCHANGED <<pc, buf>>

ReceiveAcks(b) ==
  /\ Waiting(b)
  /\ ~Outstanding(b)
  /\ StopWaiting(b)
  /\ UNCHANGED <<config, phase, held, permitHeld, taken, accepted>>

(* Mutants: the wait has no bound; the nonces without an ack are rolled    *)
(* back when the wait ends.                                                *)
GiveUpWaiting_Never(b) == Waiting(b) /\ FALSE /\ UNCHANGED vars

GiveUpWaiting_RollsBack(b) ==
  /\ Waiting(b)
  /\ Outstanding(b)
  /\ StopWaiting(b)
  /\ Rollback(Owner(b), batch[b].nonces[Len(batch[b].nonces)])
  /\ UNCHANGED <<config, phase, held, permitHeld, accepted>>

(* The ack timeout, which then resyncs the account (Resync), or the end of *)
(* the test: either may come when some of the acks have, or all.           *)
GiveUpWaiting(b) ==
  /\ Waiting(b)
  /\ StopWaiting(b)
  /\ UNCHANGED <<config, phase, held, permitHeld, taken, accepted>>

-----------------------------------------------------------------------------
(* The sender's goroutine.                                                 *)

(* Mutant: the sender is handed the worker's own slice.                    *)
Payload_Shared(b) ==
  LET shared == buf[Owner(b)]
  IN  [i \in DOMAIN batch[b].toSend |->
         IF i \in DOMAIN shared THEN shared[i] ELSE batch[b].toSend[i]]

Payload(b) == batch[b].toSend

(* SendRawTransactionBatch: some of the transactions reach the endpoint    *)
(* and are accepted, and each gets an answer.  "used" stands for nil,      *)
(* "already known" and "nonce too low", which the endpoint gives when the  *)
(* nonce is used; "refused" for any other error, the loss of the answer    *)
(* and a cancelled context included.                                       *)
Transmit(b) ==
  /\ batch[b].stage = "queued"
  /\ \E new \in SUBSET (Range(Payload(b)) \ accepted[Owner(b)]),
        answers \in [DOMAIN Payload(b) -> {"used", "refused"}] :
       /\ \A i \in DOMAIN answers :
            answers[i] = "used" => Payload(b)[i] \in new \cup accepted[Owner(b)]
       /\ accepted' = [accepted EXCEPT ![Owner(b)] = @ \cup new]
       /\ batch' = [batch EXCEPT ![b] =
                      [@ EXCEPT !.stage = "answered", !.sent = Payload(b),
                                !.answers = answers]]
  /\ UNCHANGED <<config, phase, worker, taken>>

(* One callback: commit or roll back, then the ack.                        *)
Callback(b) ==
  LET i == batch[b].called + 1
  IN  /\ batch[b].stage = "answered"
      /\ Outstanding(b)
      /\ batch' = [batch EXCEPT ![b] = [@ EXCEPT !.called = i]]
      /\ IF batch[b].answers[i] = "refused"
         THEN Rollback(Owner(b), batch[b].nonces[i])
         ELSE UNCHANGED taken
      /\ UNCHANGED <<config, phase, worker, accepted>>

Release(b) ==
  /\ batch[b].stage = "answered"
  /\ ~Outstanding(b)
  /\ batch' = [batch EXCEPT ![b] = Tidy([@ EXCEPT !.stage = "finished"])]
  /\ UNCHANGED <<config, phase, worker, taken, accepted>>

(* MaybeResyncFromChain, by what NonceAccount shows it does: the nonces    *)
(* below a count the chain has or had are no longer available.  A refusal  *)
(* or a timeout starts it; it may take as long as it likes.                *)
Resync(w) ==
  /\ \E v \in 1..MaxNonce :
       /\ 0..(v - 1) \subseteq accepted[w]
       /\ taken' = [taken EXCEPT ![w] = @ \cup 0..(v - 1)]
  /\ UNCHANGED <<config, phase, worker, batch, accepted>>

-----------------------------------------------------------------------------
(* shouldStop turns true, by the end of the duration or by stopTest, which *)
(* cancels the context somewhat later.                                     *)
StopSending ==
  /\ phase = "running"
  /\ phase' = "stopping"
  /\ UNCHANGED <<config, worker, batch, taken, accepted>>

Cancel ==
  /\ phase = "stopping"
  /\ phase' = "cancelled"
  /\ UNCHANGED <<config, worker, batch, taken, accepted>>

WorkerStep(w) ==
  \/ Loop(w)
  \/ ReserveNonce(w)
  \/ BuildFails(w)
  \/ LingerExpires(w)
  \/ Leave(w)
  \/ AddToBatch(w)
  \/ EndFill(w)
  \/ TakePermit(w)
  \/ Queue(w)
  \/ AtCapacity(w)
  \/ DropBatch(w)

Next ==
  \/ \E w \in Workers : WorkerStep(w) \/ Resync(w)
  \/ \E b \in Batches :
       \/ ReceiveAcks(b)
       \/ GiveUpWaiting(b)
       \/ Transmit(b)
       \/ Callback(b)
       \/ Release(b)
  \/ StopSending
  \/ Cancel

Spec == Init /\ [][Next]_vars

(* Workers run and timers fire, and the resync that follows a timer ends   *)
(* with the HTTP client's own timeout at the latest.  No batch is promised *)
(* an answer: Transmit, Callback and Release are not fair.                 *)
FairSpec ==
  /\ Spec
  /\ \A w \in Workers : WF_vars(WorkerStep(w))
  /\ \A b \in Batches : WF_vars(GiveUpWaiting(b))

-----------------------------------------------------------------------------
(* Properties.                                                             *)

(* Every variable holds values of its kind, and no more permits are out    *)
(* than the channel has room for.                                          *)
TypeOK ==
  /\ config \in Configs
  /\ phase \in {"running", "stopping", "cancelled"}
  /\ pc \in [Workers -> {"top", "fill", "wait", "permit", "queue", "ack",
                          "drop", "done"}]
  /\ held \in [Workers -> Nonces \cup {NoNonce}]
  /\ \A w \in Workers : buf[w] \in Seq(Nonces) /\ Len(buf[w]) <= BatchSize
  /\ permits \in [Workers -> 0..Depth]
  /\ permitHeld \in [Workers -> BOOLEAN]
  /\ \A b \in Batches :
       /\ batch[b].stage \in {"free", "queued", "answered", "finished"}
       /\ {batch[b].nonces, batch[b].toSend, batch[b].sent}
            \subseteq Seq(Nonces)
       /\ batch[b].called \in 0..Len(batch[b].nonces)
       /\ batch[b].waiter \in {"worker", "goroutine", "none", "gone"}
  /\ taken \in [Workers -> SUBSET Nonces]
  /\ accepted \in [Workers -> SUBSET Nonces]

(* Each callback settles the nonce of the transaction that was sent in its *)
(* place, although worker and sender go on at the same time: the reason    *)
(* SendBatchAsync is given a copy of the worker's slice.                   *)
RightBytes ==
  \A b \in Batches :
    batch[b].stage \in {"answered", "finished"} =>
      batch[b].sent = batch[b].nonces

(* Until the test is cancelled, no account has more than Depth batches     *)
(* with callbacks to come, those aside whose wait has timed out.           *)
InFlightBound ==
  phase # "cancelled" =>
    \A w \in Workers :
      Cardinality({b \in BatchesOf(w) :
                     Outstanding(b) /\ batch[b].waiter # "gone"}) <= Depth

(* A worker returns once the test is cancelled, whether or not any request *)
(* is ever answered: stopTest waits for it.                                *)
Terminates ==
  phase = "cancelled" ~> \A w \in Workers : pc[w] = "done"

(* A worker that has a batch to send gets back to its loop: neither a lost *)
(* acknowledgement nor a full sender wedges it.                            *)
NeverWedged ==
  \A w \in Workers :
    pc[w] \in {"permit", "queue", "ack", "drop"} ~> pc[w] \in {"top", "done"}

(* The nonces of an account in a worker's hands: to be settled once each.  *)
Unsettled(w) ==
  {held[w]} \cup
  (IF pc[w] = "ack" THEN {} ELSE Range(buf[w])) \cup
  UNION {Range(SubSeq(batch[b].nonces, batch[b].called + 1,
                      Len(batch[b].nonces))) : b \in BatchesOf(w)}

(* No nonce is lost on the way: one that is not available is accepted by   *)
(* the endpoint or in the hands of the worker or a callback, so every      *)
(* failure path (build, linger, sender at capacity, refusal, ack timeout)  *)
(* gives back what it took.                                                *)
NoLeak == \A w \in Workers : taken[w] \subseteq accepted[w] \cup Unsettled(w)

Holder(w) == [n \in Nonces |-> IF n \in Unsettled(w) THEN n ELSE NoNonce]

Account(w) ==
  INSTANCE NonceLedger WITH Tickets <- Nonces, taken <- taken[w],
                            holder <- Holder(w)

(* Worker, callbacks and at-capacity path use the account as NonceLedger   *)
(* allows: each reservation is settled at most once, by one of them, late  *)
(* callbacks of batches that were given up included.                       *)
UsesLedger ==
  [][\A w \in Workers : UNCHANGED Account(w)!vars \/ Account(w)!Next]_vars
=============================================================================
