------------------------- MODULE TxAccountingProofs -------------------------
(***************************************************************************)
(* Theorems about TxAccounting, for every finite set of transactions,      *)
(* every assignment of nonces, every number of watchers and of sends.      *)
(***************************************************************************)
EXTENDS TxAccounting, FiniteSetTheorems, TLAPS

Active(h) == sub[h] # "idle"

(* A transaction under way holds its nonce, alone.                         *)
OneSender ==
  /\ \A h \in Txs : Active(h) => nonce[NonceOf(h)] = "held"
  /\ \A g, h \in Txs :
       Active(g) /\ Active(h) /\ NonceOf(g) = NonceOf(h) => g = h

(* CountedPerSend is not inductive: every recorded send gives one entry in *)
(* the tracker, and only who removes it counts; and one callback to come.  *)
Balance ==
  \A h \in Txs :
    /\ txConfirmed[h] + (IF h \in tracked THEN 1 ELSE 0) <= txSent[h]
    /\ txFailed[h] + (IF Active(h) THEN 1 ELSE 0) <= txSent[h]

(* What was given up as "nonce too low" is not tracked, and its nonce is   *)
(* spent: it is never sent again.                                          *)
GivenUp ==
  \A h \in tooLow :
    h \notin tracked /\ ~ Active(h) /\ nonce[NonceOf(h)] = "spent"

(* The inductive invariant.                                                *)
Inv == TypeOK /\ OneSender /\ Balance /\ GivenUp

(* Initially nothing has been sent.                                        *)
LEMMA InitInv == Init => Inv
<1> SUFFICES ASSUME Init PROVE Inv
  OBVIOUS
<1> USE Constants
<1>1. reading \in BOOLEAN
  <2>1. config.source = "ws" \/ config.source # "ws"
    OBVIOUS
  <2>2. QED
    BY <2>1 DEF Init
<1>2. TypeOK
  <2>1. nonce \in [Nonces -> {"free", "held", "spent"}]
    BY DEF Init
  <2>2. {txSent, txConfirmed, txFailed} \subseteq [Txs -> Nat]
    BY DEF Init
  <2>3. {seen, gated, settling} \subseteq [Watchers -> SUBSET Txs]
    BY DEF Init
  <2>4. QED
    BY <1>1, <2>1, <2>2, <2>3 DEF Init, TypeOK, Phases, ChainStates
<1>3. OneSender /\ Balance /\ GivenUp
  BY DEF Init, OneSender, Balance, GivenUp, Active
<1>4. QED
  BY <1>2, <1>3 DEF Inv

(* Steps that leave the sends alone.                                       *)
LEMMA Frame ==
  ASSUME OneSender, Balance, GivenUp,
         UNCHANGED <<config, nonce, sub, tracked, txSent, txConfirmed,
                     txFailed, tooLow>>
  PROVE  OneSender' /\ Balance' /\ GivenUp'
  BY DEF OneSender, Balance, GivenUp, Active, NonceOf

(* A confirmation is counted only with the removal of the entry, so the    *)
(* sum of both stays the same, and a transaction given up has no entry.    *)
LEMMA Confirm ==
  ASSUME TypeOK, OneSender, Balance, GivenUp, NEW h \in Txs,
         RecordTxConfirmed(h),
         UNCHANGED <<config, nonce, sub, txSent, txFailed, tooLow>>
  PROVE  OneSender' /\ Balance' /\ GivenUp'
<1>1. OneSender'
  BY DEF OneSender, Active, NonceOf
<1>2. Balance'
  BY DEF RecordTxConfirmed, Bump, Balance, Active, TypeOK
<1>3. GivenUp'
  BY DEF RecordTxConfirmed, GivenUp, Active, NonceOf
<1>4. QED
  BY <1>1, <1>2, <1>3

(* The worker.                                                             *)
LEMMA WorkerInv ==
  ASSUME Inv, NEW h \in Txs, Worker(h)
  PROVE  Inv'
<1> USE Constants DEF Inv, metrics, node, watch
<1>1. CASE Track(h)
  <2>1. TypeOK'
    BY <1>1 DEF Track, Bump, SetSub, SetNonce, TypeOK, NonceOf, Configs
  <2>2. OneSender'
    BY <1>1 DEF Track, SetSub, SetNonce, OneSender, Active, TypeOK, NonceOf,
       Configs
  <2>3. Balance'
    BY <1>1 DEF Track, Bump, SetSub, Balance, Active, TypeOK
  <2>4. GivenUp'
    BY <1>1 DEF Track, SetSub, SetNonce, OneSender, GivenUp, Active, TypeOK,
       NonceOf, Configs
  <2>5. QED
    BY <2>1, <2>2, <2>3, <2>4
<1>2. CASE Enlist(h)
  <2>1. TypeOK'
    BY <1>2 DEF Enlist, SetSub, TypeOK
  <2>2. OneSender'
    BY <1>2 DEF Enlist, SetSub, OneSender, Active, TypeOK, NonceOf
  <2>3. Balance'
    BY <1>2 DEF Enlist, SetSub, Balance, Active, TypeOK
  <2>4. GivenUp'
    BY <1>2 DEF Enlist, SetSub, OneSender, GivenUp, Active, TypeOK, NonceOf
  <2>5. QED
    BY <2>1, <2>2, <2>3, <2>4
<1>3. CASE Queue(h)
  <2>1. TypeOK'
    BY <1>3 DEF Queue, SetSub, TypeOK
  <2>2. OneSender'
    BY <1>3 DEF Queue, SetSub, OneSender, Active, TypeOK, NonceOf
  <2>3. Balance'
    BY <1>3 DEF Queue, SetSub, Balance, Active, TypeOK
  <2>4. GivenUp'
    BY <1>3 DEF Queue, SetSub, OneSender, GivenUp, Active, TypeOK, NonceOf
  <2>5. QED
    BY <2>1, <2>2, <2>3, <2>4
<1>4. CASE Refuse(h)
  <2>1. TypeOK'
    BY <1>4 DEF Refuse, SubSaturating, SetSub, SetNonce, TypeOK, NonceOf,
       Configs
  <2>2. OneSender'
    BY <1>4 DEF Refuse, SetSub, SetNonce, OneSender, Active, TypeOK, NonceOf,
       Configs
  <2>3. Balance'
    BY <1>4 DEF Refuse, SetSub, Balance, Active, TypeOK
  <2>4. GivenUp'
    BY <1>4 DEF Refuse, SetSub, SetNonce, OneSender, GivenUp, Active, TypeOK,
       NonceOf, Configs
  <2>5. QED
    BY <2>1, <2>2, <2>3, <2>4
<1>5. CASE Abandon(h)
  <2>1. TypeOK'
    BY <1>5 DEF Abandon, SetSub, TypeOK
  <2>2. OneSender'
    BY <1>5 DEF Abandon, SetSub, OneSender, Active, TypeOK, NonceOf
  <2>3. Balance'
    BY <1>5 DEF Abandon, SetSub, Balance, Active, TypeOK
  <2>4. GivenUp'
    BY <1>5 DEF Abandon, SetSub, OneSender, GivenUp, Active, TypeOK, NonceOf
  <2>5. QED
    BY <2>1, <2>2, <2>3, <2>4
<1>6. QED
  BY <1>1, <1>2, <1>3, <1>4, <1>5 DEF Worker

(* The node.                                                               *)
LEMMA NodeInv ==
  ASSUME Inv, NEW h \in Txs, Node(h)
  PROVE  Inv'
<1> USE Constants DEF Inv, metrics, node, watch
<1>1. CASE Process(h)
  <2>1. TypeOK'
    BY <1>1 DEF Process, Answers, ChainStates, TypeOK
  <2>2. QED
    BY <1>1, <2>1, Frame DEF Process
<1>2. CASE Mine(h)
  <2>1. TypeOK'
    BY <1>2 DEF Mine, ChainStates, Landed, TypeOK
  <2>2. QED
    BY <1>2, <2>1, Frame DEF Mine
<1>3. CASE Drop(h)
  <2>1. TypeOK'
    BY <1>3 DEF Drop, ChainStates, TypeOK
  <2>2. QED
    BY <1>3, <2>1, Frame DEF Drop
<1>4. QED
  BY <1>1, <1>2, <1>3 DEF Node

(* The callback of a send.                                                 *)
LEMMA CallbackInv ==
  ASSUME Inv, NEW h \in Txs, Callback(h)
  PROVE  Inv'
<1> USE Constants DEF Inv, metrics, node, watch
<1>1. CASE Accepted(h)
  <2>1. TypeOK'
    BY <1>1 DEF Accepted, SetSub, SetNonce, TypeOK, NonceOf, Configs
  <2>2. OneSender'
    BY <1>1 DEF Accepted, SetSub, SetNonce, OneSender, Active, TypeOK, NonceOf,
       Configs
  <2>3. Balance'
    BY <1>1 DEF Accepted, SetSub, Balance, Active, TypeOK
  <2>4. GivenUp'
    BY <1>1 DEF Accepted, SetSub, SetNonce, OneSender, GivenUp, Active, TypeOK,
       NonceOf, Configs
  <2>5. QED
    BY <2>1, <2>2, <2>3, <2>4
<1>2. CASE TooLow(h)
  <2>1. TypeOK'
    BY <1>2 DEF TooLow, SubSaturating, Bump, SetSub, SetNonce, TypeOK, NonceOf,
       Configs
  <2>2. OneSender'
    BY <1>2 DEF TooLow, SetSub, SetNonce, OneSender, Active, TypeOK, NonceOf,
       Configs
  <2>3. Balance'
    BY <1>2 DEF TooLow, Bump, SetSub, Balance, Active, TypeOK
  <2>4. GivenUp'
    BY <1>2 DEF TooLow, SetSub, SetNonce, OneSender, GivenUp, Active, TypeOK,
       NonceOf, Configs
  <2>5. QED
    BY <2>1, <2>2, <2>3, <2>4
<1>3. CASE Failed(h)
  <2>1. TypeOK'
    BY <1>3 DEF Failed, SubSaturating, Bump, SetSub, SetNonce, TypeOK, NonceOf,
       Configs
  <2>2. OneSender'
    BY <1>3 DEF Failed, SetSub, SetNonce, OneSender, Active, TypeOK, NonceOf,
       Configs
  <2>3. Balance'
    BY <1>3 DEF Failed, Bump, SetSub, Balance, Active, TypeOK
  <2>4. GivenUp'
    BY <1>3 DEF Failed, SetSub, SetNonce, OneSender, GivenUp, Active, TypeOK,
       NonceOf, Configs
  <2>5. QED
    BY <2>1, <2>2, <2>3, <2>4
<1>4. CASE Cancelled(h)
  <2>1. TypeOK'
    BY <1>4 DEF Cancelled, SubSaturating, SetSub, SetNonce, TypeOK, NonceOf,
       Configs
  <2>2. OneSender'
    BY <1>4 DEF Cancelled, SetSub, SetNonce, OneSender, Active, TypeOK,
       NonceOf, Configs
  <2>3. Balance'
    BY <1>4 DEF Cancelled, SetSub, Balance, Active, TypeOK
  <2>4. GivenUp'
    BY <1>4 DEF Cancelled, SetSub, SetNonce, OneSender, GivenUp, Active,
       TypeOK, NonceOf, Configs
  <2>5. QED
    BY <2>1, <2>2, <2>3, <2>4
<1>5. QED
  BY <1>1, <1>2, <1>3, <1>4 DEF Callback

(* The watcher comes to a transaction.                                     *)
LEMMA EventInv ==
  ASSUME Inv, NEW w \in Watchers, NEW h \in Txs,
         \/ Gate(w, h) \/ SkipNullBlock(w, h)
         \/ WsConfirmed(w, h) \/ WsDropped(w, h) \/ WsGap(w, h)
  PROVE  Inv'
<1> USE Constants DEF Inv, metrics, node, watch
<1>1. CASE Gate(w, h)
  <2>1. TypeOK'
    BY <1>1 DEF Gate, TypeOK
  <2>2. QED
    BY <1>1, <2>1, Frame DEF Gate
<1>2. CASE SkipNullBlock(w, h)
  <2>1. TypeOK'
    BY <1>2 DEF SkipNullBlock, TypeOK
  <2>2. QED
    BY <1>2, <2>1, Frame DEF SkipNullBlock
<1>3. CASE WsConfirmed(w, h)
  <2>1. TypeOK'
    BY <1>3 DEF WsConfirmed, RecordTxConfirmed, Bump, TypeOK
  <2>2. CASE RecordTxConfirmed(h)
    BY <1>3, <2>1, <2>2, Confirm DEF WsConfirmed
  <2>3. CASE tracked' = tracked \ {h} /\ UNCHANGED txConfirmed
    <3>1. OneSender'
      BY <1>3 DEF WsConfirmed, OneSender, Active, NonceOf
    <3>2. Balance'
      BY <1>3, <2>3 DEF WsConfirmed, Balance, Active, TypeOK
    <3>3. GivenUp'
      BY <1>3, <2>3 DEF WsConfirmed, GivenUp, Active, NonceOf
    <3>4. QED
      BY <2>1, <3>1, <3>2, <3>3
  <2>4. QED
    BY <1>3, <2>2, <2>3 DEF WsConfirmed
<1>4. CASE WsDropped(w, h)
  <2>1. TypeOK'
    BY <1>4 DEF WsDropped, SubSaturating, ChainStates, TypeOK
  <2>2. QED
    BY <1>4, <2>1, Frame DEF WsDropped
<1>5. CASE WsGap(w, h)
  <2>1. TypeOK'
    BY <1>5 DEF WsGap, TypeOK
  <2>2. QED
    BY <1>5, <2>1, Frame DEF WsGap
<1>6. QED
  BY <1>1, <1>2, <1>3, <1>4, <1>5

(* The watcher.                                                            *)
LEMMA WatcherInv ==
  ASSUME Inv, NEW w \in Watchers, Watcher(w)
  PROVE  Inv'
<1> USE Constants DEF Inv, metrics, node, watch
<1>1. CASE Count(w)
  <2>1. TypeOK'
    BY <1>1 DEF Count, RecordTxConfirmed, Bump, TypeOK
  <2>2. PICK h \in gated[w] : RecordTxConfirmed(h)
    BY <1>1 DEF Count
  <2>3. h \in Txs
    BY DEF TypeOK
  <2>4. UNCHANGED <<config, nonce, sub, txSent, txFailed, tooLow>>
    BY <1>1 DEF Count
  <2>5. QED
    BY <2>1, <2>2, <2>3, <2>4, Confirm
<1>2. CASE Settle(w)
  <2>1. TypeOK'
    BY <1>2 DEF Settle, SubSaturating, LogConfirmed, TypeOK
  <2>2. QED
    BY <1>2, <2>1, Frame DEF Settle
<1>3. CASE Exit(w)
  <2>1. TypeOK'
    BY <1>3 DEF Exit, TypeOK
  <2>2. QED
    BY <1>3, <2>1, Frame DEF Exit
<1>4. QED
  BY <1>1, <1>2, <1>3, EventInv DEF Watcher, Poller

(* The end of the run.                                                     *)
LEMMA StopInv ==
  ASSUME Inv, Stop
  PROVE  Inv'
<1> USE Constants DEF Inv, metrics, node, watch
<1>1. CASE Complete
  <2>1. TypeOK'
    BY <1>1 DEF Complete, Phases, TypeOK
  <2>2. QED
    BY <1>1, <2>1, Frame DEF Complete
<1>2. CASE ForceStop
  <2>1. TypeOK'
    BY <1>2 DEF ForceStop, Phases, TypeOK
  <2>2. QED
    BY <1>2, <2>1, Frame DEF ForceStop
<1>3. CASE RecordEnd
  <2>1. TypeOK'
    BY <1>3 DEF RecordEnd, Phases, TypeOK
  <2>2. QED
    BY <1>3, <2>1, Frame DEF RecordEnd
<1>4. CASE StartResolve
  <2>1. TypeOK'
    BY <1>4 DEF StartResolve, Phases, TypeOK
  <2>2. QED
    BY <1>4, <2>1, Frame DEF StartResolve
<1>5. CASE Finalize
  <2>1. TypeOK'
    BY <1>5 DEF Finalize, Phases, TypeOK
  <2>2. QED
    BY <1>5, <2>1, Frame DEF Finalize
<1>6. ASSUME NEW h \in Txs, Resolve(h)
      PROVE  Inv'
  <2>1. TypeOK'
    BY <1>6 DEF Resolve, RecordTxConfirmed, LogConfirmed, Bump, SubSaturating,
       TypeOK
  <2>2. CASE RecordTxConfirmed(h)
    BY <1>6, <2>1, <2>2, Confirm DEF Resolve
  <2>3. CASE UNCHANGED <<tracked, txConfirmed>>
    BY <1>6, <2>1, <2>3, Frame DEF Resolve
  <2>4. QED
    BY <1>6, <2>2, <2>3 DEF Resolve
<1>7. QED
  BY <1>1, <1>2, <1>3, <1>4, <1>5, <1>6 DEF Stop

(* Inv holds in every state of every run.                                  *)
THEOREM Invariance == Spec => []Inv
<1>1. ASSUME Inv, [Next]_vars
      PROVE  Inv'
  <2>1. CASE UNCHANGED vars
    <3>1. TypeOK'
      BY <1>1, <2>1 DEF vars, node, metrics, watch, Inv, TypeOK
    <3>2. QED
      BY <1>1, <2>1, <3>1, Frame DEF vars, metrics, Inv
  <2>2. CASE Next
    BY <1>1, <2>2, WorkerInv, NodeInv, CallbackInv, WatcherInv, StopInv
    DEF Next
  <2>3. QED
    BY <1>1, <2>1, <2>2
<1>2. QED
  BY <1>1, InitInv, PTL DEF Spec

(* Every counter and every entry keeps its type; pendingCount, however     *)
(* often it is decremented, is never negative.                             *)
THEOREM TypeCorrect == Spec => []TypeOK
<1>1. Inv => TypeOK
  BY DEF Inv
<1>2. QED
  BY <1>1, Invariance, PTL

(* No race of watchers, receipts and callbacks counts a transaction as     *)
(* confirmed, or as failed, more often than it was sent.                   *)
THEOREM NeverOvercounted == Spec => []CountedPerSend
<1>1. Inv => CountedPerSend
  BY DEF Inv, TypeOK, Balance, CountedPerSend
<1>2. QED
  BY <1>1, Invariance, PTL

(* DiscardTx is final: a send given up as "nonce too low" is not counted   *)
(* as confirmed afterwards, by whoever had already found it tracked.       *)
THEOREM TooLowIsFinal == Spec => NeverCountedAfterTooLow
<1>1. ASSUME Inv, NEW g \in tooLow, NEW h \in Txs, RecordTxConfirmed(h)
      PROVE  txConfirmed'[g] = txConfirmed[g]
  <2>1. g \in Txs /\ g \notin tracked
    BY <1>1 DEF Inv, TypeOK, GivenUp
  <2>2. QED
    BY <1>1, <2>1 DEF RecordTxConfirmed, Bump, Inv, TypeOK
<1>2. ASSUME Inv, [Next]_vars, NEW g \in tooLow
      PROVE  txConfirmed'[g] = txConfirmed[g]
  <2>1. CASE \E h \in Txs : RecordTxConfirmed(h)
    BY <1>1, <1>2, <2>1
  <2>2. CASE UNCHANGED txConfirmed
    BY <2>2
  <2>3. ASSUME NEW h \in Txs, Worker(h) \/ Node(h) \/ Callback(h)
        PROVE  UNCHANGED txConfirmed
    BY <2>3 DEF Worker, Track, Enlist, Queue, Refuse, Abandon, Node, Process,
       Mine, Drop, Callback, Accepted, TooLow, Failed, Cancelled, metrics
  <2>4. ASSUME NEW w \in Watchers, Watcher(w)
        PROVE  UNCHANGED txConfirmed \/ \E h \in Txs : RecordTxConfirmed(h)
    <3>1. gated[w] \subseteq Txs
      BY <1>2 DEF Inv, TypeOK
    <3>2. QED
      BY <2>4, <3>1 DEF Watcher, Poller, Count, Settle, Gate, Exit,
         SkipNullBlock, WsConfirmed, WsDropped, WsGap, metrics
  <2>5. ASSUME Stop
        PROVE  UNCHANGED txConfirmed \/ \E h \in Txs : RecordTxConfirmed(h)
    BY <2>5 DEF Stop, Complete, ForceStop, RecordEnd, StartResolve, Finalize,
       Resolve, metrics
  <2>6. QED
    BY <1>2, <2>1, <2>2, <2>3, <2>4, <2>5 DEF Next, vars, metrics
<1>3. Inv /\ [Next]_vars => [TooLowUncounted]_txConfirmed
  BY <1>2 DEF TooLowUncounted
<1>4. QED
  BY <1>3, Invariance, PTL DEF Spec, NeverCountedAfterTooLow
-----------------------------------------------------------------------------
(* NoPendingLeak.                                                          *)

(* What a watcher carries from its look up to pendingCount: one landed     *)
(* transaction, in one of two hands.                                       *)
InHand ==
  \A w \in Watchers :
    /\ gated[w] = {} \/ settling[w] = {}
    /\ \A g, h \in gated[w] \cup settling[w] : g = h
    /\ \A h \in gated[w] \cup settling[w] : chain[h] \in Landed

(* A transaction under way leaves the tracking only when it has landed.    *)
TrackedUntilLanded ==
  \A h \in Txs : Active(h) /\ h \notin tracked => chain[h] \in Landed

Unsettled(h) == h \in tracked \/ \E w \in Watchers : h \in settling[w]

(* Those of Open somebody will still subtract: of the transactions in      *)
(* flight that will be accepted, only what no watcher has settled before.  *)
Owes(h) ==
  \/ sub[h] \in {"built", "abandoned"}
  \/ sub[h] = "flying" /\ reply[h] \notin {"ok", "known"}
  \/ Unsettled(h) /\ (sub[h] = "flying" \/ nonce[NonceOf(h)] = "spent")
Owed == {h \in Txs : Owes(h)}

Pending == Inv /\ InHand /\ TrackedUntilLanded /\ pendingCount <= Cardinality(Owed)

(* Whoever leaves Owed is subtracted, and whoever is added enters it.      *)
LEMMA PendingCounts ==
  ASSUME pendingCount \in Nat, pendingCount <= Cardinality(Owed),
         \/ pendingCount' = pendingCount /\ Owed \subseteq Owed'
         \/ /\ pendingCount' = SubSaturating
            /\ \E h : Owed \ {h} \subseteq Owed'
         \/ /\ pendingCount' = pendingCount + 1
            /\ \E h : h \notin Owed /\ Owed \cup {h} \subseteq Owed'
  PROVE  pendingCount' <= Cardinality(Owed')
<1>1. /\ IsFiniteSet(Owed) /\ Cardinality(Owed) \in Nat
      /\ IsFiniteSet(Owed') /\ Cardinality(Owed') \in Nat
  <2>1. Owed \subseteq Txs /\ Owed' \subseteq Txs
    BY DEF Owed
  <2>2. QED
    BY <2>1, Constants, FS_Subset, FS_CardinalityType
<1>2. CASE pendingCount' = pendingCount /\ Owed \subseteq Owed'
  <2>1. Cardinality(Owed) <= Cardinality(Owed')
    BY <1>1, <1>2, FS_Subset
  <2>2. QED
    BY <1>1, <1>2, <2>1
<1>3. ASSUME pendingCount' = SubSaturating, NEW h, Owed \ {h} \subseteq Owed'
      PROVE  pendingCount' <= Cardinality(Owed')
  <2>1. /\ Cardinality(Owed \ {h}) <= Cardinality(Owed')
        /\ Cardinality(Owed \ {h}) \in Nat
    <3>1. IsFiniteSet(Owed \ {h})
      BY <1>1, FS_Subset
    <3>2. QED
      BY <1>1, <1>3, <3>1, FS_Subset, FS_CardinalityType
  <2>2. Cardinality(Owed \ {h}) >= Cardinality(Owed) - 1
    <3>1. CASE h \in Owed
      <4>1. Cardinality(Owed \ {h}) = Cardinality(Owed) - 1
        BY <1>1, <3>1, FS_RemoveElement
      <4>2. QED
        BY <1>1, <4>1
    <3>2. CASE h \notin Owed
      <4>1. Owed \ {h} = Owed
        BY <3>2
      <4>2. QED
        BY <1>1, <4>1
    <3>3. QED
      BY <3>1, <3>2
  <2>3. QED
    BY <1>1, <1>3, <2>1, <2>2 DEF SubSaturating
<1>4. ASSUME pendingCount' = pendingCount + 1, NEW h, h \notin Owed,
             Owed \cup {h} \subseteq Owed'
      PROVE  pendingCount' <= Cardinality(Owed')
  <2>1. /\ IsFiniteSet(Owed \cup {h})
        /\ Cardinality(Owed \cup {h}) = Cardinality(Owed) + 1
    BY <1>1, <1>4, FS_AddElement
  <2>2. Cardinality(Owed \cup {h}) <= Cardinality(Owed')
    BY <1>1, <1>4, <2>1, FS_Subset
  <2>3. QED
    BY <1>1, <1>4, <2>1, <2>2
<1>5. QED
  BY <1>2, <1>3, <1>4

(* A step of the watchers' hands: none, and what has landed stays.         *)
LEMMA HandsKept ==
  ASSUME InHand, TrackedUntilLanded, UNCHANGED <<gated, settling>>,
         \A h \in Txs : chain[h] \in Landed => chain'[h] \in Landed,
         \A w \in Watchers : gated[w] \subseteq Txs /\ settling[w] \subseteq Txs,
         \A h \in Txs : Active(h)' => Active(h) \/ h \in tracked',
         \A h \in Txs : h \in tracked => h \in tracked' \/ chain'[h] \in Landed
                                         \/ ~ Active(h)'
  PROVE  InHand' /\ TrackedUntilLanded'
<1>1. InHand'
  BY DEF InHand
<1>2. TrackedUntilLanded'
  BY DEF TrackedUntilLanded
<1>3. QED
  BY <1>1, <1>2

(* The types the steps below use.                                          *)
LEMMA Kinds ==
  ASSUME TypeOK
  PROVE  /\ \A w \in Watchers : gated[w] \subseteq Txs /\ settling[w] \subseteq Txs
         /\ sub \in [Txs -> {"idle", "recording", "built", "flying", "abandoned"}]
         /\ nonce \in [Nonces -> {"free", "held", "spent"}]
         /\ reply \in [Txs -> {"none", "ok", "known", "too_low"}]
         /\ chain \in [Txs -> ChainStates] /\ tracked \subseteq Txs
         /\ \A h \in Txs : NonceOf(h) \in Nonces
         /\ pendingCount \in Nat /\ lookup \subseteq Txs
         /\ gated \in [Watchers -> SUBSET Txs]
         /\ settling \in [Watchers -> SUBSET Txs]
BY Constants DEF TypeOK, NonceOf, Configs

(* The worker: the transaction it enlists was not owed.                    *)
LEMMA WorkerPending ==
  ASSUME Pending, NEW h \in Txs, Worker(h)
  PROVE  Pending'
<1> USE DEF metrics, node, watch
<1>1. Inv'
  BY WorkerInv DEF Pending
<1>2. TypeOK /\ OneSender /\ InHand /\ TrackedUntilLanded
  BY DEF Pending, Inv
<1>3. UNCHANGED <<config, gated, settling, chain>>
  BY DEF Worker, Track, Enlist, Queue, Refuse, Abandon
<1>4. InHand' /\ TrackedUntilLanded'
  <2>1. \A g \in Txs : Active(g)' => Active(g) \/ g \in tracked'
    BY <1>2, Kinds DEF Worker, Track, Enlist, Queue, Refuse, Abandon, SetSub,
                       Active
  <2>2. tracked \subseteq tracked'
    BY DEF Worker, Track, Enlist, Queue, Refuse, Abandon
  <2>3. QED
    BY <1>2, <1>3, <2>1, <2>2, Kinds, HandsKept
<1>5. CASE Track(h)
  <2>1. /\ nonce[NonceOf(h)] = "free" /\ sub[h] = "idle"
        /\ nonce' = [nonce EXCEPT ![NonceOf(h)] = "held"]
        /\ sub' = [sub EXCEPT ![h] = "recording"]
        /\ tracked' = tracked \cup {h}
        /\ UNCHANGED <<reply, pendingCount>>
    BY <1>5 DEF Track, SetNonce, SetSub
  <2>2. ASSUME NEW g \in Txs, Owes(g) PROVE Owes(g)'
    <3>1. g # h
      BY <1>2, <2>1, <2>2 DEF Owes
    <3>2. nonce[NonceOf(g)] = "spent" => nonce'[NonceOf(g)] = "spent"
      BY <1>2, <2>1, Kinds
    <3>3. sub'[g] = sub[g]
      BY <1>2, <2>1, <3>1, Kinds
    <3>4. QED
      BY <1>3, <2>1, <2>2, <3>2, <3>3 DEF Owes, Unsettled, NonceOf
  <2>3. Owed \subseteq Owed'
    BY <2>2 DEF Owed
  <2>4. QED
    BY <1>1, <1>2, <1>4, <2>1, <2>3, PendingCounts, Kinds DEF Pending
<1>6. CASE Enlist(h)
  <2>1. /\ sub[h] = "recording"
        /\ sub' = [sub EXCEPT ![h] = "built"]
        /\ pendingCount' = pendingCount + 1
        /\ UNCHANGED <<reply, nonce, tracked>>
    BY <1>6 DEF Enlist, SetSub
  <2>2. ~ Owes(h)
    BY <1>2, <2>1 DEF Owes, OneSender, Active
  <2>3. ASSUME NEW g \in Txs, Owes(g) \/ g = h PROVE Owes(g)'
    <3>1. sub'[g] = IF g = h THEN "built" ELSE sub[g]
      BY <1>2, <2>1, Kinds
    <3>2. QED
      BY <1>3, <2>1, <2>3, <3>1 DEF Owes, Unsettled, NonceOf
  <2>4. h \notin Owed /\ Owed \cup {h} \subseteq Owed'
    BY <2>2, <2>3 DEF Owed
  <2>5. QED
    BY <1>1, <1>2, <1>4, <2>1, <2>4, PendingCounts, Kinds DEF Pending
<1>7. CASE Queue(h) \/ Abandon(h)
  <2>1. /\ sub[h] = "built"
        /\ \/ sub' = [sub EXCEPT ![h] = "flying"] /\ reply' = [reply EXCEPT ![h] = "none"]
           \/ sub' = [sub EXCEPT ![h] = "abandoned"] /\ reply' = reply
        /\ UNCHANGED <<nonce, tracked, pendingCount>>
    BY <1>7 DEF Queue, Abandon, SetSub
  <2>2. ASSUME NEW g \in Txs, Owes(g) PROVE Owes(g)'
    <3>1. \/ g = h /\ sub'[g] = "flying" /\ reply'[g] = "none"
          \/ g = h /\ sub'[g] = "abandoned"
          \/ g # h /\ sub'[g] = sub[g] /\ reply'[g] = reply[g]
      BY <1>2, <2>1, Kinds
    <3>2. QED
      BY <1>3, <2>1, <2>2, <3>1 DEF Owes, Unsettled, NonceOf
  <2>3. Owed \subseteq Owed'
    BY <2>2 DEF Owed
  <2>4. QED
    BY <1>1, <1>2, <1>4, <2>1, <2>3, PendingCounts, Kinds DEF Pending
<1>8. CASE Refuse(h)
  <2>1. /\ sub[h] = "built"
        /\ sub' = [sub EXCEPT ![h] = "idle"]
        /\ nonce' = [nonce EXCEPT ![NonceOf(h)] = "free"]
        /\ pendingCount' = SubSaturating
        /\ UNCHANGED <<reply, tracked>>
    BY <1>8 DEF Refuse, SetSub, SetNonce
  <2>2. ASSUME NEW g \in Txs, Owes(g), g # h PROVE Owes(g)'
    <3>1. sub'[g] = sub[g]
      BY <1>2, <2>1, <2>2, Kinds
    <3>2. nonce[NonceOf(h)] = "held"
      BY <1>2, <2>1 DEF OneSender, Active
    <3>3. nonce[NonceOf(g)] = "spent" => nonce'[NonceOf(g)] = "spent"
      BY <1>2, <2>1, <3>2, Kinds
    <3>4. QED
      BY <1>3, <2>1, <2>2, <3>1, <3>3 DEF Owes, Unsettled, NonceOf
  <2>3. Owed \ {h} \subseteq Owed'
    BY <2>2 DEF Owed
  <2>4. QED
    BY <1>1, <1>2, <1>4, <2>1, <2>3, PendingCounts, Kinds DEF Pending
<1>9. QED
  BY <1>5, <1>6, <1>7, <1>8 DEF Worker

(* The node: an answer that the transaction was taken comes before it has  *)
(* landed, while it is tracked.                                            *)
LEMMA NodePending ==
  ASSUME Pending, NEW h \in Txs, Node(h)
  PROVE  Pending'
<1> USE DEF metrics, node, watch
<1>1. Inv'
  BY NodeInv DEF Pending
<1>2. TypeOK /\ InHand /\ TrackedUntilLanded
  BY DEF Pending, Inv
<1>3. UNCHANGED <<config, gated, settling, tracked, sub, nonce, pendingCount>>
  BY DEF Node, Process, Mine, Drop
<1>4. \A g \in Txs : chain[g] \in Landed => chain'[g] = chain[g] \/ chain'[g] \in Landed
  <2>1. CASE Process(h)
    <3>1. \/ UNCHANGED chain
          \/ ~ Consumed(NonceOf(h)) /\ chain' = [chain EXCEPT ![h] = "pool"]
      BY <2>1 DEF Process
    <3>2. ~ Consumed(NonceOf(h)) => chain[h] \notin Landed
      BY DEF Consumed
    <3>3. QED
      BY <1>2, <3>1, <3>2, Kinds
  <2>2. CASE Mine(h)
    BY <1>2, <2>2, Kinds DEF Mine
  <2>3. CASE Drop(h)
    BY <1>2, <2>3, Kinds DEF Drop, Landed
  <2>4. QED
    BY <2>1, <2>2, <2>3 DEF Node
<1>5. InHand' /\ TrackedUntilLanded'
  BY <1>2, <1>3, <1>4, Kinds, HandsKept DEF Active
<1>6. \A g \in Txs :
        \/ reply'[g] = reply[g]
        \/ g = h /\ reply'[g] = "too_low"
        \/ g = h /\ sub[g] = "flying" /\ chain[g] \notin Landed
  <2>1. CASE Process(h)
    <3>1. \/ Answers(h, "too_low")
          \/ /\ Answers(h, "known") \/ Answers(h, "ok")
             /\ chain[h] \notin Landed
      BY <2>1 DEF Process, Consumed, Landed
    <3>2. QED
      BY <1>2, <3>1, Kinds DEF Answers
  <2>2. CASE Mine(h) \/ Drop(h)
    BY <2>2 DEF Mine, Drop
  <2>3. QED
    BY <2>1, <2>2 DEF Node
<1>7. ASSUME NEW g \in Txs, Owes(g) PROVE Owes(g)'
  <2>1. CASE g = h /\ sub[g] = "flying" /\ chain[g] \notin Landed
    <3>1. g \in tracked
      BY <1>2, <2>1 DEF TrackedUntilLanded, Active
    <3>2. QED
      BY <1>3, <2>1, <3>1 DEF Owes, Unsettled
  <2>2. CASE reply'[g] = reply[g] \/ reply'[g] = "too_low"
    BY <1>3, <1>7, <2>2 DEF Owes, Unsettled, NonceOf
  <2>3. QED
    BY <1>6, <2>1, <2>2
<1>8. Owed \subseteq Owed'
  BY <1>7 DEF Owed
<1>9. QED
  BY <1>1, <1>2, <1>3, <1>5, <1>8, PendingCounts, Kinds DEF Pending

(* The callback: an accepted transaction is owed only what it was before;  *)
(* every other outcome subtracts.                                          *)
LEMMA CallbackPending ==
  ASSUME Pending, NEW h \in Txs, Callback(h)
  PROVE  Pending'
<1> USE DEF metrics, node, watch
<1>1. Inv'
  BY CallbackInv DEF Pending
<1>2. TypeOK /\ OneSender /\ InHand /\ TrackedUntilLanded
  BY DEF Pending, Inv
<1>3. /\ UNCHANGED <<config, gated, settling, chain, reply>>
      /\ sub[h] = "flying"
      /\ sub' = [sub EXCEPT ![h] = "idle"]
      /\ tracked' = tracked \/ tracked' = tracked \ {h}
  BY DEF Callback, Accepted, TooLow, Failed, Cancelled, SetSub
<1>4. \A g \in Txs : sub'[g] = IF g = h THEN "idle" ELSE sub[g]
  BY <1>2, <1>3, Kinds
<1>5. InHand' /\ TrackedUntilLanded'
  BY <1>2, <1>3, <1>4, Kinds, HandsKept DEF Active
<1>6. nonce[NonceOf(h)] = "held"
  BY <1>2, <1>3 DEF OneSender, Active
<1>7. ASSUME NEW s \in {"free", "spent"},
             nonce' = [nonce EXCEPT ![NonceOf(h)] = s],
             NEW g \in Txs, g # h, Owes(g)
      PROVE  Owes(g)'
  <2>1. nonce[NonceOf(g)] = "spent" => nonce'[NonceOf(g)] = "spent"
    BY <1>2, <1>6, <1>7, Kinds
  <2>2. Unsettled(g) => Unsettled(g)'
    BY <1>3, <1>7 DEF Unsettled
  <2>3. QED
    BY <1>3, <1>4, <1>7, <2>1, <2>2 DEF Owes, NonceOf
<1>8. CASE Accepted(h)
  <2>1. /\ nonce' = [nonce EXCEPT ![NonceOf(h)] = "spent"]
        /\ reply[h] \in {"ok", "known"}
        /\ UNCHANGED <<pendingCount, tracked>>
    BY <1>8 DEF Accepted, SetNonce
  <2>2. Owes(h) => Owes(h)'
    <3>1. nonce'[NonceOf(h)] = "spent"
      BY <1>2, <2>1, Kinds
    <3>2. QED
      BY <1>3, <2>1, <3>1 DEF Owes, Unsettled, NonceOf
  <2>3. Owed \subseteq Owed'
    BY <1>7, <2>1, <2>2 DEF Owed
  <2>4. QED
    BY <1>1, <1>2, <1>5, <2>1, <2>3, PendingCounts, Kinds DEF Pending
<1>9. CASE TooLow(h) \/ Failed(h) \/ Cancelled(h)
  <2>1. /\ \E s \in {"free", "spent"} : nonce' = [nonce EXCEPT ![NonceOf(h)] = s]
        /\ pendingCount' = SubSaturating
    BY <1>9 DEF TooLow, Failed, Cancelled, SetNonce
  <2>2. Owed \ {h} \subseteq Owed'
    BY <1>7, <2>1 DEF Owed
  <2>3. QED
    BY <1>1, <1>2, <1>5, <2>1, <2>2, PendingCounts, Kinds DEF Pending
<1>10. QED
  BY <1>8, <1>9 DEF Callback

(* A watcher that takes a landed transaction out of the tracking has it in *)
(* its hands, to be settled: what was owed still is.                       *)
LEMMA TakenInHand ==
  ASSUME Pending, Inv', NEW w \in Watchers, NEW h \in Txs, chain[h] \in Landed,
         UNCHANGED <<config, chain, reply, sub, nonce, pendingCount>>,
         tracked' \in {tracked, tracked \ {h}},
         gated[w] \cup settling[w] \subseteq {h},
         \/ UNCHANGED settling /\ tracked' = tracked
            /\ gated' \in [Watchers -> SUBSET Txs]
            /\ settling[w] = {} /\ gated'[w] \subseteq {h}
            /\ \A v \in Watchers : v # w => gated'[v] = gated[v]
         \/ /\ settling' = [settling EXCEPT ![w] = {h}]
            /\ gated' \in [Watchers -> SUBSET Txs] /\ gated'[w] = {}
            /\ \A v \in Watchers : v # w => gated'[v] = gated[v]
  PROVE  Pending'
<1>1. TypeOK /\ InHand /\ TrackedUntilLanded
  BY DEF Pending, Inv
<1>2. \A v \in Watchers : v # w => gated'[v] = gated[v] /\ settling'[v] = settling[v]
  BY <1>1, Kinds
<1>3. /\ settling'[w] \in {settling[w], {h}} /\ gated'[w] \subseteq {h}
      /\ gated'[w] = {} \/ settling'[w] = {}
  BY <1>1, Kinds
<1>4. InHand'
  <2>1. ASSUME NEW v \in Watchers
        PROVE  /\ gated'[v] = {} \/ settling'[v] = {}
               /\ \A f, g \in gated'[v] \cup settling'[v] : f = g
               /\ \A g \in gated'[v] \cup settling'[v] : chain[g] \in Landed
    <3>1. CASE v = w
      <4>1. gated'[w] \cup settling'[w] \subseteq {h}
        BY <1>3
      <4>2. QED
        BY <1>3, <3>1, <4>1
    <3>2. CASE v # w
      BY <1>1, <1>2, <3>2 DEF InHand
    <3>3. QED
      BY <3>1, <3>2
  <2>2. QED
    BY <2>1 DEF InHand
<1>5. TrackedUntilLanded'
  BY <1>1 DEF TrackedUntilLanded, Active
<1>6. ASSUME NEW g \in Txs, Unsettled(g) PROVE Unsettled(g)'
  <2>1. CASE settling' = settling /\ tracked' = tracked
    BY <1>6, <2>1 DEF Unsettled
  <2>2. CASE settling' = [settling EXCEPT ![w] = {h}]
    <3>1. h \in settling'[w]
      BY <1>1, <2>2, Kinds
    <3>2. CASE g = h
      BY <3>1, <3>2 DEF Unsettled
    <3>3. CASE g # h
      <4>1. g \notin settling[w]
        BY <3>3
      <4>2. QED
        BY <1>2, <1>6, <3>3, <4>1 DEF Unsettled
    <3>4. QED
      BY <3>2, <3>3
  <2>3. QED
    BY <2>1, <2>2
<1>7. Owed \subseteq Owed'
  BY <1>6 DEF Owed, Owes, NonceOf
<1>8. QED
  BY <1>1, <1>4, <1>5, <1>7, PendingCounts, Kinds DEF Pending

(* The watcher comes to a transaction.                                     *)
LEMMA EventPending ==
  ASSUME Pending, NEW w \in Watchers, NEW h \in Txs,
         \/ Gate(w, h) \/ SkipNullBlock(w, h)
         \/ WsConfirmed(w, h) \/ WsDropped(w, h) \/ WsGap(w, h)
  PROVE  Pending'
<1> USE DEF metrics, node, watch
<1>1. Inv'
  BY EventInv DEF Pending
<1>2. TypeOK /\ InHand /\ TrackedUntilLanded
  BY DEF Pending, Inv
<1>3. CASE Gate(w, h)
  <2>1. /\ gated[w] = {} /\ settling[w] = {} /\ chain[h] \in Landed
        /\ gated' = [gated EXCEPT ![w] = {h} \cap tracked]
        /\ UNCHANGED <<config, chain, reply, sub, nonce, pendingCount, tracked,
                       settling>>
    BY <1>3 DEF Gate, Polling, Idle
  <2>2. /\ gated' \in [Watchers -> SUBSET Txs] /\ gated'[w] \subseteq {h}
        /\ \A v \in Watchers : v # w => gated'[v] = gated[v]
    BY <1>2, <2>1, Kinds
  <2>3. QED
    BY <1>1, <2>1, <2>2, TakenInHand
<1>4. CASE WsConfirmed(w, h)
  <2>1. /\ gated[w] = {} /\ settling[w] = {} /\ chain[h] \in Landed
        /\ settling' = [settling EXCEPT ![w] = {h}]
        /\ tracked' = tracked \ {h}
        /\ UNCHANGED <<config, chain, reply, sub, nonce, pendingCount, gated>>
    BY <1>4 DEF WsConfirmed, Reading, Idle, RecordTxConfirmed
  <2>2. gated' \in [Watchers -> SUBSET Txs] /\ gated'[w] = {}
    BY <1>2, <2>1, Kinds
  <2>3. QED
    BY <1>1, <2>1, <2>2, TakenInHand
<1>5. CASE SkipNullBlock(w, h) \/ WsGap(w, h)
  <2>1. UNCHANGED <<config, chain, reply, sub, nonce, pendingCount, tracked,
                    gated, settling>>
    BY <1>5 DEF SkipNullBlock, WsGap
  <2>2. InHand' /\ TrackedUntilLanded'
    BY <1>2, <2>1, Kinds, HandsKept DEF Active
  <2>3. Owed' = Owed
    BY <2>1 DEF Owed, Owes, Unsettled, NonceOf
  <2>4. QED
    BY <1>1, <1>2, <2>1, <2>2, <2>3, PendingCounts, Kinds DEF Pending
<1>6. CASE WsDropped(w, h)
  <2>1. /\ UNCHANGED <<config, reply, sub, nonce, tracked, gated, settling>>
        /\ chain[h] = "dropped"
        /\ chain' = [chain EXCEPT ![h] = "absent"]
        /\ pendingCount' = SubSaturating
    BY <1>6 DEF WsDropped
  <2>2. \A g \in Txs : chain[g] \in Landed => chain'[g] \in Landed
    BY <1>2, <2>1, Kinds DEF Landed
  <2>3. InHand' /\ TrackedUntilLanded'
    BY <1>2, <2>1, <2>2, Kinds, HandsKept DEF Active
  <2>4. Owed' = Owed
    BY <2>1 DEF Owed, Owes, Unsettled, NonceOf
  <2>5. Owed \ {h} \subseteq Owed'
    BY <2>4
  <2>6. QED
    BY <1>1, <1>2, <2>1, <2>3, <2>5, PendingCounts, Kinds DEF Pending
<1>7. QED
  BY <1>3, <1>4, <1>5, <1>6

(* The watcher.                                                            *)
LEMMA WatcherPending ==
  ASSUME Pending, NEW w \in Watchers, Watcher(w)
  PROVE  Pending'
<1> USE DEF metrics, node, watch
<1>1. Inv'
  BY WatcherInv DEF Pending
<1>2. TypeOK /\ InHand /\ TrackedUntilLanded
  BY DEF Pending, Inv
<1>3. CASE Count(w)
  <2>1. PICK h \in gated[w] :
          /\ tracked' = tracked \ {h}
          /\ gated' = [gated EXCEPT ![w] = {}]
          /\ settling' = [settling EXCEPT ![w] = {h}]
          /\ UNCHANGED <<config, chain, reply, sub, nonce, pendingCount>>
    BY <1>3 DEF Count, RecordTxConfirmed
  <2>2. /\ h \in Txs /\ chain[h] \in Landed
        /\ gated[w] \cup settling[w] \subseteq {h}
    BY <1>2, Kinds DEF InHand
  <2>3. /\ gated' \in [Watchers -> SUBSET Txs] /\ gated'[w] = {}
        /\ \A v \in Watchers : v # w => gated'[v] = gated[v]
    BY <1>2, <2>1, Kinds
  <2>4. QED
    BY <1>1, <2>1, <2>2, <2>3, TakenInHand
<1>4. CASE Settle(w)
  <2>1. PICK h \in settling[w] :
          /\ pendingCount' = SubSaturating
          /\ settling' = [settling EXCEPT ![w] = {}]
          /\ UNCHANGED <<config, chain, reply, sub, nonce, tracked, gated>>
    BY <1>4 DEF Settle
  <2>2. settling[w] \subseteq {h}
    BY <1>2 DEF InHand
  <2>3. \A v \in Watchers : settling'[v] = IF v = w THEN {} ELSE settling[v]
    BY <1>2, <2>1, Kinds
  <2>4. InHand'
    BY <1>2, <2>1, <2>3 DEF InHand
  <2>5. TrackedUntilLanded'
    BY <1>2, <2>1 DEF TrackedUntilLanded, Active
  <2>6. ASSUME NEW g \in Txs, g # h, Unsettled(g) PROVE Unsettled(g)'
    BY <2>1, <2>2, <2>3, <2>6 DEF Unsettled
  <2>7. Owed \ {h} \subseteq Owed'
    BY <2>1, <2>6 DEF Owed, Owes, NonceOf
  <2>8. QED
    BY <1>1, <1>2, <2>1, <2>4, <2>5, <2>7, PendingCounts, Kinds DEF Pending
<1>5. CASE Exit(w)
  <2>1. UNCHANGED <<config, chain, reply, sub, nonce, pendingCount, tracked,
                    gated, settling>>
    BY <1>5 DEF Exit
  <2>2. InHand' /\ TrackedUntilLanded'
    BY <1>2, <2>1, Kinds, HandsKept DEF Active
  <2>3. Owed' = Owed
    BY <2>1 DEF Owed, Owes, Unsettled, NonceOf
  <2>4. QED
    BY <1>1, <1>2, <2>1, <2>2, <2>3, PendingCounts, Kinds DEF Pending
<1>6. QED
  BY <1>3, <1>4, <1>5, EventPending DEF Watcher, Poller

(* The end of the run: a receipt settles in the same step.                 *)
LEMMA StopPending ==
  ASSUME Pending, Stop
  PROVE  Pending'
<1> USE DEF metrics, node, watch
<1>1. Inv'
  BY StopInv DEF Pending
<1>2. TypeOK /\ InHand /\ TrackedUntilLanded
  BY DEF Pending, Inv
<1>3. CASE UNCHANGED <<tracked, pendingCount>>
  <2>1. UNCHANGED <<config, chain, reply, sub, nonce, gated, settling>>
    BY DEF Stop, Complete, ForceStop, RecordEnd, StartResolve, Finalize, Resolve
  <2>2. InHand' /\ TrackedUntilLanded'
    BY <1>2, <1>3, <2>1, Kinds, HandsKept DEF Active
  <2>3. Owed' = Owed
    BY <1>3, <2>1 DEF Owed, Owes, Unsettled, NonceOf
  <2>4. QED
    BY <1>1, <1>2, <1>3, <2>2, <2>3, PendingCounts, Kinds DEF Pending
<1>4. ASSUME NEW h \in Txs, chain[h] \in {"mined", "late"}, Resolve(h),
             RecordTxConfirmed(h), pendingCount' = SubSaturating
      PROVE  Pending'
  <2>1. /\ UNCHANGED <<config, chain, reply, sub, nonce, gated, settling>>
        /\ tracked' = tracked \ {h}
        /\ chain[h] \in Landed
    BY <1>4 DEF Resolve, RecordTxConfirmed, Landed
  <2>2. InHand' /\ TrackedUntilLanded'
    BY <1>2, <2>1, Kinds, HandsKept DEF Active
  <2>3. \A g \in Txs : g # h /\ Unsettled(g) => Unsettled(g)'
    BY <2>1 DEF Unsettled
  <2>4. Owed \ {h} \subseteq Owed'
    BY <2>1, <2>3 DEF Owed, Owes, NonceOf
  <2>5. QED
    BY <1>1, <1>2, <1>4, <2>2, <2>4, PendingCounts, Kinds DEF Pending
<1>5. \/ UNCHANGED <<tracked, pendingCount>>
      \/ \E h \in Txs : /\ chain[h] \in {"mined", "late"} /\ Resolve(h)
                        /\ RecordTxConfirmed(h) /\ pendingCount' = SubSaturating
  BY DEF Stop, Complete, ForceStop, RecordEnd, StartResolve, Finalize, Resolve
<1>6. QED
  BY <1>3, <1>4, <1>5

(* Nothing is pending at the start, and every step keeps the balance.      *)
LEMMA PendingInvariance == Spec => []Pending
<1>1. Init => Pending
  <2> SUFFICES ASSUME Init PROVE Pending
    OBVIOUS
  <2>1. InHand /\ TrackedUntilLanded
    BY DEF Init, InHand, TrackedUntilLanded, Active
  <2>2. IsFiniteSet(Owed)
    <3>1. Owed \subseteq Txs
      BY DEF Owed
    <3>2. QED
      BY <3>1, Constants, FS_Subset
  <2>3. pendingCount <= Cardinality(Owed)
    BY <2>2, FS_CardinalityType DEF Init
  <2>4. QED
    BY InitInv, <2>1, <2>3 DEF Pending
<1>2. Pending /\ [Next]_vars => Pending'
  <2> SUFFICES ASSUME Pending, [Next]_vars PROVE Pending'
    OBVIOUS
  <2>1. CASE UNCHANGED vars
    <3>1. UNCHANGED <<config, phase, forced, endKnown, chain, net, reply, nonce,
                      sub, tracked, txSent, txConfirmed, txFailed, pendingCount,
                      log, reading, seen, gated, settling, lookup, tooLow>>
      BY <2>1 DEF vars, node, metrics, watch
    <3>2. Inv'
      <4>1. TypeOK'
        BY <3>1 DEF Pending, Inv, TypeOK
      <4>2. QED
        BY <3>1, <4>1, Frame DEF Pending, Inv
    <3>3. InHand' /\ TrackedUntilLanded'
      BY <3>1 DEF Pending, InHand, TrackedUntilLanded, Active
    <3>4. Owed' = Owed
      BY <3>1 DEF Owed, Owes, Unsettled, NonceOf
    <3>5. QED
      BY <3>1, <3>2, <3>3, <3>4 DEF Pending
  <2>2. CASE Next
    BY <2>2, WorkerPending, NodePending, CallbackPending, WatcherPending,
       StopPending
    DEF Next
  <2>3. QED
    BY <2>1, <2>2
<1>3. QED
  BY <1>1, <1>2, PTL DEF Spec

(* pendingCount never claims more transactions than may be pending: no     *)
(* order of callbacks, watchers and receipts leaves it inflated.           *)
THEOREM PendingNeverInflated == Spec => []NoPendingLeak
<1>1. Pending => NoPendingLeak
  <2> SUFFICES ASSUME Pending PROVE pendingCount <= Cardinality(Open)
    BY DEF NoPendingLeak
  <2>1. Owed \subseteq Open /\ Open \subseteq Txs
    BY DEF Owed, Owes, Unsettled, Open
  <2>2. /\ Cardinality(Owed) <= Cardinality(Open)
        /\ Cardinality(Owed) \in Nat /\ Cardinality(Open) \in Nat
    BY <2>1, Constants, FS_Subset, FS_CardinalityType
  <2>3. pendingCount \in Nat /\ pendingCount <= Cardinality(Owed)
    BY Kinds DEF Pending, Inv
  <2>4. QED
    BY <2>2, <2>3
<1>2. QED
  BY PendingInvariance, <1>1, PTL
=============================================================================
