------------------------- MODULE NonceAccountProofs -------------------------
(***************************************************************************)
(* Theorems about NonceAccount, for every number of reservations and       *)
(* resyncs and every MaxNonce.                                             *)
(***************************************************************************)
EXTENDS NonceAccount, TLAPS

(* The confirmed count a rejection's resync has read is not above the      *)
(* chain's, and without the adaptive controller nothing else resyncs.      *)
ReadsSound ==
  /\ \A r \in Resyncers :
       resync[r].kind = "rejection" => resync[r].value <= chainNonce
  /\ ~CircuitBreaker => \A r \in Resyncers : resync[r].kind # "circuit"

(* The inductive invariant.  OneHolder alone is not inductive: a rollback  *)
(* gives back a nonce that must be below the counter and outside the free  *)
(* list (FreeListSound), or ReserveNonce would hand it out twice.          *)
Inv ==
  /\ TypeOK
  /\ OneHolder
  /\ FreeListSound
  /\ NoReissue
  /\ ReadsSound

(* Initially nothing is reserved, free or being read.                      *)
LEMMA InitInv == Init => Inv
  BY Constants
  DEF Init, Inv, TypeOK, OneHolder, FreeListSound, NoReissue, ReadsSound,
      Live, TicketStates, Phases, NotReading, Nonces

(* ReserveNonce hands out a nonce nobody holds, below MaxNonce.            *)
LEMMA ReserveInv ==
  ASSUME Inv, NEW t \in Tickets, ReserveNonce(t)
  PROVE  Inv'
<1> USE Constants
<1>1. PICK n \in Nonces :
        /\ TakeNonce(n)
        /\ state' = [state EXCEPT ![t] = "held"]
        /\ value' = [value EXCEPT ![t] = n]
  BY DEF ReserveNonce
<1>2. UNCHANGED <<committed, resync, phase, wire, pool, chainNonce>>
  BY DEF ReserveNonce, network
<1>3. /\ nonce' \in Nat /\ freeNonces' \subseteq freeNonces
      /\ nonce <= nonce' /\ n < nonce' /\ n \notin freeNonces'
      /\ nonce' <= MaxNonce
      /\ n \in freeNonces \/ n = nonce
  BY <1>1 DEF Inv, TypeOK, FreeListSound, TakeNonce, Nonces
<1>4. TypeOK'
  BY <1>1, <1>2, <1>3 DEF Inv, TypeOK, TicketStates, Nonces
<1>5. OneHolder'
  BY <1>1, <1>3 DEF Inv, OneHolder, FreeListSound, TypeOK, Live, Nonces
<1>6. FreeListSound'
  BY <1>1, <1>3 DEF Inv, FreeListSound, TypeOK, Live, Nonces
<1>7. NoReissue'
  BY <1>1, <1>2, <1>3 DEF Inv, NoReissue, FreeListSound, TypeOK, Live, Nonces
<1>8. ReadsSound'
  BY <1>2 DEF Inv, ReadsSound
<1>9. QED
  BY <1>4, <1>5, <1>6, <1>7, <1>8 DEF Inv

(* A rollback makes its nonce available again and nothing else.            *)
LEMMA RollbackApplyInv ==
  ASSUME Inv, NEW t \in Tickets, RollbackApply(t)
  PROVE  Inv'
<1> USE Constants
<1> DEFINE n == value[t]
<1>1. /\ Live(t) /\ n \in Nat /\ n < nonce /\ n \notin freeNonces
      /\ n \in Nonces
  BY DEF Inv, FreeListSound, TypeOK, RollbackApply, Live, Nonces
<1>2. UNCHANGED <<committed, resync, phase, wire, pool, chainNonce>>
  BY DEF RollbackApply, network
<1>3. /\ state' = [state EXCEPT ![t] = "idle"]
      /\ value' = [value EXCEPT ![t] = 0]
  BY DEF RollbackApply, Drop
<1>4. /\ nonce' \in 0..MaxNonce
      /\ \/ nonce' = n /\ nonce = n + 1 /\ freeNonces' = freeNonces
         \/ nonce' = nonce /\ nonce # n + 1 /\ freeNonces' = freeNonces \cup {n}
  BY <1>1 DEF RollbackApply, GiveBack, Inv, TypeOK, Nonces
<1>5. \A u \in Tickets : Live(u)' => u # t /\ Live(u) /\ value'[u] = value[u]
  BY <1>3 DEF Inv, TypeOK, Live
<1>6. \A u \in Tickets : Live(u)' => value[u] # n
  BY <1>1, <1>5 DEF Inv, OneHolder
<1>7. TypeOK'
  BY <1>1, <1>2, <1>3, <1>4 DEF Inv, TypeOK, TicketStates
<1>8. OneHolder'
  BY <1>5 DEF Inv, OneHolder
<1>9. FreeListSound'
  <2>1. ASSUME NEW m \in freeNonces'
        PROVE  m < nonce'
    <3>1. m \in freeNonces => m \in Int /\ m < nonce /\ m # n
      BY <1>1 DEF Inv, FreeListSound, TypeOK, Nonces
    <3>2. m \in freeNonces \/ (m = n /\ nonce' = nonce)
      BY <1>4
    <3>3. n \in Int /\ nonce \in Int
      BY <1>1 DEF Inv, TypeOK
    <3>4. QED
      BY <3>1, <3>2, <3>3, <1>1, <1>4
  <2>2. ASSUME NEW u \in Tickets, Live(u)'
        PROVE  value'[u] < nonce' /\ value'[u] \notin freeNonces'
    BY <2>2, <1>1, <1>4, <1>5, <1>6 DEF Inv, FreeListSound, TypeOK
  <2>3. QED
    BY <2>1, <2>2 DEF FreeListSound
<1>10. NoReissue'
  <2>1. ASSUME NEW m \in committed
        PROVE  m # n /\ m < nonce' /\ m \notin freeNonces'
    BY <1>1, <1>4 DEF Inv, NoReissue, TypeOK
  <2>2. QED
    BY <2>1, <1>2, <1>5 DEF Inv, NoReissue
<1>11. ReadsSound'
  BY <1>2 DEF Inv, ReadsSound
<1>12. QED
  BY <1>7, <1>8, <1>9, <1>10, <1>11 DEF Inv

(* An acknowledged nonce stays below the counter and out of the free list. *)
LEMMA CommitInv ==
  ASSUME Inv, NEW t \in Tickets, Commit(t)
  PROVE  Inv'
<1> USE Constants
<1>1. /\ UNCHANGED <<nonce, freeNonces, resync, phase, wire, pool, chainNonce>>
      /\ state[t] = "sent"
      /\ state' = [state EXCEPT ![t] = "idle"]
      /\ value' = [value EXCEPT ![t] = 0]
      /\ committed' = committed \cup {value[t]}
  BY DEF Commit, Drop, account, network
<1>2. \A u \in Tickets : Live(u)' => u # t /\ Live(u) /\ value'[u] = value[u]
  BY <1>1 DEF Inv, TypeOK, Live
<1>3. /\ value[t] < nonce /\ value[t] \notin freeNonces
      /\ \A u \in Tickets : Live(u)' => value[u] # value[t]
  BY <1>1, <1>2 DEF Inv, FreeListSound, OneHolder, Live
<1>4. TypeOK'
  BY <1>1 DEF Inv, TypeOK, TicketStates
<1>5. OneHolder' /\ FreeListSound'
  BY <1>1, <1>2 DEF Inv, OneHolder, FreeListSound
<1>6. NoReissue'
  BY <1>1, <1>2, <1>3 DEF Inv, NoReissue
<1>7. ReadsSound'
  BY <1>1 DEF Inv, ReadsSound
<1>8. QED
  BY <1>4, <1>5, <1>6, <1>7 DEF Inv

(* A ticket step that keeps the account and the ticket's nonce, and brings *)
(* no dead ticket back.                                                    *)
LEMMA TicketStepInv ==
  ASSUME Inv, NEW t \in Tickets, Rollback(t) \/ Abandon(t) \/ Send(t)
  PROVE  Inv'
<1> USE Constants
<1>1. /\ UNCHANGED <<nonce, freeNonces, value, committed, resync, phase, pool,
                     chainNonce>>
      /\ Live(t)
      /\ \E s \in TicketStates : state' = [state EXCEPT ![t] = s]
  BY DEF Rollback, Abandon, Send, account, network, Live, TicketStates
<1>2. \A u \in Tickets : Live(u)' => Live(u)
  BY <1>1 DEF Inv, TypeOK, Live
<1>3. wire' = wire \/ wire' = wire \cup {value[t]}
  BY DEF Rollback, Abandon, Send, network
<1>4. value[t] \in Nonces
  BY <1>1 DEF Inv, TypeOK, FreeListSound, Nonces
<1>5. TypeOK'
  BY <1>1, <1>3, <1>4 DEF Inv, TypeOK
<1>6. OneHolder' /\ FreeListSound' /\ NoReissue' /\ ReadsSound'
  BY <1>1, <1>2 DEF Inv, OneHolder, FreeListSound, NoReissue, ReadsSound
<1>7. QED
  BY <1>5, <1>6 DEF Inv

(* A resync only reads the chain before it takes the lock.                 *)
LEMMA ResyncReadInv ==
  ASSUME Inv, NEW r \in Resyncers, ResyncRead(r)
  PROVE  Inv'
<1> USE Constants
<1>1. UNCHANGED <<nonce, freeNonces, state, value, committed, phase, wire, pool,
                  chainNonce>>
  BY DEF ResyncRead, account, tickets, network
<1>2. \E k \in {"rejection", "circuit"}, v \in 0..MaxNonce :
        /\ resync' = [resync EXCEPT ![r] = [kind |-> k, value |-> v]]
        /\ k = "rejection" => v <= chainNonce
        /\ k = "circuit" => CircuitBreaker
  BY DEF ResyncRead, ConfirmedView, PendingView, Inv, TypeOK
<1>3. TypeOK'
  BY <1>1, <1>2 DEF Inv, TypeOK
<1>4. OneHolder' /\ FreeListSound' /\ NoReissue'
  BY <1>1 DEF Inv, OneHolder, FreeListSound, NoReissue, Live
<1>5. ReadsSound'
  BY <1>1, <1>2 DEF Inv, ReadsSound, TypeOK
<1>6. QED
  BY <1>3, <1>4, <1>5 DEF Inv

(* Applying a resync only raises the counter and shortens the free list.   *)
LEMMA ResyncApplyInv ==
  ASSUME Inv, NEW r \in Resyncers, MaybeResyncApply(r) \/ ResyncApply(r)
  PROVE  Inv'
<1> USE Constants
<1>1. /\ UNCHANGED <<state, value, committed, phase, wire, pool, chainNonce>>
      /\ resync' = [resync EXCEPT ![r] = NotReading]
      /\ nonce' = SetIfHigher(resync[r].value)
      /\ freeNonces' \subseteq freeNonces
  BY DEF MaybeResyncApply, ResyncApply, tickets, network
<1>2. /\ nonce' \in 0..MaxNonce
      /\ nonce <= nonce'
  BY <1>1 DEF SetIfHigher, Inv, TypeOK
<1>3. TypeOK'
  BY <1>1, <1>2 DEF Inv, TypeOK, NotReading
<1>4. OneHolder'
  BY <1>1 DEF Inv, OneHolder, Live
<1>5. FreeListSound'
  BY <1>1, <1>2 DEF Inv, FreeListSound, TypeOK, Live, Nonces
<1>6. NoReissue'
  BY <1>1, <1>2 DEF Inv, NoReissue, TypeOK, Live
<1>7. ReadsSound'
  BY <1>1 DEF Inv, ReadsSound, TypeOK, NotReading
<1>8. QED
  BY <1>3, <1>4, <1>5, <1>6, <1>7 DEF Inv

(* A forced resync may lower the counter: nothing is reserved or committed.*)
LEMMA ForceResyncInv ==
  ASSUME Inv, ForceResync \/ ForceResyncFromChain
  PROVE  Inv'
<1> USE Constants
<1>1. /\ nonce' \in 0..MaxNonce /\ freeNonces' = {} /\ committed' = {}
      /\ state' = [t \in Tickets |-> "idle"]
      /\ value' = [t \in Tickets |-> 0]
      /\ phase' = "ready"
      /\ UNCHANGED <<resync, wire, pool, chainNonce>>
  BY DEF ForceResync, ForceResyncFromChain, Overwrite, PendingView,
         ConfirmedView, network, Inv, TypeOK
<1>2. TypeOK'
  BY <1>1 DEF Inv, TypeOK, TicketStates, Phases
<1>3. OneHolder' /\ FreeListSound' /\ NoReissue' /\ ReadsSound'
  BY <1>1 DEF Inv, OneHolder, FreeListSound, NoReissue, ReadsSound, Live
<1>4. QED
  BY <1>2, <1>3 DEF Inv

(* The test, the endpoint and the chain leave the account alone, and the   *)
(* chain's count only grows.                                               *)
LEMMA EnvironmentInv ==
  ASSUME Inv,
         \/ StartWorkers \/ GiveUp \/ Cancel \/ Stop \/ ChainAdvance
         \/ FlushPool \/ SpendElsewhere
         \/ \E n \in Nonces : Deliver(n) \/ Lose(n)
  PROVE  Inv'
<1> USE Constants
<1>1. UNCHANGED <<nonce, freeNonces, state, value, committed, resync>>
  BY DEF StartWorkers, GiveUp, Cancel, Stop, ChainAdvance, FlushPool,
         SpendElsewhere, Deliver, Lose, account, tickets
<1>2. phase' \in Phases
  BY DEF StartWorkers, GiveUp, Cancel, Stop, ChainAdvance, FlushPool,
         SpendElsewhere, Deliver, Lose, Phases, Inv, TypeOK
<1>3. wire' \subseteq wire /\ pool' \in SUBSET Nonces
  BY DEF StartWorkers, GiveUp, Cancel, Stop, ChainAdvance, FlushPool,
         SpendElsewhere, Deliver, Lose, network, Inv, TypeOK
<1>4. chainNonce' \in 0..MaxNonce /\ chainNonce <= chainNonce'
  BY DEF StartWorkers, GiveUp, Cancel, Stop, ChainAdvance, FlushPool,
         SpendElsewhere, Deliver, Lose, network, Inv, TypeOK, Nonces
<1>5. TypeOK'
  BY <1>1, <1>2, <1>3, <1>4 DEF Inv, TypeOK
<1>6. OneHolder' /\ FreeListSound' /\ NoReissue'
  BY <1>1 DEF Inv, OneHolder, FreeListSound, NoReissue, Live
<1>7. ReadsSound'
  BY <1>1, <1>4 DEF Inv, ReadsSound, TypeOK
<1>8. QED
  BY <1>5, <1>6, <1>7 DEF Inv

(* Every step of the account, its users and the chain keeps the invariant. *)
LEMMA StepInv == Inv /\ [Next]_vars => Inv'
<1> SUFFICES ASSUME Inv, [Next]_vars
             PROVE  Inv'
  OBVIOUS
<1>1. CASE UNCHANGED vars
  BY <1>1 DEF vars, account, tickets, network, Inv, TypeOK, OneHolder,
              FreeListSound, NoReissue, ReadsSound, Live
<1>2. CASE Next
  BY <1>2, ReserveInv, RollbackApplyInv, CommitInv, TicketStepInv,
     ResyncReadInv, ResyncApplyInv, ForceResyncInv, EnvironmentInv DEF Next
<1>3. QED
  BY <1>1, <1>2

(* The account's invariant holds in every state of every behaviour.        *)
THEOREM InvAlways == Spec => []Inv
  BY InitInv, StepInv, PTL DEF Spec

(* The counter and every nonce in the account stay within their range.     *)
THEOREM TypeCorrect == Spec => []TypeOK
<1>1. Inv => TypeOK
  BY DEF Inv
<1>2. QED
  BY <1>1, InvAlways, PTL

(* No nonce is in two reservations, however rollbacks, commits and resyncs *)
(* interleave, the circuit breaker's included.                             *)
THEOREM OneHolderAlways == Spec => []OneHolder
<1>1. Inv => OneHolder
  BY DEF Inv
<1>2. QED
  BY <1>1, InvAlways, PTL

(* Counter and free list never offer the same nonce, nor a reserved one.   *)
THEOREM FreeListSoundAlways == Spec => []FreeListSound
<1>1. Inv => FreeListSound
  BY DEF Inv
<1>2. QED
  BY <1>1, InvAlways, PTL

(* No acknowledged nonce is handed out again in the same run.              *)
THEOREM NoReissueAlways == Spec => []NoReissue
<1>1. Inv => NoReissue
  BY DEF Inv
<1>2. QED
  BY <1>1, InvAlways, PTL

-----------------------------------------------------------------------------
(* Without the circuit breaker's resync no nonce is lost below the counter.*)

(* Inside a test, whoever stops covering a nonce either passes it to       *)
(* another that does or lowers the counter to it.                          *)
LEMMA StepNoHole ==
  ASSUME CircuitBreaker = FALSE, Inv, NoHole, [Next]_vars
  PROVE  NoHole'
<1> USE Constants DEF Inv
<1> SUFFICES ASSUME (phase \in {"ready", "running"})',
                    NEW n \in (chainNonce..(nonce - 1))'
             PROVE  Covered(n)'
  BY DEF NoHole
<1>0. /\ nonce \in Int /\ chainNonce \in Int
      /\ nonce' \in Int /\ chainNonce' \in Int
      /\ n \in Int /\ chainNonce' <= n /\ n < nonce'
  BY StepInv DEF TypeOK
<1> DEFINE Before == /\ phase \in {"ready", "running"}
                     /\ chainNonce <= n
                     /\ n < nonce
<1>1. Before => Covered(n)
  BY <1>0 DEF NoHole
<1>2. ASSUME NEW t \in Tickets, ReserveNonce(t)
      PROVE  Covered(n)'
  <2>1. PICK m \in Nonces :
          /\ TakeNonce(m)
          /\ state' = [state EXCEPT ![t] = "held"]
          /\ value' = [value EXCEPT ![t] = m]
          /\ state[t] = "idle"
    BY <1>2 DEF ReserveNonce
  <2>2. /\ phase \in {"ready", "running"}
        /\ UNCHANGED <<chainNonce, pool>>
    BY <1>2 DEF ReserveNonce, network
  <2>3. Live(t)' /\ value'[t] = m
    BY <2>1 DEF Live, TypeOK
  <2>4. CASE n = m
    BY <2>3, <2>4 DEF Covered
  <2>5. CASE n # m
    <3>1. Before /\ (n \in freeNonces => n \in freeNonces')
      BY <1>0, <2>1, <2>2, <2>5 DEF TakeNonce
    <3>2. \A u \in Tickets : Live(u) => Live(u)' /\ value'[u] = value[u]
      BY <2>1 DEF Live, TypeOK
    <3>3. QED
      BY <1>1, <2>2, <3>1, <3>2 DEF Covered
  <2>6. QED
    BY <2>4, <2>5
<1>3. ASSUME NEW t \in Tickets, RollbackApply(t)
      PROVE  Covered(n)'
  <2>1. /\ state[t] = "returning"
        /\ state' = [state EXCEPT ![t] = "idle"]
        /\ value' = [value EXCEPT ![t] = 0]
        /\ UNCHANGED <<phase, pool, chainNonce>>
        /\ GiveBack(value[t])
        /\ value[t] \in Int
    BY <1>3 DEF RollbackApply, Drop, network, TypeOK
  <2>2. /\ n < nonce
        /\ freeNonces \subseteq freeNonces'
        /\ n = value[t] => n \in freeNonces'
    BY <1>0, <2>1 DEF GiveBack
  <2>3. \A u \in Tickets :
          Live(u) /\ u # t => Live(u)' /\ value'[u] = value[u]
    BY <2>1 DEF Live, TypeOK
  <2>4. QED
    BY <1>1, <2>1, <2>2, <2>3 DEF Covered
<1>4. ASSUME NEW t \in Tickets, Commit(t)
      PROVE  Covered(n)'
  <2>1. /\ state' = [state EXCEPT ![t] = "idle"]
        /\ value' = [value EXCEPT ![t] = 0]
        /\ UNCHANGED <<nonce, freeNonces, phase, pool, chainNonce>>
        /\ value[t] \in pool \/ value[t] < chainNonce
        /\ value[t] \in Int
    BY <1>4 DEF Commit, Drop, account, network, TypeOK
  <2>2. \A u \in Tickets :
          Live(u) /\ u # t => Live(u)' /\ value'[u] = value[u]
    BY <2>1 DEF Live, TypeOK
  <2>3. n = value[t] => n \in pool'
    BY <1>0, <2>1
  <2>4. QED
    BY <1>0, <1>1, <2>1, <2>2, <2>3 DEF Covered
<1>5. ASSUME NEW t \in Tickets, Rollback(t) \/ Abandon(t) \/ Send(t)
      PROVE  Covered(n)'
  <2>1. UNCHANGED <<nonce, freeNonces, value, phase, pool, chainNonce>>
    BY <1>5 DEF Rollback, Abandon, Send, account, network
  <2>2. \A u \in Tickets : Live(u) => Live(u)'
    BY <1>5, <2>1 DEF Rollback, Abandon, Send, Live, TypeOK
  <2>3. QED
    BY <1>0, <1>1, <2>1, <2>2 DEF Covered
<1>6. ASSUME NEW r \in Resyncers, MaybeResyncApply(r)
      PROVE  Covered(n)'
  <2>1. /\ UNCHANGED <<state, value, phase, pool, chainNonce>>
        /\ resync[r].value <= chainNonce /\ resync[r].value \in Int
        /\ nonce' = SetIfHigher(resync[r].value)
        /\ freeNonces' = {m \in freeNonces : m >= resync[r].value}
    BY <1>6 DEF MaybeResyncApply, tickets, network, ReadsSound, TypeOK
  <2>2. n < nonce /\ (n \in freeNonces => n \in freeNonces')
    BY <1>0, <2>1 DEF SetIfHigher
  <2>3. QED
    BY <1>1, <2>1, <2>2 DEF Covered, Live
<1>7. ASSUME NEW r \in Resyncers, ResyncApply(r)
      PROVE  FALSE
  BY <1>7 DEF ResyncApply, ReadsSound
<1>8. ASSUME NEW r \in Resyncers, ResyncRead(r)
      PROVE  Covered(n)'
  BY <1>0, <1>1, <1>8 DEF ResyncRead, Covered, Live, account, tickets, network
<1>9. CASE ForceResync \/ ForceResyncFromChain
  <2>1. nonce' <= chainNonce \/ nonce' \in PendingView
    BY <1>9 DEF ForceResync, ForceResyncFromChain, Overwrite, ConfirmedView,
                TypeOK
  <2>2. UNCHANGED <<pool, chainNonce>>
    BY <1>9 DEF ForceResync, ForceResyncFromChain, network
  <2>3. QED
    BY <1>0, <2>1, <2>2 DEF PendingView, Covered
<1>10. CASE \/ StartWorkers \/ GiveUp \/ Cancel \/ Stop \/ ChainAdvance
            \/ FlushPool \/ SpendElsewhere
            \/ \E m \in Nonces : Deliver(m) \/ Lose(m)
  <2>1. /\ UNCHANGED <<nonce, freeNonces, state, value>>
        /\ phase \in {"ready", "running"}
    BY <1>10 DEF StartWorkers, GiveUp, Cancel, Stop, ChainAdvance, FlushPool,
                 SpendElsewhere, Deliver, Lose, account, tickets
  <2>2. chainNonce <= n /\ (n \in pool => n \in pool')
    BY <1>0, <1>10, <2>1
    DEF StartWorkers, GiveUp, Cancel, Stop, ChainAdvance, FlushPool,
        SpendElsewhere, Deliver, Lose, network, TypeOK
  <2>3. QED
    BY <1>0, <1>1, <2>1, <2>2 DEF Covered, Live
<1>11. CASE UNCHANGED vars
  BY <1>0, <1>1, <1>11 DEF vars, account, tickets, network, Covered, Live
<1>12. QED
  BY <1>2, <1>3, <1>4, <1>5, <1>6, <1>7, <1>8, <1>9, <1>10, <1>11 DEF Next

(* What MaybeResyncFromChain's comment promises, for the patterns that do  *)
(* not run the adaptive controller.                                        *)
THEOREM NoHoleAlways ==
  ASSUME CircuitBreaker = FALSE
  PROVE  Spec => []NoHole
<1>1. Init => NoHole
  BY DEF Init, NoHole
<1>2. Inv /\ NoHole /\ [Next]_vars => NoHole'
  BY StepNoHole
<1>3. QED
  BY <1>1, <1>2, InvAlways, PTL DEF Spec

-----------------------------------------------------------------------------
(* The counter and free list implement NonceLedger.                        *)

(* A new account has every nonce available and no reservation.             *)
LEMMA InitLedger == Init => Ledger!Init
  BY DEF Init, Ledger!Init, Taken, Holder, Live, Ledger!NoNonce

(* A step that leaves the account and the nonces in hand alone stutters.   *)
LEMMA SameLedger ==
  ASSUME UNCHANGED account,
         \A t \in Tickets :
           Live(t)' = Live(t) /\ (Live(t) => value'[t] = value[t])
  PROVE  UNCHANGED Ledger!vars
  BY DEF account, Ledger!vars, Taken, Holder

(* What becomes of Holder when one ticket changes.                         *)
LEMMA HolderStep ==
  ASSUME NEW t \in Tickets, NEW v,
         \A u \in Tickets \ {t} :
           Live(u)' = Live(u) /\ (Live(u) => value'[u] = value[u]),
         v = IF Live(t)' THEN value'[t] ELSE -1
  PROVE  Holder' = [Holder EXCEPT ![t] = v]
  BY DEF Holder

(* ReserveNonce takes the least available nonce.                           *)
LEMMA ReserveLedger ==
  ASSUME Inv, NEW t \in Tickets, ReserveNonce(t)
  PROVE  Ledger!Reserve(t)
<1> USE Constants DEF Inv
<1>1. PICK n \in Nonces :
        /\ TakeNonce(n)
        /\ state' = [state EXCEPT ![t] = "held"]
        /\ value' = [value EXCEPT ![t] = n]
        /\ state[t] = "idle"
  BY DEF ReserveNonce
<1>2. nonce \in Nat /\ freeNonces \subseteq Nonces /\ n \in Nat
  BY DEF TypeOK, Nonces
<1>3. n \notin Taken /\ \A m \in Nonces \ Taken : n <= m
  BY <1>1, <1>2 DEF Taken, TakeNonce, Nonces, FreeListSound
<1>4. Taken' = Taken \cup {n}
  BY <1>1, <1>2 DEF Taken, TakeNonce, FreeListSound, Nonces
<1>5. Holder' = [Holder EXCEPT ![t] = n]
  <2>1. \A u \in Tickets \ {t} :
          Live(u)' = Live(u) /\ (Live(u) => value'[u] = value[u])
    BY <1>1 DEF Live, TypeOK
  <2>2. n = IF Live(t)' THEN value'[t] ELSE -1
    BY <1>1 DEF Live, TypeOK
  <2>3. QED
    BY <2>1, <2>2, HolderStep
<1>6. Holder[t] = -1
  BY <1>1 DEF Holder, Live
<1>7. QED
  BY <1>3, <1>4, <1>5, <1>6
  DEF Ledger!Reserve, Ledger!NoNonce, Ledger!Nonces, Nonces

(* Both branches of rollback make the nonce available again.               *)
LEMMA ReturnLedger ==
  ASSUME Inv, NEW t \in Tickets, RollbackApply(t)
  PROVE  Ledger!Return(t)
<1> USE Constants DEF Inv
<1> DEFINE n == value[t]
<1>1. /\ state[t] = "returning"
      /\ state' = [state EXCEPT ![t] = "idle"]
      /\ value' = [value EXCEPT ![t] = 0]
      /\ GiveBack(n)
  BY DEF RollbackApply, Drop
<1>2. /\ n \in Nat /\ nonce \in Nat /\ n < nonce
      /\ Live(t)
  BY <1>1 DEF TypeOK, FreeListSound, Live
<1>3. \A m \in freeNonces : m \in Nat /\ m < nonce
  BY DEF TypeOK, FreeListSound, Nonces
<1>4. Taken' = Taken \ {n}
  <2>1. CASE nonce = n + 1 /\ nonce' = n /\ freeNonces' = freeNonces
    BY <1>2, <1>3, <2>1 DEF Taken
  <2>2. CASE nonce' = nonce /\ freeNonces' = freeNonces \cup {n}
    BY <1>2, <1>3, <2>2 DEF Taken
  <2>3. QED
    BY <1>1, <2>1, <2>2 DEF GiveBack
<1>5. Holder' = [Holder EXCEPT ![t] = -1]
  <2>1. \A u \in Tickets \ {t} :
          Live(u)' = Live(u) /\ (Live(u) => value'[u] = value[u])
    BY <1>1 DEF Live, TypeOK
  <2>2. -1 = IF Live(t)' THEN value'[t] ELSE -1
    BY <1>1 DEF Live, TypeOK
  <2>3. QED
    BY <2>1, <2>2, HolderStep
<1>6. Holder[t] = n /\ n # -1
  BY <1>2 DEF Holder
<1>7. QED
  BY <1>4, <1>5, <1>6 DEF Ledger!Return, Ledger!NoNonce

(* A committed or abandoned nonce stays taken.                             *)
LEMMA KeepLedger ==
  ASSUME Inv, NEW t \in Tickets, Commit(t) \/ Abandon(t)
  PROVE  Ledger!Keep(t)
<1> USE Constants DEF Inv
<1>1. /\ Live(t) /\ ~Live(t)'
      /\ \A u \in Tickets \ {t} :
           Live(u)' = Live(u) /\ (Live(u) => value'[u] = value[u])
      /\ UNCHANGED <<nonce, freeNonces>>
  BY DEF Commit, Drop, Abandon, Live, TypeOK, account
<1>2. Holder' = [Holder EXCEPT ![t] = -1]
  BY <1>1, HolderStep
<1>3. Holder[t] = value[t] /\ value[t] \in Nat
  BY <1>1 DEF Holder, TypeOK
<1>4. QED
  BY <1>1, <1>2, <1>3 DEF Ledger!Keep, Ledger!NoNonce, Taken

(* MaybeResyncFromChain only takes the nonces the chain has used.          *)
LEMMA RetireLedger ==
  ASSUME Inv, NEW r \in Resyncers, MaybeResyncApply(r)
  PROVE  \E v \in 0..MaxNonce : Ledger!Retire(v)
<1> USE Constants DEF Inv
<1> DEFINE v == resync[r].value
<1>1. /\ UNCHANGED <<state, value>>
      /\ nonce' = SetIfHigher(v)
      /\ freeNonces' = {m \in freeNonces : m >= v}
      /\ v \in 0..MaxNonce /\ nonce \in Nat
  BY DEF MaybeResyncApply, tickets, TypeOK
<1>2. \A m \in freeNonces : m \in Nat /\ m < nonce
  BY DEF TypeOK, FreeListSound, Nonces
<1>3. Taken' = Taken \cup 0..(v - 1)
  BY <1>1, <1>2 DEF Taken, SetIfHigher
<1>4. UNCHANGED Holder
  BY <1>1 DEF Holder, Live
<1>5. QED
  BY <1>1, <1>3, <1>4 DEF Ledger!Retire

(* A forced resync makes exactly the nonces below the read count taken.    *)
LEMMA RestartLedger ==
  ASSUME Inv, ForceResync \/ ForceResyncFromChain
  PROVE  \E v \in 0..MaxNonce : Ledger!Restart(v)
<1> USE Constants
<1>1. PICK v \in 0..MaxNonce : Overwrite(v)
  BY DEF ForceResync, ForceResyncFromChain, PendingView, ConfirmedView, Inv,
         TypeOK
<1>2. Taken' = 0..(v - 1)
  BY <1>1 DEF Overwrite, Taken
<1>3. \A t \in Tickets : Holder[t] = -1 /\ ~Live(t) /\ ~Live(t)'
  BY <1>1 DEF Overwrite, Holder, Live
<1>4. UNCHANGED Holder
  BY <1>3 DEF Holder
<1>5. QED
  BY <1>2, <1>3, <1>4 DEF Ledger!Restart, Ledger!NoNonce

(* Every step is a step of NonceLedger or leaves its variables alone.      *)
LEMMA StepLedger ==
  ASSUME CircuitBreaker = FALSE, Inv, [Next]_vars
  PROVE  [Ledger!Next]_(Ledger!vars)
<1>1. ASSUME NEW t \in Tickets, Rollback(t) \/ Send(t)
      PROVE  UNCHANGED Ledger!vars
  <2>1. /\ UNCHANGED account
        /\ \A u \in Tickets : Live(u)' = Live(u) /\ value'[u] = value[u]
    BY <1>1 DEF Rollback, Send, Live, Inv, TypeOK
  <2>2. QED
    BY <2>1, SameLedger
<1>2. ASSUME UNCHANGED <<account, tickets>>
      PROVE  UNCHANGED Ledger!vars
  BY <1>2, SameLedger DEF tickets, Live
<1>3. CASE \E r \in Resyncers : ResyncRead(r)
  BY <1>2, <1>3 DEF ResyncRead
<1>4. CASE \/ StartWorkers \/ GiveUp \/ Cancel \/ Stop \/ ChainAdvance
           \/ FlushPool \/ SpendElsewhere
           \/ \E m \in Nonces : Deliver(m) \/ Lose(m)
  BY <1>2, <1>4 DEF StartWorkers, GiveUp, Cancel, Stop, ChainAdvance, FlushPool,
                    SpendElsewhere, Deliver, Lose
<1>5. ASSUME NEW r \in Resyncers, ResyncApply(r)
      PROVE  FALSE
  BY <1>5 DEF ResyncApply, Inv, ReadsSound
<1>6. CASE \E t \in Tickets : ReserveNonce(t) \/ RollbackApply(t) \/ Commit(t)
                              \/ Abandon(t)
  BY <1>6, ReserveLedger, ReturnLedger, KeepLedger DEF Ledger!Next
<1>7. CASE \E r \in Resyncers : MaybeResyncApply(r)
  BY <1>7, RetireLedger DEF Ledger!Next
<1>8. CASE ForceResync \/ ForceResyncFromChain
  BY <1>8, RestartLedger DEF Ledger!Next
<1>9. CASE UNCHANGED vars
  BY <1>2, <1>9 DEF vars
<1>10. QED
  BY <1>1, <1>3, <1>4, <1>5, <1>6, <1>7, <1>8, <1>9 DEF Next

(* Counter and sorted free list behave as the set of available nonces:     *)
(* whatever the order of rollbacks, ReserveNonce hands out the least nonce *)
(* that is available, and only the chain's count makes nonces unavailable. *)
THEOREM LedgerRefinement ==
  ASSUME CircuitBreaker = FALSE
  PROVE  Spec => ImplementsLedger
<1>1. Inv /\ [Next]_vars => [Ledger!Next]_(Ledger!vars)
  BY StepLedger
<1>2. QED
  BY <1>1, InitLedger, InvAlways, PTL DEF Spec, ImplementsLedger, Ledger!Spec
=============================================================================
