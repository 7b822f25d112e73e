---------------------------- MODULE NonceAccount ----------------------------
(***************************************************************************)
(* The nonce bookkeeping of one account (internal/account/account.go)      *)
(* under the load of its users: sender workers that reserve nonces, the    *)
(* sender's callbacks that commit or roll them back in any order, and the  *)
(* resyncs that read the chain's count without the account's lock and      *)
(* apply the answer later.  The endpoint and the chain are the environment *)
(* (external), modelled by what the code counts on.                        *)
(*                                                                         *)
(* Accounts do not share state, so one account stands for all of them.     *)
(* freeNonces is the set of the nonces of the code's sorted, duplicate     *)
(* free slice: ReserveNonce pops its first element, the least.             *)
(***************************************************************************)
EXTENDS Integers

CONSTANTS
  Tickets,        \* reservations alive at the same time
  Resyncers,      \* goroutines inside a resync of this account
  MaxNonce,       \* bound: nonces the account uses are below MaxNonce
  CircuitBreaker  \* the pattern runs the adaptive controller, whose open
                  \* circuit starts resyncAllNonces during the test

ASSUME Constants ==
  /\ MaxNonce \in Nat
  /\ CircuitBreaker \in BOOLEAN

VARIABLES
  nonce,          \* Account.nonce, the next nonce never reserved
  freeNonces,     \* Account.freeNonces, rolled back nonces to reuse
  state,          \* state of each ticket
  value,          \* Nonce.value of each ticket
  committed,      \* history: nonces committed since the last forced resync
  resync,         \* each resync's progress: the nonce it read, if any
  phase,          \* where the test stands, as far as the account can tell
  wire,           \* nonces of transactions on their way to the endpoint
  pool,           \* nonces accepted by the endpoint, not yet on the chain
  chainNonce      \* the chain's count of this account's transactions

account == <<nonce, freeNonces>>
tickets == <<state, value, committed>>
network == <<wire, pool, chainNonce>>
vars == <<account, tickets, resync, phase, network>>

Nonces == 0..(MaxNonce - 1)

(* "idle": free to be reserved again; "held": reserved, not sent yet;      *)
(* "sent": its request is under way; "returning": inside Rollback, after   *)
(* the swap of the committed flag and before the account's lock;           *)
(* "abandoned": its worker returned without settling it.                   *)
TicketStates == {"idle", "held", "sent", "returning", "abandoned"}

Live(t) == state[t] \in {"held", "sent", "returning"}

(* "ready": nonces initialised, workers not started; "stopping": the       *)
(* context is cancelled, which a worker notices only at its next wait.     *)
Phases == {"stopped", "ready", "running", "stopping"}

Started == phase \in {"running", "stopping"}

NotReading == [kind |-> "none", value |-> 0]

(* An answer of the endpoint may come from a replica that lags, never from *)
(* one that is ahead: the confirmed count, and the pending one.            *)
ConfirmedView == 0..chainNonce

PendingView ==
  {v \in 0..MaxNonce : \A m \in chainNonce..(v - 1) : m \in pool}

Init ==
  /\ nonce = 0
  /\ freeNonces = {}
  /\ state = [t \in Tickets |-> "idle"]
  /\ value = [t \in Tickets |-> 0]
  /\ committed = {}
  /\ resync = [r \in Resyncers |-> NotReading]
  /\ phase = "stopped"
  /\ wire = {}
  /\ pool = {}
  /\ chainNonce \in 0..MaxNonce

-----------------------------------------------------------------------------
(* The account's operations.                                               *)

(* Mutants stand before what they mutate, each a slip a property below     *)
(* must notice.  Here: the counter moved although a free nonce was taken.  *)
TakeNonce_AlwaysCounts(n) ==
  /\ IF freeNonces = {} THEN n = nonce ELSE n \in freeNonces
  /\ freeNonces' = freeNonces \ {n}
  /\ nonce' = nonce + 1

(* ReserveNonce: the lowest rolled back nonce, else the counter.           *)
TakeNonce(n) ==
  \/ /\ n \in freeNonces
     /\ \A m \in freeNonces : n <= m
     /\ freeNonces' = freeNonces \ {n}
     /\ UNCHANGED nonce
  \/ /\ freeNonces = {}
     /\ n = nonce
     /\ nonce' = nonce + 1
     /\ UNCHANGED freeNonces

ReserveNonce(t) ==
  /\ Started
  /\ state[t] = "idle"
  /\ \E n \in Nonces :
       /\ TakeNonce(n)
       /\ state' = [state EXCEPT ![t] = "held"]
       /\ value' = [value EXCEPT ![t] = n]
  /\ UNCHANGED <<committed, resync, phase, network>>

(* A settled reservation is garbage.                                       *)
Drop(t) ==
  /\ state' = [state EXCEPT ![t] = "idle"]
  /\ value' = [value EXCEPT ![t] = 0]

(* Nonce.Rollback, its swap of the flag.  A worker rolls back a nonce it   *)
(* holds (build or signing failure, no rate permit, sender at capacity)    *)
(* and the callback one whose send failed, whether or not the transaction  *)
(* reached the endpoint.                                                   *)
Rollback(t) ==
  /\ state[t] \in {"held", "sent"}
  /\ state' = [state EXCEPT ![t] = "returning"]
  /\ UNCHANGED <<account, value, committed, resync, phase, network>>

(* Mutants: every rollback decrements, as DecrementNonce did; the fast     *)
(* path of rollback falls through to the insertion.                        *)
GiveBack_Decrements(n) ==
  /\ nonce' = nonce - 1
  /\ UNCHANGED freeNonces

GiveBack_NoReturn(n) ==
  /\ nonce' = IF nonce = n + 1 THEN n ELSE nonce
  /\ freeNonces' = freeNonces \cup {n}

(* Account.rollback: the newest nonce goes back to the counter, any other  *)
(* to the free list.                                                       *)
GiveBack(n) ==
  \/ /\ nonce = n + 1
     /\ nonce' = n
     /\ UNCHANGED freeNonces
  \/ /\ nonce # n + 1
     /\ freeNonces' = freeNonces \cup {n}
     /\ UNCHANGED nonce

RollbackApply(t) ==
  /\ state[t] = "returning"
  /\ GiveBack(value[t])
  /\ Drop(t)
  /\ UNCHANGED <<committed, resync, phase, network>>

(* The callback commits when the endpoint accepted the transaction, knows  *)
(* it already, or answers "nonce too low".                                 *)
Commit(t) ==
  /\ state[t] = "sent"
  /\ value[t] \in pool \/ value[t] < chainNonce
  /\ Drop(t)
  /\ committed' = committed \cup {value[t]}
  /\ UNCHANGED <<account, resync, phase, network>>

(* MaybeResyncFromChain, started by a rejected or unacknowledged send, and *)
(* the Resync / ResyncFromChain of resyncAllNonces.  Both read before they *)
(* lock.  The rate limit of the first only delays it, which an unbounded   *)
(* wait before this step covers.                                           *)
ResyncRead(r) ==
  /\ Started
  /\ resync[r] = NotReading
  /\ \/ \E v \in ConfirmedView :
          resync' = [resync EXCEPT ![r] = [kind |-> "rejection", value |-> v]]
     \/ /\ CircuitBreaker
        /\ \E v \in PendingView :
             resync' = [resync EXCEPT ![r] = [kind |-> "circuit", value |-> v]]
  /\ UNCHANGED <<account, tickets, phase, network>>

SetIfHigher(v) == IF v > nonce THEN v ELSE nonce

(* Mutants: the whole free list is cleared, as by ResyncFromChain; the     *)
(* counter is overwritten, as by ForceResyncFromChain.                     *)
MaybeResyncApply_ClearsAll(r) ==
  /\ resync[r].kind = "rejection"
  /\ nonce' = SetIfHigher(resync[r].value)
  /\ freeNonces' = {}
  /\ resync' = [resync EXCEPT ![r] = NotReading]
  /\ UNCHANGED <<tickets, phase, network>>

MaybeResyncApply_Overwrites(r) ==
  /\ resync[r].kind = "rejection"
  /\ nonce' = resync[r].value
  /\ freeNonces' = {n \in freeNonces : n >= resync[r].value}
  /\ resync' = [resync EXCEPT ![r] = NotReading]
  /\ UNCHANGED <<tickets, phase, network>>

MaybeResyncApply(r) ==
  /\ resync[r].kind = "rejection"
  /\ nonce' = SetIfHigher(resync[r].value)
  /\ freeNonces' = {n \in freeNonces : n >= resync[r].value}
  /\ resync' = [resync EXCEPT ![r] = NotReading]
  /\ UNCHANGED <<tickets, phase, network>>

ResyncApply(r) ==
  /\ resync[r].kind = "circuit"
  /\ nonce' = SetIfHigher(resync[r].value)
  /\ freeNonces' = {}
  /\ resync' = [resync EXCEPT ![r] = NotReading]
  /\ UNCHANGED <<tickets, phase, network>>

(* The counter is overwritten and the free list cleared.  The comment of   *)
(* ForceResync asks that no goroutine be reserving nonces; what the        *)
(* account needs is that no ticket of the last run can still be rolled     *)
(* back, so that is the guard.                                             *)
Overwrite(v) ==
  /\ \A t \in Tickets : ~Live(t)
  /\ nonce' = v
  /\ freeNonces' = {}
  /\ state' = [t \in Tickets |-> "idle"]
  /\ value' = [t \in Tickets |-> 0]
  /\ committed' = {}

(* Test start.  An account generated for this run whose query fails keeps  *)
(* the zero it was created with: the failure is only logged.               *)
ForceResync ==
  /\ phase = "stopped"
  /\ \E v \in PendingView \cup {0} : Overwrite(v)
  /\ phase' = "ready"
  /\ UNCHANGED <<resync, network>>

(* Once more, from the confirmed count, after the setup transactions of    *)
(* the Uniswap contracts (SpendElsewhere) have settled.                    *)
ForceResyncFromChain ==
  /\ phase = "ready"
  /\ \E v \in ConfirmedView : Overwrite(v)
  /\ UNCHANGED <<resync, phase, network>>

-----------------------------------------------------------------------------
(* The test around it.                                                     *)

StartWorkers ==
  /\ phase = "ready"
  /\ phase' = "running"
  /\ UNCHANGED <<account, tickets, resync, network>>

(* The initialisation fails after the nonces are set.                      *)
GiveUp ==
  /\ phase = "ready"
  /\ phase' = "stopped"
  /\ UNCHANGED <<account, tickets, resync, network>>

Cancel ==
  /\ phase = "running"
  /\ phase' = "stopping"
  /\ UNCHANGED <<account, tickets, resync, network>>

(* stopTest has waited for the workers, not for the sender's goroutines:   *)
(* callbacks may still be due.                                             *)
Stop ==
  /\ phase = "stopping"
  /\ \A t \in Tickets : state[t] # "held"
  /\ phase' = "stopped"
  /\ UNCHANGED <<account, tickets, resync, network>>

(* A worker that sees the context cancelled while it waits for a rate      *)
(* permit returns with the nonces already in its batch.                    *)
Abandon(t) ==
  /\ phase = "stopping"
  /\ state[t] = "held"
  /\ state' = [state EXCEPT ![t] = "abandoned"]
  /\ UNCHANGED <<account, value, committed, resync, phase, network>>

Send(t) ==
  /\ Started
  /\ state[t] = "held"
  /\ state' = [state EXCEPT ![t] = "sent"]
  /\ wire' = wire \cup {value[t]}
  /\ UNCHANGED <<account, value, committed, resync, phase, pool, chainNonce>>

-----------------------------------------------------------------------------
(* The endpoint and the chain (external).  A request may be lost, or       *)
(* arrive after the client gave up on it; an accepted transaction stays    *)
(* until it is on the chain, in nonce order, unless a reset between two    *)
(* runs empties the pool.                                                  *)

Deliver(n) ==
  /\ n \in wire
  /\ wire' = wire \ {n}
  /\ pool' = IF n >= chainNonce THEN pool \cup {n} ELSE pool
  /\ UNCHANGED <<account, tickets, resync, phase, chainNonce>>

Lose(n) ==
  /\ n \in wire
  /\ wire' = wire \ {n}
  /\ UNCHANGED <<account, tickets, resync, phase, pool, chainNonce>>

ChainAdvance ==
  /\ chainNonce \in pool
  /\ pool' = pool \ {chainNonce}
  /\ chainNonce' = chainNonce + 1
  /\ UNCHANGED <<account, tickets, resync, phase, wire>>

FlushPool ==
  /\ phase = "stopped"
  /\ pool' = {}
  /\ UNCHANGED <<account, tickets, resync, phase, wire, chainNonce>>

(* A transaction of this account signed elsewhere: contract deployment,    *)
(* account setup and pre-minting ask the node for nonces themselves, after *)
(* ForceResync.                                                            *)
SpendElsewhere ==
  /\ phase = "ready"
  /\ \E n \in Nonces \cap PendingView :
       /\ n >= chainNonce
       /\ n \notin pool
       /\ pool' = pool \cup {n}
  /\ UNCHANGED <<account, tickets, resync, phase, wire, chainNonce>>

Next ==
  \/ \E t \in Tickets :
       \/ ReserveNonce(t)
       \/ Rollback(t)
       \/ RollbackApply(t)
       \/ Commit(t)
       \/ Abandon(t)
       \/ Send(t)
  \/ \E r \in Resyncers :
       \/ ResyncRead(r)
       \/ MaybeResyncApply(r)
       \/ ResyncApply(r)
  \/ ForceResync
  \/ ForceResyncFromChain
  \/ StartWorkers
  \/ GiveUp
  \/ Cancel
  \/ Stop
  \/ \E n \in Nonces : Deliver(n) \/ Lose(n)
  \/ ChainAdvance
  \/ FlushPool
  \/ SpendElsewhere

Spec == Init /\ [][Next]_vars

(* Fairness of the code's scheduling and of a live endpoint: a goroutine   *)
(* that can take a step takes it, and a nonce that keeps being sent is     *)
(* sent, delivered, answered and mined in the end.  Sending is strongly    *)
(* fair because its obstacles (no rate permit, sender at capacity) come    *)
(* and go; neither the requests of a nonce nor the answers are all lost.   *)
SendNonce(n) == \E t \in Tickets : value[t] = n /\ Send(t)

CommitNonce(n) == \E t \in Tickets : value[t] = n /\ Commit(t)

Settle(t) == Commit(t) \/ (state[t] = "sent" /\ Rollback(t))

Fairness ==
  /\ WF_vars(\E t \in Tickets : ReserveNonce(t))
  /\ \A t \in Tickets : WF_vars(Settle(t)) /\ WF_vars(RollbackApply(t))
  /\ \A n \in Nonces :
       SF_vars(SendNonce(n)) /\ SF_vars(Deliver(n)) /\ SF_vars(CommitNonce(n))
  /\ WF_vars(ChainAdvance)

FairSpec == Spec /\ Fairness

-----------------------------------------------------------------------------
(* Properties.                                                             *)

(* Every variable holds values of its kind.                                *)
TypeOK ==
  /\ nonce \in 0..MaxNonce
  /\ freeNonces \in SUBSET Nonces
  /\ state \in [Tickets -> TicketStates]
  /\ value \in [Tickets -> Nat]
  /\ committed \in SUBSET Nat
  /\ resync \in [Resyncers -> [kind : {"none", "rejection", "circuit"},
                               value : 0..MaxNonce]]
  /\ phase \in Phases
  /\ wire \in SUBSET Nonces
  /\ pool \in SUBSET Nonces
  /\ chainNonce \in 0..MaxNonce

(* A nonce is in one pair of hands: no two reservations of ReserveNonce    *)
(* that can still send or roll back carry the same nonce, whatever the     *)
(* order of rollbacks, commits and resyncs.                                *)
OneHolder ==
  \A t, u \in Tickets : Live(t) /\ Live(u) /\ value[t] = value[u] => t = u

(* The counter and the free list never both offer a nonce, and neither     *)
(* offers one that a reservation carries: what lets rollback choose        *)
(* between them by one comparison.                                         *)
FreeListSound ==
  /\ \A n \in freeNonces : n < nonce
  /\ \A t \in Tickets :
       Live(t) => value[t] < nonce /\ value[t] \notin freeNonces

(* A nonce whose send was acknowledged is not handed out again during the  *)
(* run: Rollback and the resyncs never reach past a commit (the premature  *)
(* reuse TestPrematureCommitBug is about).                                 *)
NoReissue ==
  \A n \in committed :
    /\ n < nonce
    /\ n \notin freeNonces
    /\ \A t \in Tickets : Live(t) => value[t] # n

Covered(n) ==
  \/ n \in freeNonces
  \/ n \in pool
  \/ \E t \in Tickets : Live(t) /\ value[t] = n

(* No hole the chain can never pass: during a test every nonce between the *)
(* chain's count and the counter is accepted, in somebody's hands or       *)
(* waiting in the free list.  MaybeResyncFromChain keeps the free nonces   *)
(* the chain has not used for this.                                        *)
NoHole ==
  phase \in {"ready", "running"} =>
    \A n \in chainNonce..(nonce - 1) : Covered(n)

(* The account keeps going: while the test runs, the chain's count passes  *)
(* every nonce in the end, however many sends were rejected or lost.       *)
Progress ==
  \A k \in Nonces :
    phase = "running" /\ chainNonce = k ~> phase # "running" \/ chainNonce > k

(* The counter and the free list together are the set of available nonces  *)
(* of NonceLedger: rollback's two branches both make the nonce available,  *)
(* and reserving takes the least available one.                            *)
Taken == 0..(nonce - 1) \ freeNonces

Holder == [t \in Tickets |-> IF Live(t) THEN value[t] ELSE -1]

Ledger == INSTANCE NonceLedger WITH taken <- Taken, holder <- Holder

ImplementsLedger == Ledger!Spec
=============================================================================
