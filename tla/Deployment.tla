----------------------------- MODULE Deployment -----------------------------
(* How a run comes by its contracts: ensureContractsDeployed                 *)
(* (internal/loadgen/contracts.go) returns at once, restores what the cache  *)
(* knows, or deploys (internal/contract/deployer.go,                         *)
(* internal/uniswapv3/deployer.go), and has every account prepared for       *)
(* swaps (SetupAccounts).                                                    *)
(*                                                                           *)
(* The address of a contract is the nonce it was created with: the deployer  *)
(* is always accounts[0].  A transaction may be refused, revert, stay        *)
(* pending, or be accepted without the answer arriving; a failed attempt     *)
(* leaves what it sent.  The generator may restart, on the same chain or on  *)
(* a new one.  Chain and database are external.                              *)
EXTENDS Integers, Sequences, FiniteSets, SequencesExt, FiniteSetsExt

CONSTANTS
  Base,        \* the base contracts, in the order they are deployed
  Uniswap,     \* those of Uniswap V3
  BuiltIn,     \* built-in accounts
  Dynamic,     \* dynamic accounts
  MaxNonce,    \* bound on the deployer's nonces
  MaxRuns,     \* bound on the runs
  MaxRestarts  \* bound on the restarts

Nowhere   == -1
Addresses == 0..MaxNonce - 1
Contracts == ToSet(Base) \cup ToSet(Uniswap)
Names     == Contracts \cup {"Pool"}   \* of cached_contracts; the pool's address is its factory's
None      == [what |-> "none", on |-> Nowhere, dud |-> FALSE]

ASSUME DeploymentAssumption ==
  /\ Base \in Seq(ToSet(Base)) /\ Base # <<>>
  /\ Uniswap \in Seq(ToSet(Uniswap))
  /\ {"WETH9", "Factory"} \subseteq ToSet(Uniswap) /\ ToSet(Base) \cap ToSet(Uniswap) = {}
  /\ Contracts \cap {"none", "Pool", "createPool", "initialize", "liquidity"} = {}
  /\ {MaxNonce, MaxRuns, MaxRestarts} \subseteq Nat

VARIABLES
  slot,      \* the deployer's transactions, per nonce: [what, on, dud]
  mined,     \* the chain's nonce
  pools,     \* per factory address: "none", "created", "ready", "liquid"
  swapper,   \* per account, the WETH9 it was prepared for
  base, baseOK,  \* erc20Contract ..., contractsDeployed
  uni, uniOK,    \* UniswapV3SwapBuilder.contracts, deployed
  cache,     \* cached_contracts
  older,     \* its rows that were saved on a chain before this one (history)
  rows,      \* accounts in cached_accounts
  ready,     \* those with uniswap_ready
  pc,        \* where ensureContractsDeployed is
  kind,      \* the run's transactions: "transfer", "token", "swap"
  dyn,       \* its dynamic accounts
  prog,      \* what is being deployed: "base", "uni"
  step,      \* its step
  startNonce,
  nonce,     \* of the transaction it waits for
  got,       \* the addresses it has
  stale,     \* a deployment began below a nonce that was taken already (history)
  blind,     \* a reverted transaction was taken for a good one (history)
  foreign,   \* older rows were restored, having something at each address (history)
  runs, restarts

chain  == <<slot, mined, pools, swapper>>
memory == <<base, baseOK, uni, uniOK>>
store  == <<cache, older, rows, ready>>
deploy == <<prog, step, startNonce, nonce, got>>
flaws  == <<stale, blind, foreign>>
bounds == <<runs, restarts>>
vars   == <<chain, memory, store, pc, kind, dyn, deploy, flaws, bounds>>

NoAddress(S) == [c \in S |-> Nowhere]

-----------------------------------------------------------------------------
(* The chain *)

Code(a) == IF a \in Addresses /\ a < mined /\ ~slot[a].dud THEN slot[a].what ELSE "none"
Exists(a) == Code(a) \in Contracts

(* what the builder holds, or what it reads from the chain once its cache is *)
(* cleared                                                                   *)
NextFree == Min({n \in 0..MaxNonce : n = MaxNonce \/ (n >= mined /\ slot[n] = None)})
GetNonce == {mined, NextFree}

PoolAfter(tx, level) ==
  CASE tx.what = "createPool" /\ level = "none"    -> "created"
    [] tx.what = "initialize" /\ level = "created" -> "ready"
    [] tx.what = "liquidity" /\ level = "ready"    -> "liquid"
    [] OTHER -> level

(* It reverts where it does not fit, and may for reasons of its own          *)
Reverts(tx) == tx.what \notin Contracts /\ PoolAfter(tx, pools[tx.on]) = pools[tx.on]

Mine ==
  LET tx == slot[mined] IN
  /\ mined < MaxNonce /\ slot[mined] # None
  /\ mined' = mined + 1
  /\ slot' = [slot EXCEPT ![mined].dud = @ \/ (tx.on # Nowhere /\ Reverts(tx))]
  /\ pools' = IF tx.dud \/ tx.on = Nowhere THEN pools
              ELSE [pools EXCEPT ![tx.on] = PoolAfter(tx, @)]
  /\ UNCHANGED <<swapper, memory, store, pc, kind, dyn, deploy, flaws, bounds>>

-----------------------------------------------------------------------------
(* ensureContractsDeployed *)

Init ==
  /\ slot = [n \in Addresses |-> None] /\ mined = 0
  /\ pools = [n \in Addresses |-> "none"]
  /\ swapper = [a \in BuiltIn \cup Dynamic |-> Nowhere]
  /\ base = NoAddress(ToSet(Base)) /\ baseOK = FALSE
  /\ uni = NoAddress(ToSet(Uniswap)) /\ uniOK = FALSE
  /\ cache = NoAddress(Names) /\ older = {} /\ rows = {} /\ ready = {}
  /\ pc = "idle" /\ kind = "transfer" /\ dyn = {}
  /\ prog = "base" /\ step = 1 /\ startNonce = 0 /\ nonce = 0 /\ got = <<>>
  /\ stale = FALSE /\ blind = FALSE /\ foreign = FALSE
  /\ runs = 0 /\ restarts = 0

Needed(k) == k = "swap" /\ ~uniOK

(* nothing to restore: Uniswap first, then the base contracts                *)
Fresh == pc' = "begin" /\ prog' = (IF Needed(kind') THEN "uni" ELSE "base")

(* Its error is ignored wherever it is called                                *)
DeleteCachedContracts ==
  \/ cache' = NoAddress(Names) /\ older' = {}
  \/ UNCHANGED <<cache, older>>

(* A run and its accounts.  Cached accounts none of which seems to have      *)
(* money are wiped with the contracts, each if it succeeds; what is not      *)
(* cached then is a new account.  Saving accounts writes their rows anew,    *)
(* without the flag                                                          *)
StartRun(k, d, saved, gone) ==
  LET written == IF saved THEN d ELSE {} IN
  /\ pc = "idle" /\ runs < MaxRuns
  /\ runs' = runs + 1 /\ kind' = k /\ dyn' = d
  /\ gone \in {{}, rows} /\ (d = {} => gone = {})
  /\ rows' = (rows \ gone) \cup written /\ ready' = ready \ (gone \cup written)
  /\ swapper' = [a \in DOMAIN swapper |-> IF a \in d \ (rows \ gone) THEN Nowhere ELSE swapper[a]]
  /\ IF d # {} /\ rows # {} THEN DeleteCachedContracts ELSE UNCHANGED <<cache, older>>
  /\ \/ /\ k = "transfer" \/ (baseOK /\ ~Needed(k))
        /\ pc' = "running" /\ UNCHANGED prog
     \/ /\ k # "transfer" /\ ~baseOK
        /\ pc' = "restore" /\ UNCHANGED prog
     \/ k # "transfer" /\ baseOK /\ Needed(k) /\ Fresh
  /\ UNCHANGED <<slot, mined, pools, memory, step, startNonce, nonce, got, flaws, restarts>>

EndRun ==
  /\ pc = "running" /\ pc' = "idle"
  /\ UNCHANGED <<chain, memory, store, kind, dyn, deploy, flaws, bounds>>

Fail ==
  /\ pc \in {"begin", "step", "sent", "accounts", "nonces", "cached nonces"}
  /\ pc' = "idle"
  /\ UNCHANGED <<chain, memory, store, kind, dyn, deploy, flaws, bounds>>

(* tryRestoreCachedContracts: rows that cannot be read, rows whose contract  *)
(* is gone or cannot be asked about, and what is missing                     *)
Cached(S) == {c \in S : cache[c] # Nowhere}

RestoreNothing ==
  /\ pc = "restore"
  /\ kind' = kind /\ Fresh
  /\ UNCHANGED <<chain, memory, store, dyn, step, startNonce, nonce, got, flaws, bounds>>

(* Mutant: what is cached is taken to be there. *)
ValidateCachedContracts_Trusts(answered) == Cached(Names)

(* something is there, be it another contract                                *)
checkContractExists(c) ==
  IF c = "Pool" THEN pools[cache[c]] # "none" ELSE Exists(cache[c])

ValidateCachedContracts(answered) == {c \in Cached(Names) \cap answered : checkContractExists(c)}

Wiped == DeleteCachedContracts /\ kind' = kind /\ Fresh

Trusted == foreign' = (foreign \/ \E c \in older : checkContractExists(c))

Restore(answered) ==
  LET valid == ValidateCachedContracts(answered) IN
  /\ pc = "restore" /\ Cached(Names) # {}
  /\ \/ /\ valid # Cached(Names) \/ ~(ToSet(Base) \subseteq valid)
        /\ Wiped /\ UNCHANGED <<memory, foreign>>
     \/ /\ valid = Cached(Names) /\ ToSet(Base) \subseteq valid
        /\ base' = [c \in ToSet(Base) |-> cache[c]]
        /\ \/ /\ ~Needed(kind)
              /\ Trusted /\ baseOK' = TRUE /\ pc' = "running"
              /\ UNCHANGED <<uni, uniOK, cache, older, kind, prog>>
           \/ /\ Needed(kind) /\ valid # Names
              /\ baseOK' = FALSE /\ Wiped /\ UNCHANGED <<uni, uniOK, foreign>>
           \/ /\ Needed(kind) /\ valid = Names
              /\ Trusted /\ baseOK' = TRUE /\ uniOK' = TRUE /\ uni' = [c \in ToSet(Uniswap) |-> cache[c]]
              /\ pc' = "cached accounts" /\ UNCHANGED <<cache, older, kind, prog>>
  /\ UNCHANGED <<chain, rows, ready, dyn, step, startNonce, nonce, got, stale, blind, bounds>>

(* SetupAccounts: four transactions per account, the last one waited for and *)
(* the balances of a sample read - of up to five accounts, all of them; an   *)
(* error leaves the others going on                                          *)
SetupAccounts(accts, done) ==
  swapper' = [a \in DOMAIN swapper |-> IF a \in accts \cap done THEN uni["WETH9"] ELSE swapper[a]]

(* MarkAccountsUniswapReady, which may fail: only rows that are there        *)
Mark(accts) == ready' \in {ready, ready \cup (accts \cap rows)}

(* setupUniswapAccountsFromCache: those without the flag; a failure is       *)
(* logged                                                                    *)
CachedAccounts(done) ==
  LET accts == (BuiltIn \cup dyn) \ ready IN
  /\ pc = "cached accounts" /\ done \subseteq accts
  /\ SetupAccounts(accts, done)
  /\ pc' \in IF accts # {} /\ done = accts THEN {"running", "cached nonces"} ELSE {"running"}
  /\ UNCHANGED <<slot, mined, pools, memory, store, kind, dyn, deploy, flaws, bounds>>

CachedNonces ==
  /\ pc = "cached nonces"
  /\ Mark((BuiltIn \cup dyn) \ ready)
  /\ pc' = "running"
  /\ UNCHANGED <<chain, memory, cache, older, rows, kind, dyn, deploy, flaws, bounds>>

-----------------------------------------------------------------------------
(* Deploying: DeployAllWithProgress of both deployers, the pool and its      *)
(* liquidity - five transactions of which one that reverts spoils the last   *)

Steps == IF prog = "base" THEN Base
         ELSE Uniswap \o <<"createPool", "initialize", "liquidity">>
Item  == Steps[step]

Begin ==
  /\ pc = "begin"
  /\ \E n \in GetNonce :
       /\ startNonce' = n
       /\ stale' = (stale \/ \E m \in n..MaxNonce - 1 : slot[m] # None)
  /\ step' = 1 /\ got' = <<>> /\ pc' = "step"
  /\ UNCHANGED <<chain, memory, store, kind, dyn, prog, nonce, blind, foreign, bounds>>

(* A step is over; after the last contract the builder has its addresses     *)
Onward(addr) ==
  LET last == step = Len(Steps)
      have == IF Item \in Contracts THEN Append(got, addr) ELSE got
  IN
  /\ step' = step + 1 /\ got' = have
  /\ pc' = CASE ~last -> "step" [] last /\ prog = "uni" -> "accounts" [] OTHER -> "save"
  /\ uni' = IF prog = "uni" /\ step = Len(Uniswap)
            THEN [c \in ToSet(Uniswap) |-> have[CHOOSE i \in 1..Len(Uniswap) : Uniswap[i] = c]]
            ELSE uni
  /\ uniOK' = (uniOK \/ (prog = "uni" /\ last))
  /\ UNCHANGED <<base, baseOK>>

(* there is code at the address it would get; there is a pool                *)
AlreadyDeployed ==
  /\ Item \in Contracts /\ Exists(startNonce + step - 1)
  /\ Onward(startNonce + step - 1)

PoolIsThere ==
  /\ Item = "createPool" /\ pools[uni["Factory"]] # "none"
  /\ step' = step + 2
  /\ UNCHANGED <<got, pc, memory>>

Skip ==
  /\ pc = "step"
  /\ AlreadyDeployed \/ PoolIsThere
  /\ UNCHANGED <<chain, store, kind, dyn, prog, startNonce, nonce, flaws, bounds>>

(* A check that fails lets it deploy what is there.  A fresh nonce, but for  *)
(* the initialisation of the pool                                            *)
NonceFor(item) == IF item = "initialize" THEN {nonce + 1} ELSE GetNonce

deployContract(dud) == [what |-> Item, on |-> Nowhere, dud |-> dud]
callUniswap(dud)    == [what |-> Item, on |-> uni["Factory"], dud |-> dud]

signAndSend(n, tx) ==
  /\ n < MaxNonce /\ slot[n] = None /\ n >= mined
  /\ slot' = [slot EXCEPT ![n] = tx] /\ nonce' = n

Send(n, dud, answered) ==
  /\ pc = "step" /\ n \in NonceFor(Item)
  /\ signAndSend(n, IF Item \in Contracts THEN deployContract(dud) ELSE callUniswap(dud))
  /\ pc' = IF answered THEN "sent" ELSE "idle"
  /\ UNCHANGED <<mined, pools, swapper, memory, store, kind, dyn, prog, step, startNonce, got,
                 flaws, bounds>>

(* code at the address; a good receipt, or, where receipts fail, the         *)
(* transaction in a block                                                    *)
waitForDeployment ==
  Item \in Contracts /\ Exists(nonce) /\ UNCHANGED blind

sendTxAndWaitForReceipt ==
  Item \notin Contracts /\ blind' = (blind \/ slot[nonce].dud)

Confirmed ==
  /\ pc = "sent" /\ mined > nonce
  /\ waitForDeployment \/ sendTxAndWaitForReceipt
  /\ Onward(nonce)
  /\ UNCHANGED <<chain, store, kind, dyn, prog, startNonce, nonce, stale, foreign, bounds>>

(* Every account is prepared, whatever its flag says                         *)
Accounts(done) ==
  LET accts == BuiltIn \cup dyn IN
  /\ pc = "accounts" /\ done \subseteq accts
  /\ SetupAccounts(accts, done)
  /\ pc' \in IF done = accts THEN {"idle", "nonces"} ELSE {"idle"}
  /\ UNCHANGED <<slot, mined, pools, memory, store, kind, dyn, deploy, flaws, bounds>>

(* rows are saved one by one, and one that fails is logged                   *)
Save(S, where, saved) ==
  /\ cache' = [c \in Names |-> IF c \in S \cap saved THEN where[c] ELSE cache[c]]
  /\ older' = older \ (S \cap saved)

(* InitializeNoncesFromChain, then the rows and the flags                    *)
Nonces(saved) ==
  /\ pc = "nonces"
  /\ Save(ToSet(Uniswap) \cup {"Pool"},
          [c \in Names |-> IF c \in ToSet(Uniswap) THEN uni[c] ELSE uni["Factory"]], saved)
  /\ Mark(dyn)
  /\ IF baseOK THEN pc' = "running" /\ UNCHANGED prog ELSE pc' = "begin" /\ prog' = "base"
  /\ UNCHANGED <<chain, memory, rows, kind, dyn, step, startNonce, nonce, got, flaws, bounds>>

SaveBase(saved) ==
  /\ pc = "save"
  /\ base' = [c \in ToSet(Base) |-> got[CHOOSE i \in 1..Len(Base) : Base[i] = c]]
  /\ baseOK' = TRUE
  /\ Save(ToSet(Base), [c \in Names |-> IF c \in ToSet(Base) THEN base'[c] ELSE Nowhere], saved)
  /\ pc' = "running"
  /\ UNCHANGED <<chain, uni, uniOK, rows, ready, kind, dyn, deploy, flaws, bounds>>

-----------------------------------------------------------------------------
(* A restart forgets what is not stored; a new chain has nothing of the old  *)

Restart(genesis) ==
  /\ restarts < MaxRestarts
  /\ restarts' = restarts + 1 /\ pc' = "idle"
  /\ base' = NoAddress(ToSet(Base)) /\ baseOK' = FALSE
  /\ uni' = NoAddress(ToSet(Uniswap)) /\ uniOK' = FALSE
  /\ IF genesis
     THEN /\ older' = Cached(Names)
          /\ slot' = [n \in Addresses |-> None] /\ mined' = 0
          /\ pools' = [n \in Addresses |-> "none"]
          /\ swapper' = [a \in DOMAIN swapper |-> Nowhere]
     ELSE UNCHANGED <<older, chain>>
  /\ UNCHANGED <<cache, rows, ready, kind, dyn, deploy, flaws, runs>>

Next ==
  \/ Mine
  \/ \E k \in {"transfer", "token", "swap"}, d \in SUBSET Dynamic, saved \in BOOLEAN,
        gone \in SUBSET rows : StartRun(k, d, saved, gone)
  \/ EndRun
  \/ Fail
  \/ RestoreNothing
  \/ \E answered \in SUBSET Names : Restore(answered)
  \/ \E done \in SUBSET (BuiltIn \cup dyn) : CachedAccounts(done)
  \/ CachedNonces
  \/ Begin
  \/ Skip
  \/ \E n \in Addresses, dud \in BOOLEAN, answered \in BOOLEAN : Send(n, dud, answered)
  \/ Confirmed
  \/ \E done \in SUBSET (BuiltIn \cup dyn) : Accounts(done)
  \/ \E saved \in SUBSET Names : Nonces(saved)
  \/ \E saved \in SUBSET Names : SaveBase(saved)
  \/ \E genesis \in BOOLEAN : Restart(genesis)

Spec == Init /\ [][Next]_vars

-----------------------------------------------------------------------------
(* Properties *)

(* Addresses are nonces of the deployer; only saved accounts are ready.      *)
TypeOK ==
  /\ mined \in 0..MaxNonce /\ nonce \in 0..MaxNonce /\ startNonce \in 0..MaxNonce
  /\ \A a \in DOMAIN swapper : swapper[a] \in Addresses \cup {Nowhere}
  /\ \A c \in Names : cache[c] \in Addresses \cup {Nowhere}
  /\ pools \in [Addresses -> {"none", "created", "ready", "liquid"}]
  /\ ready \subseteq rows /\ rows \subseteq Dynamic /\ dyn \subseteq Dynamic
  /\ pc \in {"idle", "restore", "cached accounts", "cached nonces", "begin", "step", "sent",
             "accounts", "nonces", "save", "running"}

(* Attempts that failed half way, restarts, new chains, wiped and half       *)
(* written caches lie behind an address by the time a run sends to it: the   *)
(* contract it needs must be there, and the pool it swaps in have liquidity. *)
(* Rows of a former chain that could not be wiped are not held against it    *)
(* once there is something, whatever it is, at the address of each of them.  *)
Usable ==
  (pc = "running" /\ ~stale /\ ~foreign) =>
    /\ kind # "transfer" => \A c \in ToSet(Base) : Code(base[c]) = c
    /\ kind = "swap" => /\ \A c \in ToSet(Uniswap) : Code(uni[c]) = c
                        /\ blind \/ pools[uni["Factory"]] = "liquid"

(* README.md:381-385, "Per-account setup": USDC, WETH and an approval for    *)
(* every account; a swap run would begin with all of them prepared for the   *)
(* contracts it uses.                                                        *)
SwappersReady ==
  (pc = "running" /\ kind = "swap") =>
    \A a \in BuiltIn \cup dyn : swapper[a] = uni["WETH9"]
=============================================================================
