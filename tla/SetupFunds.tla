----------------------------- MODULE SetupFunds -----------------------------
(* How a run comes by the accounts it sends from: kept ones are loaded from  *)
(* the cache and their balances checked, poor ones are funded again, missing *)
(* ones are made and funded, and all of them are saved                       *)
(* (internal/account/manager.go, internal/loadgen/accounts.go, init.go       *)
(* 256-346, the account half of internal/storage/sqlite.go).                 *)
(*                                                                           *)
(* A round of funding shares its accounts out over the faucets in turn; each *)
(* faucet sends without waiting and gives the nonce of a send that failed    *)
(* back, and then the round waits until the chain's nonce says that all went *)
(* through.  A send may fail although the builder has it, or reach it later. *)
(* The faucets' free lists are empty in a round, after Resync.               *)
(*                                                                           *)
(* The builder, the chain and the database are external.  An account is the  *)
(* number of its key; a balance is enough or not.                            *)
EXTENDS Integers, Sequences, FiniteSets, SequencesExt, FiniteSetsExt

CONSTANTS
  NumFaucets,  \* built-in accounts 1..9
  Needs,       \* numbers of dynamic accounts a run may need
  MaxAccounts, \* bound on the accounts made
  MaxNonce,    \* bound on a faucet's nonces
  MaxStrays,   \* bound on the sends that arrive late
  MaxRuns      \* bound on the runs

Faucets  == 1..NumFaucets
Accounts == 1..MaxAccounts
None     == 0   \* no transaction
Traffic  == -1  \* a transaction that funds nobody

VARIABLES
  counter,  \* per faucet, Account.nonce
  slot,     \* per faucet and nonce, whom the builder's transaction funds
  mined,    \* per faucet, the chain's nonce
  rich,     \* accounts with a balance that is enough
  stray,    \* sends on their way: [faucet, nonce, to, of: the run and round]
  cache,    \* cached_accounts, by rowid
  dyn,      \* Manager.dynamicAccounts
  made,     \* accounts made so far
  pc,       \* where initialisation is
  mode,     \* the round: "refund", "new", "cold"
  need,     \* dynamicCount
  kept,     \* allAccounts of tryWarmStartAccounts
  list,     \* the accounts of the round
  at,       \* per faucet, the index it has come to
  start,    \* startingNonces
  waited,   \* per faucet: "", "confirmed", "gave up"
  sent,     \* accountsFunded of the round
  vouched,  \* accounts whose balance was read, or whose round was confirmed (history)
  intruder, \* faucets of which an older transaction holds a nonce of the round (history)
  recycled, \* accounts emptied by RecycleFunds since the run was asked for (history)
  runs      \* runs started

chain   == <<slot, mined, rich, stray>>
keeping == <<cache, dyn>>
round   == <<list, at, start, waited, sent, intruder>>
vars    == <<counter, chain, keeping, made, pc, mode, need, kept, round, vouched, recycled, runs>>

-----------------------------------------------------------------------------
(* The builder and the chain *)

Free(f, n) == n >= mined[f] /\ slot[f][n] = None
Put(f, n, a) == slot' = [slot EXCEPT ![f][n] = a]

(* GetNonce: what the builder holds, or what it reads from the chain once    *)
(* its cache is cleared                                                      *)
GetNonce(f) == {mined[f], Min({n \in 0..MaxNonce : n = MaxNonce \/ Free(f, n)})}

Mine(f) ==
  /\ mined[f] < MaxNonce /\ slot[f][mined[f]] # None
  /\ mined' = [mined EXCEPT ![f] = @ + 1]
  /\ rich' = rich \cup ({slot[f][mined[f]]} \ {Traffic})
  /\ UNCHANGED <<counter, slot, stray, keeping, made, pc, mode, need, kept, round, vouched, recycled, runs>>

Arrive(s) ==
  /\ s \in stray
  /\ stray' = stray \ {s}
  /\ IF Free(s.faucet, s.nonce)
     THEN /\ Put(s.faucet, s.nonce, s.to)
          /\ intruder' = IF s.of = <<runs, mode>> THEN intruder ELSE intruder \cup {s.faucet}
     ELSE UNCHANGED <<slot, intruder>>
  /\ UNCHANGED <<counter, mined, rich, keeping, made, pc, mode, need, kept,
                 list, at, start, waited, sent, vouched, recycled, runs>>

-----------------------------------------------------------------------------
(* A round of funding: FundAccounts, FundDynamicAccounts *)

Fund(m, accts) ==
  /\ pc' = "sync" /\ mode' = m /\ list' = accts /\ sent' = 0
  /\ at' = [f \in Faucets |-> f] /\ waited' = [f \in Faucets |-> ""]
  /\ start' = [f \in Faucets |-> 0] /\ intruder' = {}

NewAccounts(k) == [i \in 1..k |-> made + i]

(* GenerateDynamicAccounts *)
Generate(k) ==
  /\ made + k <= MaxAccounts
  /\ made' = made + k /\ dyn' = NewAccounts(k)

(* the share of a faucet *)
Share(f) == {i \in 1..Len(list) : i % NumFaucets = f % NumFaucets}

(* Resync: each faucet in turn, set if higher *)
Resynced(f, view) == Max({counter[f], view})

Sync ==
  /\ pc = "sync"
  /\ \E view \in [Faucets -> 0..MaxNonce] :
       /\ \A f \in Faucets : view[f] \in GetNonce(f)
       /\ counter' = [f \in Faucets |-> Resynced(f, view[f])]
       /\ \A f \in Faucets : counter'[f] + Cardinality(Share(f)) <= MaxNonce
  /\ start' = counter' /\ pc' = "send"
  /\ intruder' = {f \in Faucets : \E n \in counter'[f]..MaxNonce : slot[f][n] # None}
  /\ UNCHANGED <<chain, keeping, made, mode, need, kept, list, at, waited, sent, vouched, recycled, runs>>

(* a faucet cannot be read: the round is over, and what comes of that is its *)
(* caller's                                                                  *)
SyncFailed ==
  /\ pc = "sync"
  /\ \E last \in 0..NumFaucets - 1, view \in [Faucets -> 0..MaxNonce] :
       /\ \A f \in Faucets : view[f] \in GetNonce(f)
       /\ counter' = [f \in Faucets |-> IF f <= last THEN Resynced(f, view[f]) ELSE counter[f]]
  /\ pc' = "not funded"
  /\ UNCHANGED <<chain, keeping, made, mode, need, kept, round, vouched, recycled, runs>>

(* fundAccountFast of the next account: reserve, send, commit or roll back   *)
Next1(f) == at' = [at EXCEPT ![f] = @ + NumFaucets]

fundAccountFast(f, outcome) ==
  /\ pc = "send" /\ at[f] <= Len(list)
  /\ Next1(f)
  /\ CASE outcome = "accepted" -> /\ Free(f, counter[f]) /\ Put(f, counter[f], list[at[f]])
                                  /\ counter' = [counter EXCEPT ![f] = @ + 1]
                                  /\ sent' = sent + 1 /\ UNCHANGED stray
       [] outcome = "lost"     -> /\ Free(f, counter[f]) /\ Put(f, counter[f], list[at[f]])
                                  /\ UNCHANGED <<counter, sent, stray>>
       [] outcome = "refused"  -> UNCHANGED <<slot, counter, sent, stray>>
       [] outcome = "late"     -> /\ Cardinality(stray) < MaxStrays
                                  /\ stray' = stray \cup
                                       {[faucet |-> f, nonce |-> counter[f], to |-> list[at[f]],
                                          of |-> <<runs, mode>>]}
                                  /\ UNCHANGED <<slot, counter, sent>>
  /\ UNCHANGED <<mined, rich, keeping, made, pc, mode, need, kept, list, start, waited,
                 intruder, vouched, recycled, runs>>

AllSent ==
  /\ pc = "send" /\ \A f \in Faucets : at[f] > Len(list)
  /\ pc' = "wait"
  /\ UNCHANGED <<counter, chain, keeping, made, mode, need, kept, round, vouched, recycled, runs>>

(* waitForNonceConfirmation *)
Confirmed(f) ==
  /\ pc = "wait" /\ waited[f] = ""
  /\ mined[f] >= start[f] + Cardinality(Share(f))
  /\ waited' = [waited EXCEPT ![f] = "confirmed"]
  /\ vouched' = vouched \cup (IF f \in intruder THEN {} ELSE {list[i] : i \in Share(f)})
  /\ UNCHANGED <<counter, chain, keeping, made, pc, mode, need, kept, list, at, start, sent,
                 intruder, recycled, runs>>

GaveUp(f) ==
  /\ pc = "wait" /\ waited[f] = ""
  /\ waited' = [waited EXCEPT ![f] = "gave up"]
  /\ UNCHANGED <<counter, chain, keeping, made, pc, mode, need, kept, list, at, start, sent,
                 intruder, vouched, recycled, runs>>

(* It goes on either way *)
Waited ==
  /\ pc = "wait" /\ \A f \in Faucets : waited[f] # ""
  /\ pc' = "funded"
  /\ UNCHANGED <<counter, chain, keeping, made, mode, need, kept, round, vouched, recycled, runs>>

-----------------------------------------------------------------------------
(* Initialisation *)

Init ==
  /\ counter = [f \in Faucets |-> 0] /\ mined = [f \in Faucets |-> 0]
  /\ slot = [f \in Faucets |-> [n \in 0..MaxNonce |-> None]]
  /\ rich = {} /\ stray = {} /\ cache = <<>> /\ dyn = <<>> /\ made = 0
  /\ pc = "idle" /\ mode = "cold" /\ need = 0 /\ kept = <<>>
  /\ list = <<>> /\ at = [f \in Faucets |-> 1] /\ start = [f \in Faucets |-> 0]
  /\ waited = [f \in Faucets |-> ""] /\ sent = 0 /\ intruder = {} /\ vouched = {}
  /\ recycled = {} /\ runs = 0

StartRun(n) ==
  /\ pc = "idle" /\ runs < MaxRuns
  /\ runs' = runs + 1 /\ need' = n /\ kept' = <<>> /\ vouched' = {} /\ recycled' = {}
  /\ pc' \in {"warm", "cold", "gasless"} /\ mode' = "cold"
  /\ UNCHANGED <<counter, chain, keeping, made, round>>

(* Those of a list that are in S, in its order, and its first n *)
Among(s, S) ==
  LET P == {i \in DOMAIN s : s[i] \in S}
  IN  [k \in 1..Cardinality(P) |-> s[CHOOSE i \in P : Cardinality({j \in P : j <= i}) = k]]

First(n, s) == SubSeq(s, 1, Min({n, Len(s)}))

(* Mutant: an account whose balance cannot be read is taken for funded. *)
ValidateBalances_ErrorsPass(seen) == [funded |-> cache, unfunded |-> <<>>]

(* ValidateBalances: seen are the accounts whose balance was read and is     *)
(* enough; an error counts as poor                                           *)
ValidateBalances(seen) ==
  [funded |-> Among(cache, seen), unfunded |-> Among(cache, Accounts \ seen)]


(* tryWarmStartAccounts, up to its first round *)
tryWarmStart(seen, resetOK) ==
  LET v        == ValidateBalances(seen)
      toRefund == First(need - Len(v.funded), v.unfunded)
  IN
  /\ pc = "warm"
  /\ vouched' = ToSet(v.funded)
  /\ \/ /\ v.funded = <<>>  \* also when there is none, or it cannot be read
        /\ cache' \in {cache, <<>>} /\ (cache' = cache => cache = <<>>)
        /\ pc' = "cold"
        /\ UNCHANGED <<dyn, made, mode, kept, round>>
     \/ /\ v.funded # <<>> /\ Len(v.funded) >= need
        /\ kept' = First(need, v.funded) /\ pc' = "set"
        /\ UNCHANGED <<cache, dyn, made, mode, round>>
     \/ /\ v.funded # <<>> /\ Len(v.funded) < need /\ toRefund # <<>>
        /\ kept' = v.funded /\ UNCHANGED <<cache, dyn, made>>
        /\ IF resetOK THEN Fund("refund", toRefund)
           ELSE pc' = "cold" /\ UNCHANGED <<mode, round>>
     \/ /\ v.funded # <<>> /\ Len(v.funded) < need /\ toRefund = <<>>
        /\ kept' = v.funded /\ UNCHANGED cache
        /\ Generate(need - Len(v.funded)) /\ Fund("new", dyn')
  /\ UNCHANGED <<counter, chain, need, recycled, runs>>

(* LoadCachedAccounts fails *)
LoadFailed ==
  /\ pc = "warm" /\ pc' = "cold"
  /\ UNCHANGED <<counter, chain, keeping, made, mode, need, kept, round, vouched, recycled, runs>>

(* after the poor ones: the missing ones; a round that did not begin adds    *)
(* none of its accounts                                                      *)
AfterRefund ==
  LET now == IF pc = "funded" THEN kept \o list ELSE kept IN
  /\ pc \in {"funded", "not funded"} /\ mode = "refund"
  /\ kept' = now
  /\ IF Len(now) < need
     THEN Generate(need - Len(now)) /\ Fund("new", dyn')
     ELSE pc' = "set" /\ UNCHANGED <<made, dyn, mode, round>>
  /\ UNCHANGED <<counter, chain, cache, need, vouched, recycled, runs>>

AfterNew ==
  /\ pc \in {"funded", "not funded"} /\ mode = "new"
  /\ kept' = kept \o list /\ pc' = "set"
  /\ UNCHANGED <<counter, chain, keeping, made, mode, need, round, vouched, recycled, runs>>

(* SaveCachedAccounts: INSERT OR REPLACE gives a row that was there a new    *)
(* rowid; the transaction may fail                                           *)
Saved(accts) == Among(cache, Accounts \ ToSet(accts)) \o accts

(* SetDynamicAccounts; only a run that made accounts saves                   *)
Set ==
  /\ pc = "set"
  /\ dyn' = kept
  /\ cache' \in IF mode = "new" THEN {Saved(kept), cache} ELSE {cache}
  /\ pc' = "done"
  /\ UNCHANGED <<counter, chain, made, mode, need, kept, round, vouched, recycled, runs>>

(* a cold start refuses to begin with a stale builder *)
Cold(resetOK) ==
  /\ pc = "cold"
  /\ Generate(need) /\ vouched' = {}
  /\ IF resetOK THEN Fund("cold", dyn')
     ELSE pc' = "failed" /\ UNCHANGED <<mode, round>>
  /\ UNCHANGED <<counter, chain, cache, need, kept, recycled, runs>>

AfterCold ==
  /\ pc \in {"funded", "not funded"} /\ mode = "cold"
  /\ IF sent = 0
     THEN pc' = "failed" /\ UNCHANGED cache
     ELSE pc' = "done" /\ cache' \in {Saved(dyn), cache}
  /\ UNCHANGED <<counter, chain, dyn, made, mode, need, kept, round, vouched, recycled, runs>>

(* a gasless run funds nobody, and saves all the same *)
Gasless ==
  /\ pc = "gasless"
  /\ Generate(need) /\ cache' \in {cache \o dyn', cache}
  /\ pc' = "done" /\ vouched' = {}
  /\ UNCHANGED <<counter, chain, mode, need, kept, round, recycled, runs>>

(* InitializeNonces, and the run: it spends what accounts have, and sends    *)
(* from faucets too                                                          *)
Run(spent, busy) ==
  /\ pc = "done"
  /\ rich' = rich \ spent /\ vouched' = {}
  /\ \E view \in [Faucets -> 0..MaxNonce] :
       /\ \A f \in Faucets : view[f] \in GetNonce(f)
       /\ \A f \in busy : view[f] < MaxNonce /\ Free(f, view[f])
       /\ counter' = [f \in Faucets |-> view[f] + (IF f \in busy THEN 1 ELSE 0)]
       /\ slot' = [f \in Faucets |->
                    IF f \in busy THEN [slot[f] EXCEPT ![view[f]] = Traffic] ELSE slot[f]]
  /\ pc' = "idle"
  /\ UNCHANGED <<mined, stray, keeping, made, mode, need, kept, round, recycled, runs>>

(* the run does not begin: also when InitializeNonces fails *)
Fail ==
  /\ pc \in {"failed", "done"} /\ pc' = "idle"
  /\ UNCHANGED <<counter, chain, keeping, made, mode, need, kept, round, vouched, recycled, runs>>

(* RecycleFunds is refused in a run only: not while one is set up            *)
RecycleFunds(back) ==
  /\ back # {}
  /\ rich' = rich \ back /\ recycled' = recycled \cup back
  /\ UNCHANGED <<counter, slot, mined, stray, keeping, made, pc, mode, need, kept, round,
                 vouched, runs>>

Next ==
  \/ \E f \in Faucets : Mine(f)
  \/ \E s \in stray : Arrive(s)
  \/ \E n \in Needs : StartRun(n)
  \/ \E seen \in SUBSET (rich \cap ToSet(cache)), ok \in BOOLEAN : tryWarmStart(seen, ok)
  \/ LoadFailed
  \/ \E ok \in BOOLEAN : Cold(ok)
  \/ Gasless
  \/ Sync
  \/ SyncFailed
  \/ \E f \in Faucets, o \in {"accepted", "lost", "refused", "late"} : fundAccountFast(f, o)
  \/ AllSent
  \/ \E f \in Faucets : Confirmed(f)
  \/ \E f \in Faucets : GaveUp(f)
  \/ Waited
  \/ AfterRefund
  \/ AfterNew
  \/ AfterCold
  \/ Set
  \/ \E spent \in SUBSET (ToSet(dyn) \cap rich), busy \in SUBSET Faucets : Run(spent, busy)
  \/ Fail
  \/ \E back \in SUBSET (ToSet(dyn) \cap rich) : RecycleFunds(back)

Spec == Init /\ [][Next]_vars

-----------------------------------------------------------------------------
(* Properties *)

(* Every list names accounts that were made; counts stay in their ranges.    *)
TypeOK ==
  /\ counter \in [Faucets -> 0..MaxNonce] /\ mined \in [Faucets -> 0..MaxNonce]
  /\ \A f \in Faucets : slot[f] \in [0..MaxNonce -> {None, Traffic} \cup Accounts]
  /\ rich \subseteq Accounts /\ vouched \subseteq Accounts /\ made \in 0..MaxAccounts
  /\ ToSet(cache) \cup ToSet(dyn) \cup ToSet(kept) \cup ToSet(list) \subseteq Accounts
  /\ pc \in {"idle", "warm", "cold", "gasless", "sync", "not funded", "send", "wait",
             "funded", "set", "done", "failed"}
  /\ mode \in {"refund", "new", "cold"}
  /\ waited \in [Faucets -> {"", "confirmed", "gave up"}]

(* The wait looks at one number per faucet and calls every account of its    *)
(* share funded (the log line "Account funding complete and confirmed"):     *)
(* sends that fail, whose answer is lost or that arrive late, and the nonces *)
(* given back for them, must not make up that number without the accounts    *)
(* being paid.  And however the accounts were come by, a run begins with as  *)
(* many as it needs, no two the same.  Where a transaction from before the   *)
(* round holds one of its nonces the wait says nothing, and the model then   *)
(* vouches for nobody; RecycleFunds, which may empty accounts while a run is *)
(* set up, is not held against it.                                           *)
ConfirmedMeansFunded ==
  /\ vouched \ recycled \subseteq rich
  /\ pc = "done" => IsInjective(dyn) /\ Len(dyn) = need
=============================================================================
