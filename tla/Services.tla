------------------------------ MODULE Services ------------------------------
(* Four components that share no state: the JSON-RPC client (RpcClient), the *)
(* accounts a run gets (SetupFunds), its contracts (Deployment) and the      *)
(* reads beside it (ReadLoad).  Each behaviour is one of one part; in the    *)
(* others Deployment stays as it begins and the rest is nothing.             *)
EXTENDS Deployment

CONSTANTS
  Calls, Txs, MaxRetries, InitialBackoff, MaxBackoff, RetryAfters, Oddities,
  MaxHead, MaxCalls,                                                      \* RpcClient
  NumFaucets, Needs, MaxAccounts, FaucetNonces, MaxStrays, FundedRuns,    \* SetupFunds
  Configs, Workers, MaxReads, MaxTip                                      \* ReadLoad

VARIABLES
  part,
  head, pool, known, phase, call, stage, attempt, backoff, wire, stray, reply, results,
  began, calls,
  counter, funding, funded, rich, late, cachedAccounts, dynAccounts, made, fundingAt,
  mode, need, kept, list, at, start, waited, sent, vouched, intruder, recycled, fundRuns,
  cfg, engine, archive, tip, cachedHead, confirmed, worker, read, reads, errs, skips,
  count, errors, lat, pooled, answered, failed, permits, row

fundVars   == <<counter, funding, funded, rich, late, cachedAccounts, dynAccounts,
                made, fundingAt, mode, need, kept, list, at, start, waited, sent,
                vouched, intruder, recycled, fundRuns>>
rpcVars    == <<head, pool, known, phase, call, stage, attempt, backoff, wire, stray,
                reply, results, began, calls>>
readVars   == <<cfg, engine, archive, tip, cachedHead, confirmed, worker, read, reads,
                errs, skips, count, errors, lat, pooled, answered, failed, permits, row>>

-----------------------------------------------------------------------------
Client == INSTANCE RpcClient WITH mined <- known

Funds == INSTANCE SetupFunds WITH
  MaxNonce <- FaucetNonces, MaxRuns <- FundedRuns,
  slot <- funding, mined <- funded, stray <- late, cache <- cachedAccounts, dyn <- dynAccounts,
  pc <- fundingAt, runs <- fundRuns

Reads == INSTANCE ReadLoad WITH
  MaxHead <- MaxTip, phase <- engine, head <- tip, pc <- worker, sent <- reads

(* What the generator asks the node for: one item in a call of its own, any  *)
(* number in a batch.  The fields of a types.ReadLoadConfig are integers;    *)
(* "unknown" is any selection that Validate does not know.                   *)
ASSUME ServicesAssumption ==
  /\ {MaxRetries, InitialBackoff, MaxBackoff, MaxHead, MaxCalls} \subseteq Nat
  /\ RetryAfters \subseteq Nat
  /\ Oddities \subseteq {"null", "garbled", "badhex", "error"}
  /\ \A c \in Calls :
       /\ c.items \in Seq(Txs)
       /\ c.op \in Client!BatchOps \cup Client!SingleOps
       /\ c.op \in Client!SingleOps => Len(c.items) = 1
  /\ NumFaucets \in Nat \ {0} /\ Needs \subseteq Nat
  /\ {MaxAccounts, FaucetNonces, MaxStrays, FundedRuns} \subseteq Nat
  /\ IsFiniteSet(Workers) /\ MaxTip \in Nat /\ MaxReads \in Nat
  /\ Configs \subseteq [shares : [Reads!Methods -> Int],
                        select : {"", "latest", "recent", "archive", "unknown"}, window : Int,
                        span : Int, depth : Int, archive : {"unset", "yes", "no"}, erc20 : BOOLEAN]

-----------------------------------------------------------------------------
NoCalls ==
  /\ head = 0 /\ pool = 0 /\ known = 0 /\ phase = 0 /\ call = 0 /\ stage = 0
  /\ attempt = 0 /\ backoff = 0 /\ wire = 0 /\ stray = 0 /\ reply = 0 /\ results = 0
  /\ began = 0 /\ calls = 0
NoFunds ==
  /\ counter = 0 /\ funding = 0 /\ funded = 0 /\ rich = 0 /\ late = 0
  /\ cachedAccounts = 0 /\ dynAccounts = 0 /\ made = 0 /\ fundingAt = 0 /\ mode = 0
  /\ need = 0 /\ kept = 0 /\ list = 0 /\ at = 0 /\ start = 0 /\ waited = 0 /\ sent = 0
  /\ vouched = 0 /\ intruder = 0 /\ recycled = 0 /\ fundRuns = 0
NoReads ==
  /\ cfg = 0 /\ engine = 0 /\ archive = 0 /\ tip = 0 /\ cachedHead = 0 /\ confirmed = 0
  /\ worker = 0 /\ read = 0 /\ reads = 0 /\ errs = 0 /\ skips = 0 /\ count = 0
  /\ errors = 0 /\ lat = 0 /\ pooled = 0 /\ answered = 0 /\ failed = 0 /\ permits = 0
  /\ row = 0

PartInit ==
  \/ part = "rpc" /\ Client!Init /\ NoFunds /\ Init /\ NoReads
  \/ part = "funds" /\ Funds!Init /\ NoCalls /\ Init /\ NoReads
  \/ part = "contracts" /\ Init /\ NoCalls /\ NoFunds /\ NoReads
  \/ part = "reads" /\ Reads!Init /\ NoCalls /\ NoFunds /\ Init

PartNext ==
  /\ UNCHANGED part
  /\ \/ part = "rpc" /\ Client!Next /\ UNCHANGED <<vars, fundVars, readVars>>
     \/ part = "funds" /\ Funds!Next /\ UNCHANGED <<vars, rpcVars, readVars>>
     \/ part = "contracts" /\ Next /\ UNCHANGED <<rpcVars, fundVars, readVars>>
     \/ part = "reads" /\ Reads!Next /\ UNCHANGED <<vars, rpcVars, fundVars>>

PartSpec == PartInit /\ [][PartNext]_<<part, vars, rpcVars, fundVars, readVars>>

-----------------------------------------------------------------------------
(* The properties of the parts; those of Deployment are its own. *)

(* Each part's variables keep their types, whatever fails half way.          *)
TypesOK ==
  /\ part = "rpc" => Client!TypeOK
  /\ part = "funds" => Funds!TypeOK
  /\ TypeOK
  /\ part = "reads" => Reads!TypeOK

(* A retried or batched call gives every item the node's answer to it.       *)
AnswersAreOwn == part = "rpc" => Client!ResultsAreOwn

(* A round of funding that was confirmed has funded its accounts.            *)
ConfirmedMeansFunded == part = "funds" => Funds!ConfirmedMeansFunded

(* What the row of the run keeps of its reads is what was read.              *)
ReadsAddUp == part = "reads" => Reads!ReadsAddUp

(* A read asks for blocks within the selection.                              *)
RangesWithin == part = "reads" => Reads!RangesWithin
=============================================================================
