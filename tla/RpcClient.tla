----------------------------- MODULE RpcClient -----------------------------
(* The JSON-RPC client (internal/rpc/client.go): a call, alone or in a batch *)
(* of one HTTP request, its retries with their backoff, and what each        *)
(* operation makes of the answer.  An attempt that the client gives up may   *)
(* still be under way and reach the node after a later one.                  *)
(*                                                                           *)
(* The node is external: it has a head, transactions in its pool and mined   *)
(* ones, answers batch items in any order, leaves some out, and may answer   *)
(* with something that does not decode.  Payloads keep what they are about   *)
(* and the head they were made at.                                           *)
EXTENDS Integers, Sequences, SequencesExt

CONSTANTS
  Calls,          \* [op, items]: what the generator asks for
  Txs,            \* transactions
  MaxRetries,     \* ClientConfig.MaxRetries
  InitialBackoff, \* ClientConfig.InitialBackoff, in units of 100 ms
  MaxBackoff,     \* ClientConfig.MaxBackoff
  RetryAfters,    \* what a Retry-After header may say; 0: there is none
  Oddities,       \* kinds of payload besides the right one: of "null", "garbled", "badhex", "error"
  MaxHead,        \* bound on the head
  MaxCalls        \* bound on the calls

VARIABLES
  head,     \* the node's head
  pool,     \* transactions the node has accepted
  mined,    \* transactions in its blocks
  phase,    \* "idle", "waiting" for an answer, "backoff"
  call,     \* the call under way, or the last one
  stage,    \* the request of GetNonce: 1 eth_getPendingNonce, 2 its fallback
  attempt,  \* the attempt, from 0
  backoff,  \* the backoff as it stands
  wire,     \* the attempts whose request the node has not seen yet
  stray,    \* transactions in requests of earlier calls the node has not seen yet
  reply,    \* the node's answer to this attempt: a sequence of [id, payload]
  results,  \* per item, what the caller gets
  began,    \* the head when the call began (history)
  calls     \* calls made

vars == <<head, pool, mined, phase, call, stage, attempt, backoff, wire, stray, reply,
          results, began, calls>>

node    == <<head, pool, mined>>
request == <<call, stage, began, calls>>

NoReply == <<[id |-> 0]>>
Known   == pool \cup mined

-----------------------------------------------------------------------------
(* What each operation makes of a payload *)

Value(p)      == [kind |-> "value", item |-> p.item, at |-> p.at]
Failed        == [kind |-> "failed"]
Nil           == [kind |-> "nil"]
Panicked      == [kind |-> "panic"]
Zeroed(p)     == [kind |-> "zeroed", item |-> p.item, at |-> p.at]

(* hexutil.MustDecode: a null leaves the string empty, which is no number *)
Quantity(p) ==
  CASE p.kind = "value"              -> Value(p)
    [] p.kind \in {"null", "badhex"} -> Panicked
    [] p.kind = "garbled"            -> Failed

GetConfirmedNonce(p) == Quantity(p)
GetBlockNumber(p)    == Quantity(p)
GetGasPrice(p)       == Quantity(p)
GetBalance(p)        == Quantity(p)
GetBaseFee(p)        == IF p.kind = "null" THEN Failed ELSE Quantity(p)

GetCode(p) ==
  CASE p.kind = "garbled" -> Failed
    [] p.kind = "null"    -> Nil
    [] OTHER              -> Value(p)

(* A block without a number that decodes is an error; gas and time are zero *)
GetBlockByNumber(p) ==
  CASE p.kind = "value" -> Value(p)
    [] p.kind = "null"  -> Nil
    [] OTHER            -> Failed

GetBlockByNumberFull(p) == GetBlockByNumber(p)

(* A receipt whose status does not decode says reverted *)
GetTransactionReceipt(p) ==
  CASE p.kind = "value"   -> Value(p)
    [] p.kind = "null"    -> Nil
    [] p.kind = "badhex"  -> Zeroed(p)
    [] p.kind = "garbled" -> Failed

GetTransactionByHash(p) == GetTransactionReceipt(p)

SendRawTransaction(p) == [kind |-> "value", item |-> p.item, at |-> p.at]

(* In a batch nothing is an error: an item that failed is left out *)
parseBlockFull(p) == IF p.kind = "value" THEN Value(p) ELSE Nil

parseReceipt(p) ==
  CASE p.kind = "value"  -> Value(p)
    [] p.kind = "badhex" -> Zeroed(p)
    [] OTHER             -> Nil

SendRawTransactionBatch(p) == IF p.kind = "error" THEN Failed ELSE SendRawTransaction(p)

BatchOps == {"SendRawTransactionBatch", "GetBlocksByNumberFullBatch", "GetTransactionReceiptsBatch"}
SingleOps == {"SendRawTransaction", "GetNonce", "GetConfirmedNonce", "GetBlockNumber", "GetGasPrice",
              "GetBaseFee", "GetBalance", "GetCode", "GetBlockByNumber", "GetBlockByNumberFull",
              "GetTransactionReceipt", "GetTransactionByHash"}
SendOps  == {"SendRawTransaction", "SendRawTransactionBatch"}

(* one item's result, once its payload is not an error of the node *)
Decoded(op, p) ==
  CASE op = "SendRawTransaction"          -> SendRawTransaction(p)
    [] op = "SendRawTransactionBatch"     -> SendRawTransactionBatch(p)
    [] op = "GetBlocksByNumberFullBatch"  -> parseBlockFull(p)
    [] op = "GetTransactionReceiptsBatch" -> parseReceipt(p)
    [] op = "GetNonce"                    -> Quantity(p)
    [] op = "GetConfirmedNonce"           -> GetConfirmedNonce(p)
    [] op = "GetBlockNumber"              -> GetBlockNumber(p)
    [] op = "GetGasPrice"                 -> GetGasPrice(p)
    [] op = "GetBaseFee"                  -> GetBaseFee(p)
    [] op = "GetBalance"                  -> GetBalance(p)
    [] op = "GetCode"                     -> GetCode(p)
    [] op = "GetBlockByNumber"            -> GetBlockByNumber(p)
    [] op = "GetBlockByNumberFull"        -> GetBlockByNumberFull(p)
    [] op = "GetTransactionReceipt"       -> GetTransactionReceipt(p)
    [] op = "GetTransactionByHash"        -> GetTransactionByHash(p)

(* doBatchRequest: the answers are put back in order by their IDs; an item   *)
(* without an answer is an error                                             *)
MissingAnswer(op) == IF op \in SendOps THEN Failed ELSE Nil

(* Mutant: answers are taken in the order they come in. *)
ByID_Position(op, answer, i) ==
  IF i \in DOMAIN answer THEN Decoded(op, answer[i].payload) ELSE MissingAnswer(op)

ByID(op, answer, i) ==
  LET mine == {j \in DOMAIN answer : answer[j].id = i}
  IN  IF mine = {} THEN MissingAnswer(op)
      ELSE Decoded(op, answer[CHOOSE j \in mine : \A k \in mine : k <= j].payload)

doBatchRequest(c, answer) == [i \in DOMAIN c.items |-> ByID(c.op, answer, i)]

(* BatchCall failed altogether: every item of a send has its error, a batch  *)
(* of reads returns no list; so does a single call                           *)
AllFailed(c) == [i \in DOMAIN c.items |-> Failed]

-----------------------------------------------------------------------------
Init ==
  /\ head = 0 /\ pool = {} /\ mined = {}
  /\ phase = "idle" /\ call = [op |-> "none", items |-> <<>>] /\ stage = 1
  /\ attempt = 0 /\ backoff = InitialBackoff
  /\ wire = {} /\ stray = {} /\ reply = NoReply /\ results = <<>>
  /\ began = 0 /\ calls = 0

(* The node mines what it has *)
Mine(block) ==
  /\ head < MaxHead /\ block \subseteq pool
  /\ head' = head + 1
  /\ mined' = mined \cup block /\ pool' = pool \ block
  /\ UNCHANGED <<request, phase, attempt, backoff, wire, stray, reply, results>>

(* Call and BatchCall: the request is made once, with its IDs *)
Begin(c) ==
  /\ phase = "idle" /\ calls < MaxCalls
  /\ stray' = IF wire # {} /\ call.op \in SendOps THEN stray \cup ToSet(call.items) ELSE stray
  /\ call' = c /\ stage' = 1 /\ calls' = calls + 1
  /\ attempt' = 0 /\ backoff' = InitialBackoff
  /\ wire' = {0} /\ reply' = NoReply /\ results' = <<>>
  /\ began' = head
  /\ phase' = "waiting"
  /\ UNCHANGED node

-----------------------------------------------------------------------------
(* The node *)

(* Of two copies of a transaction in one request or in two the second is refused *)
Payload(item, kind) == [kind |-> kind, item |-> item, at |-> head]

Right(op, item) ==
  CASE op \in SendOps -> IF item \in Known THEN "error" ELSE "value"
    [] op \in {"GetTransactionReceipt", "GetTransactionReceiptsBatch"} ->
         IF item \in mined THEN "value" ELSE "null"
    [] op = "GetTransactionByHash" -> IF item \in Known THEN "value" ELSE "null"
    [] OTHER -> "value"

(* An answer with a field that is no number is still one about what it has *)
MayBe(op, item) ==
  IF op \in SendOps THEN {"error"}
  ELSE IF Right(op, item) = "null" THEN Oddities \ {"badhex"} ELSE Oddities

Payloads(op, item) ==
  {Payload(item, kind) : kind \in {Right(op, item)} \cup MayBe(op, item)}

(* The node handles the request of attempt a, as it may be seconds later.   *)
(* Only the attempt the client still waits for gets its answer back.        *)
NodeHandles(a, answers) ==
  /\ a \in wire
  /\ wire' = wire \ {a}
  /\ \A i \in DOMAIN call.items : answers[i] \in Payloads(call.op, call.items[i])
  /\ pool' = IF call.op \in SendOps
             THEN pool \cup {answers[i].item : i \in {j \in DOMAIN answers : answers[j].kind = "value"}}
             ELSE pool
  /\ IF phase = "waiting" /\ a = attempt
     THEN \E ids \in {s \in UNION {[1..n -> DOMAIN answers] : n \in 0..Len(answers)} : IsInjective(s)} :
            reply' = [k \in DOMAIN ids |-> [id |-> ids[k], payload |-> answers[ids[k]]]]
     ELSE UNCHANGED reply
  /\ UNCHANGED <<head, mined, request, phase, attempt, backoff, stray, results>>

StrayArrives(t) ==
  /\ t \in stray /\ stray' = stray \ {t}
  /\ pool' = IF t \in mined THEN pool ELSE pool \cup {t}
  /\ UNCHANGED <<head, mined, request, phase, attempt, backoff, wire, reply, results>>

-----------------------------------------------------------------------------
(* The client *)

Answered == phase = "waiting" /\ reply # NoReply

Return(r) ==
  /\ results' = r /\ phase' = "idle" /\ reply' = NoReply
  /\ UNCHANGED <<node, request, attempt, backoff, wire, stray>>

(* GetNonce tries the standard query when the builder's does not answer *)
FallsBack == call.op = "GetNonce" /\ stage = 1
TryNext ==
  /\ stage' = 2 /\ attempt' = 0 /\ backoff' = InitialBackoff
  /\ wire' = {0} /\ reply' = NoReply
  /\ phase' = "waiting"
  /\ UNCHANGED <<node, call, began, calls, stray, results>>

(* A whole answer to a batch *)
BatchReturns ==
  /\ Answered /\ call.op \in BatchOps
  /\ Return(doBatchRequest(call, reply))

(* A single call's: an error of the node is not tried again *)
SingleReturns ==
  /\ Answered /\ call.op \notin BatchOps
  /\ reply # <<>>
  /\ LET p == reply[1].payload IN
       IF FallsBack /\ p.kind \in {"error", "garbled"}
       THEN TryNext
       ELSE Return(<<IF p.kind = "error" THEN Failed ELSE Decoded(call.op, p)>>)

(* doRequest failed: the connection broke or timed out, the status was not   *)
(* 200, the answer did not parse.  Only 429, 502, 503 and 504 look at the    *)
(* Retry-After header; every one of them is tried again.                     *)
Delay(retryable, after) == IF retryable /\ after > 0 THEN after ELSE backoff

(* Mutant: one attempt more than is allowed. *)
AttemptFails_OneMore(retryable, after) ==
  /\ phase = "waiting"
  /\ IF attempt <= MaxRetries
     THEN /\ phase' = "backoff" /\ reply' = NoReply
          /\ backoff' = Delay(retryable, after)
          /\ UNCHANGED <<node, request, attempt, wire, stray, results>>
     ELSE IF FallsBack THEN TryNext ELSE Return(AllFailed(call))

AttemptFails(retryable, after) ==
  /\ phase = "waiting"
  /\ IF attempt < MaxRetries
     THEN /\ phase' = "backoff" /\ reply' = NoReply
          /\ backoff' = Delay(retryable, after)
          /\ UNCHANGED <<node, request, attempt, wire, stray, results>>
     ELSE IF FallsBack THEN TryNext ELSE Return(AllFailed(call))

(* The wait is over: the same body once more, the backoff doubled *)
Retry ==
  /\ phase = "backoff"
  /\ attempt' = attempt + 1
  /\ backoff' = (IF backoff * 2 <= MaxBackoff THEN backoff * 2 ELSE MaxBackoff)
  /\ wire' = wire \cup {attempt'} /\ phase' = "waiting"
  /\ UNCHANGED <<node, request, stray, reply, results>>

(* The caller's context ends: no attempt follows, the last one may go on *)
ContextEnds ==
  /\ phase \in {"waiting", "backoff"}
  /\ Return(AllFailed(call))

(* A request the node never gets *)
Lost(a) ==
  /\ a \in wire /\ wire' = wire \ {a}
  /\ UNCHANGED <<node, request, phase, attempt, backoff, stray, reply, results>>

AnswersTo(c) ==
  [DOMAIN c.items -> UNION {Payloads(c.op, c.items[i]) : i \in DOMAIN c.items}]

Next ==
  \/ \E block \in SUBSET pool : Mine(block)
  \/ \E c \in Calls : Begin(c)
  \/ \E a \in wire : \E answers \in AnswersTo(call) : NodeHandles(a, answers)
  \/ \E t \in stray : StrayArrives(t)
  \/ BatchReturns
  \/ SingleReturns
  \/ \E retryable \in BOOLEAN, after \in RetryAfters : AttemptFails(retryable, after)
  \/ Retry
  \/ ContextEnds
  \/ \E a \in wire : Lost(a)

Spec == Init /\ [][Next]_vars

-----------------------------------------------------------------------------
(* Properties *)

(* Attempts stay within MaxRetries; a result is one of the five kinds.       *)
TypeOK ==
  /\ head \in 0..MaxHead /\ pool \subseteq Txs /\ mined \subseteq Txs
  /\ phase \in {"idle", "waiting", "backoff"}
  /\ call.op = "none" \/ call \in Calls
  /\ stage \in {1, 2} /\ attempt \in 0..MaxRetries
  /\ backoff \in Nat
  /\ wire \subseteq 0..MaxRetries /\ stray \subseteq Txs
  /\ \A i \in DOMAIN results : results[i].kind \in {"value", "failed", "nil", "panic", "zeroed"}

(* Answers come in any order, without some items, after earlier attempts     *)
(* that were given up and still reached the node: each result is the node's  *)
(* answer to that very item, made after the call began; a transaction        *)
(* reported as sent is at the node, a receipt or a transaction that was      *)
(* returned is of one the node has.                                          *)
ResultsAreOwn ==
  phase = "idle" /\ results # <<>> =>
    /\ Len(results) = Len(call.items)
    /\ \A i \in DOMAIN results : results[i].kind \in {"value", "zeroed"} =>
         /\ results[i].item = call.items[i]
         /\ results[i].at >= began
         /\ call.op \in SendOps \cup {"GetTransactionByHash"} => call.items[i] \in Known
         /\ call.op \in {"GetTransactionReceipt", "GetTransactionReceiptsBatch"} =>
              call.items[i] \in mined
=============================================================================
