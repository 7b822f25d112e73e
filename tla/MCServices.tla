----------------------------- MODULE MCServices -----------------------------
(* Services with small parts. *)
EXTENDS Services

(* RpcClient: every operation, the batch ones with two items. *)
One(op) == [op |-> op, items |-> <<"t1">>]
SingleCalls == {"SendRawTransaction", "GetNonce", "GetConfirmedNonce", "GetBlockNumber", "GetGasPrice",
                "GetBaseFee", "GetBalance", "GetCode", "GetBlockByNumber", "GetBlockByNumberFull",
                "GetTransactionReceipt", "GetTransactionByHash"}
BatchCalls  == {"SendRawTransactionBatch", "GetBlocksByNumberFullBatch", "GetTransactionReceiptsBatch"}
SmallCalls ==
  {One(op) : op \in SingleCalls}
    \cup {[op |-> op, items |-> <<"t1", "t2">>] : op \in BatchCalls}

(* One base contract, two of Uniswap, the pool's three transactions: six     *)
(* nonces are a swap run that deploys everything, one more is for a failure. *)
SmallBase    == <<"ERC20">>
SmallUniswap == <<"WETH9", "Factory">>

(* Every selection of blocks, with the default span in a small window, and   *)
(* two requests that are refused: no ERC-20, a span beyond its window.       *)
Mix(call_, balance, logs, block, receipt) ==
  [call |-> call_, balance |-> balance, logs |-> logs, block |-> block, receipt |-> receipt]
Config(mix, select, window, span, depth, archive_, erc20) ==
  [shares |-> mix, select |-> select, window |-> window, span |-> span, depth |-> depth,
   archive |-> archive_, erc20 |-> erc20]
SmallConfigs ==
  { Config(Mix(0, 0, 100, 0, 0), "", 2, 0, 0, "unset", TRUE),
    Config(Mix(0, 0, 100, 0, 0), "archive", 0, 2, 50, "unset", TRUE),
    Config(Mix(0, 100, 0, 0, 0), "archive", 0, 2, 50, "unset", TRUE),
    Config(Mix(0, 0, 0, 50, 50), "latest", 0, 0, 0, "yes", FALSE),
    Config(Mix(50, 50, 0, 0, 0), "recent", 2, 0, 0, "unset", FALSE),
    Config(Mix(0, 0, 100, 0, 0), "recent", 1, 2, 0, "unset", TRUE) }

=============================================================================
