---------------------------- MODULE Verification ----------------------------
(* On-chain verification of one run of a fresh process: the lists of recent  *)
(* blocks and confirmed hashes the streams fill                              *)
(* (internal/loadgen/websocket.go, chainpoller.go), the incremental          *)
(* snapshots that drain them every five minutes and once more when the test  *)
(* stops (verification.go), and the verifier itself                          *)
(* (internal/verification/verifier.go): tip ordering by sender, sampled      *)
(* receipts, the aggregation of the snapshots or, without any, the full      *)
(* verification.                                                             *)
(*                                                                           *)
(* lg.verifier is made once: a later run judges its snapshots by the         *)
(* includeDepositTx the first one was told, which is not modelled.           *)
EXTENDS Integers, Sequences, FiniteSets, SequencesExt

CONSTANTS
  Chains,      \* chains the run may meet: functions from blocks to sequences of
               \* [from, tip, price, hash, ok]
  Orderings,   \* of "tip_desc", "tip_asc", "fifo": what the builder may be set to
  Cap,         \* length of the lists of recent blocks and hashes (1000 in the code)
  SampleMax,   \* blocks and receipts sampled per snapshot (10 in the code)
  Interval,    \* the full verification samples every Interval-th block (10 in the code)
  FullSample,  \* receipts the full verification samples (100 in the code)
  Polled       \* TRUE: hashes come from the chain poller, which lists no block

VARIABLES
  chain,      \* the chain of this run
  ordering,   \* the builder's ordering, as the end of the test gets it
  live,       \* lg.txOrdering: the same, or nothing when the builder did not answer
  deposit,    \* includeDepositTx
  header,     \* the last header newHeads delivered
  confirmed,  \* the hashes confirmed so far (history)
  recentB,    \* recentBlockNumbers
  recentH,    \* recentConfirmedHashes
  gone,       \* hashes that fell off the list (history)
  at,         \* per drainer, where runIncrementalVerification is
  taken,      \* per drainer, the lists it copied
  snapshots,  \* incrementalSnapshots
  phase,      \* "running", "stopping", "done"
  result      \* the VerificationResult

vars == <<chain, ordering, live, deposit, header, confirmed, recentB, recentH, gone, at, taken,
          snapshots, phase, result>>

Drainers == {"ticker", "stop"}
Nothing  == [blocks |-> <<>>, hashes |-> <<>>]
NoResult == [made |-> FALSE, pass |-> FALSE, delta |-> 0, blocks |-> {}, hashes |-> {}, faults |-> {}]

TxsOf(b)    == ToSet(chain[b])
(* The transactions of the run; the deposit of a block is the system's *)
Hashes      == {t.hash : t \in {u \in UNION {TxsOf(b) : b \in DOMAIN chain} : u.from # "system"}}
TxOf(h)     == CHOOSE t \in UNION {TxsOf(b) : b \in DOMAIN chain} : t.hash = h
BlockOf(h)  == CHOOSE b \in DOMAIN chain : \E t \in TxsOf(b) : t.hash = h
IndexOf(h)  == CHOOSE i \in DOMAIN chain[BlockOf(h)] : chain[BlockOf(h)][i].hash = h
(* confirmations come in the order of the chain *)
Before(g, h) == BlockOf(g) < BlockOf(h) \/ (BlockOf(g) = BlockOf(h) /\ IndexOf(g) < IndexOf(h))
LastOf(s)   == IF Len(s) > Cap THEN SubSeq(s, Len(s) - Cap + 1, Len(s)) ELSE s

-----------------------------------------------------------------------------
(* The verifier's judgement of a block *)

(* extractSenderTips: without the deposit at the head of the block, when     *)
(* there is one; a legacy transaction's gas price stands for its tip         *)
UserTxs(b) ==
  IF deposit /\ chain[b] # <<>> THEN Tail(chain[b]) ELSE chain[b]

TipOf(t)   == IF t.tip = 0 /\ t.price > 0 THEN t.price ELSE t.tip
Senders(b) == {t.from : t \in ToSet(UserTxs(b))}
FirstAt(b, s) == CHOOSE i \in DOMAIN UserTxs(b) :
                   /\ UserTxs(b)[i].from = s
                   /\ \A j \in 1..(i - 1) : UserTxs(b)[j].from # s
SenderOrder(b) == CHOOSE f \in SetToSeqs(Senders(b)) :
                    \A i, j \in DOMAIN f : i < j => FirstAt(b, f[i]) < FirstAt(b, f[j])
MaxTip(b, s)   == Max({0} \cup {TipOf(t) : t \in {u \in ToSet(UserTxs(b)) : u.from = s}})
SenderTips(b)  == [i \in DOMAIN SenderOrder(b) |-> MaxTip(b, SenderOrder(b)[i])]

(* findSenderOrderingViolations: neighbours in the wrong order, ten at most *)
Violations(b) ==
  LET tips == SenderTips(b)
      bad  == {i \in 2..Len(tips) :
                 \/ ordering = "tip_desc" /\ tips[i] > tips[i - 1]
                 \/ ordering = "tip_asc"  /\ tips[i] < tips[i - 1]}
  IN  {i \in bad : Cardinality({j \in bad : j < i}) < 10}

(* Mutant: the first pair is not compared. *)
IsOrdered_SkipsFirst(b) ==
  LET tips == SenderTips(b) IN
    \A i \in 3..Len(tips) :
      /\ ordering = "tip_desc" => tips[i] <= tips[i - 1]
      /\ ordering = "tip_asc"  => tips[i] >= tips[i - 1]

(* checkSenderTipOrdering *)
IsOrdered(b) ==
  LET tips == SenderTips(b) IN
    \A i \in 2..Len(tips) :
      /\ ordering = "tip_desc" => tips[i] <= tips[i - 1]
      /\ ordering = "tip_asc"  => tips[i] >= tips[i - 1]

ChecksOrder(o) == o \in {"tip_desc", "tip_asc"}

(* Evenly spread over a list: every step-th entry, SampleMax of them *)
Spread(s) ==
  LET step == IF Len(s) > SampleMax THEN Len(s) \div SampleMax ELSE 1
  IN  {s[i] : i \in {j \in DOMAIN s : (j - 1) % step = 0 /\ (j - 1) \div step < SampleMax}}

Reverted(H) == {h \in H : ~TxOf(h).ok}

-----------------------------------------------------------------------------
Init ==
  /\ chain \in Chains
  /\ ordering \in Orderings /\ live \in {ordering, ""}
  /\ deposit = (\E b \in DOMAIN chain : \E t \in TxsOf(b) : t.from = "system")
  /\ header = 0 /\ confirmed = {} /\ gone = {}
  /\ recentB = <<>> /\ recentH = <<>>
  /\ at = [d \in Drainers |-> "idle"]
  /\ taken = [d \in Drainers |-> Nothing]
  /\ snapshots = {}
  /\ phase = "running"
  /\ result = NoResult

(* A confirmation up to the end block, the grace period included: its hash   *)
(* is listed, and from the preconfirmation stream its block too unless it is *)
(* the last one listed                                                       *)
Confirm(h) ==
  /\ phase # "done" /\ h \in Hashes \ confirmed
  /\ \A g \in Hashes \ confirmed : g = h \/ Before(h, g)
  /\ confirmed' = confirmed \cup {h}
  /\ recentH' = LastOf(Append(recentH, h))
  /\ gone' = gone \cup (ToSet(recentH) \ ToSet(recentH'))
  /\ recentB' = IF Polled \/ (recentB # <<>> /\ Last(recentB) = BlockOf(h))
                THEN recentB ELSE LastOf(Append(recentB, BlockOf(h)))
  /\ UNCHANGED <<chain, ordering, live, deposit, header, at, taken, snapshots, phase, result>>

(* processNewHead lists every header *)
NewHeader(b) ==
  /\ ~Polled
  /\ phase # "done" /\ b > header
  /\ header' = b
  /\ recentB' = LastOf(Append(recentB, b))
  /\ UNCHANGED <<chain, ordering, live, deposit, confirmed, recentH, gone, at, taken,
                 snapshots, phase, result>>

(* runIncrementalVerification, by the ticker's goroutine and by              *)
(* stopIncrementalVerification: two locks, two lists                         *)
MayDrain(d) == IF d = "ticker" THEN phase = "running" ELSE phase = "stopping"

DrainBlocks(d) ==
  /\ at[d] = "idle" /\ MayDrain(d)
  /\ at' = [at EXCEPT ![d] = "blocks"]
  /\ taken' = [taken EXCEPT ![d].blocks = recentB]
  /\ recentB' = <<>>
  /\ UNCHANGED <<chain, ordering, live, deposit, header, confirmed, recentH, gone, snapshots, phase, result>>

(* Mutant: the list is copied and not emptied. *)
DrainHashes_Keeps(d) ==
  /\ at[d] = "blocks"
  /\ taken' = [taken EXCEPT ![d].hashes = recentH]
  /\ at' = [at EXCEPT ![d] = "hashes"]
  /\ UNCHANGED <<chain, ordering, live, deposit, header, confirmed, recentB, recentH, gone,
                 snapshots, phase, result>>

DrainHashes(d) ==
  /\ at[d] = "blocks"
  /\ taken' = [taken EXCEPT ![d].hashes = recentH]
  /\ recentH' = <<>>
  /\ at' = [at EXCEPT ![d] = "hashes"]
  /\ UNCHANGED <<chain, ordering, live, deposit, header, confirmed, recentB, gone, snapshots, phase, result>>

(* VerifyIncremental: without blocks it looks at nothing; a block of one     *)
(* transaction is not looked at; a failed batch samples nothing              *)
SnapshotOf(d, blocksAnswered, receiptsAnswered) ==
  LET none == taken[d].blocks = <<>> IN
  [ drained |-> ToSet(taken[d].hashes),
    blocks  |-> IF none \/ ~ChecksOrder(live) \/ ~blocksAnswered THEN {}
                ELSE {b \in Spread(taken[d].blocks) : Len(chain[b]) > 1},
    hashes  |-> IF none \/ ~receiptsAnswered THEN {} ELSE Spread(taken[d].hashes) ]

Snapshot(d, blocksAnswered, receiptsAnswered) ==
  /\ at[d] = "hashes"
  /\ snapshots' = IF taken[d] = Nothing THEN snapshots
                  ELSE snapshots \cup {SnapshotOf(d, blocksAnswered, receiptsAnswered)}
  /\ taken' = [taken EXCEPT ![d] = Nothing]
  /\ at' = [at EXCEPT ![d] = IF d = "stop" THEN "over" ELSE "idle"]
  /\ UNCHANGED <<chain, ordering, live, deposit, header, confirmed, recentB, recentH, gone, phase, result>>

(* stopTest closes the ticker's channel before the last drain; a snapshot   *)
(* the ticker is making goes on                                             *)
Stop ==
  /\ phase = "running" /\ phase' = "stopping"
  /\ UNCHANGED <<chain, ordering, live, deposit, header, confirmed, recentB, recentH, gone, at, taken,
                 snapshots, result>>

-----------------------------------------------------------------------------
(* saveTestResult, with the builder's ordering as it is asked for then.  A   *)
(* block counts as ordered when it has one sender, or all in order.          *)
Passes(b) == Len(SenderOrder(b)) <= 1 \/ IsOrdered(b)

Verdict(delta, B, H) ==
  [ made   |-> TRUE, delta |-> delta, blocks |-> B, hashes |-> H,
    pass   |-> /\ delta = 0
               /\ ChecksOrder(ordering) => \A b \in B : Passes(b)
               /\ Reverted(H) = {},
    faults |-> IF ChecksOrder(ordering) THEN UNION {Violations(b) : b \in B} ELSE {} ]

Ready == phase = "stopping" /\ at["stop"] = "over"

(* AggregateSnapshots *)
Aggregate(delta) ==
  /\ Ready /\ snapshots # {}
  /\ result' = Verdict(delta, UNION {n.blocks : n \in snapshots},
                              UNION {n.hashes : n \in snapshots})
  /\ phase' = "done"
  /\ UNCHANGED <<chain, ordering, live, deposit, header, confirmed, recentB, recentH, gone, at,
                 taken, snapshots>>

(* VerifyTestResultsWithProgress: every Interval-th block of the range that  *)
(* was fetched and is not empty; a random sample of the confirmed hashes,    *)
(* those that have a receipt                                                 *)
FullBlocks(found) ==
  IF ChecksOrder(ordering)
  THEN {b \in found : (b - 1) % Interval = 0 /\ chain[b] # <<>>} ELSE {}

FullVerify(delta, found, sample) ==
  /\ Ready /\ snapshots = {}
  /\ Cardinality(sample) <= FullSample
  /\ result' = Verdict(delta, FullBlocks(found), sample)
  /\ phase' = "done"
  /\ UNCHANGED <<chain, ordering, live, deposit, header, confirmed, recentB, recentH, gone, at,
                 taken, snapshots>>

Next ==
  \/ \E h \in Hashes : Confirm(h)
  \/ \E b \in DOMAIN chain : NewHeader(b)
  \/ \E d \in Drainers : DrainBlocks(d)
  \/ \E d \in Drainers : DrainHashes(d)
  \/ \E d \in Drainers, blocks, receipts \in BOOLEAN : Snapshot(d, blocks, receipts)
  \/ Stop
  \/ \E delta \in {0, 1} : Aggregate(delta)
  \/ \E delta \in {0, 1}, found \in SUBSET DOMAIN chain, sample \in SUBSET confirmed :
       FullVerify(delta, found, sample)

Spec == Init /\ [][Next]_vars

-----------------------------------------------------------------------------
(* Properties *)

(* The two lists keep their limit; drainers and result are of their kinds.   *)
TypeOK ==
  /\ chain \in Chains /\ ordering \in Orderings /\ live \in {ordering, ""}
  /\ deposit \in BOOLEAN
  /\ header \in DOMAIN chain \cup {0}
  /\ confirmed \subseteq Hashes /\ gone \subseteq Hashes
  /\ Len(recentB) <= Cap /\ Len(recentH) <= Cap
  /\ at \in [Drainers -> {"idle", "blocks", "hashes", "over"}]
  /\ phase \in {"running", "stopping", "done"}
  /\ result.pass \in BOOLEAN

(* Where the hashes are.                                                     *)
Held == {ToSet(recentH), gone} \cup {ToSet(taken[d].hashes) : d \in Drainers}
          \cup {n.drained : n \in snapshots}

(* The streams append, the ticker drains, the stopping test drains, the list *)
(* is cut at its limit: every confirmed hash is in one place only - still    *)
(* listed, taken by one drainer, drained into one snapshot, or cut off.      *)
HashOnce ==
  /\ UNION Held = confirmed
  /\ \A S, T \in Held : S = T \/ S \cap T = {}
  /\ Len(recentH) = Cardinality(ToSet(recentH))
  /\ ToSet(recentH) \cap (gone \cup UNION {ToSet(taken[d].hashes) : d \in Drainers}) = {}

(* What ordered by tip means, said of all pairs of senders and not of        *)
(* neighbours: a sender whose first transaction comes before another's has   *)
(* no lower (tip_desc), no higher (tip_asc) best tip.                        *)
Leads(b, s, t) == FirstAt(b, s) < FirstAt(b, t)
InOrder(b) ==
  \A s, t \in Senders(b) : Leads(b, s, t) =>
    /\ ordering = "tip_desc" => MaxTip(b, s) >= MaxTip(b, t)
    /\ ordering = "tip_asc"  => MaxTip(b, s) <= MaxTip(b, t)

(* The verdict, put together from snapshots made at different times or by    *)
(* the full verification, says exactly what was looked at: it passes if and  *)
(* only if the counts agree, every sampled block is in order for every pair  *)
(* of senders and no sampled receipt is of a reverted transaction; and a     *)
(* violation is reported if and only if a sampled block is out of order.     *)
VerdictExact ==
  result.made =>
    LET bad == {b \in result.blocks : ChecksOrder(ordering) /\ ~InOrder(b)} IN
      /\ result.pass <=> result.delta = 0 /\ bad = {} /\ \A h \in result.hashes : TxOf(h).ok
      /\ result.faults # {} <=> bad # {}
      /\ result.hashes \subseteq confirmed
=============================================================================
