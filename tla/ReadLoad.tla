------------------------------ MODULE ReadLoad ------------------------------
(* The read load beside the transactions (internal/readload/readload.go,     *)
(* internal/loadgen/readload.go): an engine is configured, probed, started   *)
(* and stopped; its workers draw a method and a block range from the head    *)
(* the engine caches, ask, and count what came back in counters of their own *)
(* that the row of the run keeps.                                            *)
(*                                                                           *)
(* Each atomic counter is one step.  Accounts, addresses and latencies are   *)
(* left out; the node is external: it answers or fails any read.             *)
EXTENDS Integers, FiniteSets, FiniteSetsExt

CONSTANTS
  Configs,  \* requests: [shares, select, window, span, depth, archive, erc20]
  Workers,  \* the engine's workers
  MaxHead,  \* bound on the chain's head
  MaxReads  \* bound on the permits given

Methods == {"call", "balance", "logs", "block", "receipt"}
NoRow   == [sent |-> -1]
Latest  == [from |-> 0, to |-> 0]

VARIABLES
  cfg,        \* the request's ReadLoadConfig, with whether an ERC-20 is deployed
  phase,      \* "new", "refused", "ready", "started", "stopping", "stopped", "cut short"
  archive,    \* archiveTarget
  head,       \* the head the generator tracks, 0 before it saw a block
  cachedHead, \* Engine.cachedHead
  confirmed,  \* recentConfirmedHashes is not empty
  pc,         \* per worker: where it is
  read,       \* per worker: [method, from, to, at]: its read while it is asked, and the head
              \* it was drawn at
  sent, errs, skips,    \* the engine's counters
  count, errors, lat,   \* methodStats
  pooled,     \* samples in pooledLat
  answered,   \* per method: reads the node answered (history)
  failed,     \* per method: reads that failed while the engine ran (history)
  permits,    \* permits given (bounds the run)
  row         \* the read metrics the row keeps

tallies == <<sent, errs, skips, count, errors, lat, pooled>>
target  == <<head, cachedHead, confirmed>>
setup   == <<cfg, phase, archive>>
past    == <<answered, failed, permits, row>>
vars    == <<setup, target, pc, read, tallies, past>>

-----------------------------------------------------------------------------
(* The configuration *)

(* ReadMix.Sum *)
Total(f) == f["call"] + f["balance"] + f["logs"] + f["block"] + f["receipt"]

Validate(c) ==
  /\ Total(c.shares) = 100 /\ \A m \in Methods : c.shares[m] \in 0..100
  /\ c.select \in {"", "latest", "recent", "archive"}
  /\ c.window >= 0 /\ c.span >= 0 /\ c.depth \in 0..100
  /\ ~(c.window > 0 /\ c.span > c.window /\ c.select # "archive")

WithDefaults(c) ==
  [c EXCEPT !.select = IF @ = "" THEN "recent" ELSE @, !.window = IF @ <= 0 THEN 64 ELSE @,
            !.span = IF @ <= 0 THEN 16 ELSE @, !.depth = IF @ <= 0 THEN 100 ELSE @]

RequireArchive(c) == IF c.archive = "unset" THEN c.select = "archive" ELSE c.archive = "yes"

(* No read of an ERC-20 that is not there *)
New(c) ==
  Validate(c) /\ (c.shares["call"] > 0 \/ c.shares["logs"] > 0 => c.erc20)

(* Only a node that is known to be pruned, or a run that needs no history,   *)
(* lets an error pass                                                        *)
Probe(c, height, balance) ==
  height > 0 /\ (balance = "ok" \/ ~RequireArchive(c))

-----------------------------------------------------------------------------
(* What a read asks for *)

BlocksAt(lo, hi) == {[from |-> b, to |-> b] : b \in lo..hi}

(* Mutant: one block too many. *)
archiveOldestBlock_Past(h) ==
  LET span == Max({1, (h * cfg.depth) \div 100})
  IN  IF span >= h THEN 1 ELSE h - span

archiveOldestBlock(h) ==
  LET span == Max({1, (h * cfg.depth) \div 100})
  IN  IF span >= h THEN 1 ELSE h - span + 1

blockTag(h) ==
  CASE cfg.select = "latest"  -> {Latest}
    [] cfg.select = "archive" -> IF h <= 1 THEN {Latest} ELSE BlocksAt(archiveOldestBlock(h), h)
    [] OTHER -> IF h = 0 THEN {Latest} ELSE BlocksAt(h - Min({cfg.window, h}) + 1, h)

logRange(h) ==
  LET span   == Min({cfg.span, h})
      window == Max({span, Min({cfg.window, h})})
      oldest == IF cfg.select = "archive" THEN archiveOldestBlock(h) ELSE h - window + 1
      last   == h - span + 1
  IN  IF h = 0 THEN {}
      ELSE IF last < oldest THEN {[from |-> oldest, to |-> h]}
      ELSE {[from |-> b, to |-> b + span - 1] : b \in oldest..last}

build(m, h) ==
  CASE m = "logs"    -> logRange(h)
    [] m = "receipt" -> IF confirmed THEN {Latest} ELSE {}
    [] OTHER         -> blockTag(h)

pick == {m \in Methods : cfg.shares[m] > 0}

(* readHeadBlock: the head the run tracks, else whatever the node says       *)
readHeadBlock == IF head > 0 THEN {head} ELSE 0..MaxHead

(* head: an empty cache makes the worker ask itself                          *)
heads == IF cachedHead # 0 THEN {cachedHead} ELSE readHeadBlock

-----------------------------------------------------------------------------
(* The engine *)

NoRead == [method |-> "block", from |-> 0, to |-> 0, at |-> 0]
Zero   == [m \in Methods |-> 0]

Init ==
  /\ cfg \in Configs /\ phase = "new" /\ archive = FALSE
  /\ head = 0 /\ cachedHead = 0 /\ confirmed = FALSE
  /\ pc = [w \in Workers |-> "none"] /\ read = [w \in Workers |-> NoRead]
  /\ sent = 0 /\ errs = 0 /\ skips = 0 /\ pooled = 0
  /\ count = Zero /\ errors = Zero /\ lat = Zero
  /\ answered = Zero /\ failed = Zero /\ permits = 0 /\ row = NoRow

(* setupReadLoad: height is the node's, 0 when the probe does not learn it   *)
setupReadLoad(height, balance) ==
  /\ phase = "new"
  /\ cfg' = WithDefaults(cfg)
  /\ archive' = (New(cfg) /\ height > 0 /\ balance = "ok")
  /\ phase' = IF New(cfg) /\ Probe(cfg', height, balance) THEN "ready" ELSE "refused"
  /\ UNCHANGED <<target, pc, read, tallies, past>>

Start(h) ==
  /\ phase = "ready" /\ h \in readHeadBlock
  /\ phase' = "started" /\ cachedHead' = h
  /\ pc' = [w \in Workers |-> "top"]
  /\ UNCHANGED <<cfg, archive, head, confirmed, read, tallies, past>>

Running == phase = "started"

headRefresher(h) ==
  /\ Running /\ h \in readHeadBlock
  /\ cachedHead' = h
  /\ UNCHANGED <<setup, head, confirmed, pc, read, tallies, past>>

(* Stop, called once, by stopTest of a run that is under way: its cancel ... *)
Stop ==
  /\ Running
  /\ phase' = "stopping"
  /\ UNCHANGED <<cfg, archive, target, pc, read, tallies, past>>

(* ... and its wait, of five seconds at most                                 *)
Gone == \A w \in Workers : pc[w] = "gone"

Stopped ==
  /\ phase = "stopping" /\ Gone
  /\ phase' = "stopped"
  /\ UNCHANGED <<cfg, archive, target, pc, read, tallies, past>>

TimedOut ==
  /\ phase = "stopping" /\ ~Gone
  /\ phase' = "cut short"
  /\ UNCHANGED <<cfg, archive, target, pc, read, tallies, past>>

(* completeTestRun *)
Metrics == [sent |-> sent, errs |-> errs, count |-> count, errors |-> errors,
            lat |-> lat, pooled |-> pooled]

Save ==
  /\ phase \in {"stopped", "cut short"} /\ row = NoRow
  /\ row' = Metrics
  /\ UNCHANGED <<setup, target, pc, read, tallies, answered, failed, permits>>

-----------------------------------------------------------------------------
(* A worker *)

At(w, here)  == pc[w] = here
Goes(w, next) == pc' = [pc EXCEPT ![w] = next]

(* its context, at the top of the loop and in the limiter                    *)
Leave(w) ==
  /\ pc[w] \in {"top", "waiting"} /\ ~Running
  /\ Goes(w, "gone")
  /\ UNCHANGED <<setup, target, read, tallies, past>>

Turn(w) ==
  /\ At(w, "top") /\ Running
  /\ Goes(w, "waiting")
  /\ UNCHANGED <<setup, target, read, tallies, past>>

(* a permit that is due is given to a cancelled worker too                   *)
Ask(w) ==
  /\ At(w, "waiting") /\ permits < MaxReads
  /\ permits' = permits + 1
  /\ \E m \in pick, h \in heads :
       \/ /\ build(m, h) = {}
          /\ skips' = skips + 1 /\ Goes(w, "top") /\ UNCHANGED read
       \/ \E b \in build(m, h) :
            /\ read' = [read EXCEPT ![w] = [method |-> m, from |-> b.from, to |-> b.to, at |-> h]]
            /\ Goes(w, "asked") /\ UNCHANGED skips
  /\ UNCHANGED <<setup, target, sent, errs, count, errors, lat, pooled, answered, failed, row>>

Over(w) == read' = [read EXCEPT ![w] = [NoRead EXCEPT !.method = read[w].method]]

Answered(w) ==
  /\ At(w, "asked")
  /\ Goes(w, "count ok") /\ Over(w)
  /\ answered' = [answered EXCEPT ![read[w].method] = @ + 1]
  /\ UNCHANGED <<setup, target, tallies, failed, permits, row>>

(* Mutant: a read that the stop aborted is counted. *)
Failed_AtStop(w) ==
  /\ At(w, "asked") /\ Over(w)
  /\ Goes(w, "count err")
  /\ failed' = IF Running THEN [failed EXCEPT ![read[w].method] = @ + 1] ELSE failed
  /\ UNCHANGED <<setup, target, tallies, answered, permits, row>>

(* an error after the cancel is the engine's own doing                       *)
Failed(w) ==
  /\ At(w, "asked") /\ Over(w)
  /\ IF Running
     THEN /\ Goes(w, "count err")
          /\ failed' = [failed EXCEPT ![read[w].method] = @ + 1]
     ELSE Goes(w, "gone") /\ UNCHANGED failed
  /\ UNCHANGED <<setup, target, tallies, answered, permits, row>>

Bump(f, w) == [f EXCEPT ![read[w].method] = @ + 1]

Count(w) ==
  /\ count' = Bump(count, w)
  /\ \/ At(w, "count ok") /\ Goes(w, "sent ok")
     \/ At(w, "count err") /\ Goes(w, "sent err")
  /\ UNCHANGED <<setup, target, read, sent, errs, skips, errors, lat, pooled, past>>

Sent(w) ==
  /\ sent' = sent + 1
  /\ \/ At(w, "sent ok") /\ Goes(w, "lat")
     \/ At(w, "sent err") /\ Goes(w, "errors")
  /\ UNCHANGED <<setup, target, read, errs, skips, count, errors, lat, pooled, past>>

Errors(w) ==
  /\ At(w, "errors") /\ errors' = Bump(errors, w) /\ Goes(w, "errs")
  /\ UNCHANGED <<setup, target, read, sent, errs, skips, count, lat, pooled, past>>

Errs(w) ==
  /\ At(w, "errs") /\ errs' = errs + 1 /\ Goes(w, "top")
  /\ UNCHANGED <<setup, target, read, sent, skips, count, errors, lat, pooled, past>>

Lat(w) ==
  /\ At(w, "lat") /\ lat' = Bump(lat, w) /\ Goes(w, "pooled")
  /\ UNCHANGED <<setup, target, read, sent, errs, skips, count, errors, pooled, past>>

Pooled(w) ==
  /\ At(w, "pooled") /\ pooled' = pooled + 1 /\ Goes(w, "top")
  /\ UNCHANGED <<setup, target, read, sent, errs, skips, count, errors, lat, past>>

-----------------------------------------------------------------------------
(* The rest of the generator *)

Block ==
  /\ head < MaxHead
  /\ head' = head + 1
  /\ UNCHANGED <<setup, cachedHead, confirmed, pc, read, tallies, past>>

(* a confirmation is buffered; verification drains the buffer                *)
Confirmations ==
  /\ pick \cap {"receipt"} # {} /\ confirmed' = ~confirmed
  /\ UNCHANGED <<setup, head, cachedHead, pc, read, tallies, past>>

Next ==
  \/ \E h \in 0..MaxHead, b \in {"ok", "pruned", "other"} : setupReadLoad(h, b)
  \/ \E h \in 0..MaxHead : Start(h)
  \/ \E h \in 0..MaxHead : headRefresher(h)
  \/ Stop
  \/ Stopped
  \/ TimedOut
  \/ Save
  \/ \E w \in Workers : Leave(w)
  \/ \E w \in Workers : Turn(w)
  \/ \E w \in Workers : Ask(w)
  \/ \E w \in Workers : Answered(w)
  \/ \E w \in Workers : Failed(w)
  \/ \E w \in Workers : Count(w)
  \/ \E w \in Workers : Sent(w)
  \/ \E w \in Workers : Errors(w)
  \/ \E w \in Workers : Errs(w)
  \/ \E w \in Workers : Lat(w)
  \/ \E w \in Workers : Pooled(w)
  \/ Block
  \/ Confirmations

Spec == Init /\ [][Next]_vars

-----------------------------------------------------------------------------
(* Properties *)

(* Counters are natural numbers, the cached head one the chain has had.      *)
TypeOK ==
  /\ phase \in {"new", "refused", "ready", "started", "stopping", "stopped", "cut short"}
  /\ archive \in BOOLEAN /\ confirmed \in BOOLEAN
  /\ {head, cachedHead} \subseteq 0..MaxHead
  /\ DOMAIN pc = Workers /\ DOMAIN read = Workers
  /\ {sent, errs, skips, pooled, permits} \subseteq Nat
  /\ {count, errors, lat, answered, failed} \subseteq [Methods -> Nat]

(* Five counters are moved one by one by workers that a stop may catch       *)
(* between any two of them, and an aborted read must appear in none: once    *)
(* Stop's wait ended with every worker gone, what the row keeps is exactly   *)
(* the reads answered and the reads that failed, per method and in total -   *)
(* the worker's comment "keeps the invariant sent == successes + errors      *)
(* exact".                                                                   *)
ReadsAddUp ==
  (phase = "stopped" /\ row # NoRow) =>
    /\ row.lat = answered /\ row.errors = failed
    /\ \A m \in Methods : row.count[m] = answered[m] + failed[m]
    /\ row.sent = Total(answered) + Total(failed)
    /\ row.errs = Total(failed) /\ row.pooled = Total(answered)

(* Whatever Validate lets pass and whatever head a worker saw: a numbered    *)
(* read lies within the chain as it was then, asks for no more blocks than   *)
(* the span allows, and stays within the window chosen - the last            *)
(* BlockWindow blocks, or the span where that is longer; ArchiveDepthPct per *)
(* cent of the history, which end at the head.                               *)
RangesWithin ==
  \A w \in Workers : LET r == read[w] IN
    r.from # 0 =>
      /\ 1 <= r.from /\ r.from <= r.to /\ r.to <= r.at
      /\ r.to - r.from < cfg.span
      /\ IF cfg.select = "archive"
         THEN (r.at - r.from + 1) * 100 <= Max({100, r.at * cfg.depth})
         ELSE r.at - r.from < Max({cfg.window, cfg.span})
=============================================================================
