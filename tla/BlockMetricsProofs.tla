------------------------- MODULE BlockMetricsProofs -------------------------
(* A theorem about BlockMetrics, for chains of any length, any layers and    *)
(* any number of blocks fetched per period.                                  *)
EXTENDS BlockMetrics, TLAPS

(* What the constants stand for. *)
Sizes == MaxBlock \in Nat /\ Start0 \in 0..MaxBlock /\ MaxFetch \in Nat

(* Numbers, and no cursor is beyond the chain.                               *)
Cursors ==
  /\ head \in Nat /\ head <= MaxBlock
  /\ delivered \in [Streams -> Nat]
  /\ lastRec \in Nat
  /\ rpcLast \in Nat /\ rpcLast <= head
  /\ slice \subseteq Blocks /\ fetching \subseteq Blocks
  /\ charted \in [Blocks -> Nat] /\ fetched \in [Blocks -> Nat] /\ totals \in [Blocks -> Nat]

(* EachPathOnce is not inductive: what the streams have put into the time    *)
(* series or the totals is behind the cursor they share...                   *)
StreamsBehind ==
  \A b \in Blocks :
    /\ b \in slice => b <= lastRec /\ charted[b] = 0
    /\ charted[b] > 0 => b <= lastRec /\ charted[b] = 1
    /\ totals[b] > fetched[b] => b <= lastRec /\ totals[b] = fetched[b] + 1

(* ... and what the fallback has fetched or is fetching behind its own.      *)
FetchedBehind ==
  \A b \in Blocks :
    /\ b \in fetching => b <= rpcLast /\ fetched[b] = 0
    /\ fetched[b] > 0 => b <= rpcLast /\ fetched[b] = 1

Inv == Cursors /\ StreamsBehind /\ FetchedBehind

-----------------------------------------------------------------------------
(* Counting the blocks of a set once more.                                   *)
LEMMA OnceType ==
  ASSUME NEW f \in [Blocks -> Nat], NEW S
  PROVE  /\ Once(f, S) \in [Blocks -> Nat]
         /\ \A b \in Blocks : Once(f, S)[b] = IF b \in S THEN f[b] + 1 ELSE f[b]
BY DEF Once

(* The run begins with nothing recorded.                                     *)
LEMMA InitInv == ASSUME Sizes PROVE Init => Inv
<1> SUFFICES ASSUME Init PROVE Inv
  OBVIOUS
<1>1. totals \in [Blocks -> Nat] /\ \A b \in Blocks : totals[b] = 0
  BY DEF Init
<1>2. charted = totals /\ fetched = totals /\ slice = {} /\ fetching = {}
  BY DEF Init
<1>3. delivered \in [Streams -> Nat] /\ testStart \in Nat
  BY DEF Init, Sizes
<1>4. head = Start0 /\ lastRec = 0 /\ rpcLast = 0
  BY DEF Init
<1>5. Cursors
  BY <1>1, <1>2, <1>3, <1>4 DEF Cursors, Sizes
<1>6. StreamsBehind /\ FetchedBehind
  BY <1>1, <1>2 DEF StreamsBehind, FetchedBehind
<1>7. QED
  BY <1>5, <1>6 DEF Inv

(* Steps that leave all of it alone.                                         *)
LEMMA Frame ==
  ASSUME Inv, UNCHANGED <<head, delivered, lastRec, rpcLast, slice, counts, fetching>>
  PROVE  Inv'
BY DEF Inv, Cursors, StreamsBehind, FetchedBehind, counts

(* A block a stream delivers is one of the chain's.                          *)
LEMMA ArrivesBlock ==
  ASSUME Sizes, Inv, NEW s \in Streams, NEW n, Arrives(s, n)
  PROVE  n \in Blocks /\ n \in Nat /\ n <= head /\ delivered' \in [Streams -> Nat]
<1>1. delivered[s] \in Nat /\ head \in Nat /\ head <= MaxBlock /\ n \in (delivered[s] + 1)..head
  BY DEF Inv, Cursors, Arrives
<1>2. n \in Nat /\ n >= 1 /\ n <= head
  BY <1>1
<1>3. n \in Blocks
  BY <1>1, <1>2 DEF Blocks, Sizes
<1>4. delivered' \in [Streams -> Nat]
  BY <1>2 DEF Inv, Cursors, Arrives
<1>5. QED
  BY <1>2, <1>3, <1>4

(* A block goes into the totals and the period if no stream brought it yet.  *)
LEMMA RecordKeeps ==
  ASSUME Sizes, Inv, NEW n \in Blocks, n <= head, RecordDetailed(n),
         delivered' \in [Streams -> Nat], UNCHANGED <<head, charted, fetched, fetching>>
  PROVE  Inv'
<1> USE DEF Inv
<1>0. n \in Nat /\ Blocks \subseteq Nat
  BY DEF Blocks, Sizes
<1>1. CASE n <= lastRec
  <2>1. UNCHANGED <<lastRec, rpcLast, slice, totals>>
    BY <1>1 DEF RecordDetailed
  <2>2. QED
    BY <2>1 DEF Cursors, StreamsBehind, FetchedBehind
<1>2. CASE ~ (n <= lastRec)
  <2>1. /\ totals' = Once(totals, {n}) /\ lastRec' = n
        /\ rpcLast' = Higher(rpcLast, n) /\ slice' \subseteq slice \cup {n}
    BY <1>2 DEF RecordDetailed
  <2>2. /\ totals' \in [Blocks -> Nat]
        /\ \A b \in Blocks : totals'[b] = IF b \in {n} THEN totals[b] + 1 ELSE totals[b]
    BY <2>1, OnceType DEF Cursors
  <2>3. rpcLast' \in Nat /\ rpcLast <= rpcLast' /\ rpcLast' <= head
    BY <2>1, <1>0 DEF Higher, Cursors
  <2>4. Cursors'
    BY <2>1, <2>2, <2>3, <1>0 DEF Cursors
  <2>5. lastRec < n /\ lastRec \in Nat
    BY <1>2, <1>0 DEF Cursors
  <2>6. ASSUME NEW b \in Blocks
        PROVE  /\ b \in slice' => b <= lastRec' /\ charted'[b] = 0
               /\ charted'[b] > 0 => b <= lastRec' /\ charted'[b] = 1
               /\ totals'[b] > fetched'[b] => b <= lastRec' /\ totals'[b] = fetched'[b] + 1
    <3>1. b \in Nat /\ charted[b] \in Nat /\ totals[b] \in Nat /\ fetched[b] \in Nat
      BY <1>0 DEF Cursors
    <3>2. /\ b \in slice => b <= lastRec /\ charted[b] = 0
          /\ charted[b] > 0 => b <= lastRec /\ charted[b] = 1
          /\ totals[b] > fetched[b] => b <= lastRec /\ totals[b] = fetched[b] + 1
      BY DEF StreamsBehind
    <3>3. charted'[b] = charted[b] /\ fetched'[b] = fetched[b]
      OBVIOUS
    <3>4. CASE b = n
      <4>1. charted[b] = 0 /\ totals[b] <= fetched[b]
        BY <3>1, <3>2, <3>4, <2>5
      <4>2. totals'[b] = totals[b] + 1
        BY <2>2, <3>4
      <4>3. QED
        BY <4>1, <4>2, <3>1, <3>3, <3>4, <2>1
    <3>5. CASE b # n
      <4>1. totals'[b] = totals[b] /\ (b \in slice' => b \in slice)
        BY <2>1, <2>2, <3>5
      <4>2. b <= lastRec => b <= lastRec'
        BY <2>1, <2>5, <3>1, <1>0
      <4>3. QED
        BY <4>1, <4>2, <3>2, <3>3
    <3>6. QED
      BY <3>4, <3>5
  <2>7. StreamsBehind'
    BY <2>6 DEF StreamsBehind
  <2>8. FetchedBehind'
    BY <2>3, <1>0 DEF FetchedBehind, Cursors
  <2>9. QED
    BY <2>4, <2>7, <2>8
<1>3. QED
  BY <1>1, <1>2

(* Every step keeps the invariant.                                           *)
LEMMA StepInv == ASSUME Sizes PROVE Inv /\ [Next]_vars => Inv'
<1> SUFFICES ASSUME Inv, [Next]_vars PROVE Inv'
  OBVIOUS
<1>0. Blocks \subseteq Nat
  BY DEF Blocks, Sizes
<1>1. CASE Mine
  <2>1. head' \in Nat /\ head' <= MaxBlock /\ rpcLast <= head'
    BY <1>1 DEF Mine, Inv, Cursors, Sizes
  <2>2. QED
    BY <1>1, <2>1 DEF Mine, Inv, Cursors, StreamsBehind, FetchedBehind, counts
<1>2. CASE \E n \in Blocks : BuilderEvent(n)
  <2> PICK n \in Blocks : BuilderEvent(n)
    BY <1>2
  <2>1. Arrives("builder", n) /\ UNCHANGED <<head, charted, fetched, fetching>>
    BY DEF BuilderEvent
  <2>2. n <= head /\ delivered' \in [Streams -> Nat]
    BY <2>1, ArrivesBlock DEF Streams
  <2>3. CASE RecordDetailed(n)
    BY <2>1, <2>2, <2>3, RecordKeeps
  <2>4. CASE UNCHANGED <<lastRec, rpcLast, slice, totals>>
    BY <2>1, <2>2, <2>4 DEF Inv, Cursors, StreamsBehind, FetchedBehind
  <2>5. QED
    BY <2>3, <2>4 DEF BuilderEvent
<1>3. CASE \E n \in Blocks : NewHead(n)
  <2> PICK n \in Blocks : NewHead(n)
    BY <1>3
  <2>1. Arrives("heads", n) /\ UNCHANGED <<head, rpcLast, charted, fetched, totals, fetching>>
    BY DEF NewHead, counts
  <2>2. n \in Nat /\ n <= head /\ delivered' \in [Streams -> Nat]
    BY <2>1, ArrivesBlock DEF Streams
  <2>3. CASE n > lastRec
    <3>1. slice' = slice \cup {n} /\ lastRec' = n
      BY <2>3 DEF NewHead
    <3>2. Cursors'
      BY <2>1, <2>2, <3>1 DEF Inv, Cursors
    <3>3. charted[n] = 0
      BY <2>2, <2>3 DEF Inv, Cursors, StreamsBehind
    <3>4. StreamsBehind'
      BY <2>1, <2>2, <2>3, <3>1, <3>3, <1>0 DEF Inv, Cursors, StreamsBehind
    <3>5. QED
      BY <2>1, <3>2, <3>4 DEF Inv, FetchedBehind
  <2>4. CASE ~ (n > lastRec)
    <3>1. UNCHANGED <<slice, lastRec>>
      BY <2>4 DEF NewHead
    <3>2. QED
      BY <2>1, <2>2, <3>1 DEF Inv, Cursors, StreamsBehind, FetchedBehind
  <2>5. QED
    BY <2>3, <2>4
<1>4. CASE \E has \in BOOLEAN : PollBlock(has)
  <2> PICK has \in BOOLEAN : PollBlock(has)
    BY <1>4
  <2> DEFINE n == delivered["poller"] + 1
  <2>1. Arrives("poller", n) /\ UNCHANGED <<head, charted, fetched, fetching>>
    BY DEF PollBlock
  <2>2. n \in Blocks /\ n <= head /\ delivered' \in [Streams -> Nat]
    BY <2>1, ArrivesBlock DEF Streams
  <2>3. RecordDetailed(n) \/ UNCHANGED <<lastRec, rpcLast, slice, totals>>
    BY DEF PollBlock
  <2> HIDE DEF n
  <2>4. CASE RecordDetailed(n)
    BY <2>1, <2>2, <2>4, RecordKeeps
  <2>5. CASE UNCHANGED <<lastRec, rpcLast, slice, totals>>
    BY <2>1, <2>2, <2>5 DEF Inv, Cursors, StreamsBehind, FetchedBehind
  <2>6. QED
    BY <2>3, <2>4, <2>5
<1>5. CASE PeriodFromStreams
  <2>1. /\ charted' = Once(charted, slice) /\ slice' = {}
        /\ UNCHANGED <<head, delivered, lastRec, rpcLast, totals, fetched, fetching>>
    BY <1>5 DEF PeriodFromStreams
  <2>2. /\ charted' \in [Blocks -> Nat]
        /\ \A b \in Blocks : charted'[b] = IF b \in slice THEN charted[b] + 1 ELSE charted[b]
    BY <2>1, OnceType DEF Inv, Cursors
  <2>3. Cursors' /\ FetchedBehind'
    BY <2>1, <2>2 DEF Inv, Cursors, FetchedBehind
  <2>4. StreamsBehind'
    BY <2>1, <2>2 DEF Inv, StreamsBehind, Cursors
  <2>5. QED
    BY <2>3, <2>4 DEF Inv
<1>6. CASE PeriodByRpc
  <2>1. /\ fetching' = ToFetch(rpcLast) /\ rpcLast' = head
        /\ UNCHANGED <<head, delivered, lastRec, slice, charted, fetched, totals>>
    BY <1>6 DEF PeriodByRpc, counts
  <2>2. \A b \in fetching' : b \in Blocks /\ b > rpcLast /\ b <= head
    <3>1. rpcLast \in Nat /\ head \in Nat /\ head <= MaxBlock /\ MaxFetch \in Nat /\ MaxBlock \in Nat
      BY DEF Inv, Cursors, Sizes
    <3>2. CASE rpcLast = 0
      BY <2>1, <3>2 DEF ToFetch
    <3>3. CASE rpcLast # 0
      <4>1. fetching' = Higher(rpcLast + 1, head - MaxFetch + 1)..head
        BY <2>1, <3>3 DEF ToFetch
      <4>2. /\ Higher(rpcLast + 1, head - MaxFetch + 1) \in Int
            /\ Higher(rpcLast + 1, head - MaxFetch + 1) >= rpcLast + 1
        BY <3>1 DEF Higher
      <4>3. QED
        BY <3>1, <4>1, <4>2 DEF Blocks
    <3>4. QED
      BY <3>2, <3>3
  <2>3. Cursors' /\ StreamsBehind'
    BY <2>1, <2>2 DEF Inv, Cursors, StreamsBehind
  <2>4. FetchedBehind'
    BY <2>1, <2>2, <1>0 DEF Inv, Cursors, FetchedBehind
  <2>5. QED
    BY <2>3, <2>4 DEF Inv
<1>7. CASE \E got \in SUBSET fetching : RpcFetched(got)
  <2> PICK got \in SUBSET fetching : RpcFetched(got)
    BY <1>7
  <2>1. /\ fetched' = Once(fetched, got) /\ totals' = Once(totals, got) /\ fetching' = {}
        /\ UNCHANGED <<head, delivered, lastRec, rpcLast, slice, charted>>
    BY DEF RpcFetched
  <2>2. /\ fetched' \in [Blocks -> Nat] /\ totals' \in [Blocks -> Nat]
        /\ \A b \in Blocks : fetched'[b] = IF b \in got THEN fetched[b] + 1 ELSE fetched[b]
        /\ \A b \in Blocks : totals'[b] = IF b \in got THEN totals[b] + 1 ELSE totals[b]
    BY <2>1, OnceType DEF Inv, Cursors
  <2>3. Cursors'
    BY <2>1, <2>2 DEF Inv, Cursors
  <2>4. StreamsBehind'
    BY <2>1, <2>2 DEF Inv, Cursors, StreamsBehind
  <2>5. FetchedBehind'
    BY <2>1, <2>2 DEF Inv, Cursors, FetchedBehind
  <2>6. QED
    BY <2>3, <2>4, <2>5 DEF Inv
<1>8. CASE UNCHANGED <<head, delivered, lastRec, rpcLast, slice, counts, fetching>>
  BY <1>8, Frame
<1>9. QED
  BY <1>1, <1>2, <1>3, <1>4, <1>5, <1>6, <1>7, <1>8
     DEF Next, RollingTps, TpsTick, CancelRun, RecordEnd, Verify, vars, counts

LEMMA InvSuffices == Inv => EachPathOnce
BY DEF Inv, Cursors, StreamsBehind, FetchedBehind, EachPathOnce

(* Whatever the three streams and the fallback deliver in whatever order, no *)
(* block goes into the time series twice by the streams or twice by the      *)
(* fallback, nor into the totals oftener than by each of them once.          *)
THEOREM EachPathOnceAlways == ASSUME Sizes PROVE Spec => []EachPathOnce
BY InitInv, StepInv, InvSuffices, PTL DEF Spec

-----------------------------------------------------------------------------
(* Every step keeps the variables of their types.                            *)
LEMMA InitTypes == ASSUME Sizes PROVE Init => TypeOK
<1> SUFFICES ASSUME Init PROVE TypeOK
  OBVIOUS
<1>1. Start0 \in Nat /\ MaxBlock \in Nat /\ Start0 <= MaxBlock
  BY DEF Sizes
<1>2. streams \subseteq Streams
  BY DEF Init, StreamsOf, Streams
<1>3. totals \in [Blocks -> Nat] /\ charted \in [Blocks -> Nat] /\ fetched \in [Blocks -> Nat]
  BY DEF Init
<1>4. testStart \in 0..MaxBlock /\ delivered \in [Streams -> 0..MaxBlock] /\ head \in Start0..MaxBlock
  BY <1>1 DEF Init
<1>5. {lastRec, firstNum, lastNum, rpcLast, testStart, testEnd} \subseteq 0..MaxBlock
  BY <1>1, <1>4 DEF Init
<1>6. QED
  BY <1>2, <1>3, <1>4, <1>5 DEF Init, TypeOK

(* What recording a block does to the cursors.                               *)
LEMMA RecordTypes ==
  ASSUME Sizes, TypeOK, NEW n \in Blocks, RecordDetailed(n)
  PROVE  /\ {lastRec', lastNum', rpcLast'} \subseteq 0..MaxBlock
         /\ timed' \in BOOLEAN /\ slice' \subseteq Blocks
         /\ totals' \in [Blocks -> Nat]
<1>1. n \in 0..MaxBlock /\ totals \in [Blocks -> Nat]
  BY DEF Blocks, Sizes, TypeOK
<1>2. CASE n <= lastRec
  BY <1>2 DEF RecordDetailed, TypeOK
<1>3. CASE ~ (n <= lastRec)
  <2>1. /\ totals' = Once(totals, {n}) /\ lastNum' = n /\ lastRec' = n /\ timed' = TRUE
        /\ rpcLast' = Higher(rpcLast, n) /\ slice' \subseteq slice \cup {n}
    BY <1>3 DEF RecordDetailed
  <2>2. totals' \in [Blocks -> Nat]
    BY <1>1, <2>1, OnceType
  <2>3. rpcLast' \in {rpcLast, n}
    BY <2>1 DEF Higher
  <2>4. QED
    BY <1>1, <2>1, <2>2, <2>3 DEF TypeOK
<1>4. QED
  BY <1>2, <1>3

(* A block a stream delivers is one of the chain's, and so is its cursor.    *)
LEMMA ArrivesTypes ==
  ASSUME Sizes, TypeOK, NEW s \in Streams, NEW n, Arrives(s, n)
  PROVE  n \in Blocks /\ n \in 0..MaxBlock /\ delivered' \in [Streams -> 0..MaxBlock]
<1>1. delivered[s] \in 0..MaxBlock /\ head \in Start0..MaxBlock /\ Start0 \in Nat /\ MaxBlock \in Nat
  BY DEF TypeOK, Sizes
<1>2. n \in (delivered[s] + 1)..head
  BY DEF Arrives
<1>3. n \in Blocks /\ n \in 0..MaxBlock
  BY <1>1, <1>2 DEF Blocks
<1>4. QED
  BY <1>3 DEF Arrives, TypeOK

LEMMA StepTypes == ASSUME Sizes PROVE TypeOK /\ [Next]_vars => TypeOK'
<1> SUFFICES ASSUME TypeOK, [Next]_vars PROVE TypeOK'
  OBVIOUS
<1>0. MaxBlock \in Nat /\ Start0 \in Nat /\ Blocks \subseteq 0..MaxBlock /\ head \in Start0..MaxBlock
  BY DEF Sizes, Blocks, TypeOK
<1>1. CASE Mine
  <2>1. head' \in Start0..MaxBlock
    BY <1>0, <1>1 DEF Mine
  <2>2. QED
    BY <1>1, <2>1 DEF Mine, TypeOK, run, counts
<1>2. CASE \E n \in Blocks : BuilderEvent(n)
  <2> PICK n \in Blocks : BuilderEvent(n)
    BY <1>2
  <2>1. Arrives("builder", n) /\ UNCHANGED <<head, run, charted, fetched, fetching>>
    BY DEF BuilderEvent
  <2>2. n \in 0..MaxBlock /\ delivered' \in [Streams -> 0..MaxBlock]
    BY <2>1, ArrivesTypes DEF Streams
  <2>3. CASE firstNum' = FirstSeen(n) /\ RecordDetailed(n)
    <3>1. firstNum' \in 0..MaxBlock
      BY <2>2, <2>3 DEF FirstSeen, TypeOK
    <3>2. /\ {lastRec', lastNum', rpcLast'} \subseteq 0..MaxBlock
          /\ timed' \in BOOLEAN /\ slice' \subseteq Blocks /\ totals' \in [Blocks -> Nat]
      BY <2>3, RecordTypes
    <3>3. QED
      BY <2>1, <2>2, <3>1, <3>2 DEF TypeOK, run
  <2>4. CASE UNCHANGED <<firstNum, lastRec, lastNum, rpcLast, timed, slice, totals>>
    BY <2>1, <2>2, <2>4 DEF TypeOK, run
  <2>5. QED
    BY <2>3, <2>4 DEF BuilderEvent
<1>3. CASE \E n \in Blocks : NewHead(n)
  <2> PICK n \in Blocks : NewHead(n)
    BY <1>3
  <2>1. /\ Arrives("heads", n) /\ firstNum' = FirstSeen(n) /\ timed' = TRUE /\ lastNum' = n
        /\ UNCHANGED <<head, run, rpcLast, counts, fetching>>
        /\ slice' \subseteq slice \cup {n} /\ lastRec' \in {lastRec, n}
    BY DEF NewHead
  <2>2. n \in 0..MaxBlock /\ delivered' \in [Streams -> 0..MaxBlock]
    BY <2>1, ArrivesTypes DEF Streams
  <2>3. firstNum' \in 0..MaxBlock
    BY <2>1, <2>2 DEF FirstSeen, TypeOK
  <2>4. QED
    BY <2>1, <2>2, <2>3 DEF TypeOK, run, counts
<1>4. CASE \E has \in BOOLEAN : PollBlock(has)
  <2> PICK has \in BOOLEAN : PollBlock(has)
    BY <1>4
  <2> DEFINE n == delivered["poller"] + 1
  <2>1. Arrives("poller", n) /\ UNCHANGED <<head, run, charted, fetched, fetching>>
    BY DEF PollBlock
  <2>2. n \in Blocks /\ n \in 0..MaxBlock /\ delivered' \in [Streams -> 0..MaxBlock]
    BY <2>1, ArrivesTypes DEF Streams
  <2>3. \/ firstNum' \in {firstNum, FirstSeen(n)} /\ RecordDetailed(n)
        \/ UNCHANGED <<firstNum, lastRec, lastNum, rpcLast, timed, slice, totals>>
    BY DEF PollBlock
  <2> HIDE DEF n
  <2>4. CASE firstNum' \in {firstNum, FirstSeen(n)} /\ RecordDetailed(n)
    <3>1. firstNum' \in 0..MaxBlock
      BY <2>2, <2>4 DEF FirstSeen, TypeOK
    <3>2. /\ {lastRec', lastNum', rpcLast'} \subseteq 0..MaxBlock
          /\ timed' \in BOOLEAN /\ slice' \subseteq Blocks /\ totals' \in [Blocks -> Nat]
      BY <2>2, <2>4, RecordTypes
    <3>3. QED
      BY <2>1, <2>2, <3>1, <3>2 DEF TypeOK, run
  <2>5. CASE UNCHANGED <<firstNum, lastRec, lastNum, rpcLast, timed, slice, totals>>
    BY <2>1, <2>2, <2>5 DEF TypeOK, run
  <2>6. QED
    BY <2>3, <2>4, <2>5
<1>5. CASE PeriodFromStreams
  <2>1. charted' \in [Blocks -> Nat]
    BY <1>5, OnceType DEF PeriodFromStreams, TypeOK
  <2>2. QED
    BY <1>5, <2>1 DEF PeriodFromStreams, TypeOK, run
<1>6. CASE PeriodByRpc
  <2>1. rpcLast \in Nat /\ MaxFetch \in Nat /\ head \in Nat /\ head <= MaxBlock
    BY <1>0 DEF TypeOK, Sizes
  <2>2. ToFetch(rpcLast) \subseteq Blocks
    BY <1>0, <2>1 DEF ToFetch, Higher, Blocks
  <2>3. rpcLast' \in 0..MaxBlock /\ fetching' \subseteq Blocks
    BY <1>6, <2>1, <2>2, <1>0 DEF PeriodByRpc
  <2>4. QED
    BY <1>6, <2>3 DEF PeriodByRpc, TypeOK, run, counts
<1>7. CASE \E got \in SUBSET fetching : RpcFetched(got)
  <2>1. fetched' \in [Blocks -> Nat] /\ totals' \in [Blocks -> Nat] /\ fetching' = {}
    BY <1>7, OnceType DEF RpcFetched, TypeOK
  <2>2. QED
    BY <1>7, <2>1 DEF RpcFetched, TypeOK, run
<1>8. CASE \/ \E tps \in TpsValues : RollingTps(tps)
           \/ \E tps \in TpsValues, swapped \in BOOLEAN : TpsTick(tps, swapped)
  <2>1. peak' \in TpsValues \cup {0}
    BY <1>8 DEF RollingTps, TpsTick, Higher, TypeOK
  <2>2. UNCHANGED <<streams, head, status, ctxDone, testStart, testEnd, onChain, delivered, lastRec,
                    firstNum, lastNum, rpcLast, timed, slice, counts, fetching>>
    BY <1>8 DEF RollingTps, TpsTick
  <2>3. QED
    BY <2>1, <2>2 DEF TypeOK, counts
<1>9. CASE CancelRun
  BY <1>9 DEF CancelRun, TypeOK, counts
<1>10. CASE \E answered \in BOOLEAN : RecordEnd(answered)
  <2>1. testEnd' \in 0..MaxBlock /\ status' \in {"running", "verifying"}
    BY <1>0, <1>10 DEF RecordEnd, TypeOK
  <2>2. QED
    BY <1>10, <2>1 DEF RecordEnd, TypeOK, counts
<1>11. CASE Verify
  <2>1. RangeFirst \in 0..MaxBlock /\ RangeLast \in 0..MaxBlock
    BY <1>0 DEF RangeFirst, RangeLast, TypeOK
  <2>2. Counted \subseteq Blocks
    BY <1>0, <2>1 DEF Counted, Blocks
  <2>3. QED
    BY <1>11, <2>2 DEF Verify, TypeOK, counts
<1>12. CASE UNCHANGED vars
  BY <1>12 DEF vars, TypeOK
<1>13. QED
  BY <1>1, <1>2, <1>3, <1>4, <1>5, <1>6, <1>7, <1>8, <1>9, <1>10, <1>11, <1>12 DEF Next

(* The variables keep their types.                                           *)
THEOREM TypeCorrect == ASSUME Sizes PROVE Spec => []TypeOK
BY InitTypes, StepTypes, PTL DEF Spec

-----------------------------------------------------------------------------
(* TotalsWithinRange is not inductive either.  A run whose start was         *)
(* recorded is behind nothing that is delivered or fetched, and nothing that *)
(* is counted or on its way is beyond the head...                            *)
Counting == {b \in Blocks : totals[b] > 0}

AfterStart ==
  testStart > 0 =>
    /\ testStart <= head
    /\ \A s \in Streams : testStart <= delivered[s]
    /\ rpcLast = 0 \/ testStart <= rpcLast
    /\ \A b \in Counting \cup fetching : testStart <= b

BeforeEnd ==
  /\ \A b \in Counting \cup fetching : b <= head
  /\ testEnd > 0 => ctxDone /\ testEnd <= head /\ \A b \in Counting \cup fetching : b <= testEnd

(* ... and the range is fixed together with the end block.                   *)
RangeFixed ==
  /\ onChain # {} => status = "verifying"
  /\ testStart > 0 /\ testEnd > 0 /\ onChain # {} => onChain = testStart..testEnd

InRange == AfterStart /\ BeforeEnd /\ RangeFixed

LEMMA InitRange == ASSUME Sizes PROVE Init => InRange
<1> SUFFICES ASSUME Init PROVE InRange
  OBVIOUS
<1>1. Counting = {} /\ fetching = {} /\ onChain = {} /\ testEnd = 0 /\ rpcLast = 0
  BY DEF Init, Counting
<1>2. testStart > 0 => \A s \in Streams : delivered[s] = testStart
  BY DEF Init, Streams, Sizes
<1>3. testStart \in Nat /\ head \in Nat /\ testStart <= head
  BY DEF Init, Sizes
<1>4. QED
  BY <1>1, <1>2, <1>3 DEF InRange, AfterStart, BeforeEnd, RangeFixed

(* What is counted or fetched stays the same or less, and so do both ends.   *)
LEMMA RangeFrame ==
  ASSUME Sizes, TypeOK, InRange,
         UNCHANGED <<testStart, testEnd, ctxDone, rpcLast, onChain, status>>,
         delivered' = delivered, head' \in Nat, head <= head',
         (Counting \cup fetching)' \subseteq Counting \cup fetching
  PROVE  InRange'
<1>1. \A b \in Counting \cup fetching : b \in Nat
  <2>1. Counting \subseteq Blocks
    BY DEF Counting
  <2>2. fetching \subseteq Blocks
    BY DEF TypeOK
  <2>3. Blocks \subseteq Nat
    BY DEF Blocks
  <2>4. QED
    BY <2>1, <2>2, <2>3
<1>2. head \in Nat /\ testStart \in Nat /\ testEnd \in Nat
  BY DEF TypeOK, Sizes
<1>3. AfterStart'
  BY <1>2 DEF InRange, AfterStart
<1>4. BeforeEnd'
  <2>1. \A b \in (Counting \cup fetching)' : b \in Nat /\ b <= head /\ (testEnd > 0 => b <= testEnd)
    BY <1>1 DEF InRange, BeforeEnd
  <2>2. testEnd > 0 => ctxDone /\ testEnd <= head
    BY DEF InRange, BeforeEnd
  <2>3. QED
    BY <1>2, <2>1, <2>2 DEF BeforeEnd
<1>5. QED
  BY <1>3, <1>4 DEF InRange, RangeFixed

(* A stream delivers a block of the run.                                     *)
LEMMA RangeArrives ==
  ASSUME Sizes, TypeOK, InRange, NEW s \in Streams, NEW n \in Blocks, Arrives(s, n)
  PROVE  /\ n <= head
         /\ testStart > 0 => testStart <= n /\ \A t \in Streams : testStart <= delivered'[t]
<1>1. delivered[s] \in Nat /\ head \in Nat /\ n \in (delivered[s] + 1)..head /\ testStart \in Nat
  BY DEF Arrives, TypeOK, Sizes
<1>2. delivered' = [delivered EXCEPT ![s] = n] /\ delivered \in [Streams -> 0..MaxBlock]
  BY DEF Arrives, TypeOK
<1>3. testStart > 0 => testStart <= delivered[s]
  BY DEF InRange, AfterStart
<1>4. QED
  BY <1>1, <1>2, <1>3 DEF InRange, AfterStart

(* It is recorded before the end block, or no later than that.               *)
LEMMA RangeRecord ==
  ASSUME Sizes, TypeOK, InRange, NEW n \in Blocks, RecordDetailed(n),
         n <= head, testEnd > 0 => n <= testEnd,
         testStart > 0 => testStart <= n /\ \A t \in Streams : testStart <= delivered'[t],
         UNCHANGED <<head, run, fetching>>
  PROVE  InRange'
<1>0. n \in Nat /\ Blocks \subseteq Nat /\ totals \in [Blocks -> Nat]
  BY DEF Blocks, TypeOK
<1>1. Counting' \subseteq Counting \cup {n}
  <2>1. CASE n <= lastRec
    BY <2>1 DEF RecordDetailed, Counting
  <2>2. CASE ~ (n <= lastRec)
    <3>1. totals' = Once(totals, {n})
      BY <2>2 DEF RecordDetailed
    <3>2. \A b \in Blocks : b # n => totals'[b] = totals[b]
      BY <1>0, <3>1, OnceType
    <3>3. QED
      BY <3>2 DEF Counting
  <2>3. QED
    BY <2>1, <2>2
<1>2. rpcLast' \in {rpcLast, n}
  BY DEF RecordDetailed, Higher
<1>3. UNCHANGED <<testStart, testEnd, ctxDone, onChain, status>>
  BY DEF run
<1>4. AfterStart'
  BY <1>0, <1>1, <1>2, <1>3 DEF InRange, AfterStart
<1>5. BeforeEnd'
  BY <1>0, <1>1, <1>3 DEF InRange, BeforeEnd
<1>6. QED
  BY <1>3, <1>4, <1>5 DEF InRange, RangeFixed

(* A delivered block that is not recorded.                                   *)
LEMMA RangeIgnored ==
  ASSUME Sizes, TypeOK, InRange, UNCHANGED <<head, run, totals, fetching, rpcLast>>,
         testStart > 0 => \A t \in Streams : testStart <= delivered'[t]
  PROVE  InRange'
BY DEF InRange, AfterStart, BeforeEnd, RangeFixed, Counting, run

LEMMA StepRange == ASSUME Sizes PROVE TypeOK /\ InRange /\ [Next]_vars => InRange'
<1> SUFFICES ASSUME TypeOK, InRange, [Next]_vars PROVE InRange'
  OBVIOUS
<1>0. head \in Nat /\ head <= MaxBlock /\ rpcLast \in Nat /\ testStart \in Nat /\ testEnd \in Nat
  BY DEF TypeOK, Sizes
<1>1. CASE Mine
  <2>1. head' \in Nat /\ head <= head'
    BY <1>0, <1>1 DEF Mine
  <2>2. QED
    BY <1>1, <2>1, RangeFrame DEF Mine, run, counts, Counting
<1>2. CASE \E n \in Blocks : BuilderEvent(n)
  <2> PICK n \in Blocks : BuilderEvent(n)
    BY <1>2
  <2>1. Arrives("builder", n) /\ UNCHANGED <<head, run, charted, fetched, fetching>>
    BY DEF BuilderEvent
  <2>2. n <= head /\ (testStart > 0 => testStart <= n /\ \A t \in Streams : testStart <= delivered'[t])
    BY <2>1, RangeArrives DEF Streams
  <2>3. CASE RecordDetailed(n) /\ ~ (testEnd > 0 /\ n > testEnd)
    <3>1. testEnd > 0 => n <= testEnd
      BY <1>0, <2>3 DEF Blocks, Sizes
    <3>2. QED
      BY <2>1, <2>2, <2>3, <3>1, RangeRecord
  <2>4. CASE UNCHANGED <<firstNum, lastRec, lastNum, rpcLast, timed, slice, totals>>
    BY <2>1, <2>2, <2>4, RangeIgnored
  <2>5. QED
    BY <2>3, <2>4 DEF BuilderEvent
<1>3. CASE \E n \in Blocks : NewHead(n)
  <2> PICK n \in Blocks : NewHead(n)
    BY <1>3
  <2>1. Arrives("heads", n) /\ UNCHANGED <<head, run, rpcLast, totals, fetching>>
    BY DEF NewHead, counts
  <2>2. testStart > 0 => \A t \in Streams : testStart <= delivered'[t]
    BY <2>1, RangeArrives DEF Streams
  <2>3. QED
    BY <2>1, <2>2, RangeIgnored
<1>4. CASE \E has \in BOOLEAN : PollBlock(has)
  <2> PICK has \in BOOLEAN : PollBlock(has)
    BY <1>4
  <2> DEFINE n == delivered["poller"] + 1
  <2>1. Arrives("poller", n) /\ UNCHANGED <<head, run, charted, fetched, fetching>> /\ ~ctxDone
    BY DEF PollBlock
  <2>2. n \in Blocks
    BY <2>1, ArrivesTypes DEF Streams
  <2>3. RecordDetailed(n) \/ UNCHANGED <<lastRec, rpcLast, slice, totals>>
    BY DEF PollBlock
  <2> HIDE DEF n
  <2>4. n <= head /\ (testStart > 0 => testStart <= n /\ \A t \in Streams : testStart <= delivered'[t])
    BY <2>1, <2>2, RangeArrives DEF Streams
  <2>5. ~ (testEnd > 0)
    BY <2>1 DEF InRange, BeforeEnd
  <2>6. CASE RecordDetailed(n)
    BY <2>1, <2>2, <2>4, <2>5, <2>6, RangeRecord
  <2>7. CASE UNCHANGED <<lastRec, rpcLast, slice, totals>>
    BY <2>1, <2>4, <2>7, RangeIgnored
  <2>8. QED
    BY <2>3, <2>6, <2>7
<1>5. CASE PeriodFromStreams
  BY <1>0, <1>5, RangeFrame DEF PeriodFromStreams, run, Counting
<1>6. CASE PeriodByRpc
  <2>1. /\ fetching' = ToFetch(rpcLast) /\ rpcLast' = head /\ fetching = {} /\ ~ctxDone
        /\ UNCHANGED <<head, delivered, status, ctxDone, testStart, testEnd, onChain, totals>>
    BY <1>6 DEF PeriodByRpc, run, counts
  <2>2. MaxFetch \in Nat
    BY DEF Sizes
  <2>3. \A b \in fetching' : b \in Nat /\ rpcLast # 0 /\ rpcLast < b /\ b <= head
    BY <1>0, <2>1, <2>2 DEF ToFetch, Higher
  <2>4. testStart > 0 => testStart <= rpcLast' /\ (rpcLast # 0 => testStart <= rpcLast)
    BY <2>1 DEF InRange, AfterStart
  <2>5. AfterStart'
    BY <1>0, <2>1, <2>3, <2>4 DEF InRange, AfterStart, Counting, Blocks
  <2>6. BeforeEnd'
    BY <1>0, <2>1, <2>3 DEF InRange, BeforeEnd, Counting, Blocks
  <2>7. QED
    BY <2>1, <2>5, <2>6 DEF InRange, RangeFixed
<1>7. CASE \E got \in SUBSET fetching : RpcFetched(got)
  <2> PICK got \in SUBSET fetching : RpcFetched(got)
    BY <1>7
  <2>1. totals' = Once(totals, got) /\ fetching' = {} /\ UNCHANGED <<head, run, delivered, rpcLast>>
    BY DEF RpcFetched
  <2>2. \A b \in Blocks : totals'[b] = IF b \in got THEN totals[b] + 1 ELSE totals[b]
    BY <2>1, OnceType DEF TypeOK
  <2>3. (Counting \cup fetching)' \subseteq Counting \cup fetching
    BY <2>1, <2>2 DEF Counting
  <2>4. QED
    BY <1>0, <2>1, <2>3, RangeFrame DEF run
<1>8. CASE \/ \E tps \in TpsValues : RollingTps(tps)
           \/ \E tps \in TpsValues, swapped \in BOOLEAN : TpsTick(tps, swapped)
           \/ UNCHANGED vars
  BY <1>0, <1>8, RangeFrame DEF RollingTps, TpsTick, vars, counts, Counting
<1>9. CASE CancelRun
  BY <1>9 DEF CancelRun, counts, InRange, AfterStart, BeforeEnd, RangeFixed, Counting
<1>10. CASE \E answered \in BOOLEAN : RecordEnd(answered)
  <2>1. /\ ctxDone /\ testEnd = 0 /\ status = "running" /\ testEnd' \in {0, head}
        /\ UNCHANGED <<head, ctxDone, testStart, onChain, delivered, rpcLast, totals, fetching>>
    BY <1>10 DEF RecordEnd, counts
  <2>2. onChain = {}
    BY <2>1 DEF InRange, RangeFixed
  <2>3. AfterStart' /\ RangeFixed'
    BY <2>1, <2>2 DEF InRange, AfterStart, RangeFixed, Counting
  <2>4. BeforeEnd'
    BY <1>0, <2>1 DEF InRange, BeforeEnd, Counting
  <2>5. QED
    BY <2>3, <2>4 DEF InRange
<1>11. CASE Verify
  <2>1. /\ status' = "verifying" /\ onChain' = Counted
        /\ UNCHANGED <<head, ctxDone, testStart, testEnd, delivered, rpcLast, totals, fetching>>
    BY <1>11 DEF Verify, counts
  <2>2. testStart > 0 /\ testEnd > 0 => Counted = testStart..testEnd
    BY <1>0 DEF Counted, RangeFirst, RangeLast
  <2>3. QED
    BY <2>1, <2>2 DEF InRange, AfterStart, BeforeEnd, RangeFixed, Counting
<1>12. QED
  BY <1>1, <1>2, <1>3, <1>4, <1>5, <1>6, <1>7, <1>8, <1>9, <1>10, <1>11 DEF Next

LEMMA RangeSuffices == ASSUME Sizes PROVE TypeOK /\ InRange => TotalsWithinRange
<1> SUFFICES ASSUME TypeOK, InRange, testStart > 0, onChain # {}, testEnd > 0,
                    NEW b \in Blocks, totals[b] > 0
             PROVE  b \in onChain
  BY DEF TotalsWithinRange
<1>1. b \in Counting
  BY DEF Counting
<1>2. testStart <= b /\ b <= testEnd /\ onChain = testStart..testEnd
  BY <1>1 DEF InRange, AfterStart, BeforeEnd, RangeFixed
<1>3. QED
  BY <1>2 DEF Blocks, TypeOK, Sizes

(* What a stream delivers late, or the fallback fetches across the end of    *)
(* the run, is not in the totals unless the range that is counted has it.    *)
THEOREM TotalsWithinRangeAlways == ASSUME Sizes PROVE Spec => []TotalsWithinRange
BY RangeSuffices, InitTypes, StepTypes, InitRange, StepRange, PTL DEF Spec
=============================================================================
