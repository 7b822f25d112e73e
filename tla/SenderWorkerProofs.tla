------------------------- MODULE SenderWorkerProofs -------------------------
(***************************************************************************)
(* Theorems about SenderWorker, for any set of workers, any configurations *)
(* (batch size, pipeline depth, slots of the sender) and every MaxNonce.   *)
(***************************************************************************)
EXTENDS SenderWorker, FiniteSetTheorems, TLAPS

-----------------------------------------------------------------------------
(* The inductive invariant.  What the four invariants of the runs say of a *)
(* worker and its batches only holds because of how the two share them:    *)
(* who waits for a batch, which permit stands for it, who is to settle     *)
(* each nonce.                                                             *)

PcLabels ==
  {"top", "fill", "wait", "permit", "queue", "ack", "drop", "done"}

BatchRecords ==
  [stage : {"free", "queued", "answered", "finished"}, nonces : Seq(Nonces),
   toSend : Seq(Nonces), sent : Seq(Nonces), answers : Seq({"used", "refused"}),
   called : Nat, waiter : {"worker", "goroutine", "none", "gone"}]

Types ==
  /\ config \in Configs
  /\ phase \in {"running", "stopping", "cancelled"}
  /\ pc \in [Workers -> PcLabels]
  /\ held \in [Workers -> Nonces \cup {NoNonce}]
  /\ buf \in [Workers -> Seq(Nonces)]
  /\ permits \in [Workers -> Nat]
  /\ permitHeld \in [Workers -> BOOLEAN]
  /\ batch \in [Batches -> BatchRecords]
  /\ taken \in [Workers -> SUBSET Nonces]
  /\ accepted \in [Workers -> SUBSET Nonces]

(* A nonce is held between its reservation and its place in the batch, and *)
(* then there is a place.                                                  *)
Building ==
  \A w \in Workers :
    /\ held[w] # NoNonce <=> pc[w] = "wait"
    /\ Len(buf[w]) <= BatchSize
    /\ pc[w] = "wait" => Len(buf[w]) < BatchSize

(* What a batch of each stage has.                                         *)
StageOK(r) ==
  /\ r.stage = "free" => r = NoBatch
  /\ r.toSend = r.nonces
  /\ r.called <= Len(r.nonces)
  /\ r.stage \in {"answered", "finished"} =>
       r.sent = r.nonces /\ Len(r.answers) = Len(r.nonces)
  /\ r.stage = "finished" => r.called = Len(r.nonces)

Stages == \A b \in Batches : StageOK(batch[b])

(* A nonce whose answer is not an error is used on the chain.              *)
AnswersOK(r, used) ==
  r.stage = "answered" =>
    \A i \in 1..Len(r.nonces) : r.answers[i] = "used" => r.nonces[i] \in used

AnswersSound == \A b \in Batches : AnswersOK(batch[b], accepted[Owner(b)])

(* The worker waits for one batch, and only at depth one; above, whoever   *)
(* waits holds a permit, and until the test is cancelled somebody waits.   *)
Waiters ==
  /\ \A b \in Batches :
       /\ batch[b].waiter = "worker" => Depth = 1 /\ pc[Owner(b)] = "ack"
       /\ batch[b].waiter = "goroutine" => Depth > 1
  /\ \A b, c \in Batches :
       /\ batch[b].waiter = "worker" /\ batch[c].waiter = "worker"
       /\ Owner(b) = Owner(c)
       => b = c
  /\ phase # "cancelled" =>
       /\ \A b \in Batches : batch[b].waiter = "none" => batch[b].stage = "free"
       /\ \A w \in Workers : pc[w] = "queue" /\ Depth > 1 => permitHeld[w]

Awaited(w) == {b \in BatchesOf(w) : batch[b].waiter = "goroutine"}

(* The permits that are out: one for each goroutine that waits, and the    *)
(* worker's own between TakePermit and Queue.                              *)
PermitCount ==
  \A w \in Workers :
    /\ IsFiniteSet(Awaited(w))
    /\ permits[w] = Cardinality(Awaited(w)) + (IF permitHeld[w] THEN 1 ELSE 0)
    /\ permits[w] <= Depth
    /\ permitHeld[w] => pc[w] = "queue" /\ Depth > 1

(* The nonces of a batch, and of a worker's buffer, to be settled.         *)
Rest(r) == {r.nonces[i] : i \in (r.called + 1)..Len(r.nonces)}
Loose(w) == IF pc[w] = "ack" THEN {} ELSE Range(buf[w])

RestOnce(r) ==
  \A i, j \in (r.called + 1)..Len(r.nonces) : r.nonces[i] = r.nonces[j] => i = j
BufOnce(s) == \A i, j \in 1..Len(s) : s[i] = s[j] => i = j

(* No nonce is in two hands, nor twice in one...                           *)
OnePlace ==
  /\ \A w \in Workers :
       /\ held[w] \notin Loose(w)
       /\ pc[w] # "ack" => BufOnce(buf[w])
  /\ \A b \in Batches :
       /\ held[Owner(b)] \notin Rest(batch[b])
       /\ Rest(batch[b]) \cap Loose(Owner(b)) = {}
       /\ RestOnce(batch[b])
  /\ \A b, c \in Batches :
       Owner(b) = Owner(c) /\ b # c => Rest(batch[b]) \cap Rest(batch[c]) = {}

(* ... and every one in somebody's hands is taken.                         *)
InHand(w) == Unsettled(w) \cap Nonces
HandsTaken == \A w \in Workers : InHand(w) \subseteq taken[w]

Base == Types /\ Building /\ Stages /\ AnswersSound
Waits == Waiters /\ PermitCount
Hands == OnePlace /\ HandsTaken /\ NoLeak
Inv == Base /\ Waits /\ Hands

-----------------------------------------------------------------------------
(* Batches, records and sequences.                                         *)

(* Each batch belongs to one of the workers.                               *)
LEMMA Owners ==
  /\ \A b \in Batches : Owner(b) \in Workers
  /\ \A w, b : b \in BatchesOf(w) <=> b \in Batches /\ Owner(b) = w
BY DEF Batches, Owner, BatchesOf

(* The sizes of a configuration.                                           *)
LEMMA Sizes ==
  ASSUME config \in Configs
  PROVE  /\ BatchSize \in Nat /\ BatchSize > 0
         /\ Depth \in Nat /\ Depth > 0
         /\ NoNonce \notin Nonces
BY Constants DEF BatchSize, Depth, NoNonce, Nonces

(* What a slot holds that no batch uses.                                   *)
LEMMA NoBatchOK ==
  /\ NoBatch \in BatchRecords /\ StageOK(NoBatch) /\ Rest(NoBatch) = {}
  /\ RestOnce(NoBatch) /\ \A used : AnswersOK(NoBatch, used)
  /\ NoBatch.stage = "free" /\ NoBatch.waiter = "none"
BY DEF NoBatch, BatchRecords, StageOK, Rest, RestOnce, AnswersOK

(* A record with one field changed is still of its kind...                 *)
LEMMA OneField ==
  ASSUME NEW A, NEW B, NEW C, NEW D, NEW E, NEW F, NEW G,
         NEW r \in [stage : A, nonces : B, toSend : C, sent : D, answers : E,
                    called : F, waiter : G]
  PROVE  LET Set == [stage : A, nonces : B, toSend : C, sent : D, answers : E,
                     called : F, waiter : G]
         IN  /\ \A x \in A : [r EXCEPT !.stage = x] \in Set
             /\ \A x \in B : [r EXCEPT !.nonces = x] \in Set
             /\ \A x \in C : [r EXCEPT !.toSend = x] \in Set
             /\ \A x \in D : [r EXCEPT !.sent = x] \in Set
             /\ \A x \in E : [r EXCEPT !.answers = x] \in Set
             /\ \A x \in F : [r EXCEPT !.called = x] \in Set
             /\ \A x \in G : [r EXCEPT !.waiter = x] \in Set
BY SMT

(* ... and its other fields are what they were: a callback, the end of the *)
(* request, the end of the wait...                                         *)
LEMMA OtherFields ==
  ASSUME NEW A, NEW B, NEW C, NEW D, NEW E, NEW F, NEW G,
         NEW r \in [stage : A, nonces : B, toSend : C, sent : D, answers : E,
                    called : F, waiter : G]
  PROVE  /\ \A x : LET s == [r EXCEPT !.stage = x]
                  IN  /\ s.stage = x /\ s.nonces = r.nonces
                      /\ s.toSend = r.toSend /\ s.sent = r.sent
                      /\ s.answers = r.answers /\ s.called = r.called
                      /\ s.waiter = r.waiter
         /\ \A x : LET s == [r EXCEPT !.called = x]
                  IN  /\ s.stage = r.stage /\ s.nonces = r.nonces
                      /\ s.toSend = r.toSend /\ s.sent = r.sent
                      /\ s.answers = r.answers /\ s.called = x
                      /\ s.waiter = r.waiter
         /\ \A x : LET s == [r EXCEPT !.waiter = x]
                  IN  /\ s.stage = r.stage /\ s.nonces = r.nonces
                      /\ s.toSend = r.toSend /\ s.sent = r.sent
                      /\ s.answers = r.answers /\ s.called = r.called
                      /\ s.waiter = x
BY SMT

(* ... the answer to the request...                                        *)
LEMMA AnswerFields ==
  ASSUME NEW A, NEW B, NEW C, NEW D, NEW E, NEW F, NEW G,
         NEW r \in [stage : A, nonces : B, toSend : C, sent : D, answers : E,
                    called : F, waiter : G],
         NEW x \in A, NEW y \in D, NEW z \in E
  PROVE  LET s == [r EXCEPT !.stage = x, !.sent = y, !.answers = z]
         IN  /\ s \in [stage : A, nonces : B, toSend : C, sent : D, answers : E,
                        called : F, waiter : G]
             /\ s.stage = x /\ s.nonces = r.nonces /\ s.toSend = r.toSend
             /\ s.sent = y /\ s.answers = z /\ s.called = r.called
             /\ s.waiter = r.waiter
<1> DEFINE s == [r EXCEPT !.stage = x, !.sent = y, !.answers = z]
<1>1. s = [[[r EXCEPT !.stage = x] EXCEPT !.sent = y] EXCEPT !.answers = z]
  OBVIOUS
<1>2. s \in [stage : A, nonces : B, toSend : C, sent : D, answers : E,
             called : F, waiter : G]
  BY <1>1, OneField
<1>3. /\ s.stage = x /\ s.nonces = r.nonces /\ s.toSend = r.toSend
      /\ s.sent = y /\ s.answers = z /\ s.called = r.called
      /\ s.waiter = r.waiter
  BY SMT
<1>4. QED
  BY <1>2, <1>3

(* ... the hand-over to the sender.                                        *)
LEMMA QueueFields ==
  ASSUME NEW A, NEW B, NEW C, NEW D, NEW E, NEW F, NEW G,
         NEW r \in [stage : A, nonces : B, toSend : C, sent : D, answers : E,
                    called : F, waiter : G],
         NEW x \in A, NEW y \in B, NEW z \in C, NEW u \in G
  PROVE  LET s == [r EXCEPT !.stage = x, !.nonces = y, !.toSend = z,
                            !.waiter = u]
         IN  /\ s \in [stage : A, nonces : B, toSend : C, sent : D, answers : E,
                        called : F, waiter : G]
             /\ s.stage = x /\ s.nonces = y /\ s.toSend = z
             /\ s.sent = r.sent /\ s.answers = r.answers
             /\ s.called = r.called /\ s.waiter = u
<1> DEFINE s == [r EXCEPT !.stage = x, !.nonces = y, !.toSend = z, !.waiter = u]
<1>1. s = [[[[r EXCEPT !.stage = x] EXCEPT !.nonces = y] EXCEPT !.toSend = z]
             EXCEPT !.waiter = u]
  OBVIOUS
<1>2. s \in [stage : A, nonces : B, toSend : C, sent : D, answers : E,
             called : F, waiter : G]
  BY <1>1, OneField
<1>3. /\ s.stage = x /\ s.nonces = y /\ s.toSend = z
      /\ s.sent = r.sent /\ s.answers = r.answers
      /\ s.called = r.called /\ s.waiter = u
  BY SMT
<1>4. QED
  BY <1>2, <1>3

(* The batch SendBatchAsync is handed.                                     *)
LEMMA QueuedRecord ==
  ASSUME NEW s \in Seq(Nonces), NEW x \in {"worker", "goroutine", "none"}
  PROVE  LET r == [NoBatch EXCEPT !.stage = "queued", !.nonces = s,
                                  !.toSend = s, !.waiter = x]
         IN  /\ r \in BatchRecords /\ StageOK(r) /\ Rest(r) = Range(s)
             /\ BufOnce(s) => RestOnce(r)
             /\ \A used : AnswersOK(r, used)
             /\ r.stage = "queued" /\ r.waiter = x
<1> DEFINE r == [NoBatch EXCEPT !.stage = "queued", !.nonces = s,
                                !.toSend = s, !.waiter = x]
<1>1. /\ r \in BatchRecords /\ r.stage = "queued" /\ r.nonces = s
      /\ r.toSend = s /\ r.called = NoBatch.called /\ r.waiter = x
  BY NoBatchOK, QueueFields DEF BatchRecords
<1>2. NoBatch.called = 0
  BY DEF NoBatch
<1> HIDE DEF r
<1>3. Len(s) \in Nat /\ DOMAIN s = 1..Len(s)
  OBVIOUS
<1>4. Rest(r) = Range(s) /\ (BufOnce(s) => RestOnce(r))
  BY <1>1, <1>2, <1>3 DEF Rest, Range, RestOnce, BufOnce
<1>5. StageOK(r) /\ \A used : AnswersOK(r, used)
  BY <1>1, <1>2, <1>3 DEF StageOK, AnswersOK
<1>6. QED
  BY <1>1, <1>4, <1>5 DEF r

(* The batch nobody waits for any more.                                    *)
LEMMA StoppedRecord ==
  ASSUME NEW r \in BatchRecords, StageOK(r), r.waiter \in {"worker", "goroutine"},
         NEW s, s = Tidy([r EXCEPT !.waiter = "gone"])
  PROVE  /\ s \in BatchRecords /\ StageOK(s) /\ Rest(s) = Rest(r)
         /\ RestOnce(r) => RestOnce(s)
         /\ \A used : AnswersOK(r, used) => AnswersOK(s, used)
         /\ s.waiter \in {"none", "gone"}
         /\ s.waiter = "none" => s.stage = "free"
<1> DEFINE t == [r EXCEPT !.waiter = "gone"]
<1>1. /\ t \in BatchRecords /\ t.waiter = "gone" /\ t.stage = r.stage
      /\ t.nonces = r.nonces /\ t.toSend = r.toSend /\ t.sent = r.sent
      /\ t.answers = r.answers /\ t.called = r.called
  BY OneField, OtherFields DEF BatchRecords
<1> HIDE DEF t
<1>2. /\ Rest(t) = Rest(r) /\ (RestOnce(r) => RestOnce(t))
      /\ \A used : AnswersOK(r, used) => AnswersOK(t, used)
  BY <1>1 DEF Rest, RestOnce, AnswersOK
<1>3. CASE r.stage = "finished"
  <2>1. s = NoBatch
    BY <1>1, <1>3 DEF Tidy, t
  <2>2. Rest(r) = {}
    BY <1>3 DEF StageOK, Rest, BatchRecords
  <2>3. QED
    BY <2>1, <2>2, NoBatchOK
<1>4. CASE r.stage # "finished"
  <2>1. s = t
    BY <1>1, <1>4 DEF Tidy, t
  <2>2. r.stage # "free"
    BY NoBatchOK DEF StageOK
  <2>3. StageOK(s)
    BY <2>1, <2>2, <1>1, <1>4 DEF StageOK
  <2>4. QED
    BY <2>1, <2>3, <1>1, <1>2
<1>5. QED
  BY <1>3, <1>4

(* The batch whose goroutine has made its callbacks.                       *)
LEMMA ReleasedRecord ==
  ASSUME NEW r \in BatchRecords, StageOK(r), r.stage = "answered",
         ~(r.called < Len(r.nonces)),
         NEW s, s = Tidy([r EXCEPT !.stage = "finished"])
  PROVE  /\ s \in BatchRecords /\ StageOK(s) /\ Rest(s) = Rest(r)
         /\ RestOnce(s)
         /\ \A used : AnswersOK(s, used)
         /\ \/ s = NoBatch /\ r.waiter \in {"none", "gone"}
            \/ s.waiter = r.waiter /\ s.stage = "finished"
<1> DEFINE t == [r EXCEPT !.stage = "finished"]
<1>1. /\ t \in BatchRecords /\ t.waiter = r.waiter /\ t.stage = "finished"
      /\ t.nonces = r.nonces /\ t.toSend = r.toSend /\ t.sent = r.sent
      /\ t.answers = r.answers /\ t.called = r.called
  BY OneField, OtherFields DEF BatchRecords
<1> HIDE DEF t
<1>2. r.called = Len(r.nonces) /\ r.called \in Nat
  BY DEF StageOK, BatchRecords
<1>3. StageOK(t)
  BY <1>1, <1>2 DEF StageOK
<1>4. /\ Rest(r) = {} /\ Rest(t) = {} /\ RestOnce(t)
      /\ \A used : AnswersOK(t, used)
  BY <1>1, <1>2 DEF Rest, RestOnce, AnswersOK
<1>5. \/ s = NoBatch /\ r.waiter \in {"none", "gone"}
      \/ s = t
  BY <1>1 DEF Tidy, t
<1>6. QED
  BY <1>1, <1>3, <1>4, <1>5, NoBatchOK

(* The batch after one more callback: its nonce, and no other, is settled. *)
LEMMA CalledRecord ==
  ASSUME NEW r \in BatchRecords, StageOK(r), RestOnce(r), r.stage = "answered",
         r.called < Len(r.nonces), NEW i, i = r.called + 1,
         NEW s, s = [r EXCEPT !.called = i]
  PROVE  /\ s \in BatchRecords /\ StageOK(s)
         /\ i \in 1..Len(r.nonces) /\ r.nonces[i] \in Rest(r)
         /\ Rest(s) = Rest(r) \ {r.nonces[i]}
         /\ RestOnce(s)
         /\ \A used : AnswersOK(r, used) => AnswersOK(s, used)
         /\ s.waiter = r.waiter /\ s.stage = "answered"
<1>1. /\ s \in BatchRecords /\ s.waiter = r.waiter /\ s.stage = r.stage
      /\ s.nonces = r.nonces /\ s.toSend = r.toSend /\ s.sent = r.sent
      /\ s.answers = r.answers /\ s.called = i
  <2>1. \A x \in Nat : [r EXCEPT !.called = x] \in BatchRecords
    BY OneField DEF BatchRecords
  <2>2. i \in Nat
    BY DEF BatchRecords
  <2>3. QED
    BY <2>1, <2>2, OtherFields DEF BatchRecords
<1>2. r.called \in Nat /\ r.nonces \in Seq(Nonces) /\ Len(r.nonces) \in Nat
  BY DEF BatchRecords
<1>3. StageOK(s) /\ \A used : AnswersOK(r, used) => AnswersOK(s, used)
  BY <1>1, <1>2 DEF StageOK, AnswersOK
<1>4. i \in (r.called + 1)..Len(r.nonces) /\ i \in 1..Len(r.nonces)
  BY <1>2
<1>5. \A j : j \in (s.called + 1)..Len(s.nonces)
              <=> j \in (r.called + 1)..Len(r.nonces) /\ j # i
  BY <1>1, <1>2
<1>6. r.nonces[i] \in Rest(r)
  BY <1>4 DEF Rest
<1>7. Rest(s) = Rest(r) \ {r.nonces[i]}
  BY <1>1, <1>4, <1>5 DEF Rest, RestOnce
<1>8. RestOnce(s)
  BY <1>1, <1>5 DEF RestOnce
<1>9. QED
  BY <1>1, <1>3, <1>4, <1>6, <1>7, <1>8

(* The batch whose request is over.                                        *)
LEMMA AnsweredRecord ==
  ASSUME NEW r \in BatchRecords, StageOK(r), r.stage = "queued",
         NEW answers \in [DOMAIN r.toSend -> {"used", "refused"}], NEW used,
         \A i \in DOMAIN answers : answers[i] = "used" => r.toSend[i] \in used,
         NEW s, s = [r EXCEPT !.stage = "answered", !.sent = r.toSend,
                              !.answers = answers]
  PROVE  /\ s \in BatchRecords /\ StageOK(s) /\ Rest(s) = Rest(r)
         /\ RestOnce(r) => RestOnce(s)
         /\ AnswersOK(s, used)
         /\ s.waiter = r.waiter /\ s.stage = "answered"
<1>1. /\ r.nonces \in Seq(Nonces) /\ r.toSend = r.nonces
      /\ DOMAIN r.toSend = 1..Len(r.nonces) /\ Len(r.nonces) \in Nat
  BY DEF BatchRecords, StageOK
<1>2. answers \in Seq({"used", "refused"}) /\ Len(answers) = Len(r.nonces)
  BY <1>1
<1>3. /\ s \in BatchRecords /\ s.waiter = r.waiter /\ s.stage = "answered"
      /\ s.nonces = r.nonces /\ s.toSend = r.toSend /\ s.sent = r.toSend
      /\ s.answers = answers /\ s.called = r.called
  BY <1>1, <1>2, AnswerFields DEF BatchRecords
<1>4. StageOK(s)
  BY <1>1, <1>2, <1>3 DEF StageOK
<1>5. Rest(s) = Rest(r) /\ (RestOnce(r) => RestOnce(s)) /\ AnswersOK(s, used)
  BY <1>1, <1>2, <1>3 DEF Rest, RestOnce, AnswersOK
<1>6. QED
  BY <1>3, <1>4, <1>5

-----------------------------------------------------------------------------
(* What each variable holds: the first third of the invariant.             *)

(* Workers start with empty hands and the sender with no batch.            *)
LEMMA InitBase == Init => Base
<1> SUFFICES ASSUME Init PROVE Base
  OBVIOUS
<1>1. <<>> \in Seq(Nonces) /\ Len(<<>>) = 0
  OBVIOUS
<1>2. Types
  BY <1>1, NoBatchOK DEF Init, Types, PcLabels
<1>3. Building
  BY <1>1, Sizes DEF Init, Building
<1>4. Stages /\ AnswersSound
  BY NoBatchOK DEF Init, Stages, AnswersSound
<1>5. QED
  BY <1>2, <1>3, <1>4 DEF Base

(* A step that leaves the batches alone.                                   *)
LEMMA SameBatches ==
  ASSUME Base, UNCHANGED <<batch, accepted>>, Types', Building'
  PROVE  Base'
BY DEF Base, Stages, AnswersSound

(* The worker's own steps: its label, the nonce in its hand, its buffer.   *)
LEMMA WorkerBase ==
  ASSUME Base, NEW w \in Workers,
         \/ Loop(w) \/ ReserveNonce(w) \/ BuildFails(w) \/ LingerExpires(w)
         \/ Leave(w) \/ AddToBatch(w) \/ EndFill(w) \/ TakePermit(w)
         \/ DropBatch(w)
  PROVE  Base'
<1> USE DEF Base, Types, PcLabels, Goto
<1>0. /\ NoNonce \notin Nonces /\ BatchSize \in Nat
      /\ Len(buf[w]) \in Nat /\ buf[w] \in Seq(Nonces)
  BY Sizes
<1>1. CASE Loop(w)
  <2>1. UNCHANGED <<config, phase, held, buf, permits, permitHeld, batch, taken,
                    accepted>>
    BY <1>1 DEF Loop
  <2>2. Types'
    BY <1>1, <2>1 DEF Loop
  <2>3. Building'
    BY <1>1, <2>1 DEF Loop, Building, BatchSize
  <2>4. QED
    BY <2>1, <2>2, <2>3, SameBatches
<1>2. CASE ReserveNonce(w)
  <2>1. PICK n \in Nonces \ taken[w] :
          /\ taken' = [taken EXCEPT ![w] = @ \cup {n}]
          /\ held' = [held EXCEPT ![w] = n]
    BY <1>2 DEF ReserveNonce
  <2>2. /\ UNCHANGED <<config, phase, buf, permits, permitHeld, batch, accepted>>
        /\ pc[w] = "fill" /\ Len(buf[w]) < BatchSize
        /\ pc' = [pc EXCEPT ![w] = "wait"]
    BY <1>2 DEF ReserveNonce
  <2>3. Types'
    BY <2>1, <2>2
  <2>4. Building'
    BY <2>1, <2>2, <1>0 DEF Building, BatchSize
  <2>5. QED
    BY <2>2, <2>3, <2>4, SameBatches
<1>3. CASE BuildFails(w) \/ LingerExpires(w) \/ Leave(w)
  <2>1. PICK label \in {"fill", "permit", "done"} :
          pc' = [pc EXCEPT ![w] = label]
    BY <1>3 DEF BuildFails, LingerExpires, Leave
  <2>2. /\ UNCHANGED <<config, phase, buf, permits, permitHeld, batch, accepted>>
        /\ taken' = [taken EXCEPT ![w] = @ \ {held[w]}]
        /\ held' = [held EXCEPT ![w] = NoNonce]
    BY <1>3 DEF BuildFails, LingerExpires, Leave, DropHeld, Rollback
  <2>3. Types'
    BY <2>1, <2>2
  <2>4. Building'
    BY <2>1, <2>2 DEF Building, BatchSize
  <2>5. QED
    BY <2>2, <2>3, <2>4, SameBatches
<1>4. CASE AddToBatch(w)
  <2>1. /\ UNCHANGED <<config, phase, permits, permitHeld, batch, taken, accepted>>
        /\ pc[w] = "wait"
        /\ pc' = [pc EXCEPT ![w] = "fill"]
        /\ buf' = [buf EXCEPT ![w] = Append(buf[w], held[w])]
        /\ held' = [held EXCEPT ![w] = NoNonce]
    BY <1>4 DEF AddToBatch
  <2>2. held[w] \in Nonces /\ Len(buf[w]) < BatchSize
    BY <2>1 DEF Building
  <2>3. /\ Append(buf[w], held[w]) \in Seq(Nonces)
        /\ Len(Append(buf[w], held[w])) = Len(buf[w]) + 1
    BY <2>2, <1>0
  <2>4. Types'
    BY <2>1, <2>3
  <2>5. Building'
    BY <2>1, <2>2, <2>3, <1>0 DEF Building, BatchSize
  <2>6. QED
    BY <2>1, <2>4, <2>5, SameBatches
<1>5. CASE EndFill(w)
  <2>1. /\ UNCHANGED <<config, phase, held, buf, permits, permitHeld, batch,
                       taken, accepted>>
        /\ pc[w] = "fill"
        /\ \E label \in {"top", "permit"} : pc' = [pc EXCEPT ![w] = label]
    BY <1>5 DEF EndFill
  <2>2. Types'
    BY <2>1
  <2>3. Building'
    BY <2>1 DEF Building, BatchSize
  <2>4. QED
    BY <2>1, <2>2, <2>3, SameBatches
<1>6. CASE TakePermit(w)
  <2>1. /\ UNCHANGED <<config, phase, held, buf, batch, taken, accepted>>
        /\ pc[w] = "permit"
        /\ pc' = [pc EXCEPT ![w] = "queue"]
        /\ permits' = permits \/ permits' = [permits EXCEPT ![w] = permits[w] + 1]
        /\ permitHeld' = permitHeld \/ permitHeld' = [permitHeld EXCEPT ![w] = TRUE]
    BY <1>6 DEF TakePermit
  <2>2. permits' \in [Workers -> Nat] /\ permitHeld' \in [Workers -> BOOLEAN]
    <3>1. permits' \in [Workers -> Nat]
      <4>1. permits[w] + 1 \in Nat
        OBVIOUS
      <4>2. QED
        BY <2>1, <4>1
    <3>2. permitHeld' \in [Workers -> BOOLEAN]
      BY <2>1
    <3>3. QED
      BY <3>1, <3>2
  <2>3. Types'
    BY <2>1, <2>2
  <2>4. Building'
    BY <2>1 DEF Building, BatchSize
  <2>5. QED
    BY <2>1, <2>3, <2>4, SameBatches
<1>7. CASE DropBatch(w)
  <2>1. /\ UNCHANGED <<config, phase, held, permits, permitHeld, batch, accepted>>
        /\ pc[w] = "drop"
    BY <1>7 DEF DropBatch
  <2>2. CASE buf[w] = <<>>
    <3>1. UNCHANGED <<taken, buf>> /\ pc' = [pc EXCEPT ![w] = "top"]
      BY <1>7, <2>2 DEF DropBatch
    <3>2. Types'
      BY <2>1, <3>1
    <3>3. Building'
      BY <2>1, <3>1 DEF Building, BatchSize
    <3>4. QED
      BY <2>1, <3>2, <3>3, SameBatches
  <2>3. CASE buf[w] # <<>>
    <3>1. /\ taken' = [taken EXCEPT ![w] = taken[w] \ {Head(buf[w])}]
          /\ buf' = [buf EXCEPT ![w] = Tail(buf[w])]
          /\ pc' = pc
      BY <1>7, <2>3 DEF DropBatch, Rollback
    <3>2. Tail(buf[w]) \in Seq(Nonces) /\ Len(Tail(buf[w])) = Len(buf[w]) - 1
      BY <2>3, <1>0
    <3>3. Types'
      BY <2>1, <3>1, <3>2
    <3>4. Building'
      BY <2>1, <3>1, <3>2, <1>0 DEF Building, BatchSize
    <3>5. QED
      BY <2>1, <3>3, <3>4, SameBatches
  <2>4. QED
    BY <2>2, <2>3
<1>8. QED
  BY <1>1, <1>2, <1>3, <1>4, <1>5, <1>6, <1>7

(* A step that changes one batch.                                          *)
Becomes(b, r) ==
  /\ r \in BatchRecords /\ StageOK(r)
  /\ batch' = [batch EXCEPT ![b] = r]

(* Handing over a batch: a slot nobody used holds the worker's nonces.     *)
LEMMA QueueStep ==
  ASSUME Base, NEW w \in Workers, Queue(w)
  PROVE  /\ pc[w] = "queue"
         /\ \E b \in Batches, r \in BatchRecords :
              /\ Owner(b) = w /\ batch[b] = NoBatch
              /\ Becomes(b, r)
              /\ Rest(r) = Range(buf[w]) /\ (BufOnce(buf[w]) => RestOnce(r))
              /\ \A used : AnswersOK(r, used)
              /\ r.stage = "queued" /\ r.waiter = Waiter(w)
         /\ permitHeld' = [permitHeld EXCEPT ![w] = FALSE]
         /\ \/ /\ Depth = 1 /\ buf' = buf
               /\ pc' = [pc EXCEPT ![w] = "ack"]
            \/ /\ Depth # 1 /\ buf' = [buf EXCEPT ![w] = <<>>]
               /\ pc' = [pc EXCEPT ![w] = "top"]
         /\ UNCHANGED <<config, phase, held, permits, taken, accepted>>
<1>1. PICK b \in BatchesOf(w) :
        /\ batch[b].stage = "free"
        /\ batch' = [batch EXCEPT ![b] =
                       [NoBatch EXCEPT !.stage = "queued", !.nonces = buf[w],
                                       !.toSend = buf[w], !.waiter = Waiter(w)]]
  BY DEF Queue, Enqueue
<1> DEFINE r == [NoBatch EXCEPT !.stage = "queued", !.nonces = buf[w],
                                !.toSend = buf[w], !.waiter = Waiter(w)]
<1>2. b \in Batches /\ Owner(b) = w /\ batch[b] = NoBatch
  BY <1>1, Owners DEF Base, Stages, StageOK
<1>3. buf[w] \in Seq(Nonces) /\ Waiter(w) \in {"worker", "goroutine", "none"}
  BY DEF Base, Types, Waiter
<1>4. /\ r \in BatchRecords /\ StageOK(r) /\ Rest(r) = Range(buf[w])
      /\ BufOnce(buf[w]) => RestOnce(r)
      /\ \A used : AnswersOK(r, used)
      /\ r.stage = "queued" /\ r.waiter = Waiter(w)
  BY <1>3, QueuedRecord
<1> HIDE DEF r
<1>5. Becomes(b, r)
  BY <1>1, <1>4 DEF Becomes, r
<1>6. /\ pc[w] = "queue"
      /\ permitHeld' = [permitHeld EXCEPT ![w] = FALSE]
      /\ \/ /\ Depth = 1 /\ buf' = buf
            /\ pc' = [pc EXCEPT ![w] = "ack"]
         \/ /\ Depth # 1 /\ buf' = [buf EXCEPT ![w] = <<>>]
            /\ pc' = [pc EXCEPT ![w] = "top"]
      /\ UNCHANGED <<config, phase, held, permits, taken, accepted>>
  BY DEF Queue, Enqueue, Goto
<1>7. QED
  BY <1>2, <1>4, <1>5, <1>6

(* The end of a wait, whether every ack has come or not.                   *)
LEMMA StopStep ==
  ASSUME Base, NEW b \in Batches, ReceiveAcks(b) \/ GiveUpWaiting(b)
  PROVE  /\ batch[b].waiter \in {"worker", "goroutine"}
         /\ \E r :
              /\ Becomes(b, r)
              /\ Rest(r) = Rest(batch[b]) /\ (RestOnce(batch[b]) => RestOnce(r))
              /\ \A used : AnswersOK(batch[b], used) => AnswersOK(r, used)
              /\ r.waiter \in {"none", "gone"}
              /\ r.waiter = "none" => r.stage = "free"
         /\ \/ /\ batch[b].waiter = "worker"
               /\ pc' = [pc EXCEPT ![Owner(b)] = "top"]
               /\ buf' = [buf EXCEPT ![Owner(b)] = <<>>]
               /\ permits' = permits
            \/ /\ batch[b].waiter = "goroutine"
               /\ permits' = [permits EXCEPT ![Owner(b)] = @ - 1]
               /\ UNCHANGED <<pc, buf>>
         /\ UNCHANGED <<config, phase, held, permitHeld, taken, accepted>>
<1>1. /\ batch[b].waiter \in {"worker", "goroutine"}
      /\ StopWaiting(b)
      /\ UNCHANGED <<config, phase, held, permitHeld, taken, accepted>>
  BY DEF ReceiveAcks, GiveUpWaiting, Waiting
<1> DEFINE r == Tidy([batch[b] EXCEPT !.waiter = "gone"])
<1>2. batch[b] \in BatchRecords /\ StageOK(batch[b])
  BY DEF Base, Types, Stages
<1>3. /\ r \in BatchRecords /\ StageOK(r)
      /\ Rest(r) = Rest(batch[b]) /\ (RestOnce(batch[b]) => RestOnce(r))
      /\ \A used : AnswersOK(batch[b], used) => AnswersOK(r, used)
      /\ r.waiter \in {"none", "gone"}
      /\ r.waiter = "none" => r.stage = "free"
  BY <1>1, <1>2, StoppedRecord
<1>4. batch' = [batch EXCEPT ![b] = r]
  BY <1>1 DEF StopWaiting
<1> HIDE DEF r
<1>5. Becomes(b, r)
  BY <1>3, <1>4 DEF Becomes
<1>6. \/ /\ batch[b].waiter = "worker"
         /\ pc' = [pc EXCEPT ![Owner(b)] = "top"]
         /\ buf' = [buf EXCEPT ![Owner(b)] = <<>>]
         /\ permits' = permits
      \/ /\ batch[b].waiter = "goroutine"
         /\ permits' = [permits EXCEPT ![Owner(b)] = @ - 1]
         /\ UNCHANGED <<pc, buf>>
  BY <1>1 DEF StopWaiting, Goto
<1>7. QED
  BY <1>1, <1>3, <1>5, <1>6

(* The request: the endpoint may accept some of the batch's transactions.  *)
LEMMA TransmitStep ==
  ASSUME Base, NEW b \in Batches, Transmit(b)
  PROVE  /\ \E r :
              /\ Becomes(b, r)
              /\ Rest(r) = Rest(batch[b]) /\ (RestOnce(batch[b]) => RestOnce(r))
              /\ AnswersOK(r, accepted'[Owner(b)])
              /\ r.waiter = batch[b].waiter /\ r.stage = "answered"
         /\ batch[b].stage = "queued"
         /\ accepted' \in [Workers -> SUBSET Nonces]
         /\ \A w \in Workers : accepted[w] \subseteq accepted'[w]
         /\ UNCHANGED <<config, phase, worker, taken>>
<1> DEFINE q == batch[b]
<1>1. q \in BatchRecords /\ StageOK(q) /\ q.stage = "queued"
  BY DEF Base, Types, Stages, Transmit
<1>2. PICK new \in SUBSET (Range(q.toSend) \ accepted[Owner(b)]),
           answers \in [DOMAIN q.toSend -> {"used", "refused"}] :
        /\ \A i \in DOMAIN answers :
             answers[i] = "used" => q.toSend[i] \in new \cup accepted[Owner(b)]
        /\ accepted' = [accepted EXCEPT ![Owner(b)] = @ \cup new]
        /\ batch' = [batch EXCEPT ![b] =
                       [q EXCEPT !.stage = "answered", !.sent = q.toSend,
                                 !.answers = answers]]
  BY DEF Transmit, Payload, Base, Types
<1> DEFINE r == [q EXCEPT !.stage = "answered", !.sent = q.toSend,
                          !.answers = answers]
<1>3. /\ r \in BatchRecords /\ StageOK(r) /\ Rest(r) = Rest(q)
      /\ RestOnce(q) => RestOnce(r)
      /\ AnswersOK(r, new \cup accepted[Owner(b)])
      /\ r.waiter = q.waiter /\ r.stage = "answered"
  <2> DEFINE used == new \cup accepted[Owner(b)]
  <2>1. \A i \in DOMAIN answers : answers[i] = "used" => q.toSend[i] \in used
    BY <1>2
  <2> HIDE DEF q, used
  <2>2. /\ r \in BatchRecords /\ StageOK(r) /\ Rest(r) = Rest(q)
        /\ RestOnce(q) => RestOnce(r)
        /\ AnswersOK(r, used)
        /\ r.waiter = q.waiter /\ r.stage = "answered"
    BY <2>1, <1>1, AnsweredRecord
  <2>3. QED
    BY <2>2 DEF used
<1>4. new \subseteq Nonces
  <2>1. q.toSend \in Seq(Nonces)
    BY <1>1 DEF BatchRecords
  <2> HIDE DEF q
  <2>2. QED
    BY <1>2, <2>1 DEF Range
<1>5. batch' = [batch EXCEPT ![b] = r]
  BY <1>2
<1> HIDE DEF r
<1>6. Becomes(b, r)
  BY <1>3, <1>5 DEF Becomes
<1>7. /\ accepted' \in [Workers -> SUBSET Nonces]
      /\ \A w \in Workers : accepted[w] \subseteq accepted'[w]
      /\ accepted'[Owner(b)] = new \cup accepted[Owner(b)]
  BY <1>2, <1>4, Owners DEF Base, Types
<1>8. UNCHANGED <<config, phase, worker, taken>>
  BY DEF Transmit
<1>9. QED
  BY <1>1, <1>3, <1>6, <1>7, <1>8

(* A callback settles one nonce, by its answer.                            *)
LEMMA CallbackStep ==
  ASSUME Base, NEW b \in Batches, Callback(b), RestOnce(batch[b])
  PROVE  /\ \E r, n :
              /\ Becomes(b, r)
              /\ n \in Rest(batch[b]) /\ Rest(r) = Rest(batch[b]) \ {n}
              /\ RestOnce(r)
              /\ \A used : AnswersOK(batch[b], used) => AnswersOK(r, used)
              /\ r.waiter = batch[b].waiter /\ r.stage = "answered"
              /\ \/ taken' = [taken EXCEPT ![Owner(b)] = @ \ {n}]
                 \/ n \in accepted[Owner(b)] /\ taken' = taken
         /\ batch[b].stage = "answered"
         /\ UNCHANGED <<config, phase, worker, accepted>>
<1> DEFINE q == batch[b]
           i == q.called + 1
           r == [q EXCEPT !.called = i]
           n == q.nonces[i]
<1>1. /\ q \in BatchRecords /\ StageOK(q) /\ q.stage = "answered"
      /\ q.called < Len(q.nonces)
  BY DEF Base, Types, Stages, Callback, Outstanding
<1>2. batch' = [batch EXCEPT ![b] = r]
  BY DEF Callback
<1>3. /\ \/ q.answers[i] = "refused" /\ taken' = [taken EXCEPT ![Owner(b)] = @ \ {n}]
         \/ q.answers[i] # "refused" /\ taken' = taken
      /\ UNCHANGED <<config, phase, worker, accepted>>
  BY DEF Callback, Rollback
<1>4. AnswersOK(q, accepted[Owner(b)])
  BY DEF Base, AnswersSound
<1> HIDE DEF q
<1>5. RestOnce(q)
  BY DEF q
<1>6. /\ r \in BatchRecords /\ StageOK(r)
      /\ i \in 1..Len(q.nonces) /\ n \in Rest(q)
      /\ Rest(r) = Rest(q) \ {n} /\ RestOnce(r)
      /\ \A used : AnswersOK(q, used) => AnswersOK(r, used)
      /\ r.waiter = q.waiter /\ r.stage = "answered"
  BY <1>1, <1>5, CalledRecord
<1>7. q.answers[i] # "refused" => n \in accepted[Owner(b)]
  <2>1. q.answers \in Seq({"used", "refused"}) /\ Len(q.answers) = Len(q.nonces)
    BY <1>1 DEF BatchRecords, StageOK
  <2>2. q.answers[i] \in {"used", "refused"}
    BY <2>1, <1>6
  <2>3. QED
    BY <2>2, <1>1, <1>4, <1>6 DEF AnswersOK
<1> HIDE DEF r, n
<1>8. Becomes(b, r)
  BY <1>2, <1>6 DEF Becomes
<1>9. QED
  BY <1>1, <1>3, <1>6, <1>7, <1>8 DEF q

(* The goroutine is done with the batch.                                   *)
LEMMA ReleaseStep ==
  ASSUME Base, NEW b \in Batches, Release(b)
  PROVE  /\ \E r :
              /\ Becomes(b, r)
              /\ Rest(r) = Rest(batch[b]) /\ RestOnce(r)
              /\ \A used : AnswersOK(r, used)
              /\ \/ r = NoBatch /\ batch[b].waiter \in {"none", "gone"}
                 \/ r.waiter = batch[b].waiter /\ r.stage = "finished"
         /\ batch[b].stage = "answered"
         /\ UNCHANGED <<config, phase, worker, taken, accepted>>
<1> DEFINE q == batch[b]
           r == Tidy([q EXCEPT !.stage = "finished"])
<1>1. /\ q \in BatchRecords /\ StageOK(q) /\ q.stage = "answered"
      /\ ~(q.called < Len(q.nonces))
  BY DEF Base, Types, Stages, Release, Outstanding
<1>2. /\ batch' = [batch EXCEPT ![b] = r]
      /\ UNCHANGED <<config, phase, worker, taken, accepted>>
  BY DEF Release
<1> HIDE DEF q
<1>3. /\ r \in BatchRecords /\ StageOK(r)
      /\ Rest(r) = Rest(q) /\ RestOnce(r)
      /\ \A used : AnswersOK(r, used)
      /\ \/ r = NoBatch /\ q.waiter \in {"none", "gone"}
         \/ r.waiter = q.waiter /\ r.stage = "finished"
  BY <1>1, ReleasedRecord
<1> HIDE DEF r
<1>4. Becomes(b, r)
  BY <1>2, <1>3 DEF Becomes
<1>5. QED
  BY <1>1, <1>2, <1>3, <1>4 DEF q

(* The batches after a step that changes one.                              *)
LEMMA OneBatch ==
  ASSUME Base, NEW b \in Batches, NEW r, Becomes(b, r),
         \A w \in Workers : accepted[w] \subseteq accepted'[w],
         AnswersOK(r, accepted'[Owner(b)])
  PROVE  batch' \in [Batches -> BatchRecords] /\ Stages' /\ AnswersSound'
<1>1. /\ batch' \in [Batches -> BatchRecords]
      /\ \A c \in Batches : batch'[c] = IF c = b THEN r ELSE batch[c]
  BY DEF Base, Types, Becomes
<1>2. Stages'
  BY <1>1 DEF Base, Stages, Becomes
<1>3. AnswersSound'
  <2>1. ASSUME NEW c \in Batches, c # b
        PROVE  AnswersOK(batch[c], accepted'[Owner(c)])
    <3>1. accepted[Owner(c)] \subseteq accepted'[Owner(c)]
      BY <2>1, Owners
    <3>2. AnswersOK(batch[c], accepted[Owner(c)])
      BY DEF Base, AnswersSound
    <3>3. QED
      BY <3>1, <3>2 DEF AnswersOK
  <2>2. QED
    BY <1>1, <2>1 DEF AnswersSound
<1>4. QED
  BY <1>1, <1>2, <1>3

(* The permit of whoever waits, or is about to, has been taken.            *)
LEMMA PermitOut ==
  ASSUME Base, Waits
  PROVE  /\ \A w \in Workers : permitHeld[w] => permits[w] > 0
         /\ \A b \in Batches :
              batch[b].waiter = "goroutine" => permits[Owner(b)] > 0
<1>1. ASSUME NEW w \in Workers, permitHeld[w] PROVE permits[w] > 0
  BY <1>1, FS_CardinalityType DEF Waits, PermitCount
<1>2. ASSUME NEW b \in Batches, batch[b].waiter = "goroutine"
      PROVE  permits[Owner(b)] > 0
  <2> DEFINE w == Owner(b)
  <2>1. w \in Workers /\ b \in Awaited(w)
    BY <1>2, Owners DEF Awaited
  <2>2. IsFiniteSet(Awaited(w)) /\ Cardinality(Awaited(w)) # 0
    BY <2>1, FS_EmptySet DEF Waits, PermitCount
  <2>3. Cardinality(Awaited(w)) \in Nat
    BY <2>2, FS_CardinalityType
  <2>4. QED
    BY <2>1, <2>2, <2>3 DEF Waits, PermitCount
<1>3. QED
  BY <1>1, <1>2

(* The steps worker and sender take together, and the sender's own.        *)
LEMMA SenderBase ==
  ASSUME Base, Waits, Hands,
         \/ \E w \in Workers : Queue(w) \/ AtCapacity(w) \/ Resync(w)
         \/ \E b \in Batches : ReceiveAcks(b) \/ GiveUpWaiting(b) \/ Transmit(b)
                               \/ Callback(b) \/ Release(b)
         \/ StopSending \/ Cancel
  PROVE  Base'
<1> USE DEF PcLabels
<1>1. ASSUME NEW w \in Workers, Queue(w) PROVE Base'
  <2>1. PICK b \in Batches, r \in BatchRecords :
          /\ Owner(b) = w /\ batch[b] = NoBatch
          /\ Becomes(b, r)
          /\ \A used : AnswersOK(r, used)
    BY <1>1, QueueStep
  <2>2. /\ pc[w] = "queue"
        /\ UNCHANGED <<config, phase, held, permits, taken, accepted>>
        /\ permitHeld' = [permitHeld EXCEPT ![w] = FALSE]
        /\ \E label \in {"ack", "top"} : pc' = [pc EXCEPT ![w] = label]
        /\ buf' = buf \/ buf' = [buf EXCEPT ![w] = <<>>]
    BY <1>1, QueueStep
  <2>3. batch' \in [Batches -> BatchRecords] /\ Stages' /\ AnswersSound'
    BY <2>1, <2>2, OneBatch
  <2>4. <<>> \in Seq(Nonces) /\ Len(<<>>) = 0 /\ BatchSize \in Nat
    BY Sizes DEF Base, Types
  <2>5. /\ buf' \in [Workers -> Seq(Nonces)]
        /\ \A v \in Workers : buf'[v] = buf[v] \/ buf'[v] = <<>>
    BY <2>2, <2>4 DEF Base, Types
  <2>6. Types'
    BY <2>2, <2>3, <2>5 DEF Base, Types
  <2>7. Building'
    BY <2>2, <2>4, <2>5 DEF Base, Types, Building, BatchSize
  <2>8. QED
    BY <2>3, <2>6, <2>7 DEF Base
<1>2. ASSUME NEW w \in Workers, AtCapacity(w) PROVE Base'
  <2>1. /\ UNCHANGED <<config, phase, held, buf, batch, taken, accepted>>
        /\ pc[w] = "queue"
        /\ pc' = [pc EXCEPT ![w] = "drop"]
        /\ permits' = [permits EXCEPT ![w] = IF permitHeld[w] THEN permits[w] - 1
                                                              ELSE permits[w]]
        /\ permitHeld' = [permitHeld EXCEPT ![w] = FALSE]
    BY <1>2 DEF AtCapacity, Goto
  <2>2. permits[w] \in Nat /\ (permitHeld[w] => permits[w] > 0)
    BY PermitOut DEF Base, Types
  <2>3. permits' \in [Workers -> Nat]
    BY <2>1, <2>2 DEF Base, Types
  <2>4. Types'
    BY <2>1, <2>3 DEF Base, Types
  <2>5. Building'
    BY <2>1 DEF Base, Types, Building, BatchSize
  <2>6. QED
    BY <2>1, <2>4, <2>5, SameBatches
<1>3. ASSUME NEW w \in Workers, Resync(w) PROVE Base'
  <2>1. PICK v \in 1..MaxNonce :
          taken' = [taken EXCEPT ![w] = @ \cup 0..(v - 1)]
    BY <1>3 DEF Resync
  <2>2. UNCHANGED <<config, phase, worker, batch, accepted>>
    BY <1>3 DEF Resync
  <2>3. 0..(v - 1) \subseteq Nonces
    BY Constants DEF Nonces
  <2>4. taken' \in [Workers -> SUBSET Nonces]
    BY <2>1, <2>3 DEF Base, Types
  <2>5. Types' /\ Building'
    BY <2>2, <2>4 DEF Base, Types, Building, BatchSize, worker
  <2>6. QED
    BY <2>2, <2>5, SameBatches
<1>4. ASSUME NEW b \in Batches, ReceiveAcks(b) \/ GiveUpWaiting(b) PROVE Base'
  <2>1. PICK r :
          /\ Becomes(b, r)
          /\ \A used : AnswersOK(batch[b], used) => AnswersOK(r, used)
    BY <1>4, StopStep
  <2>2. /\ UNCHANGED <<config, phase, held, permitHeld, taken, accepted>>
        /\ \/ /\ batch[b].waiter = "worker"
              /\ pc' = [pc EXCEPT ![Owner(b)] = "top"]
              /\ buf' = [buf EXCEPT ![Owner(b)] = <<>>]
              /\ permits' = permits
           \/ /\ batch[b].waiter = "goroutine"
              /\ permits' = [permits EXCEPT ![Owner(b)] = @ - 1]
              /\ UNCHANGED <<pc, buf>>
    BY <1>4, StopStep
  <2>3. AnswersOK(r, accepted'[Owner(b)])
    BY <2>1, <2>2 DEF Base, AnswersSound
  <2>4. batch' \in [Batches -> BatchRecords] /\ Stages' /\ AnswersSound'
    BY <2>1, <2>2, <2>3, OneBatch
  <2>5. <<>> \in Seq(Nonces) /\ Len(<<>>) = 0 /\ BatchSize \in Nat
    BY Sizes DEF Base, Types
  <2>6. Owner(b) \in Workers
    BY Owners
  <2>7. permits' \in [Workers -> Nat]
    <3>1. CASE batch[b].waiter = "goroutine"
      <4>1. permits[Owner(b)] \in Nat /\ permits[Owner(b)] > 0
        BY <3>1, <2>6, PermitOut DEF Base, Types
      <4>2. QED
        BY <4>1, <3>1, <2>2 DEF Base, Types
    <3>2. QED
      BY <3>1, <2>2 DEF Base, Types
  <2>8. CASE batch[b].waiter = "worker"
    <3>1. pc[Owner(b)] = "ack"
      BY <2>8 DEF Waits, Waiters
    <3>2. Types'
      BY <2>2, <2>4, <2>5, <2>7, <2>8 DEF Base, Types
    <3>3. \A w \in Workers : buf'[w] = buf[w] \/ buf'[w] = <<>>
      BY <2>2, <2>6, <2>8 DEF Base, Types
    <3>4. Building'
      BY <2>2, <2>5, <2>6, <2>8, <3>1, <3>3
      DEF Base, Types, Building, BatchSize
    <3>5. QED
      BY <2>4, <3>2, <3>4 DEF Base
  <2>9. CASE batch[b].waiter # "worker"
    <3>1. Types'
      BY <2>2, <2>4, <2>7, <2>9 DEF Base, Types
    <3>2. Building'
      BY <2>2, <2>9 DEF Base, Building, BatchSize
    <3>3. QED
      BY <2>4, <3>1, <3>2 DEF Base
  <2>10. QED
    BY <2>8, <2>9
<1>5. ASSUME NEW b \in Batches, Transmit(b) PROVE Base'
  <2>1. PICK r : Becomes(b, r) /\ AnswersOK(r, accepted'[Owner(b)])
    BY <1>5, TransmitStep
  <2>2. /\ accepted' \in [Workers -> SUBSET Nonces]
        /\ \A w \in Workers : accepted[w] \subseteq accepted'[w]
        /\ UNCHANGED <<config, phase, worker, taken>>
    BY <1>5, TransmitStep
  <2>3. batch' \in [Batches -> BatchRecords] /\ Stages' /\ AnswersSound'
    BY <2>1, <2>2, OneBatch
  <2>4. Types' /\ Building'
    BY <2>2, <2>3 DEF Base, Types, Building, BatchSize, worker
  <2>5. QED
    BY <2>3, <2>4 DEF Base
<1>6. ASSUME NEW b \in Batches, Callback(b) PROVE Base'
  <2>1. RestOnce(batch[b])
    BY DEF Hands, OnePlace
  <2>2. PICK r, n :
          /\ Becomes(b, r)
          /\ \A used : AnswersOK(batch[b], used) => AnswersOK(r, used)
          /\ \/ taken' = [taken EXCEPT ![Owner(b)] = @ \ {n}]
             \/ taken' = taken
    BY <1>6, <2>1, CallbackStep
  <2>3. UNCHANGED <<config, phase, worker, accepted>>
    BY <1>6, <2>1, CallbackStep
  <2>4. batch' \in [Batches -> BatchRecords] /\ Stages' /\ AnswersSound'
    <3>1. AnswersOK(batch[b], accepted[Owner(b)])
      BY DEF Base, AnswersSound
    <3>2. AnswersOK(r, accepted'[Owner(b)]) /\ Becomes(b, r)
      BY <2>2, <2>3, <3>1
    <3>3. \A w \in Workers : accepted[w] \subseteq accepted'[w]
      BY <2>3
    <3>4. QED
      BY <3>2, <3>3, OneBatch
  <2>5. taken' \in [Workers -> SUBSET Nonces]
    <3>1. taken' = [taken EXCEPT ![Owner(b)] = @ \ {n}] \/ taken' = taken
      BY <2>2
    <3>2. taken \in [Workers -> SUBSET Nonces]
      BY DEF Base, Types
    <3>3. QED
      BY <3>1, <3>2
  <2>6. Types' /\ Building'
    BY <2>3, <2>4, <2>5 DEF Base, Types, Building, BatchSize, worker
  <2>7. QED
    BY <2>4, <2>6 DEF Base
<1>7. ASSUME NEW b \in Batches, Release(b) PROVE Base'
  <2>1. PICK r : Becomes(b, r) /\ \A used : AnswersOK(r, used)
    BY <1>7, ReleaseStep
  <2>2. UNCHANGED <<config, phase, worker, taken, accepted>>
    BY <1>7, ReleaseStep
  <2>3. batch' \in [Batches -> BatchRecords] /\ Stages' /\ AnswersSound'
    BY <2>1, <2>2, OneBatch
  <2>4. Types' /\ Building'
    BY <2>2, <2>3 DEF Base, Types, Building, BatchSize, worker
  <2>5. QED
    BY <2>3, <2>4 DEF Base
<1>8. CASE StopSending \/ Cancel
  <2>1. /\ UNCHANGED <<config, worker, batch, taken, accepted>>
        /\ phase' \in {"stopping", "cancelled"}
    BY <1>8 DEF StopSending, Cancel
  <2>2. Types' /\ Building'
    BY <2>1 DEF Base, Types, Building, BatchSize, worker
  <2>3. QED
    BY <2>1, <2>2, SameBatches
<1>9. QED
  BY <1>1, <1>2, <1>3, <1>4, <1>5, <1>6, <1>7, <1>8

-----------------------------------------------------------------------------
(* Who waits for what, and the permits: the second third.                  *)

(* Nobody waits at the start.                                              *)
LEMMA InitWaits == Init => Waits
<1> SUFFICES ASSUME Init PROVE Waits
  OBVIOUS
<1>1. /\ \A b \in Batches : batch[b].waiter = "none" /\ batch[b].stage = "free"
      /\ \A w \in Workers : /\ pc[w] \in {"top", "done"}
                            /\ permits[w] = 0 /\ permitHeld[w] = FALSE
  BY NoBatchOK DEF Init
<1>2. Depth \in Nat /\ Depth > 0
  BY Sizes DEF Init
<1>3. \A w \in Workers : Awaited(w) = {}
  BY <1>1, Owners DEF Awaited
<1>4. Waiters
  BY <1>1 DEF Waiters
<1>5. PermitCount
  <2>1. \A w \in Workers : IsFiniteSet(Awaited(w)) /\ Cardinality(Awaited(w)) = 0
    BY <1>3, FS_EmptySet
  <2>2. QED
    BY <1>1, <1>2, <2>1 DEF PermitCount
<1>6. QED
  BY <1>4, <1>5 DEF Waits

(* A step that takes no permit and that nobody waits for.                  *)
LEMMA SameWaits ==
  ASSUME Base, Waits, UNCHANGED <<config, permits, permitHeld>>,
         phase' # "cancelled" => phase # "cancelled",
         \A w \in Workers : /\ pc[w] = "ack" => pc'[w] = "ack"
                            /\ pc'[w] = "queue" <=> pc[w] = "queue",
         \A b \in Batches :
           \/ /\ batch'[b].waiter = batch[b].waiter
              /\ batch'[b].stage = "free" <=> batch[b].stage = "free"
           \/ /\ batch'[b].waiter = "none" /\ batch'[b].stage = "free"
              /\ batch[b].waiter \in {"none", "gone"}
  PROVE  Waits'
<1>1. Depth' = Depth
  BY DEF Depth
<1>2. \A b \in Batches : \A x \in {"worker", "goroutine"} :
        batch'[b].waiter = x <=> batch[b].waiter = x
  OBVIOUS
<1>3. \A w \in Workers : Awaited(w)' = Awaited(w)
  BY <1>2, Owners DEF Awaited
<1>4. PermitCount'
  BY <1>1, <1>3 DEF Waits, PermitCount
<1>5. Waiters'
  BY <1>1, <1>2, Owners DEF Waits, Waiters
<1>6. QED
  BY <1>4, <1>5 DEF Waits

(* The worker's own steps but the permit's.                                *)
LEMMA WorkerWaits ==
  ASSUME Base, Waits, NEW w \in Workers,
         \/ Loop(w) \/ ReserveNonce(w) \/ BuildFails(w) \/ LingerExpires(w)
         \/ Leave(w) \/ AddToBatch(w) \/ EndFill(w) \/ DropBatch(w) \/ Resync(w)
  PROVE  Waits'
<1>1. UNCHANGED <<config, phase, permits, permitHeld, batch>>
  BY DEF Loop, ReserveNonce, BuildFails, LingerExpires, Leave, AddToBatch,
         EndFill, DropBatch, DropHeld, Resync, worker
<1>2. \/ pc' = pc
      \/ /\ pc[w] \in {"top", "fill", "wait", "drop"}
         /\ \E label \in {"top", "fill", "wait", "permit", "done"} :
              pc' = [pc EXCEPT ![w] = label]
  BY DEF Loop, ReserveNonce, BuildFails, LingerExpires, Leave, AddToBatch,
         EndFill, DropBatch, Resync, worker, Goto
<1>3. \A v \in Workers : /\ pc[v] = "ack" => pc'[v] = "ack"
                         /\ pc'[v] = "queue" <=> pc[v] = "queue"
  BY <1>2 DEF Base, Types
<1>4. QED
  BY <1>1, <1>3, SameWaits

(* The sender's own steps and the end of the test.                         *)
LEMMA SenderWaits ==
  ASSUME Base, Waits, Hands,
         \/ \E b \in Batches : Transmit(b) \/ Callback(b) \/ Release(b)
         \/ StopSending \/ Cancel
  PROVE  Waits'
<1>1. ASSUME NEW b \in Batches, Transmit(b) \/ Callback(b) \/ Release(b)
      PROVE  Waits'
  <2>1. RestOnce(batch[b])
    BY DEF Hands, OnePlace
  <2>2. batch[b].stage # "free"
    BY <1>1, <2>1, TransmitStep, CallbackStep, ReleaseStep
  <2>3. UNCHANGED <<config, phase, worker>>
    BY <1>1, <2>1, TransmitStep, CallbackStep, ReleaseStep
  <2>4. PICK r :
          /\ Becomes(b, r)
          /\ \/ r.waiter = batch[b].waiter /\ r.stage # "free"
             \/ r = NoBatch /\ batch[b].waiter \in {"none", "gone"}
    BY <1>1, <2>1, TransmitStep, CallbackStep, ReleaseStep
  <2>5. \A c \in Batches : batch'[c] = IF c = b THEN r ELSE batch[c]
    BY <2>4 DEF Becomes, Base, Types
  <2>6. \A c \in Batches :
          \/ /\ batch'[c].waiter = batch[c].waiter
             /\ batch'[c].stage = "free" <=> batch[c].stage = "free"
          \/ /\ batch'[c].waiter = "none" /\ batch'[c].stage = "free"
             /\ batch[c].waiter \in {"none", "gone"}
    BY <2>2, <2>4, <2>5, NoBatchOK
  <2>7. QED
    BY <2>3, <2>6, SameWaits DEF worker
<1>2. CASE StopSending \/ Cancel
  <2>1. /\ UNCHANGED <<config, worker, batch>>
        /\ phase' # "cancelled" => phase # "cancelled"
    BY <1>2 DEF StopSending, Cancel
  <2>2. QED
    BY <2>1, SameWaits DEF worker
<1>3. QED
  BY <1>1, <1>2

(* A permit is taken where there is room for it; only a cancelled worker   *)
(* goes on without.                                                        *)
LEMMA TakePermitWaits ==
  ASSUME Base, Waits, NEW w \in Workers, TakePermit(w)
  PROVE  Waits'
<1>1. /\ UNCHANGED <<config, phase, batch>>
      /\ pc[w] = "permit"
      /\ pc' = [pc EXCEPT ![w] = "queue"]
      /\ \/ Depth = 1 /\ UNCHANGED <<permits, permitHeld>>
         \/ /\ Depth > 1 /\ permits[w] < Depth
            /\ permits' = [permits EXCEPT ![w] = permits[w] + 1]
            /\ permitHeld' = [permitHeld EXCEPT ![w] = TRUE]
         \/ /\ Depth > 1 /\ phase = "cancelled"
            /\ UNCHANGED <<permits, permitHeld>>
  BY DEF TakePermit, Goto
<1>2. Depth' = Depth /\ Depth \in Nat
  BY <1>1, Sizes DEF Depth, Base, Types
<1>3. \A v \in Workers : Awaited(v)' = Awaited(v)
  BY <1>1 DEF Awaited
<1>4. permitHeld[w] = FALSE
  BY <1>1 DEF Base, Types, Waits, PermitCount
<1>5. PermitCount'
  <2>1. ASSUME NEW v \in Workers, v # w
        PROVE  /\ permits'[v] = permits[v] /\ permitHeld'[v] = permitHeld[v]
               /\ pc'[v] = pc[v]
    BY <1>1, <2>1 DEF Base, Types
  <2>2. /\ pc'[w] = "queue"
        /\ \/ permits'[w] = permits[w] /\ permitHeld'[w] = FALSE
           \/ /\ Depth > 1
              /\ permits[w] < Depth /\ permits'[w] = permits[w] + 1
              /\ permitHeld'[w] = TRUE
    BY <1>1, <1>4 DEF Base, Types
  <2>3. /\ permits[w] = Cardinality(Awaited(w)) /\ permits[w] \in Nat
        /\ permits[w] <= Depth
    BY <1>4, FS_CardinalityType DEF Base, Types, Waits, PermitCount
  <2>4. permits'[w] <= Depth
    BY <1>2, <2>2, <2>3
  <2>5. permits'[w] = Cardinality(Awaited(w)) + (IF permitHeld'[w] THEN 1 ELSE 0)
    BY <2>2, <2>3
  <2>6. QED
    BY <1>2, <1>3, <2>1, <2>2, <2>4, <2>5 DEF Waits, PermitCount
<1>6. Waiters'
  <2>1. \A v \in Workers : pc[v] = "ack" => pc'[v] = "ack"
    BY <1>1 DEF Base, Types
  <2>2. ASSUME phase # "cancelled", NEW v \in Workers, pc'[v] = "queue", Depth > 1
        PROVE  permitHeld'[v]
    BY <1>1, <2>2 DEF Base, Types, Waits, Waiters
  <2>3. QED
    BY <1>1, <1>2, <2>1, <2>2, Owners DEF Waits, Waiters
<1>7. QED
  BY <1>5, <1>6 DEF Waits

(* A batch the sender has no room for costs its permit.                    *)
LEMMA AtCapacityWaits ==
  ASSUME Base, Waits, NEW w \in Workers, AtCapacity(w)
  PROVE  Waits'
<1>1. /\ UNCHANGED <<config, phase, batch>>
      /\ pc[w] = "queue"
      /\ pc' = [pc EXCEPT ![w] = "drop"]
      /\ permits' = [permits EXCEPT ![w] = IF permitHeld[w] THEN permits[w] - 1
                                                            ELSE permits[w]]
      /\ permitHeld' = [permitHeld EXCEPT ![w] = FALSE]
  BY DEF AtCapacity, Goto
<1>2. Depth' = Depth /\ Depth \in Nat
  BY <1>1, Sizes DEF Depth, Base, Types
<1>3. \A v \in Workers : Awaited(v)' = Awaited(v)
  BY <1>1 DEF Awaited
<1>4. PermitCount'
  <2>1. ASSUME NEW v \in Workers, v # w
        PROVE  /\ permits'[v] = permits[v] /\ permitHeld'[v] = permitHeld[v]
               /\ pc'[v] = pc[v]
    BY <1>1, <2>1 DEF Base, Types
  <2>2. /\ permitHeld'[w] = FALSE
        /\ permits'[w] = IF permitHeld[w] THEN permits[w] - 1 ELSE permits[w]
    BY <1>1 DEF Base, Types
  <2>3. /\ Cardinality(Awaited(w)) \in Nat
        /\ permits[w] = Cardinality(Awaited(w)) + (IF permitHeld[w] THEN 1 ELSE 0)
        /\ permits[w] <= Depth
    BY FS_CardinalityType DEF Waits, PermitCount
  <2>4. permits'[w] = Cardinality(Awaited(w)) /\ permits'[w] <= Depth
    BY <1>2, <2>2, <2>3
  <2>5. permits'[w] = Cardinality(Awaited(w)) + (IF permitHeld'[w] THEN 1 ELSE 0)
    BY <2>2, <2>3, <2>4
  <2>6. QED
    BY <1>2, <1>3, <2>1, <2>2, <2>4, <2>5 DEF Waits, PermitCount
<1>5. Waiters'
  <2>1. \A v \in Workers : /\ pc[v] = "ack" => pc'[v] = "ack"
                           /\ pc'[v] = "queue" => v # w /\ pc[v] = "queue"
                           /\ v # w => permitHeld'[v] = permitHeld[v]
    BY <1>1 DEF Base, Types
  <2>2. QED
    BY <1>1, <1>2, <2>1, Owners DEF Waits, Waiters
<1>6. QED
  BY <1>4, <1>5 DEF Waits

(* The permit a batch is queued with is its goroutine's from then on.      *)
LEMMA QueueWaits ==
  ASSUME Base, Waits, NEW w \in Workers, Queue(w)
  PROVE  Waits'
<1>1. PICK b \in Batches, r \in BatchRecords :
        /\ Owner(b) = w /\ batch[b] = NoBatch
        /\ Becomes(b, r) /\ r.stage = "queued" /\ r.waiter = Waiter(w)
  BY QueueStep
<1>2. /\ pc[w] = "queue"
      /\ UNCHANGED <<config, phase, permits>>
      /\ permitHeld' = [permitHeld EXCEPT ![w] = FALSE]
      /\ \/ Depth = 1 /\ pc' = [pc EXCEPT ![w] = "ack"]
         \/ Depth # 1 /\ pc' = [pc EXCEPT ![w] = "top"]
  BY QueueStep
<1>3. Depth' = Depth /\ Depth \in Nat /\ Depth > 0
  BY <1>2, Sizes DEF Depth, Base, Types
<1>4. /\ \A c \in Batches : batch'[c] = IF c = b THEN r ELSE batch[c]
      /\ batch[b].waiter = "none" /\ batch[b].stage = "free"
  BY <1>1, NoBatchOK DEF Becomes, Base, Types
<1>5. \A v \in Workers : /\ v # w => pc'[v] = pc[v]
                         /\ v # w => permitHeld'[v] = permitHeld[v]
                         /\ permits'[v] = permits[v]
  BY <1>2 DEF Base, Types
<1>6. /\ permitHeld'[w] = FALSE
      /\ pc'[w] = IF Depth = 1 THEN "ack" ELSE "top"
  BY <1>2 DEF Base, Types
<1>7. \A v \in Workers : v # w => Awaited(v)' = Awaited(v)
  BY <1>1, <1>4, Owners DEF Awaited
<1>8. \/ Depth = 1 /\ r.waiter = "worker" /\ permitHeld[w] = FALSE
      \/ Depth > 1 /\ r.waiter = "goroutine" /\ permitHeld[w] = TRUE
      \/ /\ Depth > 1 /\ r.waiter = "none" /\ permitHeld[w] = FALSE
         /\ phase = "cancelled"
  BY <1>1, <1>2, <1>3 DEF Waiter, Base, Types, Waits, Waiters, PermitCount
<1>9. /\ IsFiniteSet(Awaited(w))
      /\ permits[w] = Cardinality(Awaited(w)) + (IF permitHeld[w] THEN 1 ELSE 0)
      /\ permits[w] <= Depth
  BY DEF Waits, PermitCount
<1>10. PermitCount'
  <2>1. /\ IsFiniteSet(Awaited(w)') /\ permits[w] = Cardinality(Awaited(w)')
    <3>1. CASE r.waiter = "goroutine"
      <4>1. Awaited(w)' = Awaited(w) \cup {b} /\ b \notin Awaited(w)
        BY <1>1, <1>4, <3>1, Owners DEF Awaited
      <4>2. /\ IsFiniteSet(Awaited(w) \cup {b})
            /\ Cardinality(Awaited(w) \cup {b}) = Cardinality(Awaited(w)) + 1
        BY <4>1, <1>9, FS_AddElement
      <4>3. permits[w] = Cardinality(Awaited(w)) + 1
        BY <1>8, <1>9, <3>1
      <4>4. QED
        BY <4>1, <4>2, <4>3
    <3>2. CASE r.waiter # "goroutine"
      <4>1. Awaited(w)' = Awaited(w)
        BY <1>1, <1>4, <3>2, Owners DEF Awaited
      <4>2. Cardinality(Awaited(w)) \in Nat
        BY <1>9, FS_CardinalityType
      <4>3. permits[w] = Cardinality(Awaited(w))
        BY <1>8, <1>9, <3>2, <4>2
      <4>4. QED
        BY <4>1, <4>3, <1>9
    <3>3. QED
      BY <3>1, <3>2
  <2>2. permits[w] = Cardinality(Awaited(w)') + (IF permitHeld'[w] THEN 1 ELSE 0)
    BY <2>1, <1>6, FS_CardinalityType
  <2>3. ASSUME NEW v \in Workers, v # w
        PROVE  /\ IsFiniteSet(Awaited(v)')
               /\ permits'[v] =
                    Cardinality(Awaited(v)') + (IF permitHeld'[v] THEN 1 ELSE 0)
               /\ permits'[v] <= Depth'
               /\ permitHeld'[v] => pc'[v] = "queue" /\ Depth' > 1
    BY <2>3, <1>3, <1>5, <1>7 DEF Waits, PermitCount
  <2>4. permits'[w] = permits[w] /\ permits'[w] <= Depth'
    BY <1>3, <1>5, <1>9
  <2>5. QED
    BY <2>1, <2>2, <2>3, <2>4, <1>6 DEF PermitCount
<1>11. Waiters'
  <2>1. \A c \in Batches : Owner(c) = w => batch[c].waiter # "worker"
    BY <1>2 DEF Waits, Waiters
  <2>2. ASSUME NEW c \in Batches
        PROVE  /\ batch'[c].waiter = "worker" =>
                    Depth' = 1 /\ pc'[Owner(c)] = "ack"
               /\ batch'[c].waiter = "goroutine" => Depth' > 1
    <3>1. CASE c = b
      BY <3>1, <1>1, <1>3, <1>4, <1>6, <1>8
    <3>2. CASE c # b
      <4>1. batch'[c] = batch[c] /\ Owner(c) \in Workers
        BY <3>2, <1>4, Owners
      <4>2. batch[c].waiter = "worker" => Owner(c) # w
        BY <2>1
      <4>3. QED
        BY <4>1, <4>2, <1>3, <1>5 DEF Waits, Waiters
    <3>3. QED
      BY <3>1, <3>2
  <2>3. ASSUME NEW c \in Batches, NEW d \in Batches, Owner(c) = Owner(d),
               batch'[c].waiter = "worker", batch'[d].waiter = "worker"
        PROVE  c = d
    BY <2>1, <2>3, <1>1, <1>4 DEF Waits, Waiters
  <2>4. ASSUME phase # "cancelled", NEW c \in Batches, batch'[c].waiter = "none"
        PROVE  batch'[c].stage = "free"
    BY <2>4, <1>4, <1>8 DEF Waits, Waiters
  <2>5. ASSUME phase # "cancelled", NEW v \in Workers, pc'[v] = "queue", Depth > 1
        PROVE  permitHeld'[v]
    BY <2>5, <1>5, <1>6 DEF Waits, Waiters
  <2>6. QED
    BY <1>2, <1>3, <2>2, <2>3, <2>4, <2>5 DEF Waiters
<1>12. QED
  BY <1>10, <1>11 DEF Waits

(* The end of a wait gives the permit back, or the worker its loop.        *)
LEMMA StopWaits ==
  ASSUME Base, Waits, NEW b \in Batches, ReceiveAcks(b) \/ GiveUpWaiting(b)
  PROVE  Waits'
<1> DEFINE w == Owner(b)
<1>1. PICK r :
        /\ Becomes(b, r) /\ r.waiter \in {"none", "gone"}
        /\ r.waiter = "none" => r.stage = "free"
  BY StopStep
<1>2. /\ UNCHANGED <<config, phase, permitHeld>>
      /\ \/ /\ batch[b].waiter = "worker"
            /\ pc' = [pc EXCEPT ![w] = "top"]
            /\ permits' = permits
         \/ /\ batch[b].waiter = "goroutine"
            /\ permits' = [permits EXCEPT ![w] = permits[w] - 1]
            /\ pc' = pc
  BY StopStep
<1>3. Depth' = Depth /\ Depth \in Nat /\ Depth > 0
  BY <1>2, Sizes DEF Depth, Base, Types
<1>4. \A c \in Batches : batch'[c] = IF c = b THEN r ELSE batch[c]
  BY <1>1 DEF Becomes, Base, Types
<1>5. w \in Workers
  BY Owners
<1>6. \A v \in Workers : v # w => /\ permits'[v] = permits[v]
                                  /\ pc'[v] = pc[v]
                                  /\ Awaited(v)' = Awaited(v)
  <2>1. \A v \in Workers : v # w => Awaited(v)' = Awaited(v)
    BY <1>4, Owners DEF Awaited
  <2>2. \A v \in Workers : v # w => permits'[v] = permits[v] /\ pc'[v] = pc[v]
    BY <1>2 DEF Base, Types
  <2>3. QED
    BY <2>1, <2>2
<1>7. /\ IsFiniteSet(Awaited(w)) /\ Cardinality(Awaited(w)) \in Nat
      /\ permits[w] = Cardinality(Awaited(w)) + (IF permitHeld[w] THEN 1 ELSE 0)
      /\ permits[w] <= Depth
      /\ permitHeld[w] => pc[w] = "queue" /\ Depth > 1
  BY <1>5, FS_CardinalityType DEF Waits, PermitCount
<1>8. CASE batch[b].waiter = "worker"
  <2>1. Depth = 1 /\ pc[w] = "ack"
    BY <1>8 DEF Waits, Waiters
  <2>2. Awaited(w)' = Awaited(w)
    BY <1>1, <1>4, <1>8, Owners DEF Awaited
  <2>3. permits'[w] = permits[w] /\ pc'[w] = "top"
    BY <1>2, <1>5, <1>8 DEF Base, Types
  <2>4. PermitCount'
    BY <1>2, <1>3, <1>6, <1>7, <2>1, <2>2, <2>3 DEF Waits, PermitCount
  <2>5. \A c \in Batches :
          batch'[c].waiter = "worker" => c # b /\ batch'[c] = batch[c] /\ Owner(c) # w
    BY <1>1, <1>4, <1>8 DEF Waits, Waiters
  <2>6. \A c \in Batches :
          /\ batch'[c].waiter = "goroutine" => batch[c].waiter = "goroutine"
          /\ batch'[c].waiter = "none" =>
               batch'[c].stage = "free" \/ batch'[c] = batch[c]
    BY <1>1, <1>4
  <2>7. Waiters'
    BY <1>2, <1>3, <1>6, <2>3, <2>5, <2>6, Owners DEF Waits, Waiters
  <2>8. QED
    BY <2>4, <2>7 DEF Waits
<1>9. CASE batch[b].waiter = "goroutine"
  <2>1. pc' = pc /\ permits'[w] = permits[w] - 1
    BY <1>2, <1>5, <1>9 DEF Base, Types
  <2>2. Awaited(w)' = Awaited(w) \ {b} /\ b \in Awaited(w)
    BY <1>1, <1>4, <1>9, Owners DEF Awaited
  <2>3. /\ IsFiniteSet(Awaited(w)')
        /\ Cardinality(Awaited(w)') = Cardinality(Awaited(w)) - 1
    BY <1>7, <2>2, FS_RemoveElement
  <2>4. /\ permits'[w] =
             Cardinality(Awaited(w)') + (IF permitHeld[w] THEN 1 ELSE 0)
        /\ permits'[w] <= Depth
    BY <1>3, <1>7, <2>1, <2>3
  <2>5. PermitCount'
    BY <1>2, <1>3, <1>6, <1>7, <2>1, <2>3, <2>4 DEF Waits, PermitCount
  <2>6. \A c \in Batches :
          /\ batch'[c].waiter \in {"worker", "goroutine"} => batch'[c] = batch[c]
          /\ batch'[c].waiter = "none" =>
               batch'[c].stage = "free" \/ batch'[c] = batch[c]
    BY <1>1, <1>4
  <2>7. Waiters'
    BY <1>2, <1>3, <2>1, <2>6 DEF Waits, Waiters
  <2>8. QED
    BY <2>5, <2>7 DEF Waits
<1>10. QED
  BY <1>2, <1>8, <1>9

-----------------------------------------------------------------------------
(* Whose hands a nonce is in: the last third, and the account's ledger.    *)

(* What is left of a sequence of which k elements are settled.             *)
LEMMA TailRange ==
  ASSUME NEW S, NEW s \in Seq(S), NEW k \in Nat, k <= Len(s)
  PROVE  Range(SubSeq(s, k + 1, Len(s))) = {s[i] : i \in (k + 1)..Len(s)}
<1> DEFINE t == SubSeq(s, k + 1, Len(s))
<1>1. /\ Len(s) \in Nat
      /\ DOMAIN t = 1..(Len(s) - k)
      /\ \A i \in 1..(Len(s) - k) : t[i] = s[i + k]
  OBVIOUS
<1> HIDE DEF t
<1>2. ASSUME NEW i \in DOMAIN t
      PROVE  i + k \in (k + 1)..Len(s) /\ t[i] = s[i + k]
  BY <1>1
<1>3. ASSUME NEW j \in (k + 1)..Len(s)
      PROVE  j - k \in DOMAIN t /\ t[j - k] = s[j]
  BY <1>1
<1>4. Range(t) = {s[i] : i \in (k + 1)..Len(s)}
  BY <1>2, <1>3 DEF Range
<1>5. QED
  BY <1>4 DEF t

(* A nonce is unsettled in the worker's hand, its buffer or a batch.       *)
LEMMA Hand ==
  Base =>
    \A w \in Workers : \A n :
      n \in InHand(w) <=>
        /\ n \in Nonces
        /\ \/ n = held[w]
           \/ n \in Loose(w)
           \/ \E b \in Batches : Owner(b) = w /\ n \in Rest(batch[b])
<1> SUFFICES ASSUME Base
             PROVE  \A w \in Workers : \A n :
                      n \in InHand(w) <=>
                        /\ n \in Nonces
                        /\ \/ n = held[w]
                           \/ n \in Loose(w)
                           \/ \E b \in Batches :
                                Owner(b) = w /\ n \in Rest(batch[b])
  OBVIOUS
<1>1. ASSUME NEW b \in Batches
      PROVE  Range(SubSeq(batch[b].nonces, batch[b].called + 1,
                          Len(batch[b].nonces))) = Rest(batch[b])
  <2>1. /\ batch[b].nonces \in Seq(Nonces) /\ batch[b].called \in Nat
        /\ batch[b].called <= Len(batch[b].nonces)
    BY DEF Base, Types, BatchRecords, Stages, StageOK
  <2>2. QED
    BY <2>1, TailRange DEF Rest
<1>2. \A w \in Workers :
        UNION {Range(SubSeq(batch[b].nonces, batch[b].called + 1,
                            Len(batch[b].nonces))) : b \in BatchesOf(w)}
          = UNION {Rest(batch[b]) : b \in BatchesOf(w)}
  BY <1>1, Owners
<1>3. \A w \in Workers :
        Unsettled(w) = {held[w]} \cup Loose(w) \cup
                       UNION {Rest(batch[b]) : b \in BatchesOf(w)}
  BY <1>2 DEF Unsettled, Loose
<1>4. QED
  BY <1>3, Owners DEF InHand

(* The same of the next state.                                             *)
LEMMA HandNext ==
  Base' =>
    \A w \in Workers : \A n :
      n \in InHand(w)' <=>
        /\ n \in Nonces
        /\ \/ n = held'[w]
           \/ n \in Loose(w)'
           \/ \E b \in Batches : Owner(b) = w /\ n \in Rest(batch'[b])
<1>1. (Base =>
        \A w \in Workers : \A n :
          n \in InHand(w) <=>
            /\ n \in Nonces
            /\ \/ n = held[w]
               \/ n \in Loose(w)
               \/ \E b \in Batches : Owner(b) = w /\ n \in Rest(batch[b]))'
  BY Hand, PTL
<1>2. QED
  BY <1>1

(* Buffers and batches hold nonces.                                        *)
LEMMA HandTypes ==
  ASSUME Base
  PROVE  /\ NoNonce \notin Nonces
         /\ \A w \in Workers : Loose(w) \subseteq Nonces
         /\ \A b \in Batches : Rest(batch[b]) \subseteq Nonces
<1>1. ASSUME NEW w \in Workers PROVE Loose(w) \subseteq Nonces
  <2>1. buf[w] \in Seq(Nonces)
    BY DEF Base, Types
  <2>2. QED
    BY <2>1 DEF Loose, Range
<1>2. ASSUME NEW b \in Batches PROVE Rest(batch[b]) \subseteq Nonces
  <2>1. batch[b].nonces \in Seq(Nonces) /\ batch[b].called \in Nat
    BY DEF Base, Types, BatchRecords
  <2>2. QED
    BY <2>1 DEF Rest
<1>3. QED
  BY <1>1, <1>2, Sizes DEF Base, Types

(* What a step may do to an account: nothing, a reservation, a rollback, a *)
(* commit of an accepted nonce, a resync.                                  *)
AccountStep(w) ==
  \/ taken'[w] = taken[w] /\ InHand(w)' = InHand(w)
  \/ \E n \in Nonces \ taken[w] :
       /\ \A m \in Nonces \ taken[w] : n <= m
       /\ taken'[w] = taken[w] \cup {n} /\ InHand(w)' = InHand(w) \cup {n}
  \/ \E n \in InHand(w) :
       taken'[w] = taken[w] \ {n} /\ InHand(w)' = InHand(w) \ {n}
  \/ \E n \in InHand(w) \cap accepted[w] :
       taken'[w] = taken[w] /\ InHand(w)' = InHand(w) \ {n}
  \/ \E v \in 1..MaxNonce :
       /\ 0..(v - 1) \subseteq accepted[w]
       /\ taken'[w] = taken[w] \cup 0..(v - 1) /\ InHand(w)' = InHand(w)

(* Such steps lose no nonce...                                             *)
LEMMA AccountsKept ==
  ASSUME Types, Types', HandsTaken, NoLeak,
         \A w \in Workers : accepted[w] \subseteq accepted'[w],
         \A w \in Workers : AccountStep(w)
  PROVE  HandsTaken' /\ NoLeak'
<1>1. ASSUME NEW w \in Workers
      PROVE  /\ InHand(w)' \subseteq taken'[w]
             /\ taken'[w] \subseteq accepted'[w] \cup InHand(w)'
  <2>1. InHand(w) \subseteq taken[w] /\ taken[w] \subseteq accepted[w] \cup InHand(w)
    BY DEF HandsTaken, NoLeak, InHand, Types
  <2>2. accepted[w] \subseteq accepted'[w] /\ AccountStep(w)
    OBVIOUS
  <2>3. QED
    BY <2>1, <2>2 DEF AccountStep
<1>2. HandsTaken'
  BY <1>1 DEF HandsTaken
<1>3. NoLeak'
  BY <1>1 DEF NoLeak, InHand
<1>4. QED
  BY <1>2, <1>3

(* ... and are steps of the ledger.                                        *)
LEMMA AccountsUsed ==
  ASSUME HandsTaken, NEW w \in Workers, AccountStep(w)
  PROVE  UNCHANGED Account(w)!vars \/ Account(w)!Next
<1>1. CASE InHand(w)' = InHand(w)
  <2>1. Holder(w)' = Holder(w)
    BY <1>1 DEF Holder, InHand
  <2>2. CASE taken'[w] = taken[w]
    BY <2>1, <2>2 DEF Account!vars
  <2>3. CASE \E v \in 1..MaxNonce : taken'[w] = taken[w] \cup 0..(v - 1)
    <3>1. PICK v \in 1..MaxNonce : taken'[w] = taken[w] \cup 0..(v - 1)
      BY <2>3
    <3>2. Account(w)!Retire(v)
      BY <2>1, <3>1 DEF Account!Retire
    <3>3. v \in 0..MaxNonce
      BY Constants
    <3>4. QED
      BY <3>2, <3>3 DEF Account!Next
  <2>4. QED
    <3>1. CASE \E n \in Nonces \ taken[w] : InHand(w)' = InHand(w) \cup {n}
      BY <3>1, <1>1 DEF HandsTaken
    <3>2. CASE \E n \in InHand(w) : InHand(w)' = InHand(w) \ {n}
      BY <3>2, <1>1
    <3>3. QED
      BY <3>1, <3>2, <2>2, <2>3 DEF AccountStep
<1>2. ASSUME NEW n \in Nonces \ taken[w],
             \A m \in Nonces \ taken[w] : n <= m,
             taken'[w] = taken[w] \cup {n}, InHand(w)' = InHand(w) \cup {n}
      PROVE  Account(w)!Next
  <2>1. n \notin InHand(w)
    BY DEF HandsTaken
  <2>2. Holder(w)[n] = NoNonce
    BY <2>1 DEF Holder, InHand
  <2>3. Holder(w)' = [Holder(w) EXCEPT ![n] = n]
    BY <1>2 DEF Holder, InHand
  <2>4. Account(w)!Reserve(n)
    BY <1>2, <2>2, <2>3
    DEF Account!Reserve, Account!Nonces, Account!NoNonce, Nonces, NoNonce
  <2>5. QED
    BY <2>4 DEF Account!Next
<1>3. ASSUME NEW n \in InHand(w), InHand(w)' = InHand(w) \ {n},
             taken'[w] = taken[w] \ {n} \/ taken'[w] = taken[w]
      PROVE  Account(w)!Next
  <2>1. n \in Nonces
    BY DEF InHand
  <2>2. Holder(w)' = [Holder(w) EXCEPT ![n] = NoNonce]
    BY <1>3 DEF Holder, InHand
  <2>3. Holder(w)[n] = n /\ n # NoNonce
    BY DEF Holder, InHand, NoNonce, Nonces
  <2>4. Account(w)!Return(n) \/ Account(w)!Keep(n)
    BY <1>3, <2>2, <2>3 DEF Account!Return, Account!Keep, Account!NoNonce, NoNonce
  <2>5. QED
    BY <2>1, <2>4 DEF Account!Next
<1>4. QED
  BY <1>1, <1>2, <1>3 DEF AccountStep

(* An account none of whose nonces has moved.                              *)
LEMMA SameHand ==
  ASSUME Base, Base', NEW w \in Workers,
         held'[w] = held[w], Loose(w)' = Loose(w),
         \A b \in Batches : Owner(b) = w => Rest(batch'[b]) = Rest(batch[b])
  PROVE  InHand(w)' = InHand(w)
<1>1. \A n : n \in InHand(w)' <=> n \in InHand(w)
  BY Hand, HandNext
<1>2. QED
  BY <1>1

(* Nonces that only leave their places are still in one place each.        *)
LEMMA FewerPlaces ==
  ASSUME Base, OnePlace,
         \A w \in Workers : /\ held'[w] \in {held[w], NoNonce}
                            /\ Loose(w)' \subseteq Loose(w)
                            /\ pc'[w] # "ack" => BufOnce(buf'[w]),
         \A b \in Batches : /\ Rest(batch'[b]) \subseteq Rest(batch[b])
                            /\ RestOnce(batch'[b])
  PROVE  OnePlace'
<1>1. \A w \in Workers : held'[w] \notin Loose(w)' /\ NoNonce \notin Loose(w)'
  BY HandTypes DEF OnePlace
<1>2. ASSUME NEW b \in Batches
      PROVE  /\ held'[Owner(b)] \notin Rest(batch'[b])
             /\ Rest(batch'[b]) \cap Loose(Owner(b))' = {}
  <2>1. Owner(b) \in Workers /\ NoNonce \notin Rest(batch'[b])
    BY Owners, HandTypes
  <2>2. /\ held[Owner(b)] \notin Rest(batch[b])
        /\ Rest(batch[b]) \cap Loose(Owner(b)) = {}
    BY DEF OnePlace
  <2>3. QED
    BY <2>1, <2>2
<1>3. ASSUME NEW b \in Batches, NEW c \in Batches, Owner(b) = Owner(c), b # c
      PROVE  Rest(batch'[b]) \cap Rest(batch'[c]) = {}
  <2>1. Rest(batch[b]) \cap Rest(batch[c]) = {}
    BY <1>3 DEF OnePlace
  <2>2. QED
    BY <2>1
<1>4. QED
  BY <1>1, <1>2, <1>3 DEF OnePlace

(* No nonce moves when the worker only turns its attention elsewhere.      *)
LEMMA NothingMoves ==
  ASSUME Base, Base', Hands, UNCHANGED <<held, taken, accepted>>,
         \A w \in Workers : /\ Loose(w)' = Loose(w)
                            /\ pc'[w] # "ack" => BufOnce(buf'[w]),
         \A b \in Batches : /\ Rest(batch'[b]) = Rest(batch[b])
                            /\ RestOnce(batch'[b])
  PROVE  Hands' /\ \A w \in Workers : AccountStep(w)
<1>1. OnePlace'
  BY FewerPlaces DEF Hands
<1>2. \A w \in Workers : InHand(w)' = InHand(w)
  BY SameHand
<1>3. \A w \in Workers : AccountStep(w)
  BY <1>2 DEF AccountStep
<1>4. HandsTaken' /\ NoLeak'
  BY <1>3, AccountsKept DEF Base, Hands
<1>5. QED
  BY <1>1, <1>3, <1>4 DEF Hands

(* The buffer without its first nonce.                                     *)
LEMMA TailOnce ==
  ASSUME NEW S, NEW s \in Seq(S), s # <<>>, BufOnce(s)
  PROVE  /\ Head(s) \in Range(s)
         /\ Range(Tail(s)) = Range(s) \ {Head(s)}
         /\ BufOnce(Tail(s))
<1> DEFINE t == Tail(s)
<1>1. /\ Len(s) \in Nat /\ Len(s) > 0
      /\ DOMAIN s = 1..Len(s) /\ DOMAIN t = 1..Len(t)
      /\ Len(t) = Len(s) - 1
      /\ \A i \in 1..Len(t) : t[i] = s[i + 1]
      /\ Head(s) = s[1]
  OBVIOUS
<1> HIDE DEF t
<1>2. \A i \in 1..Len(t) : i + 1 \in 2..Len(s)
  BY <1>1
<1>3. \A i \in 2..Len(s) : i - 1 \in 1..Len(t) /\ t[i - 1] = s[i]
  BY <1>1
<1>4. \A i \in 2..Len(s) : s[i] # s[1]
  BY <1>1 DEF BufOnce
<1>5. Range(t) = Range(s) \ {s[1]}
  <2>1. ASSUME NEW n \in Range(t) PROVE n \in Range(s) /\ n # s[1]
    <3>1. PICK i \in 1..Len(t) : n = t[i]
      BY <1>1 DEF Range
    <3>2. n = s[i + 1] /\ i + 1 \in 2..Len(s)
      BY <1>1, <1>2, <3>1
    <3>3. QED
      BY <3>2, <1>1, <1>4 DEF Range
  <2>2. ASSUME NEW n \in Range(s), n # s[1] PROVE n \in Range(t)
    <3>1. PICK i \in 1..Len(s) : n = s[i]
      BY <1>1 DEF Range
    <3>2. i \in 2..Len(s)
      BY <1>1, <2>2, <3>1
    <3>3. QED
      BY <1>1, <1>3, <3>1, <3>2 DEF Range
  <2>3. QED
    BY <2>1, <2>2
<1>6. BufOnce(t)
  <2>1. ASSUME NEW i \in 1..Len(t), NEW j \in 1..Len(t), t[i] = t[j] PROVE i = j
    <3>1. s[i + 1] = s[j + 1] /\ i + 1 \in 1..Len(s) /\ j + 1 \in 1..Len(s)
      BY <1>1, <1>2, <2>1
    <3>2. i + 1 = j + 1
      BY <3>1 DEF BufOnce
    <3>3. QED
      BY <3>2
  <2>2. QED
    BY <2>1 DEF BufOnce
<1>7. Head(s) \in Range(s)
  BY <1>1 DEF Range
<1>8. QED
  BY <1>1, <1>5, <1>6, <1>7 DEF t

(* The buffer with one nonce more.                                         *)
LEMMA AppendOnce ==
  ASSUME NEW S, NEW s \in Seq(S), NEW n \in S, n \notin Range(s), BufOnce(s)
  PROVE  /\ Range(Append(s, n)) = Range(s) \cup {n}
         /\ BufOnce(Append(s, n))
<1> DEFINE t == Append(s, n)
<1>1. /\ Len(s) \in Nat /\ Len(t) = Len(s) + 1
      /\ DOMAIN s = 1..Len(s) /\ DOMAIN t = 1..Len(t)
      /\ \A i \in 1..Len(s) : t[i] = s[i]
      /\ t[Len(t)] = n
  OBVIOUS
<1> HIDE DEF t
<1>2. \A i \in 1..Len(t) : i \in 1..Len(s) \/ i = Len(t)
  BY <1>1
<1>3. \A i \in 1..Len(s) : i \in 1..Len(t) /\ s[i] # n
  BY <1>1 DEF Range
<1>4. Range(t) = Range(s) \cup {n}
  <2>1. Len(t) \in 1..Len(t)
    BY <1>1
  <2>2. QED
    BY <1>1, <1>2, <1>3, <2>1 DEF Range
<1>5. BufOnce(t)
  BY <1>1, <1>2, <1>3 DEF BufOnce
<1>6. QED
  BY <1>4, <1>5 DEF t

(* The worker's own steps.                                                 *)
LEMMA WorkerHands ==
  ASSUME Base, Base', Hands, NEW w \in Workers,
         \/ Loop(w) \/ ReserveNonce(w) \/ BuildFails(w) \/ LingerExpires(w)
         \/ Leave(w) \/ AddToBatch(w) \/ EndFill(w) \/ TakePermit(w)
         \/ AtCapacity(w) \/ DropBatch(w) \/ Resync(w)
  PROVE  Hands' /\ \A v \in Workers : AccountStep(v)
<1> USE DEF Goto
<1>1. UNCHANGED <<batch, accepted>>
  BY DEF Loop, ReserveNonce, BuildFails, LingerExpires, Leave, AddToBatch,
         EndFill, TakePermit, AtCapacity, DropBatch, DropHeld, Resync
<1>2. /\ \A b \in Batches : /\ Rest(batch'[b]) = Rest(batch[b])
                            /\ RestOnce(batch'[b])
      /\ \A v \in Workers : pc[v] # "ack" => BufOnce(buf[v])
  BY <1>1 DEF Hands, OnePlace
<1>3. /\ pc \in [Workers -> PcLabels] /\ held \in [Workers -> Nonces \cup {NoNonce}]
      /\ buf \in [Workers -> Seq(Nonces)] /\ taken \in [Workers -> SUBSET Nonces]
      /\ buf[w] \in Seq(Nonces)
      /\ NoNonce \notin Nonces
  BY HandTypes DEF Base, Types
<1>4. held[w] # NoNonce <=> pc[w] = "wait"
  BY DEF Base, Building
<1>5. /\ held[w] \notin Loose(w)
      /\ \A b \in Batches : Owner(b) = w =>
           /\ held[w] \notin Rest(batch[b])
           /\ Rest(batch[b]) \cap Loose(w) = {}
  BY Owners DEF Hands, OnePlace
<1>6. HandsTaken /\ NoLeak /\ OnePlace
  BY DEF Hands
<1>7. CASE Loop(w) \/ EndFill(w) \/ TakePermit(w) \/ AtCapacity(w)
  <2>1. /\ UNCHANGED <<held, buf, taken>>
        /\ pc[w] # "ack"
        /\ \E label \in PcLabels \ {"ack"} : pc' = [pc EXCEPT ![w] = label]
    BY <1>7 DEF Loop, EndFill, TakePermit, AtCapacity, PcLabels
  <2>2. \A v \in Workers : pc'[v] = "ack" <=> pc[v] = "ack"
    BY <2>1, <1>3
  <2>3. \A v \in Workers : Loose(v)' = Loose(v)
    BY <2>1, <2>2 DEF Loose
  <2>4. QED
    BY <1>1, <1>2, <2>1, <2>2, <2>3, NothingMoves
<1>8. CASE Resync(w)
  <2>1. UNCHANGED <<pc, held, buf>>
    BY <1>8 DEF Resync, worker
  <2>2. PICK k \in 1..MaxNonce :
          /\ 0..(k - 1) \subseteq accepted[w]
          /\ taken' = [taken EXCEPT ![w] = @ \cup 0..(k - 1)]
    BY <1>8 DEF Resync
  <2>3. \A v \in Workers : Loose(v)' = Loose(v)
    BY <2>1 DEF Loose
  <2>4. OnePlace'
    BY <1>2, <1>6, <2>1, <2>3, FewerPlaces
  <2>5. \A v \in Workers : InHand(v)' = InHand(v)
    BY <1>2, <2>1, <2>3, SameHand
  <2>6. \A v \in Workers : AccountStep(v)
    BY <1>3, <2>2, <2>5 DEF AccountStep
  <2>7. QED
    BY <1>1, <1>6, <2>4, <2>6, AccountsKept DEF Base, Hands
<1>9. ASSUME NEW v \in Workers, v # w,
             held'[v] = held[v], buf'[v] = buf[v], pc'[v] = pc[v],
             taken'[v] = taken[v]
      PROVE  AccountStep(v)
  <2>1. Loose(v)' = Loose(v)
    BY <1>9 DEF Loose
  <2>2. InHand(v)' = InHand(v)
    BY <1>2, <1>9, <2>1, SameHand
  <2>3. QED
    BY <1>9, <2>2 DEF AccountStep
<1>10. CASE ReserveNonce(w)
  <2>1. PICK n \in Nonces \ taken[w] :
          /\ \A m \in Nonces \ taken[w] : n <= m
          /\ taken' = [taken EXCEPT ![w] = @ \cup {n}]
          /\ held' = [held EXCEPT ![w] = n]
    BY <1>10 DEF ReserveNonce
  <2>2. /\ pc[w] = "fill" /\ pc' = [pc EXCEPT ![w] = "wait"]
        /\ buf' = buf
    BY <1>10 DEF ReserveNonce
  <2>3. n \notin InHand(w)
    BY <1>6 DEF HandsTaken
  <2>4. /\ n \notin Loose(w)
        /\ \A b \in Batches : Owner(b) = w => n \notin Rest(batch[b])
    BY <2>3, Hand
  <2>5. \A v \in Workers : /\ pc'[v] = "ack" <=> pc[v] = "ack"
                           /\ Loose(v)' = Loose(v)
    BY <1>3, <2>2 DEF Loose
  <2>6. OnePlace'
    <3>1. \A v \in Workers : held'[v] = IF v = w THEN n ELSE held[v]
      BY <1>3, <2>1
    <3>2. ASSUME NEW v \in Workers
          PROVE  /\ held'[v] \notin Loose(v)'
                 /\ pc'[v] # "ack" => BufOnce(buf'[v])
      BY <1>2, <2>2, <2>4, <2>5, <3>1, <1>6 DEF OnePlace
    <3>3. ASSUME NEW b \in Batches
          PROVE  /\ held'[Owner(b)] \notin Rest(batch'[b])
                 /\ Rest(batch'[b]) \cap Loose(Owner(b))' = {}
      BY <1>2, <2>4, <2>5, <3>1, <1>6, Owners DEF OnePlace
    <3>4. QED
      BY <1>1, <1>2, <1>6, <3>2, <3>3 DEF OnePlace
  <2>7. InHand(w)' = InHand(w) \cup {n}
    <3>1. held[w] = NoNonce /\ held'[w] = n
      BY <1>3, <1>4, <2>1, <2>2
    <3>2. \A m : m \in InHand(w)' <=> m \in InHand(w) \/ m = n
      <4>1. Loose(w)' = Loose(w) /\ n \in Nonces
        BY <2>5
      <4>2. QED
        BY <1>2, <1>3, <3>1, <4>1, Hand, HandNext
    <3>3. QED
      BY <3>2
  <2>8. taken'[w] = taken[w] \cup {n}
    BY <1>3, <2>1
  <2>9. AccountStep(w)
    BY <2>1, <2>7, <2>8 DEF AccountStep
  <2>10. \A v \in Workers : AccountStep(v)
    BY <1>3, <1>9, <2>1, <2>2, <2>9
  <2>11. QED
    BY <1>1, <1>6, <2>6, <2>10, AccountsKept DEF Base, Hands
<1>11. CASE BuildFails(w) \/ LingerExpires(w) \/ Leave(w)
  <2>1. /\ pc[w] = "wait" /\ buf' = buf
        /\ \E label \in {"fill", "permit", "done"} : pc' = [pc EXCEPT ![w] = label]
        /\ taken' = [taken EXCEPT ![w] = @ \ {held[w]}]
        /\ held' = [held EXCEPT ![w] = NoNonce]
    BY <1>11 DEF BuildFails, LingerExpires, Leave, DropHeld, Rollback
  <2>2. held[w] \in Nonces
    BY <1>3, <1>4, <2>1
  <2>3. \A v \in Workers : /\ pc'[v] = "ack" <=> pc[v] = "ack"
                           /\ Loose(v)' = Loose(v)
    BY <1>3, <2>1 DEF Loose
  <2>4. OnePlace'
    BY <1>2, <1>3, <1>6, <2>1, <2>3, FewerPlaces
  <2>5. held'[w] = NoNonce /\ taken'[w] = taken[w] \ {held[w]}
    BY <1>3, <2>1
  <2>6. held[w] \in InHand(w) /\ InHand(w)' = InHand(w) \ {held[w]}
    <3>1. held[w] \in InHand(w)
      BY <2>2, Hand
    <3>2. \A m : m \in InHand(w)' <=> m \in InHand(w) /\ m # held[w]
      BY <1>2, <1>3, <1>5, <2>2, <2>3, <2>5, Hand, HandNext
    <3>3. QED
      BY <3>1, <3>2
  <2>7. AccountStep(w)
    BY <2>5, <2>6 DEF AccountStep
  <2>8. \A v \in Workers : AccountStep(v)
    BY <1>3, <1>9, <2>1, <2>7
  <2>9. QED
    BY <1>1, <1>6, <2>4, <2>8, AccountsKept DEF Base, Hands
<1>12. CASE AddToBatch(w)
  <2>1. /\ pc[w] = "wait" /\ taken' = taken
        /\ pc' = [pc EXCEPT ![w] = "fill"]
        /\ buf' = [buf EXCEPT ![w] = Append(buf[w], held[w])]
        /\ held' = [held EXCEPT ![w] = NoNonce]
    BY <1>12 DEF AddToBatch
  <2>2. held[w] \in Nonces /\ Loose(w) = Range(buf[w])
    BY <1>3, <1>4, <2>1 DEF Loose
  <2>3. /\ pc'[w] = "fill" /\ held'[w] = NoNonce
        /\ buf'[w] = Append(buf[w], held[w])
    BY <1>3, <2>1
  <2>4. /\ Loose(w)' = Loose(w) \cup {held[w]}
        /\ BufOnce(buf'[w])
    BY <1>2, <1>3, <1>5, <2>1, <2>2, <2>3, AppendOnce DEF Loose
  <2>5. \A v \in Workers : v # w => /\ held'[v] = held[v] /\ buf'[v] = buf[v]
                                    /\ pc'[v] = pc[v] /\ Loose(v)' = Loose(v)
    BY <1>3, <2>1 DEF Loose
  <2>6. OnePlace'
    <3>1. ASSUME NEW v \in Workers
          PROVE  /\ held'[v] \notin Loose(v)'
                 /\ pc'[v] # "ack" => BufOnce(buf'[v])
      <4>1. NoNonce \notin Loose(w)'
        BY <1>3, <2>2, <2>4, HandTypes
      <4>2. QED
        BY <1>2, <1>6, <2>3, <2>4, <2>5, <4>1 DEF OnePlace
    <3>2. ASSUME NEW b \in Batches
          PROVE  /\ held'[Owner(b)] \notin Rest(batch'[b])
                 /\ Rest(batch'[b]) \cap Loose(Owner(b))' = {}
      <4>1. NoNonce \notin Rest(batch'[b]) /\ Owner(b) \in Workers
        BY <1>2, HandTypes, Owners
      <4>2. CASE Owner(b) = w
        BY <1>2, <1>5, <2>3, <2>4, <4>1, <4>2
      <4>3. CASE Owner(b) # w
        BY <1>2, <1>6, <2>5, <4>1, <4>3 DEF OnePlace
      <4>4. QED
        BY <4>2, <4>3
    <3>3. QED
      BY <1>1, <1>2, <1>6, <3>1, <3>2 DEF OnePlace
  <2>7. InHand(w)' = InHand(w)
    <3>1. \A m : m \in InHand(w)' <=> m \in InHand(w)
      BY <1>2, <1>3, <2>2, <2>3, <2>4, Hand, HandNext
    <3>2. QED
      BY <3>1
  <2>8. \A v \in Workers : AccountStep(v)
    BY <1>9, <2>1, <2>5, <2>7 DEF AccountStep
  <2>9. QED
    BY <1>1, <1>6, <2>6, <2>8, AccountsKept DEF Base, Hands
<1>13. CASE DropBatch(w)
  <2>1. held' = held /\ pc[w] = "drop"
    BY <1>13 DEF DropBatch
  <2>2. CASE buf[w] = <<>>
    <3>1. UNCHANGED <<taken, buf>> /\ pc' = [pc EXCEPT ![w] = "top"]
      BY <1>13, <2>2 DEF DropBatch
    <3>2. \A v \in Workers : /\ pc'[v] = "ack" <=> pc[v] = "ack"
                             /\ Loose(v)' = Loose(v)
      BY <1>3, <2>1, <3>1 DEF Loose
    <3>3. QED
      BY <1>1, <1>2, <2>1, <3>1, <3>2, NothingMoves
  <2>3. CASE buf[w] # <<>>
    <3> DEFINE n == Head(buf[w])
    <3>1. /\ taken' = [taken EXCEPT ![w] = @ \ {n}]
          /\ buf' = [buf EXCEPT ![w] = Tail(buf[w])]
          /\ pc' = pc
      BY <1>13, <2>3 DEF DropBatch, Rollback
    <3>2. /\ n \in Range(buf[w])
          /\ Range(Tail(buf[w])) = Range(buf[w]) \ {n}
          /\ BufOnce(Tail(buf[w]))
      BY <1>2, <1>3, <2>1, <2>3, TailOnce
    <3> HIDE DEF n
    <3>3. buf'[w] = Tail(buf[w]) /\ taken'[w] = taken[w] \ {n}
      BY <1>3, <3>1
    <3>4. n \in Loose(w) /\ Loose(w)' = Loose(w) \ {n}
      BY <2>1, <3>1, <3>2, <3>3 DEF Loose
    <3>5. \A v \in Workers : v # w => buf'[v] = buf[v] /\ Loose(v)' = Loose(v)
      BY <1>3, <3>1 DEF Loose
    <3>6. OnePlace'
      <4>1. \A v \in Workers : /\ Loose(v)' \subseteq Loose(v)
                               /\ pc'[v] # "ack" => BufOnce(buf'[v])
        BY <1>2, <3>1, <3>2, <3>3, <3>4, <3>5
      <4>2. QED
        BY <1>2, <1>6, <2>1, <4>1, FewerPlaces
    <3>7. n \in InHand(w) /\ InHand(w)' = InHand(w) \ {n}
      <4>1. n \in InHand(w)
        BY <3>4, Hand, HandTypes
      <4>2. n # held[w]
        BY <1>5, <3>4
      <4>3. \A m : m \in InHand(w)' <=> m \in InHand(w) /\ m # n
        BY <1>2, <1>5, <2>1, <3>4, <4>2, Hand, HandNext
      <4>4. QED
        BY <4>1, <4>3
    <3>8. \A v \in Workers : AccountStep(v)
      <4>1. AccountStep(w)
        BY <3>3, <3>7 DEF AccountStep
      <4>2. \A v \in Workers : v # w => taken'[v] = taken[v]
        BY <1>3, <3>1
      <4>3. QED
        BY <1>9, <2>1, <3>1, <3>5, <4>1, <4>2
    <3>9. QED
      BY <1>1, <1>6, <3>6, <3>8, AccountsKept DEF Base, Hands
  <2>4. QED
    BY <2>2, <2>3
<1>14. QED
  BY <1>7, <1>8, <1>10, <1>11, <1>12, <1>13

(* Queueing moves the buffer to a batch: the same hands, one place each.   *)
LEMMA QueueHands ==
  ASSUME Base, Base', Hands, NEW w \in Workers, Queue(w)
  PROVE  Hands' /\ \A v \in Workers : AccountStep(v)
<1>1. PICK b \in Batches, r \in BatchRecords :
        /\ Owner(b) = w /\ batch[b] = NoBatch
        /\ Becomes(b, r)
        /\ Rest(r) = Range(buf[w]) /\ (BufOnce(buf[w]) => RestOnce(r))
  BY QueueStep
<1>2. /\ pc[w] = "queue"
      /\ \/ buf' = buf /\ pc' = [pc EXCEPT ![w] = "ack"]
         \/ buf' = [buf EXCEPT ![w] = <<>>] /\ pc' = [pc EXCEPT ![w] = "top"]
      /\ UNCHANGED <<held, taken, accepted>>
  BY QueueStep
<1>3. /\ \A c \in Batches : batch'[c] = IF c = b THEN r ELSE batch[c]
      /\ Rest(batch[b]) = {}
  BY <1>1, NoBatchOK DEF Becomes, Base, Types
<1>4. Loose(w) = Range(buf[w]) /\ BufOnce(buf[w])
  BY <1>2 DEF Loose, Hands, OnePlace
<1>5. \A v \in Workers :
        v # w => buf'[v] = buf[v] /\ pc'[v] = pc[v] /\ Loose(v)' = Loose(v)
  BY <1>2 DEF Base, Types, Loose
<1>6. /\ Loose(w)' = {}
      /\ pc'[w] # "ack" => BufOnce(buf'[w])
  <2>1. CASE pc'[w] = "ack"
    BY <2>1 DEF Loose
  <2>2. CASE pc'[w] # "ack"
    <3>1. buf'[w] = <<>>
      BY <1>2, <2>2 DEF Base, Types
    <3>2. Range(<<>>) = {} /\ BufOnce(<<>>)
      BY DEF Range, BufOnce
    <3>3. QED
      BY <2>2, <3>1, <3>2 DEF Loose
  <2>3. QED
    BY <2>1, <2>2
<1>7. Rest(batch'[b]) = Loose(w) /\ RestOnce(batch'[b])
  BY <1>1, <1>3, <1>4
<1>8. \A c \in Batches :
        c # b => /\ Rest(batch'[c]) = Rest(batch[c]) /\ RestOnce(batch'[c])
  BY <1>3 DEF Hands, OnePlace
<1>9. OnePlace'
  <2>1. ASSUME NEW v \in Workers
        PROVE  /\ held'[v] \notin Loose(v)'
               /\ pc'[v] # "ack" => BufOnce(buf'[v])
    BY <1>2, <1>5, <1>6 DEF Hands, OnePlace
  <2>2. ASSUME NEW c \in Batches
        PROVE  /\ held'[Owner(c)] \notin Rest(batch'[c])
               /\ Rest(batch'[c]) \cap Loose(Owner(c))' = {}
               /\ RestOnce(batch'[c])
    <3>1. CASE c = b
      BY <1>1, <1>2, <1>6, <1>7, <3>1 DEF Hands, OnePlace
    <3>2. CASE c # b
      <4>1. Owner(c) \in Workers /\ Rest(batch'[c]) = Rest(batch[c])
        BY <1>8, <3>2, Owners
      <4>2. Loose(Owner(c))' \subseteq Loose(Owner(c))
        BY <1>5, <1>6, <4>1
      <4>3. /\ held[Owner(c)] \notin Rest(batch[c])
            /\ Rest(batch[c]) \cap Loose(Owner(c)) = {}
        BY DEF Hands, OnePlace
      <4>4. QED
        BY <1>2, <1>8, <3>2, <4>1, <4>2, <4>3
    <3>3. QED
      BY <3>1, <3>2
  <2>3. ASSUME NEW c \in Batches, NEW d \in Batches, Owner(c) = Owner(d), c # d
        PROVE  Rest(batch'[c]) \cap Rest(batch'[d]) = {}
    BY <1>1, <1>7, <1>8, <2>3 DEF Hands, OnePlace
  <2>4. QED
    BY <2>1, <2>2, <2>3 DEF OnePlace
<1>10. InHand(w)' = InHand(w)
  <2>1. \A n : /\ n \in Loose(w) <=> n \in Rest(batch'[b])
               /\ n \notin Loose(w)' /\ n \notin Rest(batch[b])
    BY <1>3, <1>6, <1>7
  <2>2. \A n : (\E c \in Batches : Owner(c) = w /\ n \in Rest(batch'[c]))
               <=> \/ n \in Loose(w)
                   \/ \E c \in Batches : Owner(c) = w /\ n \in Rest(batch[c])
    BY <1>1, <1>8, <2>1
  <2>3. \A n : n \in InHand(w)' <=> n \in InHand(w)
    BY <1>2, <2>1, <2>2, Hand, HandNext
  <2>4. QED
    BY <2>3
<1>11. \A v \in Workers : AccountStep(v)
  <2>1. \A v \in Workers : v # w => InHand(v)' = InHand(v)
    BY <1>1, <1>2, <1>5, <1>8, SameHand
  <2>2. QED
    BY <1>2, <1>10, <2>1 DEF AccountStep
<1>12. HandsTaken' /\ NoLeak'
  BY <1>2, <1>11, AccountsKept DEF Base, Hands
<1>13. QED
  BY <1>9, <1>11, <1>12 DEF Hands

(* The end of a wait: the buffer of a worker that waited is a batch's.     *)
LEMMA StopHands ==
  ASSUME Base, Base', Waits, Hands, NEW b \in Batches,
         ReceiveAcks(b) \/ GiveUpWaiting(b)
  PROVE  Hands' /\ \A v \in Workers : AccountStep(v)
<1> DEFINE w == Owner(b)
<1>1. PICK r :
        /\ Becomes(b, r)
        /\ Rest(r) = Rest(batch[b]) /\ (RestOnce(batch[b]) => RestOnce(r))
  BY StopStep
<1>2. /\ UNCHANGED <<held, taken, accepted>>
      /\ \/ /\ batch[b].waiter = "worker"
            /\ pc' = [pc EXCEPT ![w] = "top"]
            /\ buf' = [buf EXCEPT ![w] = <<>>]
         \/ UNCHANGED <<pc, buf>>
  BY StopStep
<1>3. \A c \in Batches : Rest(batch'[c]) = Rest(batch[c]) /\ RestOnce(batch'[c])
  BY <1>1 DEF Becomes, Base, Types, Hands, OnePlace
<1>4. \A v \in Workers : /\ Loose(v)' = Loose(v)
                         /\ pc'[v] # "ack" => BufOnce(buf'[v])
  <2>1. CASE UNCHANGED <<pc, buf>>
    BY <2>1 DEF Loose, Hands, OnePlace
  <2>2. CASE /\ batch[b].waiter = "worker"
             /\ pc' = [pc EXCEPT ![w] = "top"]
             /\ buf' = [buf EXCEPT ![w] = <<>>]
    <3>1. w \in Workers /\ pc[w] = "ack"
      BY <2>2, Owners DEF Waits, Waiters
    <3>2. Loose(w) = {}
      BY <3>1 DEF Loose
    <3>3. pc'[w] = "top" /\ buf'[w] = <<>>
      BY <2>2, <3>1 DEF Base, Types
    <3>4. Range(<<>>) = {} /\ BufOnce(<<>>)
      BY DEF Range, BufOnce
    <3>5. Loose(w)' = {} /\ BufOnce(buf'[w])
      BY <3>3, <3>4 DEF Loose
    <3>6. \A v \in Workers : v # w => pc'[v] = pc[v] /\ buf'[v] = buf[v]
      BY <2>2 DEF Base, Types
    <3>7. ASSUME NEW v \in Workers, v # w
          PROVE  /\ Loose(v)' = Loose(v)
                 /\ pc'[v] # "ack" => BufOnce(buf'[v])
      BY <3>6, <3>7 DEF Loose, Hands, OnePlace
    <3>8. QED
      BY <3>2, <3>5, <3>7
  <2>3. QED
    BY <1>2, <2>1, <2>2
<1>5. QED
  BY <1>2, <1>3, <1>4, NothingMoves

(* The sender's steps: a callback settles the nonce of its place, by the   *)
(* answer to the transaction sent in it; the others settle none.           *)
LEMMA SenderHands ==
  ASSUME Base, Base', Hands,
         \/ \E b \in Batches : Transmit(b) \/ Callback(b) \/ Release(b)
         \/ StopSending \/ Cancel
  PROVE  Hands' /\ \A v \in Workers : AccountStep(v)
<1>1. ASSUME NEW b \in Batches PROVE RestOnce(batch[b])
  BY DEF Hands, OnePlace
<1>2. ASSUME UNCHANGED <<worker, taken>>,
             \A w \in Workers : accepted[w] \subseteq accepted'[w],
             \A c \in Batches : /\ Rest(batch'[c]) = Rest(batch[c])
                                /\ RestOnce(batch'[c])
      PROVE  Hands' /\ \A v \in Workers : AccountStep(v)
  <2>1. UNCHANGED <<pc, held, buf>>
    BY <1>2 DEF worker
  <2>2. \A v \in Workers : Loose(v)' = Loose(v)
    BY <2>1 DEF Loose
  <2>3. OnePlace'
    BY <1>2, <2>1, <2>2, FewerPlaces DEF Hands, OnePlace
  <2>4. \A v \in Workers : AccountStep(v)
    BY <1>2, <2>1, <2>2, SameHand DEF AccountStep
  <2>5. QED
    BY <1>2, <2>3, <2>4, AccountsKept DEF Base, Hands
<1>3. ASSUME NEW b \in Batches, Transmit(b) \/ Release(b)
      PROVE  Hands' /\ \A v \in Workers : AccountStep(v)
  <2>1. PICK r : Becomes(b, r) /\ Rest(r) = Rest(batch[b]) /\ RestOnce(r)
    BY <1>1, <1>3, TransmitStep, ReleaseStep
  <2>2. /\ UNCHANGED <<worker, taken>>
        /\ \A w \in Workers : accepted[w] \subseteq accepted'[w]
    BY <1>3, TransmitStep, ReleaseStep
  <2>3. \A c \in Batches : /\ Rest(batch'[c]) = Rest(batch[c])
                           /\ RestOnce(batch'[c])
    BY <1>1, <2>1 DEF Becomes, Base, Types
  <2>4. QED
    BY <1>2, <2>2, <2>3
<1>4. ASSUME NEW b \in Batches, Callback(b)
      PROVE  Hands' /\ \A v \in Workers : AccountStep(v)
  <2> DEFINE w == Owner(b)
  <2>1. PICK r, n :
          /\ Becomes(b, r)
          /\ n \in Rest(batch[b]) /\ Rest(r) = Rest(batch[b]) \ {n}
          /\ RestOnce(r)
          /\ \/ taken' = [taken EXCEPT ![w] = @ \ {n}]
             \/ n \in accepted[w] /\ taken' = taken
    BY <1>1, <1>4, CallbackStep
  <2>2. UNCHANGED <<pc, held, buf, accepted>>
    BY <1>1, <1>4, CallbackStep DEF worker
  <2>3. /\ Rest(batch'[b]) = Rest(batch[b]) \ {n}
        /\ \A c \in Batches : /\ c # b => Rest(batch'[c]) = Rest(batch[c])
                              /\ RestOnce(batch'[c])
    BY <1>1, <2>1 DEF Becomes, Base, Types
  <2>4. w \in Workers /\ n \in Nonces
    BY <2>1, Owners, HandTypes
  <2>5. \A v \in Workers : Loose(v)' = Loose(v)
    BY <2>2 DEF Loose
  <2>6. OnePlace'
    BY <2>2, <2>3, <2>5, FewerPlaces DEF Hands, OnePlace
  <2>7. n \in InHand(w)
    BY <2>1, <2>4, Hand
  <2>8. /\ n # held[w] /\ n \notin Loose(w)
        /\ \A c \in Batches : Owner(c) = w /\ c # b => n \notin Rest(batch[c])
    BY <2>1 DEF Hands, OnePlace
  <2>9. InHand(w)' = InHand(w) \ {n}
    <3>1. \A m : (\E c \in Batches : Owner(c) = w /\ m \in Rest(batch'[c]))
                 <=> /\ m # n
                     /\ \E c \in Batches : Owner(c) = w /\ m \in Rest(batch[c])
      BY <2>3, <2>8
    <3>2. \A m : m \in InHand(w)' <=> m \in InHand(w) /\ m # n
      BY <2>2, <2>4, <2>5, <2>8, <3>1, Hand, HandNext
    <3>3. QED
      BY <3>2
  <2>10. taken'[w] = taken[w] \ {n} \/ (taken'[w] = taken[w] /\ n \in accepted[w])
    BY <2>1, <2>4 DEF Base, Types
  <2>11. AccountStep(w)
    BY <2>7, <2>9, <2>10 DEF AccountStep
  <2>12. ASSUME NEW v \in Workers, v # w PROVE AccountStep(v)
    <3>1. taken'[v] = taken[v]
      BY <2>1, <2>12 DEF Base, Types
    <3>2. InHand(v)' = InHand(v)
      BY <2>2, <2>3, <2>5, <2>12, SameHand
    <3>3. QED
      BY <3>1, <3>2 DEF AccountStep
  <2>13. QED
    BY <2>2, <2>6, <2>11, <2>12, AccountsKept DEF Base, Hands
<1>5. CASE StopSending \/ Cancel
  <2>1. UNCHANGED <<worker, batch, taken, accepted>>
    BY <1>5 DEF StopSending, Cancel
  <2>2. QED
    BY <1>1, <1>2, <2>1
<1>6. QED
  BY <1>3, <1>4, <1>5

(* Nobody holds a nonce at the start.                                      *)
LEMMA InitHands == Init => Hands
<1> SUFFICES ASSUME Init PROVE Hands
  OBVIOUS
<1>1. Base
  BY InitBase
<1>2. /\ \A w \in Workers : held[w] = NoNonce /\ buf[w] = <<>> /\ taken[w] = {}
      /\ \A b \in Batches : Rest(batch[b]) = {} /\ RestOnce(batch[b])
  BY NoBatchOK DEF Init
<1>3. Range(<<>>) = {} /\ BufOnce(<<>>)
  BY DEF Range, BufOnce
<1>4. \A w \in Workers : Loose(w) = {}
  BY <1>2, <1>3 DEF Loose
<1>5. OnePlace
  BY <1>2, <1>3, <1>4 DEF OnePlace
<1>6. \A w \in Workers : InHand(w) = {}
  <2>1. \A w \in Workers : \A n : n \notin InHand(w)
    BY <1>1, <1>2, <1>4, Hand, HandTypes
  <2>2. QED
    BY <2>1
<1>7. QED
  BY <1>2, <1>5, <1>6 DEF Hands, HandsTaken, NoLeak

-----------------------------------------------------------------------------
(* The invariant holds of every reachable state.                           *)

LEMMA InitInv == Init => Inv
BY InitBase, InitWaits, InitHands DEF Inv

(* Every step keeps it, and is a step of every account's ledger.           *)
LEMMA StepInv ==
  ASSUME Inv, Next
  PROVE  Inv' /\ \A w \in Workers : AccountStep(w)
<1> USE DEF Inv
<1>1. ASSUME NEW w \in Workers, WorkerStep(w) \/ Resync(w)
      PROVE  Inv' /\ \A v \in Workers : AccountStep(v)
  <2>1. CASE Queue(w)
    BY <2>1, SenderBase, QueueWaits, QueueHands
  <2>2. CASE AtCapacity(w)
    BY <2>2, SenderBase, AtCapacityWaits, WorkerHands
  <2>3. CASE TakePermit(w)
    BY <2>3, WorkerBase, TakePermitWaits, WorkerHands
  <2>4. CASE Resync(w)
    BY <2>4, SenderBase, WorkerWaits, WorkerHands
  <2>5. CASE \/ Loop(w) \/ ReserveNonce(w) \/ BuildFails(w) \/ LingerExpires(w)
             \/ Leave(w) \/ AddToBatch(w) \/ EndFill(w) \/ DropBatch(w)
    BY <2>5, WorkerBase, WorkerWaits, WorkerHands
  <2>6. QED
    BY <1>1, <2>1, <2>2, <2>3, <2>4, <2>5 DEF WorkerStep
<1>2. ASSUME NEW b \in Batches, ReceiveAcks(b) \/ GiveUpWaiting(b)
      PROVE  Inv' /\ \A v \in Workers : AccountStep(v)
  BY <1>2, SenderBase, StopWaits, StopHands
<1>3. CASE \/ \E b \in Batches : Transmit(b) \/ Callback(b) \/ Release(b)
           \/ StopSending \/ Cancel
  BY <1>3, SenderBase, SenderWaits, SenderHands
<1>4. QED
  BY <1>1, <1>2, <1>3 DEF Next

(* A step that changes nothing keeps it.                                   *)
LEMMA StutterInv == Inv /\ UNCHANGED vars => Inv'
<1> SUFFICES ASSUME Inv, UNCHANGED vars PROVE Inv'
  OBVIOUS
<1>1. UNCHANGED <<config, phase, pc, held, buf, permits, permitHeld, batch,
                  taken, accepted>>
  BY DEF vars, worker
<1>2. Base'
  BY <1>1 DEF Inv, Base, Types, Building, BatchSize, Stages, AnswersSound
<1>3. Waits'
  BY <1>1, <1>2, SameWaits DEF Inv
<1>4. \A w \in Workers : Loose(w)' = Loose(w)
  BY <1>1 DEF Loose
<1>5. Hands'
  BY <1>1, <1>2, <1>4, NothingMoves DEF Inv, Hands, OnePlace
<1>6. QED
  BY <1>2, <1>3, <1>5 DEF Inv

(* The inductive invariant of the send pipeline.                           *)
THEOREM Inductive == Spec => []Inv
<1>1. Inv /\ [Next]_vars => Inv'
  BY StepInv, StutterInv
<1>2. QED
  BY InitInv, <1>1, PTL DEF Spec

-----------------------------------------------------------------------------
(* What follows from it.                                                   *)

(* Every variable of workers.go and sender.go holds values of its kind; in *)
(* particular the permits out never exceed the channel's capacity.         *)
THEOREM TypesCorrect == Spec => []TypeOK
<1>1. Inv => TypeOK
  <2> SUFFICES ASSUME Inv PROVE TypeOK
    OBVIOUS
  <2>1. Types /\ Building /\ Stages /\ PermitCount
    BY DEF Inv, Base, Waits
  <2>2. Depth \in Nat
    BY <2>1, Sizes DEF Types
  <2>3. permits \in [Workers -> 0..Depth]
    BY <2>1, <2>2 DEF Types, PermitCount
  <2>4. \A w \in Workers : buf[w] \in Seq(Nonces) /\ Len(buf[w]) <= BatchSize
    BY <2>1 DEF Types, Building
  <2>5. ASSUME NEW b \in Batches
        PROVE  /\ batch[b].stage \in {"free", "queued", "answered", "finished"}
               /\ {batch[b].nonces, batch[b].toSend, batch[b].sent}
                    \subseteq Seq(Nonces)
               /\ batch[b].called \in 0..Len(batch[b].nonces)
               /\ batch[b].waiter \in {"worker", "goroutine", "none", "gone"}
    <3>1. batch[b] \in BatchRecords /\ batch[b].called <= Len(batch[b].nonces)
      BY <2>1 DEF Types, Stages, StageOK
    <3>2. QED
      BY <3>1 DEF BatchRecords
  <2>6. QED
    BY <2>1, <2>3, <2>4, <2>5 DEF TypeOK, Types, PcLabels
<1>2. QED
  BY Inductive, <1>1, PTL

(* The transaction sent in a place of a batch is the one whose nonce the   *)
(* callback of that place settles: the sender works on a copy.             *)
THEOREM BytesRight == Spec => []RightBytes
<1>1. Inv => RightBytes
  BY DEF Inv, Base, Stages, StageOK, RightBytes
<1>2. QED
  BY Inductive, <1>1, PTL

(* No failure path of sender worker and callbacks loses a nonce.           *)
THEOREM NothingLeaks == Spec => []NoLeak
<1>1. Inv => NoLeak
  BY DEF Inv, Hands
<1>2. QED
  BY Inductive, <1>1, PTL

(* At most L2_PIPELINE_BATCH_DEPTH batches of an account are waited for,   *)
(* whatever the order of acks, timeouts and new batches.                   *)
THEOREM InFlightBounded == Spec => []InFlightBound
<1>1. Inv => InFlightBound
  <2> SUFFICES ASSUME Inv, phase # "cancelled", NEW w \in Workers
               PROVE  Cardinality({b \in BatchesOf(w) :
                        Outstanding(b) /\ batch[b].waiter # "gone"}) <= Depth
    BY DEF InFlightBound
  <2> DEFINE S == {b \in BatchesOf(w) :
                     Outstanding(b) /\ batch[b].waiter # "gone"}
  <2>1. /\ Types /\ Waiters /\ IsFiniteSet(Awaited(w))
        /\ permits[w] = Cardinality(Awaited(w)) + (IF permitHeld[w] THEN 1 ELSE 0)
        /\ permits[w] <= Depth
        /\ Cardinality(Awaited(w)) \in Nat
    BY FS_CardinalityType DEF Inv, Base, Waits, PermitCount
  <2>2. Depth \in Nat /\ Depth > 0
    BY <2>1, Sizes DEF Types
  <2>3. \A b \in S : /\ b \in Batches /\ Owner(b) = w
                     /\ batch[b].waiter \in {"worker", "goroutine"}
    <3>1. \A b \in Batches : batch[b] \in BatchRecords
      BY <2>1 DEF Types
    <3>2. QED
      BY <2>1, <3>1, Owners DEF Waiters, Outstanding, BatchRecords
  <2>4. CASE Depth = 1
    <3>1. \A b, c \in S : b = c
      BY <2>1, <2>3, <2>4 DEF Waiters
    <3>2. CASE S = {}
      BY <3>2, <2>2, FS_EmptySet
    <3>3. CASE S # {}
      <4>1. PICK b \in S : S = {b}
        BY <3>1, <3>3
      <4>2. Cardinality({b}) = 1
        BY FS_Singleton
      <4>3. QED
        BY <4>1, <4>2, <2>4
    <3>4. QED
      BY <3>2, <3>3
  <2>5. CASE Depth > 1
    <3>1. S \subseteq Awaited(w)
      BY <2>1, <2>3, <2>5, Owners DEF Waiters, Awaited
    <3>2. Cardinality(S) <= Cardinality(Awaited(w)) /\ Cardinality(S) \in Nat
      BY <2>1, <3>1, FS_Subset, FS_CardinalityType
    <3>3. QED
      BY <2>1, <2>2, <3>2
  <2>6. QED
    BY <2>2, <2>4, <2>5
<1>2. QED
  BY Inductive, <1>1, PTL

(* Worker, callbacks, at-capacity path and resyncs use each account as the *)
(* nonce ledger allows: a reservation is settled at most once.             *)
THEOREM LedgerUsed == Spec => UsesLedger
<1>1. Inv /\ Next => \A w \in Workers :
                       UNCHANGED Account(w)!vars \/ Account(w)!Next
  BY StepInv, AccountsUsed DEF Inv, Hands
<1>2. Inv /\ [Next]_vars =>
        [\A w \in Workers : UNCHANGED Account(w)!vars \/ Account(w)!Next]_vars
  BY <1>1
<1>3. QED
  BY Inductive, <1>2, PTL DEF Spec, UsesLedger
=============================================================================
