------------------------- MODULE TestLifecycleProofs -------------------------
(* Theorems about TestLifecycle, for any number of runs, crashes and callers *)
(* of StopTest, in a first process or a later one: for clients that wait for *)
(* the end of a run, and a scheduler that suspends nobody for seconds.       *)
EXTENDS TestLifecycle, TLAPS

Preparing  == {"clients", "accounts", "contracts", "reset", "row", "context", "sender",
               "workers", "ready"}
AfterReset == {"row", "context", "sender", "workers", "ready"}
InitPlaces == {"none", "builder", "done"} \cup Preparing
StopPlaces == {"idle", "watch", "check", "claim", "done", "panicked"} \cup Sequence

(* A stop sequence: until the status turns, and after it.                    *)
Early == {"drain", "join", "grace", "discard"}
Late  == {"save", "verify", "row", "finish"}

Works   == [by : 0..MaxRuns, of : 0..MaxRuns, chain : BOOLEAN, verified : BOOLEAN]
RowsNow == {NoRow, [state |-> "running"]} \cup [state : {"completed"}, result : Works]

(* TypeOK, one variable after the other, with what work and rows hold.       *)
Typed ==
  /\ status \in Active \cup {"idle", "completed", "error"}
  /\ stopping \in BOOLEAN /\ forceStop \in BOOLEAN /\ verifier \in BOOLEAN
  /\ run \in 0..MaxRuns /\ testID \in 0..MaxRuns /\ data \in 0..MaxRuns /\ ctx \in 0..MaxRuns
  /\ init \in [Runs -> InitPlaces]
  /\ stop \in [Stoppers -> StopPlaces]
  /\ cancelled \subseteq 0..MaxRuns /\ asked \subseteq 0..MaxRuns
  /\ sending \subseteq Runs
  /\ reading \in [engine : 0..MaxRuns, on : BOOLEAN]
  /\ work \in [Stoppers -> Works]
  /\ rows \in [Runs -> RowsNow]
  /\ crashes \in 0..MaxCrashes

(* Only the latest run is prepared, and its status says so; a sequence has   *)
(* the flag and the status that fits its stage; it is the only one.          *)
Phases ==
  /\ \A r \in Runs : init[r] \in Preparing => r = run /\ status = "initializing"
  /\ status = "initializing" => run \in Runs /\ init[run] \in Preparing
  /\ status \in {"running", "verifying"} => run \in Runs
  /\ \A s \in Stoppers :
       /\ stop[s] \in Early => stopping /\ status = "running"
       /\ stop[s] \in Late => stopping /\ status = "verifying"
       /\ stop[s] = "claim" => status # "initializing" /\ (status = "running" \/ stopping)
  /\ \A s, t \in Stoppers : stop[s] \in Sequence /\ stop[t] \in Sequence => s = t

(* From its reset on, the shared fields are those of the latest run.         *)
Fields ==
  /\ (status = "initializing" /\ init[run] \in AfterReset) =>
       data = run /\ ~stopping /\ (forceStop => run \in asked)
  /\ (status = "initializing" /\ init[run] \in AfterReset \ {"row"}) => testID = run
  /\ status \in {"running", "verifying"} =>
       data = run /\ testID = run /\ (forceStop => run \in asked)

(* What a sequence has gathered is of the latest run.                        *)
Gathered ==
  \A s \in Stoppers :
    /\ stop[s] \in Sequence => work[s].by = run
    /\ stop[s] \in {"verify", "row", "finish"} =>
         work[s].of = run /\ (~ work[s].chain => forceStop)
    /\ stop[s] \in {"row", "finish"} =>
         /\ work[s].verified => work[s].chain
         /\ ~ work[s].verified => run \in asked

(* Once drained, nothing of the run goes on.                                 *)
Drained ==
  /\ \A s \in Stoppers :
       stop[s] \in {"join", "grace", "discard"} => ctx \in cancelled /\ ~ reading.on
  /\ NothingGoesOn

(* A process that is warm has its verifier, and no claim is lost to a panic. *)
Claims == Warm => verifier /\ ClaimedIsUnderWay

(* Results are old, or the latest run's once its sequence has written it.    *)
Results ==
  /\ RowIsOwn /\ SkippedOnlyIfAsked
  /\ \A r \in Runs : Completed(r) =>
       /\ r <= run
       /\ r = run => /\ status \notin {"initializing", "running"}
                     /\ \A s \in Stoppers : stop[s] \notin {"save", "verify", "row"}

Inv == Typed /\ Phases /\ Fields /\ Gathered /\ Drained /\ Claims /\ Results

-----------------------------------------------------------------------------
(* A run may begin: nothing of an earlier one is under way.                  *)
LEMMA StartKeeps ==
  ASSUME Inv, Polite, Prompt, StartTest
  PROVE  Inv'
<1> USE DEF Inv, Preparing, AfterReset, Early, Late, Sequence, fields
<1>1. /\ status \notin {"running", "initializing", "verifying"}
      /\ \A s \in Stoppers : stop[s] # "claim"
      /\ run < MaxRuns /\ run' = run + 1
      /\ UNCHANGED <<stopping, forceStop, stop, fields, rows, crashes, work, asked>>
  BY DEF StartTest, Quiet
<1>2. run' \in Runs /\ run' \in 0..MaxRuns
  BY <1>1, Constants DEF Typed, Runs
<1>3. \/ status' = "initializing" /\ init' = [init EXCEPT ![run'] = "clients"]
      \/ status' = "error" /\ init' = [init EXCEPT ![run'] = "done"]
  BY <1>1 DEF StartTest
<1>4. init' \in [Runs -> InitPlaces] /\ status' \in {"initializing", "error"}
  BY <1>2, <1>3 DEF Typed, InitPlaces
<1>5. Typed'
  BY <1>1, <1>2, <1>4 DEF Typed, Active
<1>6. \A s \in Stoppers : stop[s] \notin Sequence
  BY <1>1 DEF Phases
<1>7. \A r \in Runs : init[r] \notin Preparing
  BY <1>1 DEF Phases
<1>8. Phases'
  BY <1>1, <1>2, <1>3, <1>4, <1>6, <1>7 DEF Phases, Typed
<1>9. init'[run'] \notin AfterReset
  BY <1>2, <1>3 DEF Typed
<1>10. Fields' /\ Gathered' /\ Drained'
  BY <1>1, <1>4, <1>6, <1>9 DEF Fields, Gathered, Drained, NothingGoesOn
<1>11. Claims'
  BY <1>1, <1>4 DEF Claims, ClaimedIsUnderWay
<1>12. \A r \in Runs : Completed(r) => r <= run' /\ r # run'
  BY <1>1 DEF Results, Typed, Runs
<1>13. Results'
  BY <1>1, <1>12 DEF Results, RowIsOwn, SkippedOnlyIfAsked, Completed
<1>14. QED
  BY <1>5, <1>8, <1>10, <1>11, <1>13

(* A preparation that fails.                                                 *)
LEMMA InitFailsKeeps ==
  ASSUME Inv, NEW r \in Runs, NEW pc \in Preparing, InitFails(r, pc)
  PROVE  Inv'
<1> USE DEF Inv, Preparing, AfterReset, Early, Late, Sequence, InitFails, InitGoto, fields
<1>1. Typed'
  BY Constants DEF Typed, Active, InitPlaces, StopPlaces, RowsNow, Works, Runs,
                   Stoppers, NoRow
<1>2. Phases'
  BY DEF Phases, Typed
<1>3. Fields' /\ Gathered' /\ Drained' /\ Claims' /\ Results'
  BY DEF Fields, Gathered, Drained, NothingGoesOn, Claims, ClaimedIsUnderWay, Results,
         RowIsOwn, SkippedOnlyIfAsked, Completed, Typed, Phases
<1>4. QED
  BY <1>1, <1>2, <1>3

(* The preparation goes on, before the reset.                                *)
LEMMA PrepareKeeps ==
  ASSUME Inv, NEW r \in Runs, NEW pc \in Preparing, NEW next \in {"accounts", "contracts", "reset"},
         InitGoto(r, pc, next), UNCHANGED <<flags, run, stop, fields, rows, crashes, work, asked>>
  PROVE  Inv'
<1> USE DEF Inv, Preparing, AfterReset, Early, Late, Sequence, InitGoto, flags, fields
<1>1. Typed'
  BY Constants DEF Typed, Active, InitPlaces, StopPlaces, RowsNow, Works, Runs,
                   Stoppers, NoRow
<1>2. Phases'
  BY DEF Phases, Typed
<1>3. Fields' /\ Gathered' /\ Drained' /\ Claims' /\ Results'
  BY DEF Fields, Gathered, Drained, NothingGoesOn, Claims, ClaimedIsUnderWay, Results,
         RowIsOwn, SkippedOnlyIfAsked, Completed, Typed, Phases
<1>4. QED
  BY <1>1, <1>2, <1>3

(* The reset for a run makes the shared fields its own.                      *)
LEMMA ResetForRunKeeps ==
  ASSUME Inv, NEW r \in Runs, ResetForRun(r), ~ InitFails(r, "reset")
  PROVE  Inv'
<1> USE DEF Inv, Preparing, AfterReset, Early, Late, Sequence, ResetForRun, InitGoto
<1>1. Typed'
  <2>1. /\ InitGoto(r, "reset", "row") /\ stopping' = FALSE /\ forceStop' = FALSE /\ data' = r
        /\ UNCHANGED <<status, run, stop, testID, ctx, cancelled, sending, reading, verifier,
                       rows, crashes, work, asked>>
    BY DEF ResetForRun
  <2>2. init' \in [Runs -> InitPlaces] /\ data' \in 0..MaxRuns
    BY <2>1 DEF InitGoto, Typed, InitPlaces, Runs
  <2>3. QED
    BY <2>1, <2>2 DEF Typed
<1>2. Phases'
  BY DEF Phases, Typed
<1>3. Fields'
  BY DEF Fields, Typed, Phases
<1>4. Gathered' /\ Drained' /\ Claims' /\ Results'
  BY DEF Gathered, Drained, NothingGoesOn, Claims, ClaimedIsUnderWay, Results,
         RowIsOwn, SkippedOnlyIfAsked, Completed, Typed, Phases
<1>5. QED
  BY <1>1, <1>2, <1>3, <1>4

(* The row of the run.                                                       *)
LEMMA CreateTestRunKeeps ==
  ASSUME Inv, NEW r \in Runs, CreateTestRun(r)
  PROVE  Inv'
<1> USE DEF Inv, Preparing, AfterReset, Early, Late, Sequence, CreateTestRun,
            InsertRow, InitGoto, flags
<1>1. Typed'
  <2>1. init' \in [Runs -> InitPlaces] /\ testID' \in 0..MaxRuns
    BY DEF Typed, InitPlaces, Runs
  <2>2. rows' \in [Runs -> RowsNow]
    BY DEF Typed, RowsNow
  <2>3. QED
    BY <2>1, <2>2 DEF Typed
<1>2. Phases'
  BY DEF Phases, Typed
<1>3. Fields'
  BY DEF Fields, Typed, Phases
<1>4. Gathered' /\ Drained' /\ Claims'
  BY DEF Gathered, Drained, NothingGoesOn, Claims, ClaimedIsUnderWay, Typed, Phases
<1>5. Results'
  BY DEF Results, RowIsOwn, SkippedOnlyIfAsked, Completed, Typed, Phases
<1>6. QED
  BY <1>1, <1>2, <1>3, <1>4, <1>5

(* Its context.                                                              *)
LEMMA OpenContextKeeps ==
  ASSUME Inv, NEW r \in Runs, OpenContext(r)
  PROVE  Inv'
<1> USE DEF Inv, Preparing, AfterReset, Early, Late, Sequence, OpenContext, InitGoto,
            flags
<1>1. Typed'
  BY Constants DEF Typed, Active, InitPlaces, StopPlaces, RowsNow, Works, Runs,
                   Stoppers, NoRow
<1>2. Phases'
  BY DEF Phases, Typed
<1>3. Fields'
  BY DEF Fields, Typed, Phases
<1>4. Gathered' /\ Claims' /\ Results'
  BY DEF Gathered, Claims, ClaimedIsUnderWay, Results, RowIsOwn, SkippedOnlyIfAsked,
         Completed, Typed, Phases
<1>5. Drained'
  BY DEF Drained, NothingGoesOn, Typed, Phases
<1>6. QED
  BY <1>1, <1>2, <1>3, <1>4, <1>5

(* Its read engine.                                                          *)
LEMMA ConfigureTrafficKeeps ==
  ASSUME Inv, NEW r \in Runs, ConfigureTraffic(r), ~ InitFails(r, "sender")
  PROVE  Inv'
<1> USE DEF Inv, Preparing, AfterReset, Early, Late, Sequence, ConfigureTraffic,
            InitGoto, flags
<1>1. Typed'
  <2>1. /\ InitGoto(r, "sender", "workers")
        /\ \E engine \in {0, r} : reading' = [engine |-> engine, on |-> FALSE]
        /\ UNCHANGED <<flags, run, stop, testID, data, ctx, cancelled, sending, verifier,
                       rows, crashes, work, asked>>
    BY DEF ConfigureTraffic
  <2>2. init' \in [Runs -> InitPlaces]
    BY DEF Typed, InitPlaces
  <2>3. reading' \in [engine : 0..MaxRuns, on : BOOLEAN]
    BY <2>1, Constants DEF Runs
  <2>4. QED
    BY <2>1, <2>2, <2>3 DEF Typed
<1>2. Phases'
  BY DEF Phases, Typed
<1>3. Fields'
  BY DEF Fields, Typed, Phases
<1>4. Gathered' /\ Claims' /\ Results'
  BY DEF Gathered, Claims, ClaimedIsUnderWay, Results, RowIsOwn, SkippedOnlyIfAsked,
         Completed, Typed, Phases
<1>5. Drained'
  BY DEF Drained, NothingGoesOn, Typed, Phases
<1>6. QED
  BY <1>1, <1>2, <1>3, <1>4, <1>5

(* Its workers and its watcher.                                              *)
LEMMA StartWorkersKeeps ==
  ASSUME Inv, NEW r \in Runs, StartWorkers(r)
  PROVE  Inv'
<1> USE DEF Inv, Preparing, AfterReset, Early, Late, Sequence, StartWorkers, InitGoto,
            flags
<1>1. Typed'
  BY Constants DEF Typed, Active, InitPlaces, StopPlaces, RowsNow, Works, Runs,
                   Stoppers, NoRow
<1>2. Phases'
  BY DEF Phases, Typed
<1>3. Fields'
  BY DEF Fields, Typed, Phases
<1>4. Gathered' /\ Claims' /\ Results'
  BY DEF Gathered, Claims, ClaimedIsUnderWay, Results, RowIsOwn, SkippedOnlyIfAsked,
         Completed, Typed, Phases
<1>5. Drained'
  BY DEF Drained, NothingGoesOn, Typed, Phases
<1>6. QED
  BY <1>1, <1>2, <1>3, <1>4, <1>5

(* The run is under way; nobody has claimed to stop it.                      *)
LEMMA BecomeRunningKeeps ==
  ASSUME Inv, NEW r \in Runs, BecomeRunning(r)
  PROVE  Inv'
<1> USE DEF Inv, Preparing, AfterReset, Early, Late, Sequence, BecomeRunning, InitGoto,
            fields
<1>1. Typed'
  BY Constants DEF Typed, Active, InitPlaces, StopPlaces, RowsNow, Works, Runs,
                   Stoppers, NoRow
<1>2. Phases'
  BY DEF Phases, Typed
<1>3. Fields' /\ Claims'
  BY DEF Fields, Claims, ClaimedIsUnderWay, Typed, Phases
<1>4. Gathered' /\ Drained' /\ Results'
  BY DEF Gathered, Drained, NothingGoesOn, Results, RowIsOwn, SkippedOnlyIfAsked,
         Completed, Typed, Phases
<1>5. QED
  BY <1>1, <1>2, <1>3, <1>4

(* Its verifier, at whatever time.                                           *)
LEMMA VerifierKeeps ==
  ASSUME Inv, NEW r \in Runs, StartIncrementalVerification(r)
  PROVE  Inv'
<1> USE DEF Inv, Preparing, AfterReset, Early, Late, Sequence,
            StartIncrementalVerification, InitGoto, flags
<1>1. Typed'
  BY Constants DEF Typed, Active, InitPlaces, StopPlaces, RowsNow, Works, Runs,
                   Stoppers, NoRow
<1>2. Phases'
  BY DEF Phases, Typed
<1>3. Fields'
  BY DEF Fields, Typed, Phases
<1>4. Gathered' /\ Drained' /\ Claims' /\ Results'
  BY DEF Gathered, Drained, NothingGoesOn, Claims, ClaimedIsUnderWay, Results,
         RowIsOwn, SkippedOnlyIfAsked, Completed, Typed, Phases
<1>5. QED
  BY <1>1, <1>2, <1>3, <1>4

(* A request to stop leaves its trace.                                       *)
LEMMA StopTestKeeps ==
  ASSUME Inv, NEW c \in Calls, StopTest(c)
  PROVE  Inv'
<1> USE DEF Inv, Preparing, AfterReset, Early, Late, Sequence, StopTest, StopGoto,
            fields, Stoppers
<1>1. Typed'
  BY Constants DEF Typed, Active, InitPlaces, StopPlaces, RowsNow, Works, Runs,
                   Stoppers, NoRow
<1>2. Phases'
  BY DEF Phases, Typed
<1>3. Fields'
  BY DEF Fields, Typed, Phases
<1>4. Gathered' /\ Drained' /\ Claims' /\ Results'
  BY DEF Gathered, Drained, NothingGoesOn, Claims, ClaimedIsUnderWay, Results,
         RowIsOwn, SkippedOnlyIfAsked, Completed, Typed, Phases
<1>5. QED
  BY <1>1, <1>2, <1>3, <1>4

(* Callers of stopTest outside the sequence.                                 *)
LEMMA OutsideKeeps ==
  ASSUME Inv, NEW s \in Stoppers, NEW pc \in {"watch", "check", "claim"}, NEW next \in {"check", "claim", "done"},
         StopGoto(s, pc, next), next = "claim" => status = "running",
         UNCHANGED <<flags, run, init, fields, rows, crashes, work, asked>>
  PROVE  Inv'
<1> USE DEF Inv, Preparing, AfterReset, Early, Late, Sequence, StopGoto, flags, fields
<1>1. Typed'
  BY Constants DEF Typed, Active, InitPlaces, StopPlaces, RowsNow, Works, Runs,
                   Stoppers, NoRow
<1>2. Phases'
  BY DEF Phases, Typed
<1>3. Fields'
  BY DEF Fields
<1>4. Gathered' /\ Drained' /\ Results'
  BY DEF Gathered, Drained, NothingGoesOn, Results, RowIsOwn, SkippedOnlyIfAsked,
         Completed, Typed, Phases
<1>5. Claims'
  BY DEF Claims, ClaimedIsUnderWay, Typed, Phases
<1>6. QED
  BY <1>1, <1>2, <1>3, <1>4, <1>5

(* A sequence starts with nothing gathered but the run it stops.             *)
LEMMA StampedWork ==
  ASSUME run \in 0..MaxRuns
  PROVE  /\ [NoWork EXCEPT !.by = run] \in Works
         /\ [NoWork EXCEPT !.by = run].by = run
<1>1. NoWork \in Works
  <2>1. 0 \in 0..MaxRuns
    BY Constants
  <2>2. QED
    BY <2>1 DEF Works, NoWork
<1>2. ASSUME NEW w \in Works, NEW x \in 0..MaxRuns
      PROVE  [w EXCEPT !.by = x] \in Works /\ [w EXCEPT !.by = x].by = x
  BY SMT DEF Works
<1>3. QED
  BY <1>1, <1>2

(* Who finds the flag clear claims the running test.                         *)
LEMMA ClaimKeeps ==
  ASSUME Inv, NEW s \in Stoppers, ~stopping, Claim(s)
  PROVE  Inv'
<1> USE DEF Inv, Preparing, AfterReset, Early, Late, Sequence, Claim, StopGoto, fields
<1>1. Typed'
  <2>1. [NoWork EXCEPT !.by = run] \in Works
    BY StampedWork DEF Typed
  <2>2. work' \in [Stoppers -> Works]
    BY <2>1 DEF Typed
  <2>3. stop' \in [Stoppers -> StopPlaces]
    BY DEF Typed, StopPlaces
  <2>4. QED
    BY <2>2, <2>3 DEF Typed
<1>2. Phases'
  BY DEF Phases, Typed
<1>3. Fields'
  BY DEF Fields, Phases
<1>4a. Gathered'
  <2>1. run' = run /\ forceStop' = forceStop /\ asked' = asked
    OBVIOUS
  <2>2. stop'[s] = "drain" /\ work'[s].by = run
    BY StampedWork DEF Typed
  <2>3. \A t \in Stoppers : t # s => stop'[t] = stop[t] /\ work'[t] = work[t]
    BY DEF Typed
  <2>4. QED
    BY <2>1, <2>2, <2>3 DEF Gathered
<1>4b. Drained'
  BY StampedWork DEF Drained, NothingGoesOn, Typed, Phases
<1>4. Gathered' /\ Drained'
  BY <1>4a, <1>4b
<1>5. Claims' /\ Results'
  BY DEF Claims, ClaimedIsUnderWay, Results, RowIsOwn, SkippedOnlyIfAsked, Completed,
         Typed, Phases
<1>6. QED
  BY <1>1, <1>2, <1>3, <1>4, <1>5

(* The sequence drains the run, or panics without a verifier.                *)
LEMMA DrainKeeps ==
  ASSUME Inv, NEW s \in Stoppers, Drain(s)
  PROVE  Inv'
<1> USE DEF Inv, Preparing, AfterReset, Early, Late, Sequence, Drain,
            FinalSnapshotPanics, StopGoto, flags
<1>1. Typed'
  BY Constants DEF Typed, Active, InitPlaces, StopPlaces, RowsNow, Works, Runs,
                   Stoppers, NoRow
<1>2. Phases'
  BY DEF Phases, Typed
<1>3. Fields'
  BY DEF Fields
<1>4. Gathered' /\ Results'
  BY DEF Gathered, Results, RowIsOwn, SkippedOnlyIfAsked, Completed, Typed, Phases
<1>5. Drained'
  BY DEF Drained, NothingGoesOn, Typed, Phases
<1>6. Claims'
  BY DEF Claims, ClaimedIsUnderWay, Typed, Phases
<1>7. QED
  BY <1>1, <1>2, <1>3, <1>4, <1>5, <1>6

(* It waits.                                                                 *)
LEMMA WaitKeeps ==
  ASSUME Inv, NEW s \in Stoppers, NEW pc \in {"join", "grace"}, NEW next \in {"grace", "discard"},
         StopGoto(s, pc, next), UNCHANGED <<flags, run, init, fields, rows, crashes, work, asked>>
  PROVE  Inv'
<1> USE DEF Inv, Preparing, AfterReset, Early, Late, Sequence, StopGoto, flags, fields
<1>1. Typed'
  BY Constants DEF Typed, Active, InitPlaces, StopPlaces, RowsNow, Works, Runs,
                   Stoppers, NoRow
<1>2. Phases'
  BY DEF Phases, Typed
<1>3. Fields'
  BY DEF Fields
<1>4. Gathered' /\ Drained' /\ Results'
  BY DEF Gathered, Drained, NothingGoesOn, Results, RowIsOwn, SkippedOnlyIfAsked,
         Completed, Typed, Phases
<1>5. Claims'
  BY DEF Claims, ClaimedIsUnderWay, Typed, Phases
<1>6. QED
  BY <1>1, <1>2, <1>3, <1>4, <1>5

(* The status turns.                                                         *)
LEMMA DiscardKeeps ==
  ASSUME Inv, NEW s \in Stoppers, Discard(s)
  PROVE  Inv'
<1> USE DEF Inv, Preparing, AfterReset, Early, Late, Sequence, Discard, StopGoto, fields
<1>1. Typed'
  BY Constants DEF Typed, Active, InitPlaces, StopPlaces, RowsNow, Works, Runs,
                   Stoppers, NoRow
<1>2. Phases'
  BY DEF Phases, Typed
<1>3. Fields'
  BY DEF Fields, Phases
<1>4. Gathered' /\ Results'
  BY DEF Gathered, Results, RowIsOwn, SkippedOnlyIfAsked, Completed, Typed, Phases
<1>5. Drained' /\ Claims'
  BY DEF Drained, NothingGoesOn, Claims, ClaimedIsUnderWay, Typed, Phases
<1>6. QED
  BY <1>1, <1>2, <1>3, <1>4, <1>5

(* It reads the measurements: those of the latest run.                       *)
LEMMA SaveResultKeeps ==
  ASSUME Inv, NEW s \in Stoppers, SaveResult(s)
  PROVE  Inv'
<1> USE DEF Inv, Preparing, AfterReset, Early, Late, Sequence, SaveResult, StopGoto,
            flags, fields
<1>1. Typed'
  <2>1. [work[s] EXCEPT !.of = data, !.chain = ~forceStop] \in Works
    BY DEF Typed, Works
  <2>2. work' = [work EXCEPT ![s] = [work[s] EXCEPT !.of = data, !.chain = ~forceStop]]
    BY DEF Typed, Works
  <2>3. work' \in [Stoppers -> Works]
    BY <2>1, <2>2 DEF Typed
  <2>4. stop' \in [Stoppers -> StopPlaces]
    BY DEF Typed, StopPlaces
  <2>5. QED
    BY <2>3, <2>4 DEF Typed
<1>2. Phases'
  BY DEF Phases, Typed
<1>3. Fields'
  BY DEF Fields
<1>4. Gathered'
  BY DEF Gathered, Typed, Phases, Fields
<1>5. Drained' /\ Claims' /\ Results'
  BY DEF Drained, NothingGoesOn, Claims, ClaimedIsUnderWay, Results, RowIsOwn,
         SkippedOnlyIfAsked, Completed, Typed, Phases
<1>6. QED
  BY <1>1, <1>2, <1>3, <1>4, <1>5

(* It reads the flag again, which has only been set since.                   *)
LEMMA VerifyResultKeeps ==
  ASSUME Inv, NEW s \in Stoppers, VerifyResult(s)
  PROVE  Inv'
<1> USE DEF Inv, Preparing, AfterReset, Early, Late, Sequence, VerifyResult, StopGoto,
            flags, fields
<1>1. Typed'
  <2>1. [work[s] EXCEPT !.verified = ~forceStop] \in Works
    BY DEF Typed, Works
  <2>2. work' \in [Stoppers -> Works]
    BY <2>1 DEF Typed
  <2>3. stop' \in [Stoppers -> StopPlaces]
    BY DEF Typed, StopPlaces
  <2>4. QED
    BY <2>2, <2>3 DEF Typed
<1>2. Phases'
  BY DEF Phases, Typed
<1>3. Fields'
  BY DEF Fields
<1>4. Gathered'
  <2>1. work'[s] = [work[s] EXCEPT !.verified = ~forceStop] /\ work[s] \in Works
    BY DEF Typed
  <2>2. /\ work'[s].by = work[s].by /\ work'[s].of = work[s].of
        /\ work'[s].chain = work[s].chain /\ work'[s].verified = ~forceStop
    BY <2>1 DEF Works
  <2>3. \A t \in Stoppers : t # s => work'[t] = work[t] /\ stop'[t] = stop[t]
    BY DEF Typed
  <2>4. stop[s] = "verify" /\ stop'[s] = "row" /\ run \in {run'} /\ asked' = asked
    BY DEF Typed
  <2>5. forceStop => run \in asked
    BY <2>4 DEF Phases, Fields
  <2>6. work[s].chain \in BOOLEAN /\ (~ work[s].chain => forceStop) /\ work[s].by = run
        /\ work[s].of = run
    BY <2>1, <2>4 DEF Gathered, Works
  <2>7. QED
    BY <2>2, <2>3, <2>4, <2>5, <2>6 DEF Gathered, Typed
<1>5. Drained' /\ Claims' /\ Results'
  BY DEF Drained, NothingGoesOn, Claims, ClaimedIsUnderWay, Results, RowIsOwn,
         SkippedOnlyIfAsked, Completed, Typed, Phases
<1>6. QED
  BY <1>1, <1>2, <1>3, <1>4, <1>5

(* It writes the row of the latest run.                                      *)
LEMMA CompleteTestRunKeeps ==
  ASSUME Inv, NEW s \in Stoppers, CompleteTestRun(s)
  PROVE  Inv'
<1> USE DEF Inv, Preparing, AfterReset, Early, Late, Sequence, CompleteTestRun,
            UpdateRow, StopGoto, flags, fields, NoRow
<1>1. Typed'
  BY Constants DEF Typed, Active, InitPlaces, StopPlaces, RowsNow, Works, Runs,
                   Stoppers, NoRow
<1>2. Phases'
  BY DEF Phases, Typed
<1>3. Fields'
  BY DEF Fields
<1>4. Gathered' /\ Drained' /\ Claims'
  BY DEF Gathered, Drained, NothingGoesOn, Claims, ClaimedIsUnderWay, Typed, Phases
<1>5. Results'
  BY DEF Results, RowIsOwn, SkippedOnlyIfAsked, Completed, Typed, Phases, Fields, Gathered
<1>6. QED
  BY <1>1, <1>2, <1>3, <1>4, <1>5

(* The sequence is over.                                                     *)
LEMMA FinishKeeps ==
  ASSUME Inv, NEW s \in Stoppers, Finish(s)
  PROVE  Inv'
<1> USE DEF Inv, Preparing, AfterReset, Early, Late, Sequence, Finish, StopGoto, fields
<1>1. Typed'
  BY Constants DEF Typed, Active, InitPlaces, StopPlaces, RowsNow, Works, Runs,
                   Stoppers, NoRow
<1>2. Phases'
  BY DEF Phases, Typed
<1>3. Fields' /\ Gathered' /\ Drained' /\ Claims' /\ Results'
  BY DEF Fields, Gathered, Drained, NothingGoesOn, Claims, ClaimedIsUnderWay, Results,
         RowIsOwn, SkippedOnlyIfAsked, Completed, Typed, Phases
<1>4. QED
  BY <1>1, <1>2, <1>3

(* A polite reset finds nothing under way.                                   *)
LEMMA ResetKeeps ==
  ASSUME Inv, Polite, Reset
  PROVE  Inv'
<1> USE DEF Inv, Preparing, AfterReset, Early, Late, Sequence, Reset
<1>1. Typed'
  BY Constants DEF Typed, Active, InitPlaces, StopPlaces, RowsNow, Works, Runs,
                   Stoppers, NoRow
<1>2. Phases'
  BY DEF Phases, Typed
<1>3. Fields' /\ Gathered' /\ Drained' /\ Claims' /\ Results'
  BY DEF Fields, Gathered, Drained, NothingGoesOn, Claims, ClaimedIsUnderWay, Results,
         RowIsOwn, SkippedOnlyIfAsked, Completed, Typed, Phases
<1>4. QED
  BY <1>1, <1>2, <1>3

(* A deleted row makes no claim.                                             *)
LEMMA DeleteKeeps ==
  ASSUME Inv, NEW r \in Runs, DeleteTestRun(r)
  PROVE  Inv'
<1> USE DEF Inv, Preparing, AfterReset, Early, Late, Sequence, DeleteTestRun, flags,
            fields, NoRow
<1>1. Typed'
  BY Constants DEF Typed, Active, InitPlaces, StopPlaces, RowsNow, Works, Runs,
                   Stoppers, NoRow
<1>2. Phases' /\ Fields' /\ Gathered' /\ Drained' /\ Claims'
  BY DEF Phases, Fields, Gathered, Drained, NothingGoesOn, Claims, ClaimedIsUnderWay
<1>3. Results'
  BY DEF Results, RowIsOwn, SkippedOnlyIfAsked, Completed, Typed
<1>4. QED
  BY <1>1, <1>2, <1>3

(* After a crash nothing is under way.                                       *)
LEMMA CrashKeeps ==
  ASSUME Inv, Crash
  PROVE  Inv'
<1> USE DEF Inv, Preparing, AfterReset, Early, Late, Sequence, Crash, NoWork
<1>1. Typed'
  <2>1. NoWork \in Works
    BY Constants DEF Works
  <2>2. work' \in [Stoppers -> Works]
    BY <2>1
  <2>3. init' \in [Runs -> InitPlaces] /\ stop' \in [Stoppers -> StopPlaces]
    BY DEF Typed, InitPlaces, StopPlaces
  <2>4. crashes' \in 0..MaxCrashes
    BY Constants DEF Typed
  <2>5. verifier' \in BOOLEAN
    BY Constants
  <2>6. reading' \in [engine : 0..MaxRuns, on : BOOLEAN] /\ 0 \in 0..MaxRuns
    BY Constants
  <2>7. QED
    BY <2>2, <2>3, <2>4, <2>5, <2>6 DEF Typed
<1>2. Phases'
  BY DEF Phases, Typed
<1>3. Fields' /\ Gathered' /\ Drained' /\ Claims' /\ Results'
  BY DEF Fields, Gathered, Drained, NothingGoesOn, Claims, ClaimedIsUnderWay, Results,
         RowIsOwn, SkippedOnlyIfAsked, Completed, Typed, Phases
<1>4. QED
  BY <1>1, <1>2, <1>3

-----------------------------------------------------------------------------
(* A process begins with nothing under way.                                  *)
LEMMA InitInv == Init => Inv
<1> SUFFICES ASSUME Init PROVE Inv
  OBVIOUS
<1> USE DEF Init
<1>1. NoWork \in Works /\ NoRow \in RowsNow
  BY Constants DEF NoWork, Works, RowsNow
<1>2. verifier \in BOOLEAN
  BY Constants
<1>3. init \in [Runs -> InitPlaces] /\ stop \in [Stoppers -> StopPlaces]
  BY DEF InitPlaces, StopPlaces
<1>4. Typed
  <2>1. 0 \in 0..MaxRuns /\ 0 \in 0..MaxCrashes
    BY Constants
  <2>2. reading \in [engine : 0..MaxRuns, on : BOOLEAN]
    BY <2>1
  <2>3. work \in [Stoppers -> Works] /\ rows \in [Runs -> RowsNow]
    BY <1>1
  <2>4. QED
    BY <1>2, <1>3, <2>1, <2>2, <2>3 DEF Typed
<1>5. Phases /\ Fields /\ Gathered
  BY DEF Phases, Fields, Gathered, Preparing, AfterReset, Early, Late, Sequence
<1>6. Drained /\ Claims
  BY DEF Drained, NothingGoesOn, Claims, ClaimedIsUnderWay
<1>7. \A r \in Runs : ~ Completed(r)
  BY DEF Completed, NoRow
<1>8. Results
  BY <1>7 DEF Results, RowIsOwn, SkippedOnlyIfAsked
<1>9. QED
  BY <1>4, <1>5, <1>6, <1>8 DEF Inv

(* A step of the initialisation.                                             *)
LEMMA InitializationKeeps ==
  ASSUME Inv, NEW r \in Runs, Initialization(r)
  PROVE  Inv'
<1>1. CASE \E pc \in {"clients", "accounts", "contracts", "reset", "sender"} : InitFails(r, pc)
  BY <1>1, InitFailsKeeps DEF Preparing
<1>2. CASE \E pc \in {"clients", "accounts", "contracts"}, next \in {"accounts", "contracts", "reset"} :
             /\ InitGoto(r, pc, next)
             /\ UNCHANGED <<flags, run, stop, fields, rows, crashes, work, asked>>
  BY <1>2, PrepareKeeps DEF Preparing
<1>3. CASE ~ InitFails(r, "reset") /\ ResetForRun(r)
  BY <1>3, ResetForRunKeeps
<1>4. CASE ~ InitFails(r, "sender") /\ ConfigureTraffic(r)
  BY <1>4, ConfigureTrafficKeeps
<1>5. CASE CreateTestRun(r) \/ OpenContext(r) \/ StartWorkers(r)
  BY <1>5, CreateTestRunKeeps, OpenContextKeeps, StartWorkersKeeps
<1>6. CASE BecomeRunning(r) \/ StartIncrementalVerification(r)
  BY <1>6, BecomeRunningKeeps, VerifierKeeps
<1>7. QED
  BY <1>1, <1>2, <1>3, <1>4, <1>5, <1>6
     DEF Initialization, PrepareClients, PrepareAccounts, PrepareContracts

(* A step of a caller of stopTest.                                           *)
LEMMA StopSequenceKeeps ==
  ASSUME Inv, NEW s \in Stoppers, StopSequence(s)
  PROVE  Inv'
<1>1. CASE CheckRunning(s)
  BY <1>1, OutsideKeeps DEF CheckRunning
<1>2. CASE Claim(s) /\ stopping
  BY <1>2, OutsideKeeps DEF Claim
<1>3. CASE Claim(s) /\ ~stopping
  BY <1>3, ClaimKeeps
<1>4. CASE Join(s) \/ Grace(s)
  BY <1>4, WaitKeeps DEF Join, Grace
<1>5. CASE Drain(s) \/ Discard(s) \/ Finish(s)
  BY <1>5, DrainKeeps, DiscardKeeps, FinishKeeps
<1>6. CASE SaveResult(s) \/ VerifyResult(s) \/ CompleteTestRun(s)
  BY <1>6, SaveResultKeeps, VerifyResultKeeps, CompleteTestRunKeeps
<1>7. QED
  BY <1>1, <1>2, <1>3, <1>4, <1>5, <1>6 DEF StopSequence

(* Workers that leave change nothing the invariant is about.                 *)
LEMMA WorkersLeaveKeeps ==
  ASSUME Inv, NEW r \in Runs, WorkersLeave(r)
  PROVE  Inv'
<1> USE DEF WorkersLeave, flags, Inv
<1>1. Typed'
  BY DEF Typed
<1>2. Phases' /\ Fields' /\ Gathered' /\ Drained' /\ Claims' /\ Results'
  BY DEF Phases, Fields, Gathered, Drained, NothingGoesOn, Claims, ClaimedIsUnderWay,
         Results, RowIsOwn, SkippedOnlyIfAsked, Completed
<1>3. QED
  BY <1>1, <1>2

(* Every step, for polite clients and prompt goroutines, keeps the invariant. *)
LEMMA StepInv ==
  ASSUME Polite, Prompt
  PROVE  Inv /\ [Next]_vars => Inv'
<1> SUFFICES ASSUME Inv, [Next]_vars PROVE Inv'
  OBVIOUS
<1>1. CASE StartTest
  BY <1>1, StartKeeps
<1>2. CASE \E r \in Runs : Initialization(r)
  BY <1>2, InitializationKeeps
<1>3. CASE \E r \in Runs : WatcherFires(r) \/ WatcherLeaves(r)
  BY <1>3, OutsideKeeps DEF WatcherFires, WatcherLeaves, Stoppers
<1>4. CASE \E r \in Runs : WorkersLeave(r) \/ DeleteTestRun(r)
  BY <1>4, WorkersLeaveKeeps, DeleteKeeps
<1>5. CASE \E c \in Calls : StopTest(c)
  BY <1>5, StopTestKeeps
<1>6. CASE \E s \in Stoppers : StopSequence(s)
  BY <1>6, StopSequenceKeeps
<1>7. CASE Reset
  BY <1>7, ResetKeeps
<1>8. CASE Crash
  BY <1>8, CrashKeeps
<1>9. CASE UNCHANGED vars
  BY <1>9 DEF vars, flags, fields, Inv, Typed, Phases, Fields, Gathered, Drained,
              NothingGoesOn,
              Claims, ClaimedIsUnderWay, Results, RowIsOwn, SkippedOnlyIfAsked, Completed
<1>10. QED
  BY <1>1, <1>2, <1>3, <1>4, <1>5, <1>6, <1>7, <1>8, <1>9 DEF Next

(* The inductive invariant holds in every reachable state.                   *)
THEOREM InvAlways == ASSUME Polite, Prompt PROVE Spec => []Inv
<1>1. Init => Inv
  BY InitInv
<1>2. Inv /\ [Next]_vars => Inv'
  BY StepInv
<1>3. QED
  BY <1>1, <1>2, PTL DEF Spec

-----------------------------------------------------------------------------
(* What the invariant says of the runs.                                      *)

(* Every variable holds values of its kind, whatever the order of requests,  *)
(* watchers and stop sequences.                                              *)
THEOREM TypeOKAlways == ASSUME Polite, Prompt PROVE Spec => []TypeOK
<1>1. ASSUME Inv PROVE TypeOK
  <2>1. Typed
    BY <1>1 DEF Inv
  <2>2. \A r \in Runs : rows[r].state \in {"none", "running", "completed"}
    BY <2>1 DEF Typed, RowsNow, NoRow
  <2>3. QED
    BY <2>1, <2>2 DEF Typed, TypeOK, InitPlaces, StopPlaces, Preparing
<1>2. QED
  BY <1>1, InvAlways, PTL

(* CompleteTestRun names the row by currentTestID, saveTestResult measures   *)
(* whatever the collectors hold: both are the run the sequence has stopped.  *)
THEOREM RowIsOwnAlways == ASSUME Polite, Prompt PROVE Spec => []RowIsOwn
<1>1. Inv => RowIsOwn
  BY DEF Inv, Results
<1>2. QED
  BY <1>1, InvAlways, PTL

(* A stop asked of one run skips the verification of no other, although the  *)
(* flag is shared and read three times.                                      *)
THEOREM SkippedOnlyIfAskedAlways ==
  ASSUME Polite, Prompt
  PROVE  Spec => []SkippedOnlyIfAsked
<1>1. Inv => SkippedOnlyIfAsked
  BY DEF Inv, Results
<1>2. QED
  BY <1>1, InvAlways, PTL

(* The context a run works by is cancelled, its read load stopped, before    *)
(* the status says that it is verified or complete.                          *)
THEOREM NothingGoesOnAlways == ASSUME Polite, Prompt PROVE Spec => []NothingGoesOn
<1>1. Inv => NothingGoesOn
  BY DEF Inv, Drained
<1>2. QED
  BY <1>1, InvAlways, PTL

(* Once the process has a verifier, whoever finds the flag stopping set may  *)
(* rely on the caller that set it.                                           *)
THEOREM ClaimedIsUnderWayAlways ==
  ASSUME Polite, Prompt, Warm
  PROVE  Spec => []ClaimedIsUnderWay
<1>1. Inv => ClaimedIsUnderWay
  BY DEF Inv, Claims
<1>2. QED
  BY <1>1, InvAlways, PTL

-----------------------------------------------------------------------------
(* The promise to clients: TestRuns.                                         *)

Finished == {r \in Runs : Completed(r)}

(* A step that leaves the stage, the run and the results alone stutters.     *)
LEMMA SamePromise ==
  ASSUME UNCHANGED <<Stage, run, Finished>>
  PROVE  UNCHANGED Promise!vars
BY DEF Promise!vars, Finished

(* Status and rows determine stage and results.                              *)
LEMMA SameStatusAndRows ==
  ASSUME UNCHANGED <<status, run, rows>>
  PROVE  UNCHANGED Promise!vars
BY SamePromise DEF Stage, Finished, Completed

(* An accepted StartTest begins a run.                                       *)
LEMMA StartBegins ==
  ASSUME Inv, Polite, StartTest
  PROVE  Promise!Begin
<1>1. status \notin Active
  BY DEF StartTest, Quiet, Active
<1>2. Stage = "none" /\ Stage' \in {"preparing", "none"}
  BY <1>1 DEF StartTest, Stage, Active
<1>3. QED
  BY <1>2 DEF StartTest, Promise!Begin, Completed

(* An initialisation that fails ends the run, and one that succeeds turns it *)
(* to running; its row is no result.                                         *)
LEMMA InitializationPromise ==
  ASSUME Inv, NEW r \in Runs, Initialization(r)
  PROVE  [Promise!Next]_(Promise!vars)
<1>1. ASSUME NEW pc \in Preparing, InitFails(r, pc)
      PROVE  Promise!Over
  <2>1. status = "initializing" /\ status' = "error"
    BY <1>1 DEF InitFails, InitGoto, Inv, Phases
  <2>2. Stage # "none" /\ Stage' = "none"
    BY <2>1 DEF Stage
  <2>3. QED
    BY <1>1, <2>2 DEF InitFails, Promise!Over, Completed
<1>2. CASE BecomeRunning(r)
  <2>1. status = "initializing" /\ status' = "running"
    BY <1>2 DEF BecomeRunning, InitGoto, Inv, Phases, Preparing
  <2>2. Stage = "preparing" /\ Stage' = "running"
    BY <2>1 DEF Stage
  <2>3. QED
    BY <1>2, <2>2 DEF BecomeRunning, Promise!Ready, Promise!Next, Completed
<1>3. CASE CreateTestRun(r)
  <2>1. r = run /\ status = "initializing"
    BY <1>3 DEF CreateTestRun, InitGoto, Inv, Phases, Preparing
  <2>2. ~ Completed(r)
    BY <2>1 DEF Inv, Results
  <2>3. UNCHANGED Finished
    BY <1>3, <2>2 DEF CreateTestRun, InsertRow, Finished, Completed, Inv, Typed
  <2>4. QED
    BY <1>3, <2>3, SamePromise DEF CreateTestRun, Stage, flags
<1>4. CASE UNCHANGED <<status, run, rows>>
  BY <1>4, SameStatusAndRows
<1>5. QED
  BY <1>1, <1>2, <1>3, <1>4
     DEF Initialization, PrepareClients, PrepareAccounts, PrepareContracts, ResetForRun,
         OpenContext, ConfigureTraffic, StartWorkers, StartIncrementalVerification,
         Preparing, Promise!Next, flags

(* A stop sequence finishes the run, stores its result and is over.          *)
LEMMA StopSequencePromise ==
  ASSUME Inv, NEW s \in Stoppers, StopSequence(s)
  PROVE  [Promise!Next]_(Promise!vars)
<1>1. CASE Discard(s)
  <2>1. status = "running" /\ status' = "verifying"
    BY <1>1 DEF Discard, StopGoto, Inv, Phases, Early
  <2>2. Stage = "running" /\ Stage' = "finishing"
    BY <2>1 DEF Stage
  <2>3. QED
    BY <1>1, <2>2 DEF Discard, Promise!Finish, Promise!Next, Completed
<1>2. CASE CompleteTestRun(s)
  <2>1. stop[s] = "row" /\ status = "verifying" /\ run \in Runs /\ testID = run
    BY <1>2 DEF CompleteTestRun, StopGoto, Inv, Phases, Late, Fields
  <2>2. run \notin Finished
    BY <2>1 DEF Inv, Results, Finished
  <2>3. UNCHANGED <<status, run>>
    BY <1>2 DEF CompleteTestRun, flags
  <2>4. Finished' = Finished \/ Finished' = Finished \cup {run}
    <3>1. CASE rows' = rows
      BY <3>1 DEF Finished, Completed
    <3>2. CASE rows' = UpdateRow(run, work[s])
      <4>1. \A r \in Runs : r # run \/ rows[r] = NoRow => Completed(r)' = Completed(r)
        BY <3>2 DEF UpdateRow, Completed
      <4>2. \A r \in Runs : r = run /\ rows[r] # NoRow => Completed(r)'
        BY <2>1, <3>2 DEF UpdateRow, Completed
      <4>3. CASE rows[run] = NoRow
        BY <4>1, <4>3 DEF Finished
      <4>4. CASE rows[run] # NoRow
        BY <2>1, <4>1, <4>2, <4>4 DEF Finished
      <4>5. QED
        BY <4>3, <4>4
    <3>3. QED
      BY <1>2, <2>1, <3>1, <3>2 DEF CompleteTestRun
  <2>5. Stage = "finishing" /\ UNCHANGED Stage
    BY <2>1, <2>3 DEF Stage
  <2>6. CASE Finished' = Finished
    BY <2>3, <2>5, <2>6, SamePromise
  <2>7. CASE Finished' = Finished \cup {run}
    BY <2>2, <2>3, <2>5, <2>7 DEF Promise!Store, Promise!Next, Finished
  <2>8. QED
    BY <2>4, <2>6, <2>7
<1>3. CASE Finish(s)
  <2>1. status = "verifying" /\ status' = "completed"
    BY <1>3 DEF Finish, StopGoto, Inv, Phases, Late
  <2>2. Stage # "none" /\ Stage' = "none"
    BY <2>1 DEF Stage
  <2>3. QED
    BY <1>3, <2>2 DEF Finish, Promise!Over, Promise!Next, Completed
<1>4. CASE UNCHANGED <<status, run, rows>>
  BY <1>4, SameStatusAndRows
<1>5. QED
  BY <1>1, <1>2, <1>3, <1>4
     DEF StopSequence, CheckRunning, Claim, Drain, Join, Grace, SaveResult, VerifyResult,
         flags

(* Resets touch no run that is under way, crashes end it, deletions take its *)
(* result away.                                                              *)
LEMMA OthersPromise ==
  ASSUME Inv, Polite, Reset \/ Crash \/ (\E r \in Runs : DeleteTestRun(r))
  PROVE  [Promise!Next]_(Promise!vars)
<1>1. CASE Reset
  <2>1. Stage = "none" /\ Stage' = "none"
    BY <1>1 DEF Reset, Stage, Active
  <2>2. QED
    BY <1>1, <2>1, SamePromise DEF Reset, Finished, Completed
<1>2. CASE Crash
  <2>1. Stage' = "none" /\ UNCHANGED <<run, Finished>>
    BY <1>2 DEF Crash, Stage, Finished, Completed
  <2>2. CASE Stage = "none"
    BY <2>1, <2>2, SamePromise
  <2>3. CASE Stage # "none"
    BY <2>1, <2>3 DEF Promise!Over, Promise!Next, Finished
  <2>4. QED
    BY <2>2, <2>3
<1>3. ASSUME NEW r \in Runs, DeleteTestRun(r)
      PROVE  [Promise!Next]_(Promise!vars)
  <2>1. Finished' = Finished \ {r} /\ UNCHANGED <<Stage, run>>
    BY <1>3 DEF DeleteTestRun, Finished, Completed, NoRow, Stage, flags, Inv, Typed
  <2>2. CASE r \in Finished
    BY <2>1, <2>2 DEF Promise!Delete, Promise!Next, Finished
  <2>3. CASE r \notin Finished
    BY <2>1, <2>3, SamePromise
  <2>4. QED
    BY <2>2, <2>3
<1>4. QED
  BY <1>1, <1>2, <1>3

(* Every step is a step of TestRuns or leaves its variables alone.           *)
LEMMA StepPromise ==
  ASSUME Polite, Inv, [Next]_vars
  PROVE  [Promise!Next]_(Promise!vars)
<1>1. CASE StartTest
  BY <1>1, StartBegins DEF Promise!Next
<1>2. CASE \E r \in Runs : Initialization(r)
  BY <1>2, InitializationPromise
<1>3. CASE \/ \E r \in Runs : WatcherFires(r) \/ WatcherLeaves(r) \/ WorkersLeave(r)
           \/ \E c \in Calls : StopTest(c)
           \/ UNCHANGED vars
  BY <1>3, SameStatusAndRows
     DEF WatcherFires, WatcherLeaves, WorkersLeave, StopTest, vars, flags
<1>4. CASE \E s \in Stoppers : StopSequence(s)
  BY <1>4, StopSequencePromise
<1>5. CASE Reset \/ Crash \/ (\E r \in Runs : DeleteTestRun(r))
  BY <1>5, OthersPromise
<1>6. QED
  BY <1>1, <1>2, <1>3, <1>4, <1>5 DEF Next

(* One run at a time, each with at most one result: although the status is   *)
(* set by initialisation, watcher, stop sequence and resets alike.           *)
THEOREM TestRunsRefinement ==
  ASSUME Polite, Prompt
  PROVE  Spec => ImplementsTestRuns
<1>1. Init => Promise!Init
  BY DEF Init, Promise!Init, Stage, Completed, NoRow
<1>2. Inv /\ [Next]_vars => [Promise!Next]_(Promise!vars)
  BY StepPromise
<1>3. QED
  BY <1>1, <1>2, InvAlways, PTL DEF Spec, ImplementsTestRuns, Promise!Spec
=============================================================================
