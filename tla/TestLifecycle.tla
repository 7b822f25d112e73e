--------------------------- MODULE TestLifecycle ---------------------------
(***************************************************************************)
(* The life of a test run: StartTest and the initialisation goroutine      *)
(* (loadgen/loadgen.go, init.go), the completion watcher, StopTest and the *)
(* stop sequence, Reset (api.go), the result and its row in the database   *)
(* (persistence.go, storage/sqlite.go), a crash of the process.            *)
(*                                                                         *)
(* All of them share the fields of one LoadGenerator.  A run is a number,  *)
(* in the order of the accepted StartTest calls; a field that belongs to a *)
(* run (context, test ID, measurements, read engine) holds its number, 0   *)
(* for none.  What the steps of the initialisation do to accounts and      *)
(* contracts is in SetupFunds.                                             *)
(***************************************************************************)
EXTENDS Integers, FiniteSets

CONSTANTS
  Calls,       \* calls of StopTest: requests, the signal handler
  MaxRuns,     \* bound: accepted StartTest calls
  MaxCrashes,  \* bound: deaths of the process
  Warm,        \* TRUE: every process has run a test before these
  Polite,      \* TRUE: clients wait for the end of a run before they start
               \* or reset anything
  Prompt       \* TRUE: no goroutine is suspended for seconds between the
               \* check and the swap of stopTest, or between the start of
               \* the watcher and the status next to it

ASSUME Constants ==
  /\ MaxRuns \in Nat \ {0}
  /\ MaxCrashes \in Nat
  /\ {Warm, Polite, Prompt} \subseteq BOOLEAN

Runs == 1..MaxRuns
Stoppers == Calls \cup Runs    \* r \in Runs: the completionWatcher of run r

VARIABLES
  status,     \* lg.status
  stopping,   \* lg.stopping
  forceStop,  \* lg.forceStop
  run,        \* the latest run
  init,       \* where the initialisation of each run stands
  stop,       \* where each caller of stopTest stands
  testID,     \* the run named by lg.currentTestID
  data,       \* the run the collectors and block metrics measure
  ctx,        \* the run that made lg.ctx
  cancelled,  \* the runs whose context is cancelled
  sending,    \* the runs whose workers are in the wait group
  reading,    \* lg.readEngine: its run, and whether it is started
  verifier,   \* lg.verifier exists
  rows,       \* the test_runs table
  crashes,
  work,       \* what each caller of stopTest has gathered for the result
  asked       \* history: the runs during which StopTest was called

flags == <<status, stopping, forceStop>>
fields == <<testID, data, ctx, cancelled, sending, reading, verifier>>
vars == <<flags, run, init, stop, fields, rows, crashes, work, asked>>

NoRow == [state |-> "none"]

(* by: the run that was stopped; of: the run that was measured; chain and  *)
(* verified: the chain was scanned, the result verified.                   *)
NoWork == [by |-> 0, of |-> 0, chain |-> FALSE, verified |-> FALSE]
Active == {"initializing", "running", "verifying"}

(* The stop sequence proper, after the swap of stopping.                   *)
Sequence == {"drain", "join", "grace", "discard", "save", "verify", "row",
             "finish"}

Init ==
  /\ status = "idle" /\ stopping = FALSE /\ forceStop = FALSE
  /\ run = 0
  /\ init = [r \in Runs |-> "none"]
  /\ stop = [s \in Stoppers |-> "idle"]
  /\ testID = 0 /\ data = 0 /\ ctx = 0
  /\ cancelled = {} /\ sending = {}
  /\ reading = [engine |-> 0, on |-> FALSE]
  /\ verifier = Warm
  /\ rows = [r \in Runs |-> NoRow]
  /\ crashes = 0
  /\ work = [s \in Stoppers |-> NoWork]
  /\ asked = {}

-----------------------------------------------------------------------------
(* Starting.                                                               *)

(* The politeness assumed of clients, and of the scheduler: no stop        *)
(* sequence is under way, nor about to be.                                 *)
Quiet ==
  /\ Polite => status # "verifying"
  /\ Prompt => \A s \in Stoppers : stop[s] # "claim"

StartTest ==
  /\ Quiet
  /\ run < MaxRuns
  /\ status \notin {"running", "initializing"}
  /\ run' = run + 1
  /\ \/ /\ status' = "initializing"
        /\ init' = [init EXCEPT ![run + 1] = "clients"]
     \/ /\ status' = "error"      \* ValidateTxTypeRatios fails: setError
        /\ init' = [init EXCEPT ![run + 1] = "done"]
  /\ UNCHANGED <<stopping, forceStop, stop, fields, rows, crashes, work, asked>>

(* One step of runInitialization, from pc to next; a step may also fail,   *)
(* which sets the error and returns.                                       *)
InitGoto(r, pc, next) ==
  /\ init[r] = pc
  /\ init' = [init EXCEPT ![r] = next]

InitFails(r, pc) ==
  /\ InitGoto(r, pc, "done")
  /\ status' = "error"
  /\ UNCHANGED <<stopping, forceStop, run, stop, fields, rows, crashes,
                 work, asked>>

(* Clients rebuilt from the token file, chain ID, gasless check.           *)
PrepareClients(r) ==
  \/ InitFails(r, "clients")
  \/ /\ InitGoto(r, "clients", "accounts")
     /\ UNCHANGED <<flags, run, stop, fields, rows, crashes, work, asked>>

(* Accounts: warm or cold start, funding.                                  *)
PrepareAccounts(r) ==
  \/ InitFails(r, "accounts")
  \/ /\ InitGoto(r, "accounts", "contracts")
     /\ UNCHANGED <<flags, run, stop, fields, rows, crashes, work, asked>>

(* Nonces, gas prices, contracts, pre-minted NFTs.                         *)
PrepareContracts(r) ==
  \/ InitFails(r, "contracts")
  \/ /\ InitGoto(r, "contracts", "reset")
     /\ UNCHANGED <<flags, run, stop, fields, rows, crashes, work, asked>>

(* Mutant: a stop asked of an earlier run is not forgotten.                *)
ResetForRun_KeepsForce(r) ==
  \/ InitFails(r, "reset")
  \/ /\ InitGoto(r, "reset", "row")
     /\ stopping' = FALSE
     /\ data' = r
     /\ UNCHANGED <<status, forceStop, run, stop, testID, ctx, cancelled,
                    sending, reading, verifier, rows, crashes, work, asked>>

(* Mutant: the metrics of an earlier run are kept.                         *)
ResetForRun_KeepsMetrics(r) ==
  \/ InitFails(r, "reset")
  \/ /\ InitGoto(r, "reset", "row")
     /\ stopping' = FALSE
     /\ forceStop' = FALSE
     /\ UNCHANGED <<status, run, stop, fields, rows, crashes, work, asked>>

(* The pattern, then the counters, flags, metrics and buffers of the run.  *)
ResetForRun(r) ==
  \/ InitFails(r, "reset")
  \/ /\ InitGoto(r, "reset", "row")
     /\ stopping' = FALSE
     /\ forceStop' = FALSE
     /\ data' = r
     /\ UNCHANGED <<status, run, stop, testID, ctx, cancelled, sending,
                    reading, verifier, rows, crashes, work, asked>>

(* Mutant: the row is given the status of the generator.                   *)
CreateTestRun_SavesStatus(r) ==
  /\ InitGoto(r, "row", "context")
  /\ testID' = r
  /\ rows' = [rows EXCEPT ![r] = [state |-> status]]
  /\ UNCHANGED <<flags, run, stop, data, ctx, cancelled, sending, reading,
                 verifier, crashes, work, asked>>

InsertRow(r) == [rows EXCEPT ![r] = [state |-> "running"]]

(* CreateTestRun, whose failure is only logged.                            *)
CreateTestRun(r) ==
  /\ InitGoto(r, "row", "context")
  /\ testID' = r
  /\ rows' \in {rows, InsertRow(r)}
  /\ UNCHANGED <<flags, run, stop, data, ctx, cancelled, sending, reading,
                 verifier, crashes, work, asked>>

(* The context, the connections that live by it, the start block.          *)
OpenContext(r) ==
  /\ InitGoto(r, "context", "sender")
  /\ ctx' = r
  /\ UNCHANGED <<flags, run, stop, testID, data, cancelled, sending, reading,
                 verifier, rows, crashes, work, asked>>

(* Privacy routing and the read engine's probe may fail, with the context  *)
(* open and the row written.                                               *)
ConfigureTraffic(r) ==
  \/ InitFails(r, "sender")
  \/ /\ InitGoto(r, "sender", "workers")
     /\ \E engine \in {0, r} : reading' = [engine |-> engine, on |-> FALSE]
     /\ UNCHANGED <<flags, run, stop, testID, data, ctx, cancelled, sending,
                    verifier, rows, crashes, work, asked>>

(* Workers, read load, monitors, and the completion watcher.               *)
StartWorkers(r) ==
  /\ InitGoto(r, "workers", "ready")
  /\ sending' = sending \cup {r}
  /\ reading' = [reading EXCEPT !.on = reading.engine # 0]
  /\ stop' = [stop EXCEPT ![r] = "watch"]
  /\ UNCHANGED <<flags, run, testID, data, ctx, cancelled, verifier, rows,
                 crashes, work, asked>>

BecomeRunning(r) ==
  /\ InitGoto(r, "ready", "builder")
  /\ status' = "running"
  /\ UNCHANGED <<stopping, forceStop, run, stop, fields, rows, crashes,
                 work, asked>>

(* The builder's status has been fetched, after the status turned: a test  *)
(* may have been stopped by now.                                           *)
StartIncrementalVerification(r) ==
  /\ InitGoto(r, "builder", "done")
  /\ verifier' = TRUE
  /\ UNCHANGED <<flags, run, stop, testID, data, ctx, cancelled, sending,
                 reading, rows, crashes, work, asked>>

Initialization(r) ==
  \/ PrepareClients(r)
  \/ PrepareAccounts(r)
  \/ PrepareContracts(r)
  \/ ResetForRun(r)
  \/ CreateTestRun(r)
  \/ OpenContext(r)
  \/ ConfigureTraffic(r)
  \/ StartWorkers(r)
  \/ BecomeRunning(r)
  \/ StartIncrementalVerification(r)

-----------------------------------------------------------------------------
(* Stopping.                                                               *)

StopGoto(s, pc, next) ==
  /\ stop[s] = pc
  /\ stop' = [stop EXCEPT ![s] = next]

(* StopTest: a request of its own, or the handler of a signal.             *)
StopTest(c) ==
  /\ StopGoto(c, "idle", "check")
  /\ forceStop' = TRUE
  /\ asked' = asked \cup {run}
  /\ UNCHANGED <<status, stopping, run, init, fields, rows, crashes, work>>

(* A tick of the completion watcher at the end of the duration.            *)
WatcherFires(r) ==
  /\ Prompt => init[r] # "ready"
  /\ StopGoto(r, "watch", "check")
  /\ UNCHANGED <<flags, run, init, fields, rows, crashes, work, asked>>

WatcherLeaves(r) ==
  /\ ctx \in cancelled
  /\ StopGoto(r, "watch", "done")
  /\ UNCHANGED <<flags, run, init, fields, rows, crashes, work, asked>>

CheckRunning(s) ==
  /\ StopGoto(s, "check", IF status = "running" THEN "claim" ELSE "done")
  /\ UNCHANGED <<flags, run, init, fields, rows, crashes, work, asked>>

(* Mutant: the flag is set without looking at it.                          *)
Claim_Unchecked(s) ==
  /\ StopGoto(s, "claim", "drain")
  /\ stopping' = TRUE
  /\ work' = [work EXCEPT ![s] = [NoWork EXCEPT !.by = run]]
  /\ UNCHANGED <<status, forceStop, run, init, fields, rows, crashes, asked>>

(* The compare-and-swap of stopping.                                       *)
Claim(s) ==
  \/ /\ ~stopping
     /\ StopGoto(s, "claim", "drain")
     /\ stopping' = TRUE
     /\ work' = [work EXCEPT ![s] = [NoWork EXCEPT !.by = run]]
     /\ UNCHANGED <<status, forceStop, run, init, fields, rows, crashes,
                    asked>>
  \/ /\ stopping
     /\ StopGoto(s, "claim", "done")
     /\ UNCHANGED <<flags, run, init, fields, rows, crashes, work, asked>>

(* Mutant: read load is left to the end of the context.                    *)
Drain_ReadsGoOn(s) ==
  /\ StopGoto(s, "drain", "join")
  /\ cancelled' = cancelled \cup {ctx}
  /\ UNCHANGED <<flags, run, init, testID, data, ctx, sending, reading,
                 verifier, rows, crashes, work, asked>>

(* The final snapshot is taken by lg.verifier, if blocks were seen.  A     *)
(* panic in a request is recovered by net/http: the request is all that    *)
(* ends.  In a watcher it is a Crash.                                      *)
FinalSnapshotPanics(s) ==
  /\ ~verifier
  /\ s \in Calls
  /\ StopGoto(s, "drain", "panicked")
  /\ UNCHANGED cancelled

(* Read load and incremental verification end; the context is cancelled.   *)
Drain(s) ==
  /\ reading' = [reading EXCEPT !.on = FALSE]
  /\ \/ /\ StopGoto(s, "drain", "join")
        /\ cancelled' = cancelled \cup {ctx}
     \/ FinalSnapshotPanics(s)
  /\ UNCHANGED <<flags, run, init, testID, data, ctx, sending, verifier,
                 rows, crashes, work, asked>>

(* Mutants: a timeout ends the sequence; the wait has no bound.            *)
Join_GivesUp(s) ==
  /\ StopGoto(s, "join", IF sending = {} THEN "grace" ELSE "done")
  /\ UNCHANGED <<flags, run, init, fields, rows, crashes, work, asked>>

Join_Unbounded(s) ==
  /\ sending = {}
  /\ StopGoto(s, "join", "grace")
  /\ UNCHANGED <<flags, run, init, fields, rows, crashes, work, asked>>

(* The wait group, for at most stopTimeout: workers may be left.           *)
Join(s) ==
  /\ StopGoto(s, "join", "grace")
  /\ UNCHANGED <<flags, run, init, fields, rows, crashes, work, asked>>

(* The end block, and the grace period, unless the stop is forced.         *)
Grace(s) ==
  /\ StopGoto(s, "grace", "discard")
  /\ UNCHANGED <<flags, run, init, fields, rows, crashes, work, asked>>

(* The connections are closed, pending transactions resolved or discarded. *)
Discard(s) ==
  /\ StopGoto(s, "discard", "save")
  /\ status' = "verifying"
  /\ UNCHANGED <<stopping, forceStop, run, init, fields, rows, crashes, work,
                 asked>>

(* saveTestResult, up to the scan of the chain.                            *)
SaveResult(s) ==
  /\ StopGoto(s, "save", "verify")
  /\ work' = [work EXCEPT ![s].of = data, ![s].chain = ~forceStop]
  /\ UNCHANGED <<flags, run, init, fields, rows, crashes, asked>>

VerifyResult(s) ==
  /\ StopGoto(s, "verify", "row")
  /\ work' = [work EXCEPT ![s].verified = ~forceStop]
  /\ UNCHANGED <<flags, run, init, fields, rows, crashes, asked>>

(* An UPDATE by ID: it finds none when the row was never made or is        *)
(* deleted.                                                                *)
UpdateRow(id, result) ==
  [r \in Runs |-> IF r = id /\ rows[r] # NoRow
                  THEN [state |-> "completed", result |-> result]
                  ELSE rows[r]]

(* The row lg.currentTestID names now is completed, or that fails.         *)
CompleteTestRun(s) ==
  /\ StopGoto(s, "row", "finish")
  /\ rows' \in {rows, UpdateRow(testID, work[s])}
  /\ UNCHANGED <<flags, run, init, fields, crashes, work, asked>>

Finish(s) ==
  /\ StopGoto(s, "finish", "done")
  /\ status' = "completed"
  /\ UNCHANGED <<stopping, forceStop, run, init, fields, rows, crashes, work,
                 asked>>

StopSequence(s) ==
  \/ CheckRunning(s)
  \/ Claim(s)
  \/ Drain(s)
  \/ Join(s)
  \/ Grace(s)
  \/ Discard(s)
  \/ SaveResult(s)
  \/ VerifyResult(s)
  \/ CompleteTestRun(s)
  \/ Finish(s)

(* A worker sees the flag, the context or the end of the duration.         *)
WorkersLeave(r) ==
  /\ r \in sending
  /\ sending' = sending \ {r}
  /\ UNCHANGED <<flags, run, init, stop, testID, data, ctx, cancelled,
                 reading, verifier, rows, crashes, work, asked>>

-----------------------------------------------------------------------------
(* The other calls, and crashes.                                           *)

Reset ==
  /\ status # "running"
  /\ Polite => status \notin Active
  /\ status' = "idle"
  /\ data' = 0
  /\ UNCHANGED <<stopping, forceStop, run, init, stop, testID, ctx, cancelled,
                 sending, reading, verifier, rows, crashes, work, asked>>

DeleteTestRun(r) ==
  /\ rows[r] # NoRow
  /\ rows' = [rows EXCEPT ![r] = NoRow]
  /\ UNCHANGED <<flags, run, init, stop, fields, crashes, work, asked>>

(* The process dies (a signal once StopTest has returned, a panic outside  *)
(* a request, the machine) and starts again: nothing but the database is   *)
(* left, and nobody looks for rows that say "running".                     *)
Crash ==
  /\ crashes < MaxCrashes
  /\ crashes' = crashes + 1
  /\ status' = "idle" /\ stopping' = FALSE /\ forceStop' = FALSE
  /\ init' = [r \in Runs |-> IF r <= run THEN "done" ELSE "none"]
  /\ stop' = [s \in Stoppers |-> IF stop[s] = "idle" THEN "idle" ELSE "done"]
  /\ testID' = 0 /\ data' = 0 /\ ctx' = 0
  /\ cancelled' = {} /\ sending' = {}
  /\ reading' = [engine |-> 0, on |-> FALSE]
  /\ verifier' = Warm
  /\ work' = [s \in Stoppers |-> NoWork]
  /\ UNCHANGED <<run, rows, asked>>

Next ==
  \/ StartTest
  \/ \E r \in Runs :
       \/ Initialization(r)
       \/ WatcherFires(r)
       \/ WatcherLeaves(r)
       \/ WorkersLeave(r)
       \/ DeleteTestRun(r)
  \/ \E c \in Calls : StopTest(c)
  \/ \E s \in Stoppers : StopSequence(s)
  \/ Reset
  \/ Crash

Spec == Init /\ [][Next]_vars

(* Every wait of the initialisation, of the watcher and of the stop        *)
(* sequence has a timeout.  Workers are promised nothing.                  *)
FairSpec ==
  /\ Spec
  /\ \A r \in Runs :
       /\ WF_vars(Initialization(r))
       /\ WF_vars(WatcherFires(r) \/ WatcherLeaves(r))
  /\ \A s \in Stoppers : WF_vars(StopSequence(s))

-----------------------------------------------------------------------------
(* Properties.                                                             *)

(* Every variable holds values of its kind.                                *)
TypeOK ==
  /\ status \in Active \cup {"idle", "completed", "error"}
  /\ {stopping, forceStop, verifier} \subseteq BOOLEAN
  /\ {run, testID, data, ctx} \subseteq 0..MaxRuns
  /\ init \in [Runs -> {"none", "clients", "accounts", "contracts", "reset",
                         "row", "context", "sender", "workers", "ready",
                         "builder", "done"}]
  /\ stop \in [Stoppers -> {"idle", "watch", "check", "claim", "done",
                             "panicked"} \cup Sequence]
  /\ cancelled \subseteq 0..MaxRuns
  /\ sending \subseteq Runs
  /\ reading \in [engine : 0..MaxRuns, on : BOOLEAN]
  /\ \A r \in Runs : rows[r].state \in {"none", "running", "completed"}
  /\ crashes \in 0..MaxCrashes
  /\ asked \subseteq 0..MaxRuns

Completed(r) == rows[r].state = "completed"

(* A completed row is the result of its own run: written by the sequence   *)
(* that stopped that run, from the measurements of that run, although the  *)
(* sequence reads currentTestID and the collectors again at every step.    *)
RowIsOwn ==
  \A r \in Runs :
    Completed(r) => rows[r].result.by = r /\ rows[r].result.of = r

(* The long way round (grace, scan, verification) is skipped only if the   *)
(* user asked for it during that very run, and a verified result has been  *)
(* compared with a chain that was scanned: forceStop, set at any moment,   *)
(* is read three times by the sequence.                                    *)
SkippedOnlyIfAsked ==
  \A r \in Runs :
    Completed(r) =>
      /\ rows[r].result.verified => rows[r].result.chain
      /\ ~rows[r].result.verified => r \in asked

(* Once a run is in verification or completed, none of its traffic or      *)
(* background work is left to go on: its context is cancelled and its read *)
(* load stopped, whoever stopped it and however early.                     *)
NothingGoesOn ==
  status \in {"verifying", "completed"} => ctx \in cancelled /\ ~reading.on

(* A run that somebody has claimed to stop is being stopped by somebody:   *)
(* callers of StopTest that find the flag set return and rely on it.       *)
ClaimedIsUnderWay ==
  stopping /\ status = "running" => \E s \in Stoppers : stop[s] \in Sequence

Stage ==
  CASE status = "initializing" -> "preparing"
    [] status = "running" -> "running"
    [] status = "verifying" -> "finishing"
    [] OTHER -> "none"

Promise ==
  INSTANCE TestRuns WITH stage <- Stage, results <- {r \in Runs : Completed(r)}

(* Runs follow each other in order and leave at most one result each,      *)
(* although initialisation, watcher, stop calls and resets set the status  *)
(* without looking at it.                                                  *)
ImplementsTestRuns == Promise!Spec

(* Every accepted test comes to an end, with or without a StopTest.        *)
Ends == status \in Active ~> status \notin Active
=============================================================================
