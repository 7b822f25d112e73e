----------------------------- MODULE RateControl -----------------------------
(* How fast the generator sends: the load patterns (internal/pattern), the   *)
(* 100 ms rate tick of tpsCalculator, the adaptive                           *)
(* controller with its circuit breaker, and the builder's pressure           *)
(* (internal/loadgen/workers.go, builder.go), from the request that          *)
(* validateStartRequest let through (internal/transport/http.go).            *)
(*                                                                           *)
(* Time is counted in ticks of 100 ms.  The counters of the circuit breaker  *)
(* are filled by the workers and by the callbacks of their sends and emptied *)
(* by the controller, one Swap at a time.  Answers may come in any later     *)
(* window.  recentSends is what the limiter lets through between two ticks   *)
(* of the controller: half the rate.                                         *)
EXTENDS Integers

CONSTANTS
  Requests,     \* the start requests a client sends, accepted or not
  Levels,       \* values of pendingCount the controller may meet
  Pressures,    \* answers of the builder's /status: [kind], [kind |-> "status", pending, maxTxs]
  Outcomes,     \* [failed, revoked]: percent of a window's sends
  RateBound,    \* bound: above it pending is never below its target
  TickBound,    \* bound on the 100 ms ticks of a time based run
  Leftovers,    \* rates at which an earlier run may have left the circuit open
  MaxRuns       \* bound on the runs

ASSUME RateControlAssumption ==
  /\ RateBound \in Nat /\ TickBound \in Nat /\ MaxRuns \in Nat
  /\ Levels \subseteq Nat /\ Leftovers \subseteq Nat
  /\ Outcomes \subseteq [failed : 0..100, revoked : 0..100]
  /\ \A a \in Pressures :
       /\ a.kind \in {"error", "garbled", "status"}
       /\ a.kind = "status" => a.pending \in Nat /\ a.maxTxs \in Int   \* a count, an int64
  /\ \A r \in Requests :   \* the integer fields of types.StartTestRequest
       /\ r.pattern = "constant" => r.rate \in Int
       /\ r.pattern = "ramp" => {r.start, r.end, r.sec} \subseteq Int
       /\ r.pattern = "spike" => {r.baseline, r.spike} \subseteq Int
       /\ r.pattern = "adaptive" => {r.initial, r.target, r.step} \subseteq Int

VARIABLES
  req,       \* the running request, NoRequest before the first
  runs,      \* runs started
  elapsed,   \* ticks since the start of a time based run
  patRate,   \* Pattern.currentRate
  rate,      \* LoadGenerator.currentRate
  limit,     \* the rate the limiter was last given
  open,      \* LoadGenerator.circuitOpen
  ceiling,   \* LoadGenerator.preCircuitRate
  opened,    \* the run that opened the circuit (history)
  pressure,  \* LoadGenerator.builderPressure, in percent
  recent,    \* [sends, fails, revoked]: the counters of the breaker
  due,       \* sends whose answer has not been counted
  taken,     \* the sends the controller has swapped out
  ctl        \* the controller: "idle", or "swapped" between the sends and the failures

vars == <<req, runs, elapsed, patRate, rate, limit, open, ceiling,
          opened, pressure, recent, due, taken, ctl>>

load    == <<recent, due, taken, ctl>>
circuit == <<open, ceiling, opened>>

NoRequest  == [pattern |-> "none"]
NoCounters == [sends |-> 0, fails |-> 0, revoked |-> 0]
Larger(a, b)  == IF a >= b THEN a ELSE b
Smaller(a, b) == IF a <= b THEN a ELSE b

-----------------------------------------------------------------------------
(* Requests and patterns *)

Ticks(sec) == 10 * sec
MaxTPS     == 100000
MaxSpike   == 3600

(* validateStartRequest, its pattern specific part *)
Accepted(r) ==
  CASE r.pattern = "constant" -> r.rate \in 1..MaxTPS
    [] r.pattern = "ramp"     -> r.start >= 0 /\ r.end \in 1..MaxTPS
    [] r.pattern = "spike"    -> /\ r.baseline >= 0 /\ r.spike \in 1..MaxTPS
                                 /\ r.spikeSec \in 1..MaxSpike /\ r.everySec \in 1..MaxSpike
    [] r.pattern = "adaptive" -> r.initial \in 0..MaxTPS
    [] OTHER                  -> FALSE

Adaptive(r) == r.pattern = "adaptive"

(* Mutant: the ramp goes on after its end. *)
RampRate_NoEnd(r, t) ==
  IF t <= 0 THEN r.start ELSE r.start + ((t * (r.end - r.start)) \div Ticks(r.sec))

(* Ramp.GetRate: linear, cut to an integer towards zero *)
RampRate(r, t) ==
  IF t <= 0 THEN r.start
  ELSE IF t >= Ticks(r.sec) THEN r.end
  ELSE IF r.end >= r.start
  THEN r.start + ((t * (r.end - r.start)) \div Ticks(r.sec))
  ELSE (r.start * Ticks(r.sec) - t * (r.start - r.end)) \div Ticks(r.sec)

(* Spike.GetRate: the spike is the end of every interval *)
SpikeRate(r, t) ==
  IF t % Ticks(r.everySec) >= Ticks(r.everySec) - Ticks(r.spikeSec)
  THEN r.spike ELSE r.baseline

GetRate(r, t, current) ==
  CASE r.pattern = "constant" -> r.rate
    [] r.pattern = "ramp"     -> RampRate(r, t)
    [] r.pattern = "spike"    -> SpikeRate(r, t)
    [] r.pattern = "adaptive" -> current

(* The rate a pattern is created with *)
FirstRate(r) ==
  CASE r.pattern = "constant" -> r.rate
    [] r.pattern = "ramp"     -> r.start
    [] r.pattern = "spike"    -> r.baseline
    [] r.pattern = "adaptive" -> r.initial

(* Mutant: a rate of nothing is handed on. *)
LimiterRate_Zero(r) == r

(* Limiter.SetRate and New take a rate of nothing for one per second *)
LimiterRate(r) == Larger(r, 1)

-----------------------------------------------------------------------------
(* An earlier run, stopped without a Reset, leaves its breaker behind *)
Init ==
  /\ req = NoRequest /\ runs = 0 /\ elapsed = 0
  /\ patRate = 0 /\ rate = 0 /\ limit = 1
  /\ ceiling \in Leftovers /\ open = (ceiling > 0) /\ opened = 0
  /\ pressure = 0
  /\ recent = NoCounters /\ due = 0 /\ taken = 0 /\ ctl = "idle"

(* runInitialization: the pattern, the first rate and the limiter; a first  *)
(* rate of zero becomes 100.  The breaker and its counters keep what the    *)
(* last run left in them.                                                   *)
InitialRate(r) ==
  LET first == GetRate(r, 0, FirstRate(r)) IN IF first <= 0 THEN 100 ELSE first

Start(r) ==
  /\ Accepted(r)
  /\ runs < MaxRuns /\ ctl = "idle"
  /\ req' = r /\ runs' = runs + 1 /\ elapsed' = 0
  /\ patRate' = FirstRate(r)
  /\ rate' = InitialRate(r) /\ limit' = LimiterRate(InitialRate(r))
  /\ UNCHANGED <<circuit, pressure, load>>

(* Reset, between two runs *)
Reset ==
  /\ ctl = "idle"
  /\ req' = NoRequest /\ rate' = 0
  /\ open' = FALSE /\ ceiling' = 0 /\ opened' = 0 /\ pressure' = 0
  /\ recent' = NoCounters
  /\ UNCHANGED <<runs, elapsed, patRate, limit, due, taken, ctl>>

(* tpsCalculator, the rate tick of the patterns that follow the clock; a     *)
(* ramp remembers only the rates between its ends                            *)
Remembers(r, t) == r.pattern = "spike" \/ (r.pattern = "ramp" /\ 0 < t /\ t < Ticks(r.sec))

RateTick ==
  /\ req # NoRequest /\ ~Adaptive(req)
  /\ elapsed < TickBound
  /\ elapsed' = elapsed + 1
  /\ LET new == GetRate(req, elapsed', patRate) IN
       /\ rate' = new /\ limit' = LimiterRate(new)
       /\ patRate' = IF Remembers(req, elapsed') THEN new ELSE patRate
  /\ UNCHANGED <<req, runs, circuit, pressure, load>>

-----------------------------------------------------------------------------
(* The counters of the breaker *)

(* The workers of a window: every send is counted when its batch is built *)
SendWindow ==
  /\ req # NoRequest /\ Adaptive(req)
  /\ recent.sends = 0 /\ due = 0
  /\ recent' = [recent EXCEPT !.sends = rate \div 2]
  /\ due' = rate \div 2
  /\ UNCHANGED <<req, runs, elapsed, patRate, rate, limit, circuit, pressure, taken, ctl>>

(* Its answers, and the revocations of its preconfirmations *)
Answered(o) ==
  /\ due > 0
  /\ recent' = [recent EXCEPT !.fails = @ + (due * o.failed) \div 100,
                              !.revoked = @ + (due * o.revoked) \div 100]
  /\ due' = 0
  /\ UNCHANGED <<req, runs, elapsed, patRate, rate, limit, circuit, pressure, taken, ctl>>

(* fetchBuilderPressure: an error forgets the pressure, an answer that does *)
(* not decode keeps it; a builder that names no size is taken for 50000.     *)
(* Percents are rounded up, so that what is over 80 stays over.              *)
PressureOf(status) ==
  LET capacity == IF status.maxTxs * 2 <= 0 THEN 50000 ELSE status.maxTxs * 2
  IN  Smaller(100, (100 * status.pending + capacity - 1) \div capacity)

FetchPressure(answer) ==
  /\ req # NoRequest /\ Adaptive(req)
  /\ pressure' = CASE answer.kind = "error"     -> 0
                   [] answer.kind = "garbled" -> pressure
                   [] answer.kind = "status"  -> PressureOf(answer)
  /\ UNCHANGED <<req, runs, elapsed, patRate, rate, limit, circuit, load>>

-----------------------------------------------------------------------------
(* adaptiveController: one tick.  It swaps the sends, then the two failure    *)
(* counters: what is sent and answered in between has its failures in this   *)
(* tick and its sends in the next one.                                       *)

SwapSends ==
  /\ req # NoRequest /\ Adaptive(req) /\ ctl = "idle"
  /\ taken' = recent.sends
  /\ recent' = [recent EXCEPT !.sends = 0]
  /\ ctl' = "swapped"
  /\ UNCHANGED <<req, runs, elapsed, patRate, rate, limit, circuit, pressure, due>>

MinSamples == IF open THEN 20 ELSE 100
Enough == taken >= MinSamples
(* over 30 % failed, or over 10 % revoked *)
Failing == Enough /\ (10 * recent.fails > 3 * taken \/ 10 * recent.revoked > taken)
(* under 5 % of both together *)
Healthy == Enough /\ 20 * (recent.fails + recent.revoked) < taken
Pressed == pressure > 80

Target(r) == IF r.target <= 0 THEN 1000 ELSE r.target
Step(r)   == IF r.step <= 0 THEN 100 ELSE r.step

(* The three places every branch writes the new rate to *)
Apply(new) ==
  /\ rate' = new /\ limit' = LimiterRate(new) /\ patRate' = new

Trip ==
  /\ ~open /\ Failing
  /\ open' = TRUE /\ ceiling' = rate /\ opened' = runs
  /\ Apply(Larger(50, rate \div 2))

Throttled == Larger(100, rate \div 2)

(* Mutant: the rate the circuit opened at is no limit. *)
Probed_Uncapped == rate + rate \div 2

Probed ==
  LET more == rate + rate \div 2
  IN  IF ceiling > 0 THEN Smaller(more, ceiling) ELSE more

(* What pendingCount asks for, the circuit being closed *)
Adjusted(pending) ==
  CASE pending < Target(req)     -> rate + Step(req)
    [] pending > 4 * Target(req) -> Larger(10, rate \div 2)
    [] pending > 2 * Target(req) /\ pending <= 4 * Target(req) ->
         Larger(10, rate - 2 * Step(req))
    [] pending > Target(req) /\ pending <= 2 * Target(req) ->
         Larger(10, rate - Step(req))
    [] pending = Target(req)     -> rate

NoTrip(pending) ==
  /\ ~(~open /\ Failing)
  /\ open' = (open /\ ~Healthy)
  /\ UNCHANGED <<ceiling, opened>>
  /\ \/ /\ ~open' /\ Pressed
        /\ Apply(Throttled)
     \/ /\ open'
        /\ Apply(Probed)
     \/ /\ ~open' /\ ~Pressed
        /\ rate >= RateBound => pending >= Target(req)
        /\ IF pending = Target(req) THEN UNCHANGED <<rate, limit, patRate>>
                                    ELSE Apply(Adjusted(pending))

Decide(pending) ==
  /\ ctl = "swapped"
  /\ ctl' = "idle" /\ taken' = 0
  /\ recent' = [recent EXCEPT !.fails = 0, !.revoked = 0]
  /\ Trip \/ NoTrip(pending)
  /\ UNCHANGED <<req, runs, elapsed, pressure, due>>

Next ==
  \/ \E r \in Requests : Start(r)
  \/ Reset
  \/ RateTick
  \/ SendWindow
  \/ \E o \in Outcomes : Answered(o)
  \/ \E answer \in Pressures : FetchPressure(answer)
  \/ SwapSends
  \/ \E pending \in Levels : Decide(pending)

Spec == Init /\ [][Next]_vars

-----------------------------------------------------------------------------
(* Properties *)

(* Rates are natural numbers, a window's counters too; the limiter never gets *)
(* a rate of nothing, on which it would divide.                              *)
TypeOK ==
  /\ req \in Requests \cup {NoRequest}
  /\ runs \in 0..MaxRuns /\ elapsed \in 0..TickBound
  /\ {patRate, rate, ceiling} \subseteq Nat /\ limit \in Nat \ {0}
  /\ open \in BOOLEAN /\ opened \in 0..MaxRuns
  /\ pressure \in 0..100
  /\ recent \in [sends : Nat, fails : Nat, revoked : Nat]
  /\ due \in Nat /\ taken \in Nat
  /\ ctl \in {"idle", "swapped"}

(* The rates a request names.                                                *)
Ends(r) ==
  CASE r.pattern = "constant" -> {r.rate}
    [] r.pattern = "ramp"     -> {r.start, r.end}
    [] r.pattern = "spike"    -> {r.baseline, r.spike}

(* The rate of a run that follows the clock stays between the two rates its  *)
(* accepted request names at every tick - also after the end of the ramp,    *)
(* while the run drains, with a spike longer than its interval, with a       *)
(* falling ramp - but for the 100 that stands for a first rate of nothing;   *)
(* and the limiter is never given less than one per second.                  *)
RateWithinRequest ==
  req # NoRequest /\ ~Adaptive(req) =>
    /\ \/ \E a, b \in Ends(req) : a <= rate /\ rate <= b
       \/ elapsed = 0 /\ rate = 100
    /\ limit = LimiterRate(rate)

(* The circuit opened at some rate, the controller probes upward from half   *)
(* of it and closes when the failures are gone: in the run that opened it    *)
(* the rate never exceeds the one it failed at while it is open, except for  *)
(* the floor of 50.                                                          *)
CircuitCeiling ==
  open /\ opened = runs /\ req # NoRequest => rate <= Larger(50, ceiling)
=============================================================================
