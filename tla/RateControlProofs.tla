-------------------------- MODULE RateControlProofs --------------------------
(* Theorems about RateControl, for all requests whose fields are integers    *)
(* and whatever the builder answers, the workers send and their answers say. *)
(*                                                                           *)
(* The one argument about both kinds of run is that the controller works in  *)
(* adaptive runs only: a run that follows the clock has its rate from the    *)
(* pattern, and a circuit that is open in it was opened by an earlier run.   *)
EXTENDS RateControl, TLAPS

(* The controller is at work in adaptive runs only.                          *)
Controlled ==
  /\ runs \in Nat /\ opened \in Nat /\ elapsed \in Nat /\ opened <= runs
  /\ ctl \in {"idle", "swapped"} /\ (ctl = "swapped" => Adaptive(req))
  /\ req # NoRequest => req \in Requests /\ Accepted(req)

(* CircuitCeiling is not inductive: a circuit of this run belongs to an      *)
(* adaptive one, and the ceiling it keeps is a rate.                         *)
UnderCeiling ==
  /\ Adaptive(req) => rate \in Nat \ {0}
  /\ open \in BOOLEAN
  /\ open => ceiling \in Nat \ {0}
  /\ open /\ opened = runs /\ req # NoRequest =>
       Adaptive(req) /\ rate <= Larger(50, ceiling)

Inv == Controlled /\ UnderCeiling

-----------------------------------------------------------------------------
(* An integer quotient is between the integers its dividend is between.      *)
LEMMA DivBetween ==
  ASSUME NEW n \in Int, NEW d \in Nat \ {0}, NEW b \in Int, NEW c \in Int,
         b * d <= n, n <= c * d
  PROVE  (n \div d) \in Int /\ b <= (n \div d) /\ (n \div d) <= c
<1> DEFINE q == n \div d
<1>1. q \in Int /\ d * q <= n /\ n < d * q + d
  OBVIOUS
<1> HIDE DEF q
<1>2. b <= q
  BY <1>1
<1>3. q <= c
  BY <1>1
<1>4. QED
  BY <1>1, <1>2, <1>3 DEF q

(* A ramp, rising or falling, is between its ends at every time.             *)
LEMMA RampBetween ==
  ASSUME NEW r, r.start \in Int, r.end \in Int, r.sec \in Int, NEW t \in Int
  PROVE  \E a, b \in {r.start, r.end} : a <= RampRate(r, t) /\ RampRate(r, t) <= b
<1> DEFINE s == r.start
           e == r.end
           d == Ticks(r.sec)
<1>1. d \in Int
  BY DEF Ticks
<1> HIDE DEF d
<1>2. CASE t <= 0 \/ t >= d
  <2>1. RampRate(r, t) \in {s, e}
    BY <1>1, <1>2 DEF RampRate, d
  <2>2. QED
    BY <2>1
<1>3. CASE 0 < t /\ t < d /\ e >= s
  <2> DEFINE n == t * (e - s)
  <2>1. n \in Int /\ d \in Nat \ {0} /\ 0 * d <= n /\ n <= (e - s) * d
    BY <1>1, <1>3
  <2>2. RampRate(r, t) = s + (n \div d)
    BY <1>1, <1>3 DEF RampRate, d
  <2> HIDE DEF n
  <2>3. (n \div d) \in Int /\ 0 <= (n \div d) /\ (n \div d) <= e - s
    BY <2>1, DivBetween
  <2>4. s <= RampRate(r, t) /\ RampRate(r, t) <= e
    BY <2>2, <2>3
  <2>5. QED
    BY <2>4
<1>4. CASE 0 < t /\ t < d /\ ~ (e >= s)
  <2> DEFINE n == s * d - t * (s - e)
  <2>1. n \in Int /\ d \in Nat \ {0}
    BY <1>1, <1>4
  <2>2. n <= s * d
    <3>1. t * (s - e) >= 0
      BY <1>1, <1>4
    <3>2. QED
      BY <3>1, <1>1
  <2>3. e * d <= n
    <3>1. n - e * d = (s - e) * (d - t)
      BY <1>1
    <3>2. (s - e) * (d - t) >= 0
      BY <1>1, <1>4
    <3>3. QED
      BY <3>1, <3>2, <1>1
  <2>4. RampRate(r, t) = n \div d
    BY <1>1, <1>4 DEF RampRate, d
  <2> HIDE DEF n
  <2>5. e <= (n \div d) /\ (n \div d) <= s
    BY <2>1, <2>2, <2>3, DivBetween
  <2>6. QED
    BY <2>4, <2>5
<1>5. QED
  BY <1>1, <1>2, <1>3, <1>4

(* The numbers of an interval are in their range, however long it is.        *)
LEMMA InInterval ==
  ASSUME NEW a \in Nat, NEW b \in Nat
  PROVE  \A x \in a..b : x \in Nat /\ x >= a
OBVIOUS

LEMMA UpToMaxTPS == (\A x \in 0..MaxTPS : x >= 0) /\ (\A x \in 1..MaxTPS : x \in Nat)
<1>1. MaxTPS \in Nat /\ 0 \in Nat /\ 1 \in Nat
  BY DEF MaxTPS
<1>2. QED
  BY <1>1, InInterval, Zenon

(* What a request that validateStartRequest accepted is like.                *)
LEMMA AcceptedShape ==
  ASSUME NEW r \in Requests, Accepted(r)
  PROVE  /\ r.pattern \in {"constant", "ramp", "spike", "adaptive"}
         /\ r # NoRequest
         /\ r.pattern = "constant" => r.rate \in Int
         /\ r.pattern = "ramp" => r.start \in Int /\ r.end \in Int /\ r.sec \in Int
         /\ r.pattern = "spike" => r.baseline \in Int /\ r.spike \in Int
         /\ r.pattern = "adaptive" => /\ r.initial \in Int /\ r.initial >= 0
                                      /\ r.target \in Int /\ r.step \in Int
<1>1. r.pattern \in {"constant", "ramp", "spike", "adaptive"}
  BY DEF Accepted
<1>2. r # NoRequest
  BY <1>1 DEF NoRequest
<1>3. ASSUME r.pattern = "adaptive" PROVE r.initial >= 0
  <2>1. r.initial \in 0..MaxTPS
    BY <1>3, Zenon DEF Accepted
  <2>2. QED
    BY <2>1, UpToMaxTPS, Zenon
<1>4. /\ r.pattern = "constant" => r.rate \in Int
      /\ r.pattern = "ramp" => {r.start, r.end, r.sec} \subseteq Int
      /\ r.pattern = "spike" => {r.baseline, r.spike} \subseteq Int
      /\ r.pattern = "adaptive" => {r.initial, r.target, r.step} \subseteq Int
  BY RateControlAssumption, Zenon
<1>5. QED
  BY <1>1, <1>2, <1>3, <1>4

(* At every time a pattern's rate is between two rates of its request.       *)
Within(r, x) == \E a, b \in Ends(r) : a <= x /\ x <= b

(* Each pattern, at each time, is between the rates of its accepted request. *)
LEMMA RateWithin ==
  ASSUME NEW r \in Requests, Accepted(r), ~ Adaptive(r), NEW t \in Int, NEW c
  PROVE  Within(r, GetRate(r, t, c))
<1>1. CASE r.pattern = "constant"
  <2>1. GetRate(r, t, c) = r.rate /\ Ends(r) = {r.rate}
    BY <1>1 DEF GetRate, Ends
  <2>2. r.rate \in Int
    BY <1>1, AcceptedShape
  <2>3. QED
    BY <2>1, <2>2 DEF Within
<1>2. CASE r.pattern = "ramp"
  <2>1. GetRate(r, t, c) = RampRate(r, t) /\ Ends(r) = {r.start, r.end}
    BY <1>2 DEF GetRate, Ends
  <2>2. r.start \in Int /\ r.end \in Int /\ r.sec \in Int
    BY <1>2, AcceptedShape
  <2>3. QED
    BY <2>1, <2>2, RampBetween DEF Within
<1>3. CASE r.pattern = "spike"
  <2>1. GetRate(r, t, c) \in {r.baseline, r.spike} /\ Ends(r) = {r.baseline, r.spike}
    BY <1>3 DEF GetRate, Ends, SpikeRate
  <2>2. r.baseline \in Int /\ r.spike \in Int
    BY <1>3, AcceptedShape
  <2>3. GetRate(r, t, c) \in Int /\ GetRate(r, t, c) \in Ends(r)
    BY <2>1, <2>2
  <2>4. QED
    BY <2>3 DEF Within
<1>4. QED
  BY <1>1, <1>2, <1>3, AcceptedShape DEF Adaptive
-----------------------------------------------------------------------------
(* Between runs nothing is adaptive.                                         *)
LEMMA AdaptiveIsARequest == Adaptive(req) => req # NoRequest
BY DEF Adaptive, NoRequest

(* The first rate of a run is a positive one where it is adaptive.           *)
LEMMA FirstRatePositive ==
  ASSUME NEW r \in Requests, Accepted(r), Adaptive(r)
  PROVE  InitialRate(r) \in Nat \ {0}
<1>1. r.initial \in Int /\ GetRate(r, 0, FirstRate(r)) = r.initial
  BY AcceptedShape DEF Adaptive, GetRate, FirstRate
<1>2. QED
  BY <1>1 DEF InitialRate

(* Whatever pendingCount says, the controller asks for a positive rate.      *)
LEMMA AdjustedPositive ==
  ASSUME NEW pending \in Levels, rate \in Nat \ {0}, pending # Target(req),
         req \in Requests, Accepted(req), Adaptive(req)
  PROVE  Adjusted(pending) \in Nat \ {0}
<1> DEFINE T == Target(req)
           S == Step(req)
<1>1. req.target \in Int /\ req.step \in Int
  BY AcceptedShape DEF Adaptive
<1>2. T \in Nat \ {0} /\ S \in Nat \ {0} /\ pending \in Nat
  BY <1>1, RateControlAssumption DEF Target, Step
<1> HIDE DEF T, S
<1>3. \/ /\ pending < T /\ ~ (pending > 4 * T)
         /\ ~ (pending > 2 * T) /\ ~ (pending > T) /\ pending # T
      \/ /\ ~ (pending < T) /\ pending > 4 * T /\ ~ (pending <= 4 * T)
         /\ ~ (pending <= 2 * T) /\ pending # T
      \/ /\ ~ (pending < T) /\ ~ (pending > 4 * T) /\ pending > 2 * T /\ pending <= 4 * T
         /\ ~ (pending <= 2 * T) /\ pending # T
      \/ /\ ~ (pending < T) /\ ~ (pending > 4 * T) /\ ~ (pending > 2 * T)
         /\ pending > T /\ pending <= 2 * T /\ pending # T
  <2>1. pending # T
    BY DEF T
  <2>2. QED
    BY <1>2, <2>1
<1>4. Adjusted(pending) \in {rate + S, Larger(10, rate \div 2),
                             Larger(10, rate - 2 * S), Larger(10, rate - S)}
  BY <1>3, Zenon DEF Adjusted, T, S
<1>5. QED
  BY <1>2, <1>4 DEF Larger

-----------------------------------------------------------------------------
(* Nothing has been asked for yet.                                           *)
LEMMA InitInv == Init => Inv
<1> SUFFICES ASSUME Init PROVE Inv
  OBVIOUS
<1>1. Controlled
  BY DEF Init, Controlled
<1>2. ~ Adaptive(req)
  BY DEF Init, Adaptive, NoRequest
<1>3. open \in BOOLEAN /\ (open => ceiling \in Nat \ {0})
  <2>1. ceiling \in Nat /\ open = (ceiling > 0)
    BY RateControlAssumption DEF Init
  <2>2. (ceiling > 0) \in BOOLEAN
    BY <2>1
  <2>3. (ceiling > 0) => ceiling # 0
    BY <2>1
  <2>4. QED
    BY <2>1, <2>2, <2>3, Zenon
<1>4. QED
  BY <1>1, <1>2, <1>3 DEF Init, Inv, UnderCeiling

(* Steps that leave the rate and the breaker alone.                          *)
LEMMA Frame ==
  ASSUME UnderCeiling, UNCHANGED <<req, runs, rate, circuit>>
  PROVE  UnderCeiling'
BY DEF UnderCeiling, circuit, Adaptive, Larger

(* One tick of the controller.                                               *)
LEMMA DecideKeeps ==
  ASSUME Inv, NEW pending \in Levels, Decide(pending)
  PROVE  Inv'
<1> USE DEF Inv
<1>1. Adaptive(req) /\ req' = req /\ runs' = runs /\ req # NoRequest
  BY AdaptiveIsARequest DEF Controlled, Decide
<1>2. rate \in Nat \ {0} /\ req \in Requests /\ Accepted(req) /\ Adaptive(req')
  BY <1>1 DEF UnderCeiling, Controlled, Adaptive
<1>3. CASE Trip
  <2>1. open' /\ ceiling' = rate /\ opened' = runs /\ rate' = Larger(50, rate \div 2)
    BY <1>3 DEF Trip, Apply
  <2>2. rate' \in Nat \ {0} /\ rate' <= Larger(50, ceiling')
    BY <2>1, <1>2 DEF Larger
  <2>3. UnderCeiling'
    BY <2>1, <2>2, <1>1, <1>2 DEF UnderCeiling, Trip
  <2>4. Controlled'
    BY <2>1, <1>1, <1>2 DEF Controlled, Decide
  <2>5. QED
    BY <2>3, <2>4
<1>4. CASE NoTrip(pending)
  <2>1. open' = (open /\ ~ Healthy) /\ ceiling' = ceiling /\ opened' = opened
    BY <1>4 DEF NoTrip
  <2>2. Controlled'
    BY <2>1, <1>1, <1>2 DEF Controlled, Decide
  <2>3. open' \in BOOLEAN /\ (open' => ceiling' \in Nat \ {0})
    BY <2>1 DEF UnderCeiling
  <2>4. CASE ~ open' /\ Pressed /\ Apply(Throttled)
    <3>1. rate' \in Nat \ {0}
      BY <2>4, <1>2 DEF Apply, Throttled, Larger
    <3>2. QED
      BY <3>1, <2>2, <2>3, <2>4 DEF UnderCeiling
  <2>5. CASE open' /\ Apply(Probed)
    <3>1. rate' = Smaller(rate + (rate \div 2), ceiling) /\ ceiling \in Nat \ {0}
      BY <2>1, <2>3, <2>5 DEF Apply, Probed
    <3>2. rate' \in Nat \ {0} /\ rate' <= ceiling'
      BY <3>1, <1>2, <2>1 DEF Smaller
    <3>3. rate' <= Larger(50, ceiling')
      BY <3>2, <2>3, <2>5 DEF Larger
    <3>4. QED
      BY <3>2, <3>3, <2>2, <2>3, <1>2 DEF UnderCeiling
  <2>6. CASE ~ open' /\ ~ Pressed /\ (IF pending = Target(req) THEN UNCHANGED <<rate, limit, patRate>>
                                                              ELSE Apply(Adjusted(pending)))
    <3>1. rate' \in Nat \ {0}
      BY <2>6, <1>1, <1>2, AdjustedPositive DEF Apply
    <3>2. QED
      BY <3>1, <2>2, <2>3, <2>6 DEF UnderCeiling
  <2>7. QED
    BY <1>4, <2>4, <2>5, <2>6 DEF NoTrip
<1>5. QED
  BY <1>3, <1>4 DEF Decide

(* Every step of every kind of run.                                          *)
LEMMA StepInv == Inv /\ [Next]_vars => Inv'
<1> SUFFICES ASSUME Inv, [Next]_vars PROVE Inv'
  OBVIOUS
<1> USE DEF Inv
<1>1. CASE \E r \in Requests : Start(r)
  <2> PICK r \in Requests : Start(r)
    BY <1>1
  <2>1. req' = r /\ Accepted(r) /\ runs' = runs + 1 /\ opened' = opened
    BY DEF Start, circuit
  <2>2. Controlled'
    BY <2>1 DEF Controlled, Start, load, circuit
  <2>3. opened' # runs'
    BY <2>1 DEF Controlled
  <2>4. Adaptive(req') => rate' \in Nat \ {0}
    BY <2>1, FirstRatePositive DEF Start
  <2>5. QED
    BY <2>2, <2>3, <2>4 DEF UnderCeiling, Start, circuit
<1>2. CASE Reset
  <2>1. ~ Adaptive(req') /\ req' = NoRequest
    BY <1>2 DEF Reset, Adaptive, NoRequest
  <2>2. Controlled'
    BY <1>2, <2>1 DEF Reset, Controlled
  <2>3. open' = FALSE
    BY <1>2 DEF Reset
  <2>4. QED
    BY <2>1, <2>2, <2>3, Zenon DEF UnderCeiling
<1>3. CASE RateTick
  <2>1. ~ Adaptive(req) /\ req' = req /\ ~ Adaptive(req') /\ req # NoRequest
    BY <1>3 DEF RateTick, Adaptive
  <2>2. Controlled'
    BY <1>3, <2>1 DEF RateTick, Controlled, circuit, load
  <2>3. QED
    BY <1>3, <2>1, <2>2 DEF RateTick, UnderCeiling, circuit
<1>4. CASE SendWindow
  <2>1. UnderCeiling'
    BY <1>4, Frame DEF SendWindow
  <2>2. QED
    BY <1>4, <2>1 DEF SendWindow, Controlled, circuit, Adaptive
<1>5. CASE \E o \in Outcomes : Answered(o)
  <2> PICK o \in Outcomes : Answered(o)
    BY <1>5
  <2>1. UnderCeiling'
    BY Frame DEF Answered
  <2>2. QED
    BY <2>1 DEF Answered, Controlled, circuit, Adaptive
<1>6. CASE \E answer \in Pressures : FetchPressure(answer)
  <2> PICK answer \in Pressures : FetchPressure(answer)
    BY <1>6
  <2>1. UNCHANGED <<req, runs, elapsed, rate, circuit, load>>
    BY DEF FetchPressure
  <2>2. UnderCeiling'
    BY <2>1, Frame
  <2>3. QED
    BY <2>1, <2>2 DEF Controlled, circuit, load, Adaptive
<1>7. CASE SwapSends
  <2>1. UnderCeiling'
    BY <1>7, Frame DEF SwapSends
  <2>2. QED
    BY <1>7, <2>1 DEF SwapSends, Controlled, circuit, Adaptive
<1>8. CASE \E pending \in Levels : Decide(pending)
  BY <1>8, DecideKeeps
<1>9. CASE UNCHANGED vars
  <2>1. UnderCeiling'
    BY <1>9, Frame DEF vars, circuit
  <2>2. QED
    BY <1>9, <2>1 DEF vars, Controlled, circuit, load, Adaptive
<1>10. QED
  BY <1>1, <1>2, <1>3, <1>4, <1>5, <1>6, <1>7, <1>8, <1>9 DEF Next

(* The inductive invariant holds in every reachable state.                   *)
THEOREM InvAlways == Spec => []Inv
BY InitInv, StepInv, PTL DEF Spec

(* The controller probes upward from half the rate the circuit opened at and *)
(* never passes that rate while it is open, in any run of any length and     *)
(* however the failures fall into the windows of its counters.               *)
THEOREM CircuitCeilingAlways == Spec => []CircuitCeiling
<1>1. Inv => CircuitCeiling
  BY DEF Inv, UnderCeiling, CircuitCeiling
<1>2. QED
  BY <1>1, InvAlways, PTL

-----------------------------------------------------------------------------
(* What the pattern's tick writes is what the pattern says.                  *)
LEMMA StepWithin ==
  RateWithinRequest /\ Inv /\ [Next]_vars => RateWithinRequest'
<1> SUFFICES ASSUME RateWithinRequest, Inv, [Next]_vars, req' # NoRequest, ~ Adaptive(req')
             PROVE  /\ Within(req', rate') \/ (elapsed' = 0 /\ rate' = 100)
                    /\ limit' = LimiterRate(rate')
  BY DEF RateWithinRequest, Within, Adaptive
<1> USE DEF Inv
<1>1. CASE \E r \in Requests : Start(r)
  <2> PICK r \in Requests : Start(r)
    BY <1>1
  <2>1. /\ req' = r /\ Accepted(r) /\ elapsed' = 0
        /\ rate' = InitialRate(r) /\ limit' = LimiterRate(rate')
    BY DEF Start
  <2>2. Within(r, GetRate(r, 0, FirstRate(r)))
    BY <2>1, RateWithin DEF Adaptive
  <2>3. QED
    BY <2>1, <2>2 DEF InitialRate
<1>2. CASE RateTick
  <2>1. req' = req /\ req \in Requests /\ Accepted(req) /\ ~ Adaptive(req) /\ elapsed' \in Int
    BY <1>2 DEF RateTick, Controlled
  <2>2. rate' = GetRate(req, elapsed', patRate) /\ limit' = LimiterRate(rate')
    BY <1>2 DEF RateTick
  <2>3. QED
    BY <2>1, <2>2, RateWithin
<1>3. CASE Reset
  BY <1>3 DEF Reset
<1>4. CASE \E pending \in Levels : Decide(pending)
  <2>1. Adaptive(req) /\ req' = req
    BY <1>4 DEF Decide, Controlled
  <2>2. QED
    BY <2>1 DEF Adaptive
<1>5. CASE UNCHANGED <<req, elapsed, rate, limit>>
  BY <1>5 DEF RateWithinRequest, Within, Adaptive, LimiterRate, Larger, Ends
<1>6. QED
  BY <1>1, <1>2, <1>3, <1>4, <1>5
     DEF Next, SendWindow, Answered, FetchPressure, SwapSends, vars

(* A run that follows the clock keeps to the rates its accepted request      *)
(* names, for all rates and durations, at every tick.                        *)
THEOREM RateWithinAlways == Spec => []RateWithinRequest
<1>1. Init => RateWithinRequest
  BY DEF Init, RateWithinRequest
<1>2. QED
  BY <1>1, StepWithin, InvAlways, PTL DEF Spec

-----------------------------------------------------------------------------
(* Numbers stay natural numbers.  A pattern's rate is one: it is an integer  *)
(* between two that are not negative.                                        *)
LEMMA EndsNatural ==
  ASSUME NEW r \in Requests, Accepted(r)
  PROVE  /\ ~Adaptive(r) => Ends(r) \subseteq Nat
         /\ FirstRate(r) \in Nat
<1>1. \A x \in 1..MaxTPS : x \in Nat
  BY UpToMaxTPS, Zenon
<1>2. CASE r.pattern = "constant"
  <2>1. r.rate \in Nat
    BY <1>1, <1>2, Zenon DEF Accepted
  <2>2. Ends(r) = {r.rate} /\ FirstRate(r) = r.rate
    BY <1>2 DEF Ends, FirstRate
  <2>3. QED
    BY <2>1, <2>2
<1>3. CASE r.pattern = "ramp"
  <2>1. r.start >= 0 /\ r.end \in 1..MaxTPS
    BY <1>3 DEF Accepted
  <2>2. r.start \in Nat /\ r.end \in Nat
    BY <1>1, <1>3, <2>1, AcceptedShape
  <2>3. Ends(r) = {r.start, r.end} /\ FirstRate(r) = r.start
    BY <1>3 DEF Ends, FirstRate
  <2>4. QED
    BY <2>2, <2>3
<1>4. CASE r.pattern = "spike"
  <2>1. r.baseline >= 0 /\ r.spike \in 1..MaxTPS
    BY <1>4 DEF Accepted
  <2>2. r.baseline \in Nat /\ r.spike \in Nat
    BY <1>1, <1>4, <2>1, AcceptedShape
  <2>3. Ends(r) = {r.baseline, r.spike} /\ FirstRate(r) = r.baseline
    BY <1>4 DEF Ends, FirstRate
  <2>4. QED
    BY <2>2, <2>3
<1>5. CASE r.pattern = "adaptive"
  <2>1. r.initial \in Nat
    BY <1>5, AcceptedShape
  <2>2. FirstRate(r) = r.initial
    BY <1>5 DEF FirstRate
  <2>3. QED
    BY <1>5, <2>1, <2>2 DEF Adaptive
<1>6. QED
  BY <1>2, <1>3, <1>4, <1>5, AcceptedShape

LEMMA RateNatural ==
  ASSUME NEW r \in Requests, Accepted(r), ~ Adaptive(r), NEW t \in Int, NEW c
  PROVE  GetRate(r, t, c) \in Nat
<1>1. GetRate(r, t, c) \in Int
  <2>1. CASE r.pattern = "constant"
    <3>1. GetRate(r, t, c) = r.rate
      BY <2>1 DEF GetRate
    <3>2. QED
      BY <2>1, <3>1, AcceptedShape
  <2>2. CASE r.pattern = "ramp"
    <3>1. GetRate(r, t, c) = RampRate(r, t)
      BY <2>2 DEF GetRate
    <3>2. r.start \in Int /\ r.end \in Int /\ r.sec \in Int
      BY <2>2, AcceptedShape
    <3> DEFINE s == r.start
               e == r.end
               d == Ticks(r.sec)
    <3>3. d \in Int
      BY <3>2 DEF Ticks
    <3> HIDE DEF d
    <3>4. CASE t <= 0 \/ t >= d
      BY <3>1, <3>2, <3>4 DEF RampRate, d
    <3>5. CASE 0 < t /\ t < d
      <4>1. d \in Nat \ {0} /\ t * (e - s) \in Int /\ s * d - t * (s - e) \in Int
        BY <3>2, <3>3, <3>5
      <4>2. \A n \in Int : n \div d \in Int
        BY <4>1
      <4>3. RampRate(r, t) \in {s + (t * (e - s)) \div d, (s * d - t * (s - e)) \div d}
        BY <3>3, <3>5 DEF RampRate, d
      <4>4. (t * (e - s)) \div d \in Int /\ (s * d - t * (s - e)) \div d \in Int
        BY <4>1, <4>2
      <4>5. s + (t * (e - s)) \div d \in Int
        BY <3>2, <4>4
      <4>6. QED
        BY <3>1, <4>3, <4>4, <4>5
    <3>6. QED
      BY <3>3, <3>4, <3>5
  <2>3. CASE r.pattern = "spike"
    <3>1. GetRate(r, t, c) \in {r.baseline, r.spike}
      BY <2>3 DEF GetRate, SpikeRate
    <3>2. QED
      BY <2>3, <3>1, AcceptedShape
  <2>4. QED
    BY <2>1, <2>2, <2>3, AcceptedShape DEF Adaptive
<1>2. \E a \in Ends(r) : a <= GetRate(r, t, c)
  BY RateWithin DEF Within
<1>3. Ends(r) \subseteq Nat
  BY EndsNatural
<1>4. QED
  BY <1>1, <1>2, <1>3

(* The percentage of the builder's pool that is full.                        *)
LEMMA PressurePercent ==
  ASSUME NEW a \in Pressures, a.kind = "status"
  PROVE  PressureOf(a) \in 0..100
<1>1. a.pending \in Nat /\ a.maxTxs \in Int
  BY RateControlAssumption
<1> DEFINE capacity == IF a.maxTxs * 2 <= 0 THEN 50000 ELSE a.maxTxs * 2
           n == 100 * a.pending + capacity - 1
<1>2. capacity \in Nat \ {0}
  BY <1>1
<1> HIDE DEF capacity
<1>3. n \in Nat
  BY <1>1, <1>2
<1>4. PressureOf(a) = Smaller(100, n \div capacity)
  BY DEF PressureOf, capacity
<1> HIDE DEF n
<1>5. n \div capacity \in Nat
  BY <1>2, <1>3
<1>6. QED
  BY <1>4, <1>5 DEF Smaller

LEMMA LimiterPositive == \A r \in Nat : LimiterRate(r) \in Nat \ {0}
BY DEF LimiterRate, Larger

(* Whatever the controller decides, it writes natural numbers.               *)
LEMMA DecideTypes ==
  ASSUME TypeOK, Inv, NEW pending \in Levels, Decide(pending)
  PROVE  /\ {patRate', rate', ceiling'} \subseteq Nat /\ limit' \in Nat \ {0}
         /\ open' \in BOOLEAN /\ opened' \in 0..MaxRuns
<1>0. /\ rate \in Nat \ {0} /\ patRate \in Nat /\ ceiling \in Nat /\ limit \in Nat \ {0}
      /\ runs \in 0..MaxRuns /\ opened \in 0..MaxRuns /\ open \in BOOLEAN
      /\ req \in Requests /\ Accepted(req) /\ Adaptive(req)
  BY AdaptiveIsARequest DEF Decide, TypeOK, Inv, Controlled, UnderCeiling
<1>1. ASSUME NEW x \in Nat, Apply(x)
      PROVE  rate' \in Nat /\ patRate' \in Nat /\ limit' \in Nat \ {0}
  BY <1>1, LimiterPositive DEF Apply
<1>2. Larger(50, rate \div 2) \in Nat /\ Throttled \in Nat /\ Probed \in Nat
  <2>1. rate \div 2 \in Nat
    BY <1>0
  <2>2. QED
    BY <1>0, <2>1 DEF Larger, Smaller, Throttled, Probed
<1>3. CASE Trip
  <2>1. Apply(Larger(50, rate \div 2)) /\ open' = TRUE /\ ceiling' = rate /\ opened' = runs
    BY <1>3 DEF Trip
  <2>2. QED
    BY <1>0, <1>1, <1>2, <2>1
<1>4. CASE NoTrip(pending)
  <2>1. ceiling' = ceiling /\ opened' = opened /\ open' = (open /\ ~ Healthy)
    BY <1>4 DEF NoTrip
  <2>2. open' \in BOOLEAN
    BY <1>0, <2>1
  <2>3. \/ Apply(Throttled) \/ Apply(Probed)
        \/ pending = Target(req) /\ UNCHANGED <<rate, limit, patRate>>
        \/ pending # Target(req) /\ Apply(Adjusted(pending))
    BY <1>4 DEF NoTrip
  <2>4. pending # Target(req) => Adjusted(pending) \in Nat
    BY <1>0, AdjustedPositive
  <2>5. rate' \in Nat /\ patRate' \in Nat /\ limit' \in Nat \ {0}
    BY <1>0, <1>1, <1>2, <2>3, <2>4
  <2>6. QED
    BY <1>0, <2>1, <2>2, <2>5
<1>5. QED
  BY <1>3, <1>4 DEF Decide

LEMMA StepTypes == TypeOK /\ Inv /\ [Next]_vars => TypeOK'
<1> SUFFICES ASSUME TypeOK, Inv, [Next]_vars PROVE TypeOK'
  OBVIOUS
<1>0. /\ recent \in [sends : Nat, fails : Nat, revoked : Nat] /\ due \in Nat /\ taken \in Nat
      /\ rate \in Nat /\ MaxRuns \in Nat /\ TickBound \in Nat
  BY RateControlAssumption DEF TypeOK
<1>1. CASE \E r \in Requests : Start(r)
  <2> PICK r \in Requests : Start(r)
    BY <1>1
  <2>1. Accepted(r) /\ req' = r /\ runs' = runs + 1 /\ runs < MaxRuns /\ elapsed' = 0
        /\ patRate' = FirstRate(r) /\ rate' = InitialRate(r) /\ limit' = LimiterRate(rate')
        /\ UNCHANGED <<open, ceiling, opened, pressure, recent, due, taken, ctl>>
    BY DEF Start, circuit, load
  <2>2. runs' \in 0..MaxRuns
    BY <1>0, <2>1 DEF TypeOK
  <2>3. rate' \in Nat
    <3>1. GetRate(r, 0, FirstRate(r)) \in Nat
      <4>1. CASE Adaptive(r)
        BY <2>1, <4>1, EndsNatural DEF Adaptive, GetRate
      <4>2. CASE ~Adaptive(r)
        BY <2>1, <4>2, RateNatural
      <4>3. QED
        BY <4>1, <4>2
    <3>2. QED
      BY <2>1, <3>1 DEF InitialRate
  <2>4. patRate' \in Nat /\ limit' \in Nat \ {0}
    BY <2>1, <2>3, EndsNatural, LimiterPositive
  <2>5. elapsed' \in 0..TickBound
    BY <1>0, <2>1
  <2>6. QED
    BY <2>1, <2>2, <2>3, <2>4, <2>5 DEF TypeOK
<1>2. CASE Reset
  <2>1. 0 \in 0..MaxRuns /\ 0 \in 0..100 /\ NoCounters \in [sends : Nat, fails : Nat, revoked : Nat]
    BY <1>0 DEF NoCounters
  <2>2. /\ req' = NoRequest /\ rate' = 0 /\ open' = FALSE /\ ceiling' = 0 /\ opened' = 0
        /\ pressure' = 0 /\ recent' = NoCounters
        /\ UNCHANGED <<runs, elapsed, patRate, limit, due, taken, ctl>>
    BY <1>2 DEF Reset
  <2>3. open' \in BOOLEAN /\ recent' \in [sends : Nat, fails : Nat, revoked : Nat]
    BY <2>1, <2>2
  <2>4. opened' \in 0..MaxRuns /\ pressure' \in 0..100 /\ {patRate', rate', ceiling'} \subseteq Nat
    BY <2>1, <2>2 DEF TypeOK
  <2>5. req' \in Requests \cup {NoRequest}
    BY <2>2
  <2>6. QED
    BY <2>2, <2>3, <2>4, <2>5 DEF TypeOK
<1>3. CASE RateTick
  <2>1. /\ req # NoRequest /\ ~Adaptive(req) /\ elapsed' = elapsed + 1 /\ elapsed < TickBound
        /\ rate' = GetRate(req, elapsed', patRate) /\ limit' = LimiterRate(rate')
        /\ patRate' \in {rate', patRate}
        /\ UNCHANGED <<req, runs, open, ceiling, opened, pressure, recent, due, taken, ctl>>
    BY <1>3 DEF RateTick, circuit, load
  <2>2. elapsed' \in 0..TickBound /\ elapsed' \in Int
    BY <1>0, <2>1 DEF TypeOK
  <2>3. rate' \in Nat
    BY <2>1, <2>2, RateNatural DEF Inv, Controlled
  <2>4. limit' \in Nat \ {0} /\ patRate' \in Nat
    BY <2>1, <2>3, LimiterPositive DEF TypeOK
  <2>5. QED
    BY <2>1, <2>2, <2>3, <2>4 DEF TypeOK
<1>4. CASE SendWindow
  <2>1. rate \div 2 \in Nat
    BY <1>0
  <2>2. recent' \in [sends : Nat, fails : Nat, revoked : Nat] /\ due' \in Nat
    BY <1>0, <1>4, <2>1 DEF SendWindow
  <2>3. QED
    BY <1>4, <2>2 DEF SendWindow, circuit, TypeOK
<1>5. CASE \E o \in Outcomes : Answered(o)
  <2> PICK o \in Outcomes : Answered(o)
    BY <1>5
  <2>1. o.failed \in Nat /\ o.revoked \in Nat
    BY RateControlAssumption
  <2>2. (due * o.failed) \div 100 \in Nat /\ (due * o.revoked) \div 100 \in Nat
    <3>1. due * o.failed \in Nat /\ due * o.revoked \in Nat
      BY <1>0, <2>1
    <3>2. \A n \in Nat : n \div 100 \in Nat
      OBVIOUS
    <3>3. QED
      BY <3>1, <3>2
  <2>3. recent' = [recent EXCEPT !.fails = recent.fails + (due * o.failed) \div 100,
                                 !.revoked = recent.revoked + (due * o.revoked) \div 100]
    BY DEF Answered
  <2>4. recent' \in [sends : Nat, fails : Nat, revoked : Nat]
    <3> DEFINE a == (due * o.failed) \div 100
               b == (due * o.revoked) \div 100
    <3> HIDE DEF a, b
    <3>1. recent' = [recent EXCEPT !.fails = recent.fails + a, !.revoked = recent.revoked + b]
      BY <2>3 DEF a, b
    <3>2. a \in Nat /\ b \in Nat
      BY <2>2 DEF a, b
    <3>3. recent.fails + a \in Nat /\ recent.revoked + b \in Nat
      BY <1>0, <3>2
    <3> DEFINE m == [recent EXCEPT !.fails = recent.fails + a]
    <3>4. m \in [sends : Nat, fails : Nat, revoked : Nat]
      BY <1>0, <3>3
    <3>5. recent' = [m EXCEPT !.revoked = recent.revoked + b]
      BY <3>1
    <3> HIDE DEF m
    <3>6. QED
      BY <3>3, <3>4, <3>5
  <2>5. due' \in Nat /\ UNCHANGED <<req, runs, elapsed, patRate, rate, limit, circuit, pressure, taken, ctl>>
    BY DEF Answered
  <2>6. QED
    BY <2>4, <2>5 DEF circuit, TypeOK
<1>6. CASE \E answer \in Pressures : FetchPressure(answer)
  <2> PICK answer \in Pressures : FetchPressure(answer)
    BY <1>6
  <2>1. pressure' \in 0..100
    <3>1. answer.kind \in {"error", "garbled", "status"}
      BY RateControlAssumption
    <3>2. CASE answer.kind = "error"
      BY <3>2 DEF FetchPressure
    <3>3. CASE answer.kind = "garbled"
      BY <3>3 DEF FetchPressure, TypeOK
    <3>4. CASE answer.kind = "status"
      BY <3>4, PressurePercent DEF FetchPressure
    <3>5. QED
      BY <3>1, <3>2, <3>3, <3>4
  <2>2. QED
    BY <2>1 DEF FetchPressure, circuit, load, TypeOK
<1>7. CASE SwapSends
  <2>1. recent' \in [sends : Nat, fails : Nat, revoked : Nat] /\ taken' \in Nat
    BY <1>0, <1>7 DEF SwapSends
  <2>2. QED
    BY <1>7, <2>1 DEF SwapSends, circuit, TypeOK
<1>8. CASE \E pending \in Levels : Decide(pending)
  <2> PICK pending \in Levels : Decide(pending)
    BY <1>8
  <2>1. recent' \in [sends : Nat, fails : Nat, revoked : Nat] /\ taken' = 0 /\ ctl' = "idle"
    BY <1>0 DEF Decide
  <2>2. UNCHANGED <<req, runs, elapsed, pressure, due>>
    BY DEF Decide
  <2>3. QED
    BY <2>1, <2>2, DecideTypes DEF TypeOK
<1>9. CASE UNCHANGED vars
  BY <1>9 DEF vars, TypeOK
<1>10. QED
  BY <1>1, <1>2, <1>3, <1>4, <1>5, <1>6, <1>7, <1>8, <1>9 DEF Next

LEMMA InitTypes == Init => TypeOK
<1> SUFFICES ASSUME Init PROVE TypeOK
  OBVIOUS
<1>1. 0 \in 0..MaxRuns /\ 0 \in 0..TickBound /\ NoCounters \in [sends : Nat, fails : Nat, revoked : Nat]
  BY RateControlAssumption DEF NoCounters
<1>2. ceiling \in Nat /\ open \in BOOLEAN
  BY RateControlAssumption, InitInv DEF Init, Inv, UnderCeiling
<1>3. QED
  BY <1>1, <1>2 DEF Init, TypeOK

(* The types, for all requests, levels and answers of the builder.           *)
THEOREM TypeCorrect == Spec => []TypeOK
BY InitTypes, StepTypes, InvAlways, PTL DEF Spec
=============================================================================
