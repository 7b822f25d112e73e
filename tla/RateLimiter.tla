---------------------------- MODULE RateLimiter ----------------------------
(* The limiter every sender worker waits at (internal/ratelimit/limiter.go): *)
(* Wait reserves the next permit under the lock and sleeps without it, a     *)
(* worker whose batch lingers too long or whose test is over cancels its     *)
(* wait and gives a permit back, and the controllers change the rate while   *)
(* others sleep.                                                             *)
(*                                                                           *)
(* Time is discrete; an interval is a number of its units.  Timers may be    *)
(* late.                                                                     *)
EXTENDS Integers, FiniteSets, FiniteSetsExt

CONSTANTS
  Waiters,    \* goroutines that wait at the same time
  Rates,      \* rates a controller may ask for, none below zero
  Second,     \* units of time in a second
  Horizon,    \* bound on the time
  Backlog,    \* bound on how far permits are reserved ahead
  MaxPermits  \* bound on the permits granted

VARIABLES
  now,        \* the time since New
  nextPermit, \* nextPermitTime
  interval,   \* interval
  permit,     \* per waiter: the time of its permit, Free when it does not wait
  taken,      \* per waiter: the interval its reservation took (history)
  granted,    \* permits granted (history)
  fastest,    \* the shortest interval there has been (history)
  slowest,    \* the longest (history)
  uneven      \* a cancelled wait gave back another interval than it took (history)

vars == <<now, nextPermit, interval, permit, taken, granted, fastest, slowest, uneven>>
history == <<granted, fastest, slowest, uneven>>

Free == -Horizon - Second
Sleeping == {w \in Waiters : permit[w] # Free}

(* A rate of nothing is taken for one per second *)
Interval(rate) == Second \div (IF rate <= 0 THEN 1 ELSE rate)

Init ==
  /\ now = 0 /\ nextPermit = 0
  /\ interval \in {Interval(r) : r \in Rates}
  /\ permit = [w \in Waiters |-> Free] /\ taken = [w \in Waiters |-> 0]
  /\ granted = 0 /\ fastest = interval /\ slowest = interval /\ uneven = FALSE

Tick ==
  /\ now < Horizon
  /\ now' = now + 1
  /\ UNCHANGED <<nextPermit, interval, permit, taken, history>>

(* Wait: a permit of the past is used at once *)
Wait(w) ==
  /\ w \notin Sleeping
  /\ nextPermit <= now + Backlog /\ granted < MaxPermits
  /\ nextPermit' = nextPermit + interval
  /\ IF nextPermit <= now
     THEN granted' = granted + 1 /\ UNCHANGED <<permit, taken>>
     ELSE /\ permit' = [permit EXCEPT ![w] = nextPermit]
          /\ taken' = [taken EXCEPT ![w] = interval]
          /\ UNCHANGED granted
  /\ UNCHANGED <<now, interval, fastest, slowest, uneven>>

(* its timer *)
Wake(w) ==
  /\ w \in Sleeping /\ permit[w] <= now
  /\ granted' = granted + 1
  /\ permit' = [permit EXCEPT ![w] = Free] /\ taken' = [taken EXCEPT ![w] = 0]
  /\ UNCHANGED <<now, nextPermit, interval, fastest, slowest, uneven>>

(* its context, which may win against a timer that fired too: the interval  *)
(* of now is given back                                                     *)
Cancel(w) ==
  /\ w \in Sleeping
  /\ nextPermit' = nextPermit - interval
  /\ uneven' = (uneven \/ taken[w] # interval)
  /\ permit' = [permit EXCEPT ![w] = Free] /\ taken' = [taken EXCEPT ![w] = 0]
  /\ UNCHANGED <<now, interval, granted, fastest, slowest>>

(* Mutant: what was reserved is forgotten. *)
SetRate_Forgets(rate) ==
  /\ interval' = Interval(rate)
  /\ nextPermit' = now
  /\ fastest' = Min({fastest, interval'}) /\ slowest' = Max({slowest, interval'})
  /\ UNCHANGED <<now, permit, taken, granted, uneven>>

(* SetRate *)
SetRate(rate) ==
  /\ interval' = Interval(rate)
  /\ nextPermit' = Max({nextPermit, now})
  /\ fastest' = Min({fastest, interval'}) /\ slowest' = Max({slowest, interval'})
  /\ UNCHANGED <<now, permit, taken, granted, uneven>>

Next ==
  \/ Tick
  \/ \E w \in Waiters : Wait(w)
  \/ \E w \in Waiters : Wake(w)
  \/ \E w \in Waiters : Cancel(w)
  \/ \E rate \in Rates : SetRate(rate)

Spec == Init /\ [][Next]_vars

-----------------------------------------------------------------------------
(* Properties *)

(* Intervals are those of rates that were asked for.                         *)
TypeOK ==
  /\ now \in 0..Horizon /\ nextPermit \in Int
  /\ {interval, fastest, slowest} \subseteq {Interval(r) : r \in Rates}
  /\ permit \in [Waiters -> Int] /\ taken \in [Waiters -> Nat]
  /\ granted \in Nat /\ uneven \in BOOLEAN

(* Permits given back by cancelled waits are handed out again, below those   *)
(* that others still sleep for, and the rate changes in between: over its    *)
(* whole life the limiter grants no more than its fastest rate allows, and   *)
(* never reserves further ahead than its sleepers' own turns - as long as    *)
(* every cancelled wait gives back what it took.                             *)
PaceKept ==
  ~uneven =>
    /\ (granted - 1) * fastest <= now
    /\ nextPermit <= now + (Cardinality(Sleeping) + 1) * slowest
=============================================================================
