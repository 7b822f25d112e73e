------------------------- MODULE ObservationProofs -------------------------
(* Theorems about the four components of Observation, for all values of      *)
(* their constants that ObservationAssumption allows.                        *)
EXTENDS Observation, RateControlProofs, Sequences, FiniteSetTheorems, WellFoundedInduction

(* The theorems of BlockMetricsProofs, for the same constants and variables. *)
Proved == INSTANCE BlockMetricsProofs

-----------------------------------------------------------------------------
(* Arithmetic *)

LEMMA TimesMonotone ==
  ASSUME NEW a \in Int, NEW b \in Int, NEW c \in Nat, a <= b
  PROVE  a * c <= b * c /\ a * c \in Int /\ b * c \in Int
OBVIOUS

LEMMA TimesMonotoneRight ==
  ASSUME NEW a \in Nat, NEW b \in Int, NEW c \in Int, b <= c
  PROVE  a * b <= a * c
OBVIOUS

LEMMA TimesNext ==
  ASSUME NEW a \in Int, NEW c \in Int
  PROVE  (a + 1) * c = a * c + c
OBVIOUS

(* The least and the greatest of two numbers.                                *)
LEMMA MinPair ==
  ASSUME NEW a \in Int, NEW b \in Int
  PROVE  /\ Limiter!Min({a, b}) \in {a, b}
         /\ Limiter!Min({a, b}) <= a /\ Limiter!Min({a, b}) <= b
<1>1. \E m \in {a, b} : \A n \in {a, b} : m <= n
  OBVIOUS
<1>2. QED
  BY <1>1 DEF Limiter!Min

LEMMA MaxPair ==
  ASSUME NEW a \in Int, NEW b \in Int
  PROVE  /\ Limiter!Max({a, b}) \in {a, b}
         /\ Limiter!Max({a, b}) >= a /\ Limiter!Max({a, b}) >= b
<1>1. \E m \in {a, b} : \A n \in {a, b} : m >= n
  OBVIOUS
<1>2. QED
  BY <1>1 DEF Limiter!Max

-----------------------------------------------------------------------------
(* RateLimiter.  What the sleepers took of the time ahead is a sum over a    *)
(* set: a function on the sets of waiters that is nothing on none and grows  *)
(* by what a waiter took.                                                    *)
Slept == Limiter!Sleeping

IsSum(g, took) ==
  /\ g \in [SUBSET Waiters -> Int] /\ g[{}] = 0
  /\ \A T \in SUBSET Waiters : \A w \in Waiters \ T : g[T \cup {w}] = g[T] + took[w]

(* It grows for the sets that have w, to which n was added.                  *)
IsGrown(h, g, w, n) ==
  \A T \in SUBSET Waiters :
    /\ w \notin T => h[T] = g[T]
    /\ w \in T => h[T] = g[T \ {w}] + n

LEMMA SumUpdate ==
  ASSUME NEW took \in [Waiters -> Nat], NEW g, IsSum(g, took), NEW w \in Waiters, NEW n \in Nat
  PROVE  \E h : IsSum(h, [took EXCEPT ![w] = n]) /\ IsGrown(h, g, w, n)
<1> DEFINE h == [T \in SUBSET Waiters |-> IF w \in T THEN g[T \ {w}] + n ELSE g[T]]
           new == [took EXCEPT ![w] = n]
<1>1. g \in [SUBSET Waiters -> Int] /\ g[{}] = 0
      /\ \A T \in SUBSET Waiters : \A v \in Waiters \ T : g[T \cup {v}] = g[T] + took[v]
  BY DEF IsSum
<1>2. h \in [SUBSET Waiters -> Int]
  <2>1. \A T \in SUBSET Waiters : T \ {w} \in SUBSET Waiters
    OBVIOUS
  <2>2. QED
    BY <1>1, <2>1
<1>3. h[{}] = 0
  BY <1>1
<1>4. ASSUME NEW T \in SUBSET Waiters, NEW v \in Waiters \ T
      PROVE  h[T \cup {v}] = h[T] + new[v]
  <2>1. T \cup {v} \in SUBSET Waiters /\ T \ {w} \in SUBSET Waiters
    OBVIOUS
  <2>2. CASE v = w
    <3>1. (T \cup {v}) \ {w} = T
      BY <2>2
    <3>2. h[T \cup {v}] = g[T] + n /\ h[T] = g[T] /\ new[v] = n
      BY <2>1, <2>2, <3>1
    <3>3. QED
      BY <3>2
  <2>3. CASE v # w /\ w \in T
    <3>1. (T \cup {v}) \ {w} = (T \ {w}) \cup {v} /\ v \in Waiters \ (T \ {w})
      BY <2>3
    <3>2. h[T \cup {v}] = g[(T \ {w}) \cup {v}] + n /\ h[T] = g[T \ {w}] + n /\ new[v] = took[v]
      BY <2>1, <2>3, <3>1
    <3>3. g[(T \ {w}) \cup {v}] = g[T \ {w}] + took[v]
      BY <1>1, <2>1, <3>1
    <3>4. g[T \ {w}] \in Int /\ took[v] \in Nat
      BY <1>1, <2>1
    <3>5. QED
      BY <3>2, <3>3, <3>4
  <2>4. CASE v # w /\ w \notin T
    <3>1. h[T \cup {v}] = g[T \cup {v}] /\ h[T] = g[T] /\ new[v] = took[v]
      BY <2>1, <2>4
    <3>2. QED
      BY <1>1, <3>1
  <2>5. QED
    BY <2>2, <2>3, <2>4
<1>5. IsSum(h, new)
  BY <1>2, <1>3, <1>4 DEF IsSum
<1>6. IsGrown(h, g, w, n)
  BY DEF IsGrown
<1>7. QED
  BY <1>5, <1>6

LEMMA SameCardinality == \A S : Limiter!Cardinality(S) = Cardinality(S)
BY DEF Limiter!Cardinality, Cardinality

LEMMA CountWaiters ==
  /\ \A T \in SUBSET Waiters : IsFiniteSet(T) /\ Cardinality(T) \in Nat
  /\ Cardinality({}) = 0
  /\ \A T \in SUBSET Waiters : \A w \in Waiters \ T : Cardinality(T \cup {w}) = Cardinality(T) + 1
  /\ \A T \in SUBSET Waiters : \A w \in T : Cardinality(T) = Cardinality(T \ {w}) + 1
  /\ \A S \in SUBSET Waiters : \A T \in SUBSET S : Cardinality(T) <= Cardinality(S)
<1>1. IsFiniteSet(Waiters)
  BY ObservationAssumption
<1>2. \A T \in SUBSET Waiters : IsFiniteSet(T) /\ Cardinality(T) \in Nat
  BY <1>1, FS_Subset, FS_CardinalityType
<1>3. Cardinality({}) = 0
  BY FS_EmptySet
<1>4. ASSUME NEW T \in SUBSET Waiters, NEW w \in Waiters \ T
      PROVE  Cardinality(T \cup {w}) = Cardinality(T) + 1
  BY <1>2, FS_AddElement
<1>5. ASSUME NEW T \in SUBSET Waiters, NEW w \in T
      PROVE  Cardinality(T) = Cardinality(T \ {w}) + 1
  <2>1. T \ {w} \in SUBSET Waiters /\ w \in Waiters \ (T \ {w}) /\ (T \ {w}) \cup {w} = T
    OBVIOUS
  <2>2. QED
    BY <1>4, <2>1
<1>6. ASSUME NEW S \in SUBSET Waiters, NEW T \in SUBSET S
      PROVE  Cardinality(T) <= Cardinality(S)
  BY <1>2, FS_Subset
<1>7. QED
  BY <1>2, <1>3, <1>4, <1>5, <1>6

(* Numbers; the interval is between the shortest and the longest.            *)
Paced ==
  /\ now \in Nat /\ nextPermit \in Int /\ granted \in Nat
  /\ interval \in Nat /\ fastest \in Nat /\ slowest \in Nat
  /\ fastest <= interval /\ interval <= slowest
  /\ permit \in [Waiters -> Int] /\ tookInterval \in [Waiters -> Nat]
  /\ uneven \in BOOLEAN

(* PaceKept is not inductive: a sleeper will be granted its permit, and a    *)
(* permit that was given back is granted again.  Of what is taken of the     *)
(* time ahead each sleeper has an interval, and each granted permit one more *)
(* before nextPermit.                                                        *)
Reserved(g) ==
  /\ \A T \in SUBSET Slept :
       Cardinality(T) * fastest <= g[T] /\ g[T] <= Cardinality(T) * slowest
  /\ granted * fastest + g[Slept] <= nextPermit

(* A time at which the permits of these sleepers have come.                  *)
Reaches(m, T) == now <= m /\ \A w \in T : permit[w] <= m

(* Whichever sleepers will have been granted theirs by then, there are not   *)
(* too many of them...                                                       *)
NotTooMany ==
  \A T \in SUBSET Slept : \A m \in Int :
    Reaches(m, T) => (granted + Cardinality(T) - 1) * fastest <= m

(* ... and what is reserved beyond is what the other sleepers took.          *)
NotTooFar(g) ==
  \A T \in SUBSET Slept : \A m \in Int :
    Reaches(m, T) => nextPermit <= m + slowest + g[Slept \ T]

PaceOf(g) == IsSum(g, tookInterval) /\ Reserved(g) /\ NotTooMany /\ NotTooFar(g)

PaceInv == Paced /\ (~uneven => \E g : PaceOf(g))

LEMMA Sleepers ==
  /\ Slept \subseteq Waiters
  /\ \A w \in Waiters : w \in Slept <=> permit[w] # Limiter!Free
BY DEF Slept, Limiter!Sleeping

LEMMA FreeType == Limiter!Free \in Int /\ Limiter!Free <= 0
BY ObservationAssumption DEF Limiter!Free

LEMMA IntervalType == \A r \in Rates : Limiter!Interval(r) \in Nat
<1> SUFFICES ASSUME NEW r \in Rates PROVE Limiter!Interval(r) \in Nat
  OBVIOUS
<1>1. r \in Nat /\ Second \in Nat
  BY ObservationAssumption
<1>2. (IF r <= 0 THEN 1 ELSE r) \in Nat \ {0}
  BY <1>1
<1>3. QED
  BY <1>1, <1>2 DEF Limiter!Interval

(* Every set of sleepers took something, each sleeper between the shortest   *)
(* and the longest interval.                                                 *)
LEMMA Took ==
  ASSUME Paced, NEW g, PaceOf(g)
  PROVE  /\ \A T \in SUBSET Slept : g[T] \in Nat /\ Cardinality(T) \in Nat
         /\ \A T \in SUBSET Slept : \A w \in T : g[T] = g[T \ {w}] + tookInterval[w]
         /\ \A w \in Slept : tookInterval[w] \in Nat /\ fastest <= tookInterval[w] /\ tookInterval[w] <= slowest
         /\ granted * fastest + Cardinality(Slept) * fastest <= nextPermit
<1>1. g \in [SUBSET Waiters -> Int] /\ g[{}] = 0
      /\ \A T \in SUBSET Waiters : \A w \in Waiters \ T : g[T \cup {w}] = g[T] + tookInterval[w]
  BY DEF PaceOf, IsSum
<1>2. fastest \in Nat /\ slowest \in Nat /\ tookInterval \in [Waiters -> Nat] /\ nextPermit \in Int /\ granted \in Nat
  BY DEF Paced
<1>3. ASSUME NEW T \in SUBSET Slept PROVE g[T] \in Nat /\ Cardinality(T) \in Nat
  <2>1. T \in SUBSET Waiters
    BY Sleepers
  <2>2. Cardinality(T) \in Nat /\ g[T] \in Int
    BY <1>1, <2>1, CountWaiters
  <2>3. Cardinality(T) * fastest <= g[T]
    BY DEF PaceOf, Reserved
  <2>4. Cardinality(T) * fastest >= 0 /\ Cardinality(T) * fastest \in Int
    BY <1>2, <2>2, TimesMonotone
  <2>5. QED
    BY <2>2, <2>3, <2>4
<1>4. ASSUME NEW T \in SUBSET Slept, NEW w \in T PROVE g[T] = g[T \ {w}] + tookInterval[w]
  <2>1. T \ {w} \in SUBSET Waiters /\ w \in Waiters \ (T \ {w}) /\ (T \ {w}) \cup {w} = T
    BY Sleepers
  <2>2. QED
    BY <1>1, <2>1
<1>5. ASSUME NEW w \in Slept
      PROVE  tookInterval[w] \in Nat /\ fastest <= tookInterval[w] /\ tookInterval[w] <= slowest
  <2>1. w \in Waiters /\ tookInterval[w] \in Nat /\ {w} \in SUBSET Slept
    BY <1>2, Sleepers
  <2>2. g[{w}] = tookInterval[w]
    <3>1. g[{} \cup {w}] = g[{}] + tookInterval[w]
      BY <1>1, <2>1
    <3>2. QED
      BY <1>1, <2>1, <3>1
  <2>3. Cardinality({w}) = 1
    BY FS_Singleton
  <2>4. 1 * fastest <= g[{w}] /\ g[{w}] <= 1 * slowest
    BY <2>1, <2>3 DEF PaceOf, Reserved
  <2>5. QED
    BY <1>2, <2>1, <2>2, <2>4
<1>6. granted * fastest + Cardinality(Slept) * fastest <= nextPermit
  <2>1. Cardinality(Slept) * fastest <= g[Slept] /\ granted * fastest + g[Slept] <= nextPermit
    BY DEF PaceOf, Reserved
  <2>2. g[Slept] \in Nat /\ Cardinality(Slept) \in Nat
    BY <1>3
  <2>3. granted * fastest \in Int /\ Cardinality(Slept) * fastest \in Int
    BY <1>2, <2>2
  <2>4. QED
    BY <1>2, <2>1, <2>2, <2>3
<1>7. QED
  BY <1>3, <1>4, <1>5, <1>6

LEMMA InitPace == Limiter!Init => PaceInv
<1> SUFFICES ASSUME Limiter!Init PROVE PaceInv
  OBVIOUS
<1>1. /\ now = 0 /\ nextPermit = 0 /\ granted = 0 /\ fastest = interval /\ slowest = interval
      /\ interval \in Nat /\ uneven = FALSE
      /\ permit = [w \in Waiters |-> Limiter!Free] /\ tookInterval = [w \in Waiters |-> 0]
  BY IntervalType DEF Limiter!Init
<1>2. Paced
  <2>1. permit \in [Waiters -> Int] /\ tookInterval \in [Waiters -> Nat]
    BY <1>1, FreeType
  <2>2. uneven \in BOOLEAN
    BY <1>1
  <2>3. fastest \in Nat /\ slowest \in Nat /\ fastest <= interval /\ interval <= slowest
    BY <1>1
  <2>4. QED
    BY <1>1, <2>1, <2>2, <2>3 DEF Paced
<1>3. Slept = {}
  BY <1>1, Sleepers
<1> DEFINE g == [T \in SUBSET Waiters |-> 0]
<1>4. IsSum(g, tookInterval)
  <2>1. \A T \in SUBSET Waiters : \A w \in Waiters \ T : T \cup {w} \in SUBSET Waiters
    OBVIOUS
  <2>2. QED
    BY <1>1, <2>1 DEF IsSum
<1>5. Cardinality({}) = 0 /\ g[{}] = 0
  BY CountWaiters
<1> HIDE DEF g
<1>6. Reserved(g)
  BY <1>1, <1>3, <1>5 DEF Reserved
<1>7. NotTooMany /\ NotTooFar(g)
  <2>1. \A T \in SUBSET Slept : T = {} /\ Slept \ T = {}
    BY <1>3
  <2>2. \A m \in Int : Reaches(m, {}) => (0 + 0 - 1) * interval <= m /\ 0 <= m + interval + 0
    BY <1>1 DEF Reaches
  <2>3. QED
    BY <1>1, <1>5, <2>1, <2>2 DEF NotTooMany, NotTooFar
<1>8. QED
  BY <1>2, <1>4, <1>6, <1>7 DEF PaceInv, PaceOf

(* A permit of the past is used at once.                                     *)
LEMMA WaitNow ==
  ASSUME Paced, NEW g, PaceOf(g), nextPermit <= now,
         nextPermit' = nextPermit + interval, granted' = granted + 1,
         UNCHANGED <<now, interval, permit, tookInterval, fastest, slowest>>
  PROVE  PaceOf(g)'
<1>0. /\ now \in Nat /\ nextPermit \in Int /\ granted \in Nat /\ interval \in Nat
      /\ fastest \in Nat /\ slowest \in Nat /\ fastest <= interval /\ interval <= slowest
  BY DEF Paced
<1>1. Slept' = Slept
  BY DEF Slept, Limiter!Sleeping
<1>2. \A T \in SUBSET Slept : g[T] \in Nat /\ Cardinality(T) \in Nat
  BY Took
<1>3. granted' * fastest = granted * fastest + fastest /\ granted * fastest \in Int
  BY <1>0, TimesNext
<1>4. IsSum(g, tookInterval)'
  BY DEF PaceOf, IsSum
<1>5. Reserved(g)'
  <2>1. granted * fastest + g[Slept] <= nextPermit /\ g[Slept] \in Nat
    BY <1>2 DEF PaceOf, Reserved
  <2>2. granted' * fastest + g[Slept] <= nextPermit'
    BY <1>0, <1>3, <2>1
  <2>3. QED
    BY <1>1, <2>2 DEF PaceOf, Reserved
<1>6. NotTooMany'
  <2> SUFFICES ASSUME NEW T \in SUBSET Slept, NEW m \in Int, Reaches(m, T)
               PROVE  (granted' + Cardinality(T) - 1) * fastest <= m
    BY <1>1 DEF NotTooMany, Reaches
  <2>1. Cardinality(T) \in Nat /\ Cardinality(Slept) \in Nat /\ Cardinality(T) <= Cardinality(Slept)
    BY <1>2, Sleepers, CountWaiters
  <2>2. (granted' + Cardinality(T) - 1) * fastest = granted * fastest + Cardinality(T) * fastest
    BY <1>0, <2>1
  <2>3. Cardinality(T) * fastest <= Cardinality(Slept) * fastest
    BY <1>0, <2>1, TimesMonotone
  <2>4. granted * fastest + Cardinality(Slept) * fastest <= nextPermit
    BY Took
  <2>5. nextPermit <= m
    BY <1>0 DEF Reaches
  <2>6. Cardinality(T) * fastest \in Int /\ Cardinality(Slept) * fastest \in Int
    BY <1>0, <2>1
  <2>7. QED
    BY <1>0, <1>3, <2>2, <2>3, <2>4, <2>5, <2>6
<1>7. NotTooFar(g)'
  <2> SUFFICES ASSUME NEW T \in SUBSET Slept, NEW m \in Int, Reaches(m, T)
               PROVE  nextPermit' <= m + slowest + g[Slept \ T]
    BY <1>1 DEF NotTooFar, Reaches
  <2>1. g[Slept \ T] \in Nat /\ now <= m
    BY <1>2 DEF Reaches
  <2>2. QED
    BY <1>0, <2>1
<1>8. QED
  BY <1>4, <1>5, <1>6, <1>7 DEF PaceOf

(* A permit of the future is slept for.                                      *)
LEMMA WaitAhead ==
  ASSUME Paced, NEW g, PaceOf(g), NEW w \in Waiters \ Slept,
         nextPermit' = nextPermit + interval, nextPermit # Limiter!Free,
         permit' = [permit EXCEPT ![w] = nextPermit],
         tookInterval' = [tookInterval EXCEPT ![w] = interval],
         UNCHANGED <<now, interval, granted, fastest, slowest>>
  PROVE  \E h : PaceOf(h)'
<1>0. /\ now \in Nat /\ nextPermit \in Int /\ granted \in Nat /\ interval \in Nat
      /\ fastest \in Nat /\ slowest \in Nat /\ fastest <= interval /\ interval <= slowest
      /\ permit \in [Waiters -> Int] /\ tookInterval \in [Waiters -> Nat]
  BY DEF Paced
<1>1. Slept' = Slept \cup {w} /\ w \notin Slept /\ Slept \subseteq Waiters
  BY <1>0, Sleepers DEF Slept, Limiter!Sleeping
<1>2. /\ permit'[w] = nextPermit
      /\ \A v \in Waiters : v # w => permit'[v] = permit[v]
  BY <1>0
<1>3. \A T \in SUBSET Slept : g[T] \in Nat /\ Cardinality(T) \in Nat
  BY Took
<1> PICK h : IsSum(h, [tookInterval EXCEPT ![w] = interval]) /\ IsGrown(h, g, w, interval)
  <2>1. IsSum(g, tookInterval)
    BY DEF PaceOf
  <2>2. QED
    BY <1>0, <2>1, SumUpdate
<1>4. /\ IsSum(h, tookInterval')
      /\ \A T \in SUBSET Waiters :
           /\ w \notin T => h[T] = g[T]
           /\ w \in T => h[T] = g[T \ {w}] + interval
  BY DEF IsGrown
<1>5. ASSUME NEW T \in SUBSET Slept'
      PROVE  \/ T \in SUBSET Slept /\ w \notin T /\ h[T] = g[T]
             \/ /\ w \in T /\ T \ {w} \in SUBSET Slept /\ h[T] = g[T \ {w}] + interval
                /\ Cardinality(T) = Cardinality(T \ {w}) + 1
  <2>1. T \in SUBSET Waiters
    BY <1>1
  <2>2. CASE w \in T
    <3>1. T \ {w} \in SUBSET Slept
      BY <1>1
    <3>2. h[T] = g[T \ {w}] + interval
      BY <1>4, <2>1, <2>2
    <3>3. Cardinality(T) = Cardinality(T \ {w}) + 1
      BY <2>1, <2>2, CountWaiters
    <3>4. QED
      BY <2>2, <3>1, <3>2, <3>3
  <2>3. CASE w \notin T
    BY <1>1, <1>4, <2>1, <2>3
  <2>4. QED
    BY <2>2, <2>3
<1>6. Reserved(h)'
  <2>1. ASSUME NEW T \in SUBSET Slept'
        PROVE  Cardinality(T) * fastest <= h[T] /\ h[T] <= Cardinality(T) * slowest
    <3>1. CASE T \in SUBSET Slept /\ w \notin T /\ h[T] = g[T]
      BY <3>1 DEF PaceOf, Reserved
    <3>2. CASE /\ w \in T /\ T \ {w} \in SUBSET Slept /\ h[T] = g[T \ {w}] + interval
               /\ Cardinality(T) = Cardinality(T \ {w}) + 1
      <4> DEFINE c == Cardinality(T \ {w})
      <4>1. c * fastest <= g[T \ {w}] /\ g[T \ {w}] <= c * slowest
        BY <3>2 DEF PaceOf, Reserved
      <4>2. c \in Nat /\ g[T \ {w}] \in Nat
        BY <1>3, <3>2
      <4> HIDE DEF c
      <4>3. (c + 1) * fastest = c * fastest + fastest /\ (c + 1) * slowest = c * slowest + slowest
            /\ c * fastest \in Int /\ c * slowest \in Int
        BY <1>0, <4>2, TimesNext
      <4>4. (c + 1) * fastest <= g[T \ {w}] + interval /\ g[T \ {w}] + interval <= (c + 1) * slowest
        BY <1>0, <4>1, <4>2, <4>3
      <4>5. QED
        BY <3>2, <4>4 DEF c
    <3>3. QED
      BY <1>5, <3>1, <3>2
  <2>2. granted * fastest + h[Slept'] <= nextPermit'
    <3>1. h[Slept'] = g[Slept] + interval
      <4>1. Slept' \in SUBSET Waiters /\ w \in Slept' /\ Slept' \ {w} = Slept
        BY <1>1
      <4>2. QED
        BY <1>4, <4>1
    <3>2. granted * fastest + g[Slept] <= nextPermit /\ g[Slept] \in Nat
      BY <1>3 DEF PaceOf, Reserved
    <3>3. granted * fastest \in Int
      BY <1>0
    <3>4. QED
      BY <1>0, <3>1, <3>2, <3>3
  <2>3. QED
    BY <2>1, <2>2 DEF Reserved
<1>7. ASSUME NEW T \in SUBSET Slept', NEW m \in Int, now <= m, \A v \in T : permit'[v] <= m
      PROVE  /\ (granted + Cardinality(T) - 1) * fastest <= m
             /\ nextPermit' <= m + slowest + h[Slept' \ T]
  <2>0. Slept' \ T \in SUBSET Slept'
    OBVIOUS
  <2>1. CASE w \notin T
    <3>1. T \in SUBSET Slept /\ Reaches(m, T)
      BY <1>1, <1>2, <1>7, <2>1 DEF Reaches
    <3>2. /\ (granted + Cardinality(T) - 1) * fastest <= m
          /\ nextPermit <= m + slowest + g[Slept \ T]
      BY <3>1 DEF PaceOf, NotTooMany, NotTooFar
    <3>3. h[Slept' \ T] = g[Slept \ T] + interval /\ g[Slept \ T] \in Nat
      <4>1. Slept' \ T \in SUBSET Waiters /\ w \in Slept' \ T /\ (Slept' \ T) \ {w} = Slept \ T
        BY <1>1, <2>1
      <4>2. QED
        BY <1>3, <1>4, <4>1
    <3>4. QED
      BY <1>0, <3>2, <3>3
  <2>2. CASE w \in T
    <3>1. nextPermit <= m
      BY <1>2, <1>7, <2>2
    <3>2. T \ {w} \in SUBSET Slept /\ Cardinality(T) = Cardinality(T \ {w}) + 1
      BY <1>5, <2>2
    <3>3. /\ Cardinality(T \ {w}) \in Nat /\ Cardinality(Slept) \in Nat
          /\ Cardinality(T \ {w}) <= Cardinality(Slept)
      BY <1>1, <1>3, <3>2, CountWaiters
    <3>4. Cardinality(T \ {w}) * fastest <= Cardinality(Slept) * fastest
      BY <1>0, <3>3, TimesMonotone
    <3>5. (granted + Cardinality(T) - 1) * fastest = granted * fastest + Cardinality(T \ {w}) * fastest
      BY <1>0, <3>2, <3>3
    <3>6. granted * fastest + Cardinality(Slept) * fastest <= nextPermit
      BY Took
    <3>7. /\ granted * fastest \in Int /\ Cardinality(T \ {w}) * fastest \in Int
          /\ Cardinality(Slept) * fastest \in Int
      BY <1>0, <3>3
    <3>8. (granted + Cardinality(T) - 1) * fastest <= m
      BY <1>0, <3>1, <3>4, <3>5, <3>6, <3>7
    <3>9. h[Slept' \ T] \in Nat
      <4>1. Slept' \ T \in SUBSET Slept /\ Slept' \ T \in SUBSET Waiters /\ w \notin Slept' \ T
        BY <1>1, <2>2
      <4>2. QED
        BY <1>3, <1>4, <4>1
    <3>10. QED
      BY <1>0, <3>1, <3>8, <3>9
  <2>3. QED
    BY <2>1, <2>2
<1>8. NotTooMany' /\ NotTooFar(h)'
  BY <1>7 DEF NotTooMany, NotTooFar, Reaches
<1>9. QED
  BY <1>4, <1>6, <1>8 DEF PaceOf, IsSum

(* A sleeper leaves: with its permit, or with its interval given back.       *)
LEMMA Leaves ==
  ASSUME Paced, NEW g, PaceOf(g), NEW w \in Slept,
         permit' = [permit EXCEPT ![w] = Limiter!Free],
         tookInterval' = [tookInterval EXCEPT ![w] = 0],
         UNCHANGED <<now, interval, fastest, slowest>>,
         \/ permit[w] <= now /\ granted' = granted + 1 /\ nextPermit' = nextPermit
         \/ granted' = granted /\ nextPermit' = nextPermit - tookInterval[w]
  PROVE  \E h : PaceOf(h)'
<1>0. /\ now \in Nat /\ nextPermit \in Int /\ granted \in Nat
      /\ fastest \in Nat /\ slowest \in Nat /\ fastest <= slowest
      /\ permit \in [Waiters -> Int] /\ tookInterval \in [Waiters -> Nat] /\ w \in Waiters
  BY Sleepers DEF Paced
<1>1. Slept' = Slept \ {w} /\ Slept \subseteq Waiters
  BY <1>0, Sleepers DEF Slept, Limiter!Sleeping
<1>2. \A v \in Slept' : permit'[v] = permit[v]
  BY <1>0, <1>1
<1>3. /\ \A T \in SUBSET Slept : g[T] \in Nat /\ Cardinality(T) \in Nat
      /\ \A T \in SUBSET Slept : \A v \in T : g[T] = g[T \ {v}] + tookInterval[v]
      /\ tookInterval[w] \in Nat /\ fastest <= tookInterval[w]
  BY Took
<1> PICK h : IsSum(h, [tookInterval EXCEPT ![w] = 0]) /\ IsGrown(h, g, w, 0)
  <2>1. IsSum(g, tookInterval)
    BY DEF PaceOf
  <2>2. QED
    BY <1>0, <2>1, SumUpdate
<1>4. IsSum(h, tookInterval')
  OBVIOUS
<1>5. \A T \in SUBSET Slept' : T \in SUBSET Slept /\ h[T] = g[T] /\ g[T] \in Nat
  <2> SUFFICES ASSUME NEW T \in SUBSET Slept' PROVE T \in SUBSET Slept /\ h[T] = g[T] /\ g[T] \in Nat
    OBVIOUS
  <2>1. T \in SUBSET Waiters /\ T \in SUBSET Slept /\ w \notin T
    BY <1>1
  <2>2. QED
    BY <1>3, <2>1 DEF IsGrown
<1>6. Reserved(h)'
  <2>1. \A T \in SUBSET Slept' : Cardinality(T) * fastest <= h[T] /\ h[T] <= Cardinality(T) * slowest
    BY <1>5 DEF PaceOf, Reserved
  <2>2. h[Slept'] + tookInterval[w] = g[Slept] /\ h[Slept'] \in Nat
    <3>1. Slept' \in SUBSET Slept'
      OBVIOUS
    <3>2. h[Slept'] = g[Slept'] /\ g[Slept'] \in Nat
      BY <1>5, <3>1
    <3>3. g[Slept] = g[Slept \ {w}] + tookInterval[w]
      BY <1>3
    <3>4. QED
      BY <1>1, <1>3, <3>2, <3>3
  <2>3. granted * fastest + g[Slept] <= nextPermit
    BY DEF PaceOf, Reserved
  <2>4. granted * fastest \in Int /\ (granted + 1) * fastest = granted * fastest + fastest
    BY <1>0, TimesNext
  <2>5. granted' * fastest + h[Slept'] <= nextPermit'
    <3>1. CASE granted' = granted + 1 /\ nextPermit' = nextPermit
      BY <1>0, <1>3, <2>2, <2>3, <2>4, <3>1
    <3>2. CASE granted' = granted /\ nextPermit' = nextPermit - tookInterval[w]
      BY <1>0, <1>3, <2>2, <2>3, <2>4, <3>2
    <3>3. QED
      BY <3>1, <3>2
  <2>6. QED
    BY <2>1, <2>5 DEF Reserved
<1>7. ASSUME NEW T \in SUBSET Slept', NEW m \in Int, now <= m, \A v \in T : permit'[v] <= m
      PROVE  /\ (granted' + Cardinality(T) - 1) * fastest <= m
             /\ nextPermit' <= m + slowest + h[Slept' \ T]
  <2>1. T \in SUBSET Slept /\ Reaches(m, T) /\ w \notin T /\ Slept' \ T \in SUBSET Slept'
    BY <1>1, <1>2, <1>5, <1>7 DEF Reaches
  <2>2. h[Slept' \ T] = g[Slept' \ T] /\ g[Slept' \ T] \in Nat
    BY <1>5, <2>1
  <2> DEFINE U == T \cup {w}
  <2>3. U \in SUBSET Slept /\ Cardinality(U) = Cardinality(T) + 1 /\ Slept \ U = Slept' \ T
    BY <1>1, <2>1, CountWaiters
  <2>4. CASE permit[w] <= now /\ granted' = granted + 1 /\ nextPermit' = nextPermit
    <3>1. Reaches(m, U)
      <4>1. permit[w] <= m
        BY <1>0, <1>7, <2>4
      <4>2. QED
        BY <2>1, <4>1 DEF Reaches
    <3>2. /\ (granted + Cardinality(U) - 1) * fastest <= m
          /\ nextPermit <= m + slowest + g[Slept \ U]
      BY <2>3, <3>1 DEF PaceOf, NotTooMany, NotTooFar
    <3>3. Cardinality(T) \in Nat
      BY <1>3, <2>1
    <3>4. granted + Cardinality(U) - 1 = granted' + Cardinality(T) - 1
      BY <1>0, <2>3, <2>4, <3>3
    <3>5. QED
      BY <2>2, <2>3, <2>4, <3>2, <3>4
  <2>5. CASE granted' = granted /\ nextPermit' = nextPermit - tookInterval[w]
    <3>1. /\ (granted + Cardinality(T) - 1) * fastest <= m
          /\ nextPermit <= m + slowest + g[Slept \ T]
      BY <2>1 DEF PaceOf, NotTooMany, NotTooFar
    <3>2. g[Slept \ T] = g[Slept' \ T] + tookInterval[w]
      <4>1. Slept \ T \in SUBSET Slept /\ w \in Slept \ T /\ (Slept \ T) \ {w} = Slept' \ T
        BY <1>1, <2>1
      <4>2. g[Slept \ T] = g[(Slept \ T) \ {w}] + tookInterval[w]
        BY <1>3, <4>1
      <4>3. QED
        BY <4>1, <4>2
    <3>3. QED
      BY <1>0, <1>3, <2>2, <2>5, <3>1, <3>2
  <2>6. QED
    BY <2>4, <2>5
<1>8. NotTooMany' /\ NotTooFar(h)'
  BY <1>7 DEF NotTooMany, NotTooFar, Reaches
<1>9. QED
  BY <1>4, <1>6, <1>8 DEF PaceOf, IsSum

(* Another rate moves both ends apart, and the next permit not back.         *)
LEMMA RateChanges ==
  ASSUME Paced, Paced', NEW g, PaceOf(g),
         fastest' <= fastest, slowest <= slowest',
         nextPermit <= nextPermit', nextPermit' = nextPermit \/ nextPermit' = now,
         UNCHANGED <<now, permit, tookInterval, granted>>
  PROVE  PaceOf(g)'
<1>0. /\ now \in Nat /\ nextPermit \in Int /\ nextPermit' \in Int /\ granted \in Nat
      /\ fastest \in Nat /\ slowest \in Nat /\ fastest' \in Nat /\ slowest' \in Nat
  BY DEF Paced
<1>1. Slept' = Slept
  BY DEF Slept, Limiter!Sleeping
<1>2. \A T \in SUBSET Slept : g[T] \in Nat /\ Cardinality(T) \in Nat
  BY Took
<1>3. IsSum(g, tookInterval)'
  BY DEF PaceOf, IsSum
<1>4. Reserved(g)'
  <2>1. ASSUME NEW T \in SUBSET Slept
        PROVE  Cardinality(T) * fastest' <= g[T] /\ g[T] <= Cardinality(T) * slowest'
    <3>1. Cardinality(T) \in Nat /\ g[T] \in Nat
      BY <1>2
    <3>2. Cardinality(T) * fastest <= g[T] /\ g[T] <= Cardinality(T) * slowest
      BY DEF PaceOf, Reserved
    <3>3. Cardinality(T) * fastest' <= Cardinality(T) * fastest
      BY <1>0, <3>1, TimesMonotoneRight
    <3>4. Cardinality(T) * slowest <= Cardinality(T) * slowest'
      BY <1>0, <3>1, TimesMonotoneRight
    <3>5. /\ Cardinality(T) * fastest \in Int /\ Cardinality(T) * fastest' \in Int
          /\ Cardinality(T) * slowest \in Int /\ Cardinality(T) * slowest' \in Int
      BY <1>0, <3>1
    <3>6. QED
      BY <3>1, <3>2, <3>3, <3>4, <3>5
  <2>2. granted * fastest' + g[Slept] <= nextPermit'
    <3>1. granted * fastest + g[Slept] <= nextPermit /\ g[Slept] \in Nat
      BY <1>2 DEF PaceOf, Reserved
    <3>2. granted * fastest' <= granted * fastest
      <4>1. granted \in Nat /\ fastest' \in Int /\ fastest \in Int /\ fastest' <= fastest
        BY <1>0
      <4>2. QED
        BY <4>1, TimesMonotoneRight, Zenon
    <3>3. granted * fastest' \in Int /\ granted * fastest \in Int
      BY <1>0
    <3>4. QED
      BY <1>0, <3>1, <3>2, <3>3
  <2>3. QED
    BY <1>1, <2>1, <2>2 DEF Reserved
<1>5. ASSUME NEW T \in SUBSET Slept, NEW m \in Int, Reaches(m, T)
      PROVE  /\ (granted + Cardinality(T) - 1) * fastest' <= m
             /\ nextPermit' <= m + slowest' + g[Slept \ T]
  <2>1. Cardinality(T) \in Nat /\ g[Slept \ T] \in Nat /\ now <= m
    BY <1>2, <1>5 DEF Reaches
  <2>2. /\ (granted + Cardinality(T) - 1) * fastest <= m
        /\ nextPermit <= m + slowest + g[Slept \ T]
    BY <1>5 DEF PaceOf, NotTooMany, NotTooFar
  <2> DEFINE n == granted + Cardinality(T) - 1
  <2>3. n \in Int /\ n >= -1
    BY <1>0, <2>1
  <2>4. n * fastest' <= m
    <3> HIDE DEF n
    <3>1. CASE n >= 0
      <4>1. n * fastest' <= n * fastest
        <5>1. n \in Nat /\ fastest' \in Int /\ fastest \in Int /\ fastest' <= fastest
          BY <1>0, <2>3, <3>1
        <5>2. QED
          BY <5>1, TimesMonotoneRight, Zenon
      <4>2. n * fastest' \in Int /\ n * fastest \in Int
        BY <1>0, <2>3
      <4>3. QED
        BY <2>2, <4>1, <4>2 DEF n
    <3>2. CASE n = -1
      <4>1. n * fastest' = - fastest'
        BY <1>0, <3>2
      <4>2. QED
        BY <1>0, <2>1, <4>1
    <3>3. QED
      BY <2>3, <3>1, <3>2
  <2>5. nextPermit' <= m + slowest' + g[Slept \ T]
    BY <1>0, <2>1, <2>2
  <2>6. QED
    BY <2>4, <2>5
<1>6. NotTooMany' /\ NotTooFar(g)'
  BY <1>1, <1>5 DEF NotTooMany, NotTooFar, Reaches
<1>7. QED
  BY <1>3, <1>4, <1>6 DEF PaceOf

(* A new rate.                                                               *)
LEMMA SetRateDoes ==
  ASSUME Paced, NEW r \in Rates, Limiter!SetRate(r)
  PROVE  /\ interval' \in Nat
         /\ nextPermit' \in {nextPermit, now} /\ nextPermit <= nextPermit'
         /\ fastest' \in {fastest, interval'} /\ fastest' <= fastest /\ fastest' <= interval'
         /\ slowest' \in {slowest, interval'} /\ slowest <= slowest' /\ interval' <= slowest'
         /\ UNCHANGED <<now, permit, tookInterval, granted, uneven>>
<1>1. /\ interval' = Limiter!Interval(r) /\ nextPermit' = Limiter!Max({nextPermit, now})
      /\ fastest' = Limiter!Min({fastest, interval'}) /\ slowest' = Limiter!Max({slowest, interval'})
      /\ UNCHANGED <<now, permit, tookInterval, granted, uneven>>
  BY DEF Limiter!SetRate
<1>2. interval' \in Nat
  BY <1>1, IntervalType
<1>3. nextPermit \in Int /\ now \in Int /\ fastest \in Int /\ slowest \in Int /\ interval' \in Int
  BY <1>2 DEF Paced
<1>4. nextPermit' \in {nextPermit, now} /\ nextPermit' >= nextPermit
  BY <1>1, <1>3, MaxPair, Zenon
<1>5. fastest' \in {fastest, interval'} /\ fastest' <= fastest /\ fastest' <= interval'
  BY <1>1, <1>3, MinPair, Zenon
<1>6. slowest' \in {slowest, interval'} /\ slowest' >= slowest /\ slowest' >= interval'
  BY <1>1, <1>3, MaxPair, Zenon
<1>7. QED
  BY <1>1, <1>2, <1>3, <1>4, <1>5, <1>6

(* Every step of the limiter keeps the invariant.                            *)
LEMMA PacedStep == Paced /\ [Limiter!Next]_limiterVars => Paced'
<1> SUFFICES ASSUME Paced, [Limiter!Next]_limiterVars PROVE Paced'
  OBVIOUS
<1>0. /\ now \in Nat /\ nextPermit \in Int /\ granted \in Nat /\ interval \in Nat
      /\ fastest \in Nat /\ slowest \in Nat /\ fastest <= interval /\ interval <= slowest
      /\ permit \in [Waiters -> Int] /\ tookInterval \in [Waiters -> Nat] /\ uneven \in BOOLEAN
  BY DEF Paced
<1>1. CASE Limiter!Tick
  <2>1. now' \in Nat
    BY <1>0, <1>1 DEF Limiter!Tick
  <2>2. QED
    BY <1>0, <1>1, <2>1 DEF Limiter!Tick, Limiter!history, Paced
<1>2. CASE \E w \in Waiters : Limiter!Wait(w)
  <2> PICK w \in Waiters : Limiter!Wait(w)
    BY <1>2
  <2>1. /\ nextPermit' \in Int /\ granted' \in Nat
        /\ permit' \in [Waiters -> Int] /\ tookInterval' \in [Waiters -> Nat]
    BY <1>0 DEF Limiter!Wait
  <2>2. QED
    BY <1>0, <2>1 DEF Limiter!Wait, Paced
<1>3. CASE \E w \in Waiters : Limiter!Wake(w) \/ Limiter!Cancel(w)
  <2> PICK w \in Waiters : Limiter!Wake(w) \/ Limiter!Cancel(w)
    BY <1>3
  <2>1. permit' \in [Waiters -> Int] /\ tookInterval' \in [Waiters -> Nat]
    BY <1>0, FreeType DEF Limiter!Wake, Limiter!Cancel
  <2>2. nextPermit' \in Int /\ granted' \in Nat
    BY <1>0 DEF Limiter!Wake, Limiter!Cancel
  <2>3. uneven' \in BOOLEAN
    <3>1. uneven' = uneven \/ uneven' = (uneven \/ tookInterval[w] # interval)
      BY DEF Limiter!Wake, Limiter!Cancel
    <3>2. QED
      BY <1>0, <3>1
  <2>4. UNCHANGED <<now, interval, fastest, slowest>>
    BY DEF Limiter!Wake, Limiter!Cancel
  <2>5. QED
    BY <1>0, <2>1, <2>2, <2>3, <2>4 DEF Paced
<1>4. CASE \E r \in Rates : Limiter!SetRate(r)
  <2> PICK r \in Rates : Limiter!SetRate(r)
    BY <1>4
  <2>1. /\ interval' \in Nat
        /\ nextPermit' \in {nextPermit, now}
        /\ fastest' \in {fastest, interval'} /\ fastest' <= interval'
        /\ slowest' \in {slowest, interval'} /\ interval' <= slowest'
        /\ UNCHANGED <<now, permit, tookInterval, granted, uneven>>
    BY <1>0, SetRateDoes
  <2>2. fastest' \in Nat /\ slowest' \in Nat /\ nextPermit' \in Int
    BY <1>0, <2>1
  <2>3. QED
    BY <1>0, <2>1, <2>2 DEF Paced
<1>5. CASE UNCHANGED limiterVars
  BY <1>5 DEF limiterVars, Paced
<1>6. QED
  BY <1>1, <1>2, <1>3, <1>4, <1>5 DEF Limiter!Next

LEMMA PaceStep == PaceInv /\ [Limiter!Next]_limiterVars => PaceInv'
<1> SUFFICES ASSUME PaceInv, [Limiter!Next]_limiterVars, ~uneven' PROVE \E h : PaceOf(h)'
  BY PacedStep DEF PaceInv
<1>0. Paced /\ Paced'
  BY PacedStep DEF PaceInv
<1>1. ~uneven
  BY DEF Limiter!Next, Limiter!Tick, Limiter!history, Limiter!Wait, Limiter!Wake, Limiter!Cancel,
         Limiter!SetRate, limiterVars
<1> PICK g : PaceOf(g)
  BY <1>1 DEF PaceInv
<1>2. CASE Limiter!Tick \/ UNCHANGED limiterVars
  <2>1. /\ now <= now' /\ now' \in Int
        /\ UNCHANGED <<nextPermit, interval, permit, tookInterval, granted, fastest, slowest>>
    BY <1>0, <1>2 DEF Limiter!Tick, Limiter!history, limiterVars, Paced
  <2>2. Slept' = Slept
    BY <2>1 DEF Slept, Limiter!Sleeping
  <2>3. \A T \in SUBSET Slept : \A m \in Int : Reaches(m, T)' => Reaches(m, T)
    BY <1>0, <2>1 DEF Reaches, Paced
  <2>4. NotTooMany'
    BY <2>1, <2>2, <2>3 DEF PaceOf, NotTooMany
  <2>5. NotTooFar(g)'
    BY <2>1, <2>2, <2>3 DEF PaceOf, NotTooFar
  <2>6. PaceOf(g)'
    BY <2>1, <2>2, <2>4, <2>5 DEF PaceOf, IsSum, Reserved
  <2>7. QED
    BY <2>6
<1>3. CASE \E w \in Waiters : Limiter!Wait(w)
  <2> PICK w \in Waiters : Limiter!Wait(w)
    BY <1>3
  <2>1. /\ w \notin Slept /\ nextPermit' = nextPermit + interval
        /\ UNCHANGED <<now, interval, fastest, slowest>>
    BY DEF Limiter!Wait, Slept
  <2>2. CASE nextPermit <= now
    <3>1. granted' = granted + 1 /\ UNCHANGED <<permit, tookInterval>>
      BY <2>2 DEF Limiter!Wait
    <3>2. PaceOf(g)'
      BY <1>0, <2>1, <2>2, <3>1, WaitNow
    <3>3. QED
      BY <3>2
  <2>3. CASE ~ (nextPermit <= now)
    <3>1. /\ permit' = [permit EXCEPT ![w] = nextPermit] /\ granted' = granted
          /\ tookInterval' = [tookInterval EXCEPT ![w] = interval]
      BY <2>3 DEF Limiter!Wait
    <3>2. nextPermit # Limiter!Free
      BY <1>0, <2>3, FreeType DEF Paced
    <3>3. QED
      BY <1>0, <2>1, <3>1, <3>2, WaitAhead
  <2>4. QED
    BY <2>2, <2>3
<1>4. CASE \E w \in Waiters : Limiter!Wake(w)
  <2> PICK w \in Waiters : Limiter!Wake(w)
    BY <1>4
  <2>1. /\ w \in Slept /\ permit[w] <= now /\ granted' = granted + 1 /\ nextPermit' = nextPermit
        /\ permit' = [permit EXCEPT ![w] = Limiter!Free] /\ tookInterval' = [tookInterval EXCEPT ![w] = 0]
        /\ UNCHANGED <<now, interval, fastest, slowest>>
    BY DEF Limiter!Wake, Slept
  <2>2. QED
    BY <1>0, <2>1, Leaves
<1>5. CASE \E w \in Waiters : Limiter!Cancel(w)
  <2> PICK w \in Waiters : Limiter!Cancel(w)
    BY <1>5
  <2>1. /\ w \in Slept /\ granted' = granted /\ nextPermit' = nextPermit - interval
        /\ uneven' = (uneven \/ tookInterval[w] # interval)
        /\ permit' = [permit EXCEPT ![w] = Limiter!Free] /\ tookInterval' = [tookInterval EXCEPT ![w] = 0]
        /\ UNCHANGED <<now, interval, fastest, slowest>>
    BY DEF Limiter!Cancel, Slept
  <2>2. nextPermit' = nextPermit - tookInterval[w]
    BY <2>1
  <2>3. QED
    BY <1>0, <2>1, <2>2, Leaves
<1>6. CASE \E r \in Rates : Limiter!SetRate(r)
  <2> PICK r \in Rates : Limiter!SetRate(r)
    BY <1>6
  <2>1. /\ nextPermit' \in {nextPermit, now} /\ nextPermit <= nextPermit'
        /\ fastest' <= fastest /\ slowest <= slowest'
        /\ UNCHANGED <<now, permit, tookInterval, granted, uneven>>
    BY <1>0, SetRateDoes
  <2>2. PaceOf(g)'
    BY <1>0, <2>1, RateChanges
  <2>3. QED
    BY <2>2
<1>7. QED
  BY <1>2, <1>3, <1>4, <1>5, <1>6 DEF Limiter!Next

LEMMA PaceIsKept == PaceInv => Limiter!PaceKept
<1> SUFFICES ASSUME PaceInv, ~uneven
             PROVE  /\ (granted - 1) * fastest <= now
                    /\ nextPermit <= now + (Cardinality(Slept) + 1) * slowest
  BY SameCardinality DEF Limiter!PaceKept, Slept
<1> PICK g : PaceOf(g)
  BY DEF PaceInv
<1>0. Paced /\ now \in Int /\ now <= now /\ slowest \in Nat /\ granted \in Nat /\ nextPermit \in Int
  BY DEF PaceInv, Paced
<1>1. {} \in SUBSET Slept /\ Reaches(now, {}) /\ Cardinality({}) = 0 /\ Slept \ {} = Slept
  BY <1>0, FS_EmptySet DEF Reaches
<1>2. (granted + Cardinality({}) - 1) * fastest <= now /\ nextPermit <= now + slowest + g[Slept \ {}]
  BY <1>0, <1>1 DEF PaceOf, NotTooMany, NotTooFar
<1>3. g[Slept] <= Cardinality(Slept) * slowest /\ g[Slept] \in Nat /\ Cardinality(Slept) \in Nat
  BY <1>0, Took DEF PaceOf, Reserved
<1>4. (Cardinality(Slept) + 1) * slowest = Cardinality(Slept) * slowest + slowest
      /\ Cardinality(Slept) * slowest \in Int
  BY <1>0, <1>3, TimesNext
<1>5. granted + Cardinality({}) - 1 = granted - 1
  BY <1>0, <1>1
<1>6. QED
  BY <1>0, <1>1, <1>2, <1>3, <1>4, <1>5


(* Intervals are those of rates that were asked for.                         *)
LEMMA LimiterTypesInit == Limiter!Init => Limiter!TypeOK
<1> SUFFICES ASSUME Limiter!Init PROVE Limiter!TypeOK
  OBVIOUS
<1>1. Paced /\ now \in 0..Horizon
  BY InitPace, ObservationAssumption DEF PaceInv, Limiter!Init
<1>2. {interval, fastest, slowest} \subseteq {Limiter!Interval(r) : r \in Rates}
  BY DEF Limiter!Init
<1>3. QED
  BY <1>1, <1>2 DEF Limiter!TypeOK, Paced

LEMMA LimiterTypesStep ==
  Limiter!TypeOK /\ Paced /\ [Limiter!Next]_limiterVars => Limiter!TypeOK'
<1> SUFFICES ASSUME Limiter!TypeOK, Paced, [Limiter!Next]_limiterVars PROVE Limiter!TypeOK'
  OBVIOUS
<1> DEFINE Asked == {Limiter!Interval(r) : r \in Rates}
<1>1. Paced'
  BY PacedStep
<1>2. /\ now \in 0..Horizon /\ Horizon \in Nat
      /\ interval \in Asked /\ fastest \in Asked /\ slowest \in Asked
  BY ObservationAssumption DEF Limiter!TypeOK
<1>3. now' \in 0..Horizon
  BY <1>2 DEF Limiter!Next, Limiter!Tick, Limiter!Wait, Limiter!Wake, Limiter!Cancel,
              Limiter!SetRate, limiterVars
<1>4. interval' \in Asked /\ fastest' \in Asked /\ slowest' \in Asked
  <2>1. CASE \E r \in Rates : Limiter!SetRate(r)
    <3> PICK r \in Rates : Limiter!SetRate(r)
      BY <2>1
    <3>1. interval' \in Asked
      BY DEF Limiter!SetRate
    <3>2. fastest' \in {fastest, interval'} /\ slowest' \in {slowest, interval'}
      BY SetRateDoes
    <3>3. QED
      BY <1>2, <3>1, <3>2
  <2>2. CASE UNCHANGED <<interval, fastest, slowest>>
    BY <1>2, <2>2
  <2>3. QED
    BY <2>1, <2>2 DEF Limiter!Next, Limiter!Tick, Limiter!history, Limiter!Wait, Limiter!Wake,
                      Limiter!Cancel, limiterVars
<1>5. QED
  BY <1>1, <1>3, <1>4 DEF Limiter!TypeOK, Paced
-----------------------------------------------------------------------------
(* Verification.  A list of hashes none of which is in it twice.             *)
Distinct(s) == \A i, j \in 1..Len(s) : s[i] = s[j] => i = j

LEMMA ToSetIs ==
  ASSUME NEW S, NEW s \in Seq(S)
  PROVE  /\ Verifier!ToSet(s) = {s[i] : i \in 1..Len(s)}
         /\ Verifier!ToSet(s) \subseteq S
BY DEF Verifier!ToSet

LEMMA EmptyList == Verifier!ToSet(<<>>) = {} /\ Distinct(<<>>) /\ \A S : <<>> \in Seq(S)
BY DEF Verifier!ToSet, Distinct

LEMMA AppendDoes ==
  ASSUME NEW S, NEW s \in Seq(S), NEW h \in S
  PROVE  /\ Append(s, h) \in Seq(S)
         /\ Verifier!ToSet(Append(s, h)) = Verifier!ToSet(s) \cup {h}
         /\ Distinct(s) /\ h \notin Verifier!ToSet(s) => Distinct(Append(s, h))
<1> DEFINE t == Append(s, h)
<1>1. t \in Seq(S) /\ Len(t) = Len(s) + 1 /\ Len(s) \in Nat
  OBVIOUS
<1>2. \A i \in 1..Len(t) : t[i] = IF i = Len(s) + 1 THEN h ELSE s[i]
  OBVIOUS
<1>3. \A i \in 1..Len(s) : i \in 1..Len(t) /\ t[i] = s[i]
  BY <1>1, <1>2
<1>4. Len(t) \in 1..Len(t) /\ t[Len(t)] = h
  BY <1>1, <1>2
<1> HIDE DEF t
<1>5. Verifier!ToSet(t) = Verifier!ToSet(s) \cup {h}
  <2>1. Verifier!ToSet(t) = {t[i] : i \in 1..Len(t)} /\ Verifier!ToSet(s) = {s[i] : i \in 1..Len(s)}
    BY <1>1, ToSetIs
  <2>2. ASSUME NEW i \in 1..Len(t) PROVE t[i] \in {s[j] : j \in 1..Len(s)} \cup {h}
    <3>1. i = Len(s) + 1 \/ i \in 1..Len(s)
      BY <1>1
    <3>2. QED
      BY <1>2, <3>1
  <2>3. QED
    BY <1>3, <1>4, <2>1, <2>2
<1>6. ASSUME Distinct(s), h \notin Verifier!ToSet(s) PROVE Distinct(t)
  <2>1. \A i \in 1..Len(s) : s[i] # h
    BY <1>6, ToSetIs
  <2>2. QED
    BY <1>1, <1>2, <1>6, <2>1 DEF Distinct
<1>7. QED
  BY <1>1, <1>5, <1>6 DEF t

LEMMA LastOfDoes ==
  ASSUME NEW S, NEW s \in Seq(S)
  PROVE  /\ Verifier!LastOf(s) \in Seq(S)
         /\ Len(Verifier!LastOf(s)) <= Cap
         /\ Verifier!ToSet(Verifier!LastOf(s)) \subseteq Verifier!ToSet(s)
         /\ s # <<>> => s[Len(s)] \in Verifier!ToSet(Verifier!LastOf(s))
         /\ Distinct(s) => Distinct(Verifier!LastOf(s))
<1>1. Cap \in Nat \ {0} /\ Len(s) \in Nat
  BY ObservationAssumption
<1>2. CASE Len(s) <= Cap
  <2>1. Verifier!LastOf(s) = s
    BY <1>1, <1>2 DEF Verifier!LastOf
  <2>2. s # <<>> => s[Len(s)] \in Verifier!ToSet(s)
    BY ToSetIs
  <2>3. QED
    BY <1>2, <2>1, <2>2
<1>3. CASE Len(s) > Cap
  <2> DEFINE k == Len(s) - Cap
             t == SubSeq(s, k + 1, Len(s))
  <2>1. Verifier!LastOf(s) = t
    BY <1>3 DEF Verifier!LastOf
  <2>2. k \in Nat /\ k + Cap = Len(s)
    BY <1>1, <1>3
  <2> HIDE DEF k
  <2>3. t \in Seq(S) /\ Len(t) = Cap /\ \A i \in 1..Cap : t[i] = s[k + i] /\ k + i \in 1..Len(s)
    BY <1>1, <2>2
  <2> HIDE DEF t
  <2>4. Verifier!ToSet(t) = {t[i] : i \in 1..Cap} /\ Verifier!ToSet(s) = {s[i] : i \in 1..Len(s)}
    BY <2>3, ToSetIs
  <2>5. Verifier!ToSet(t) \subseteq Verifier!ToSet(s)
    BY <2>3, <2>4
  <2>6. s[Len(s)] \in Verifier!ToSet(t)
    <3>1. Cap \in 1..Cap /\ t[Cap] = s[Len(s)]
      BY <1>1, <2>2, <2>3
    <3>2. QED
      BY <2>4, <3>1
  <2>7. ASSUME Distinct(s) PROVE Distinct(t)
    <3> SUFFICES ASSUME NEW i \in 1..Cap, NEW j \in 1..Cap, t[i] = t[j] PROVE i = j
      BY <2>3 DEF Distinct
    <3>1. k + i = k + j
      BY <2>3, <2>7 DEF Distinct
    <3>2. QED
      BY <2>2, <3>1
  <2>8. QED
    BY <1>1, <2>1, <2>3, <2>5, <2>6, <2>7
<1>4. QED
  BY <1>1, <1>2, <1>3

(* A list without repetitions is as long as its set is large.                *)
LEMMA DistinctCount ==
  ASSUME NEW S, NEW s \in Seq(S), Distinct(s)
  PROVE  Len(s) = Cardinality(Verifier!ToSet(s))
<1> DEFINE D == Verifier!ToSet(s)
<1>1. D = {s[i] : i \in 1..Len(s)} /\ Len(s) \in Nat
  BY ToSetIs
<1>2. s \in [1..Len(s) -> D]
  BY <1>1
<1>3. s \in Bijection(1..Len(s), D)
  <2>1. s \in Injection(1..Len(s), D)
    BY <1>2 DEF Injection, IsInjective, Distinct
  <2>2. s \in Surjection(1..Len(s), D)
    BY <1>1, <1>2 DEF Surjection
  <2>3. QED
    BY <2>1, <2>2 DEF Bijection
<1>4. ExistsBijection(1..Len(s), D)
  BY <1>3 DEF ExistsBijection
<1>5. QED
  BY <1>1, <1>4, FS_CountingElements

(* The lists and the drainers are of their kinds; a drainer that has not     *)
(* copied the hashes yet has none.                                           *)
VerifierTypes ==
  /\ Verifier!TypeOK
  /\ recentB \in Seq(DOMAIN chain) /\ recentH \in Seq(Verifier!Hashes)
  /\ drained \in [Verifier!Drainers ->
                    [blocks : Seq(DOMAIN chain), hashes : Seq(Verifier!Hashes)]]

EmptyHands ==
  \A d \in Verifier!Drainers : at[d] # "hashes" => drained[d].hashes = <<>>

(* HashOnce speaks of sets that are equal or disjoint; they are disjoint     *)
(* place by place.                                                           *)
Listed == Verifier!ToSet(recentH)
InHand(d) == Verifier!ToSet(drained[d].hashes)

Somewhere ==
  \A h : h \in confirmed <=>
    \/ h \in Listed \/ h \in gone
    \/ \E d \in Verifier!Drainers : h \in InHand(d)
    \/ \E n \in snapshots : h \in n.drained

OnePlace ==
  /\ Distinct(recentH)
  /\ Listed \cap gone = {}
  /\ \A d \in Verifier!Drainers : InHand(d) \cap (Listed \cup gone) = {}
  /\ \A d, e \in Verifier!Drainers : d # e => InHand(d) \cap InHand(e) = {}
  /\ \A n \in snapshots : n.drained \cap (Listed \cup gone) = {}
  /\ \A n \in snapshots : \A d \in Verifier!Drainers : n.drained \cap InHand(d) = {}
  /\ \A n, m \in snapshots : n.drained = m.drained \/ n.drained \cap m.drained = {}

VerifyInv == VerifierTypes /\ EmptyHands /\ Somewhere /\ OnePlace

LEMMA OnePlaceSuffices == VerifyInv => Verifier!HashOnce
<1> SUFFICES ASSUME VerifyInv PROVE Verifier!HashOnce
  OBVIOUS
<1>1. \A S : S \in Verifier!Held <=>
        \/ S = Listed \/ S = gone
        \/ \E d \in Verifier!Drainers : S = InHand(d)
        \/ \E n \in snapshots : S = n.drained
  BY DEF Verifier!Held, Listed, InHand
<1>2. \A h : h \in confirmed <=> \E S \in Verifier!Held : h \in S
  BY <1>1 DEF VerifyInv, Somewhere
<1>3. UNION Verifier!Held = confirmed
  <2>1. \A h : h \in UNION Verifier!Held <=> h \in confirmed
    BY <1>2
  <2>2. QED
    BY <2>1
<1>4. ASSUME NEW S \in Verifier!Held, NEW T \in Verifier!Held PROVE S = T \/ S \cap T = {}
  <2>1. S = Listed \/ S = gone \/ (\E d \in Verifier!Drainers : S = InHand(d)) \/ \E n \in snapshots : S = n.drained
    BY <1>1
  <2>2. T = Listed \/ T = gone \/ (\E d \in Verifier!Drainers : T = InHand(d)) \/ \E n \in snapshots : T = n.drained
    BY <1>1
  <2>3. OnePlace
    BY DEF VerifyInv
  <2>4. CASE S = Listed \/ S = gone
    BY <2>2, <2>3, <2>4 DEF OnePlace
  <2>5. CASE \E d \in Verifier!Drainers : S = InHand(d)
    <3> PICK d \in Verifier!Drainers : S = InHand(d)
      BY <2>5
    <3>1. CASE T = Listed \/ T = gone
      BY <2>3, <3>1 DEF OnePlace
    <3>2. CASE \E e \in Verifier!Drainers : T = InHand(e)
      BY <2>3, <3>2 DEF OnePlace
    <3>3. CASE \E n \in snapshots : T = n.drained
      BY <2>3, <3>3 DEF OnePlace
    <3>4. QED
      BY <2>2, <3>1, <3>2, <3>3
  <2>6. CASE \E n \in snapshots : S = n.drained
    <3> PICK n \in snapshots : S = n.drained
      BY <2>6
    <3>1. CASE T = Listed \/ T = gone
      BY <2>3, <3>1 DEF OnePlace
    <3>2. CASE \E e \in Verifier!Drainers : T = InHand(e)
      BY <2>3, <3>2 DEF OnePlace
    <3>3. CASE \E m \in snapshots : T = m.drained
      BY <2>3, <3>3 DEF OnePlace
    <3>4. QED
      BY <2>2, <3>1, <3>2, <3>3
  <2>7. QED
    BY <2>1, <2>4, <2>5, <2>6
<1>5. Len(recentH) = Verifier!Cardinality(Listed)
  <2>1. recentH \in Seq(Verifier!Hashes) /\ Distinct(recentH)
    BY DEF VerifyInv, VerifierTypes, OnePlace
  <2>2. Len(recentH) = Cardinality(Listed)
    BY <2>1, DistinctCount DEF Listed
  <2>3. Verifier!Cardinality(Listed) = Cardinality(Listed)
    BY DEF Verifier!Cardinality, Cardinality
  <2>4. QED
    BY <2>2, <2>3
<1>6. Listed \cap (gone \cup UNION {InHand(d) : d \in Verifier!Drainers}) = {}
  BY DEF VerifyInv, OnePlace
<1>7. QED
  BY <1>3, <1>4, <1>5, <1>6 DEF Verifier!HashOnce, Listed, InHand

LEMMA InitVerify == Verifier!Init => VerifyInv
<1> SUFFICES ASSUME Verifier!Init PROVE VerifyInv
  OBVIOUS
<1>1. /\ recentB = <<>> /\ recentH = <<>> /\ gone = {} /\ confirmed = {} /\ snapshots = {} /\ header = 0
      /\ at = [d \in Verifier!Drainers |-> "idle"]
      /\ drained = [d \in Verifier!Drainers |-> [blocks |-> <<>>, hashes |-> <<>>]]
      /\ phase = "running" /\ result.pass = FALSE
      /\ chain \in Chains /\ ordering \in Orderings /\ live \in {ordering, ""}
  BY DEF Verifier!Init, Verifier!Nothing, Verifier!NoResult
<1>2. deposit \in BOOLEAN
  BY DEF Verifier!Init
<1>3. Len(<<>>) <= Cap
  BY ObservationAssumption
<1>4. at \in [Verifier!Drainers -> {"idle", "blocks", "hashes", "over"}]
  BY <1>1
<1>5. Verifier!TypeOK
  BY <1>1, <1>2, <1>3, <1>4 DEF Verifier!TypeOK
<1>6. VerifierTypes
  <2>1. \A S : <<>> \in Seq(S)
    BY EmptyList
  <2>2. [blocks |-> <<>>, hashes |-> <<>>] \in [blocks : Seq(DOMAIN chain), hashes : Seq(Verifier!Hashes)]
    BY <2>1
  <2>3. QED
    BY <1>1, <1>5, <2>1, <2>2 DEF VerifierTypes
<1>7. Listed = {} /\ \A d \in Verifier!Drainers : drained[d].hashes = <<>> /\ InHand(d) = {}
  BY <1>1, EmptyList DEF Listed, InHand
<1>8. EmptyHands /\ Somewhere /\ OnePlace
  BY <1>1, <1>7, EmptyList DEF EmptyHands, Somewhere, OnePlace
<1>9. QED
  BY <1>6, <1>8 DEF VerifyInv

(* The chain and what was asked for do not change.                           *)
LEMMA ChainStays ==
  ASSUME [Verifier!Next]_verifyVars
  PROVE  /\ UNCHANGED <<chain, ordering, live, deposit>>
         /\ Verifier!Hashes' = Verifier!Hashes
<1>1. UNCHANGED <<chain, ordering, live, deposit>>
  BY DEF Verifier!Next, Verifier!Confirm, Verifier!NewHeader, Verifier!DrainBlocks, Verifier!DrainHashes,
         Verifier!Snapshot, Verifier!Stop, Verifier!Aggregate, Verifier!FullVerify, verifyVars
<1>2. QED
  BY <1>1 DEF Verifier!Hashes, Verifier!TxsOf, Verifier!ToSet

LEMMA BlockOfIs == ASSUME NEW h \in Verifier!Hashes PROVE Verifier!BlockOf(h) \in DOMAIN chain
<1>1. \E b \in DOMAIN chain : \E t \in Verifier!TxsOf(b) : t.hash = h
  BY DEF Verifier!Hashes
<1>2. QED
  BY <1>1 DEF Verifier!BlockOf

(* A block is listed.                                                        *)
LEMMA ListsBlock ==
  ASSUME VerifierTypes, NEW b \in DOMAIN chain
  PROVE  /\ Verifier!LastOf(Append(recentB, b)) \in Seq(DOMAIN chain)
         /\ Len(Verifier!LastOf(Append(recentB, b))) <= Cap
<1>1. Append(recentB, b) \in Seq(DOMAIN chain)
  BY DEF VerifierTypes
<1>2. QED
  BY <1>1, LastOfDoes

(* A drainer's lists.                                                        *)
LEMMA DrainedType ==
  ASSUME VerifierTypes, NEW d \in Verifier!Drainers
  PROVE  /\ \A s \in Seq(DOMAIN chain) :
              [drained EXCEPT ![d].blocks = s] \in
                [Verifier!Drainers -> [blocks : Seq(DOMAIN chain), hashes : Seq(Verifier!Hashes)]]
         /\ \A s \in Seq(Verifier!Hashes) :
              [drained EXCEPT ![d].hashes = s] \in
                [Verifier!Drainers -> [blocks : Seq(DOMAIN chain), hashes : Seq(Verifier!Hashes)]]
BY DEF VerifierTypes

LEMMA VerifyTypesStep == VerifierTypes /\ [Verifier!Next]_verifyVars => VerifierTypes'
<1> SUFFICES ASSUME VerifierTypes, [Verifier!Next]_verifyVars PROVE VerifierTypes'
  OBVIOUS
<1>0. UNCHANGED <<chain, ordering, live, deposit>> /\ Verifier!Hashes' = Verifier!Hashes
  BY ChainStays
<1>a. Verifier!TypeOK
  BY DEF VerifierTypes
<1> DEFINE Lists == /\ recentB \in Seq(DOMAIN chain) /\ recentH \in Seq(Verifier!Hashes)
                    /\ Len(recentB) <= Cap /\ Len(recentH) <= Cap
           Places == drained \in [Verifier!Drainers ->
                       [blocks : Seq(DOMAIN chain), hashes : Seq(Verifier!Hashes)]]
           Ways == /\ at \in [Verifier!Drainers -> {"idle", "blocks", "hashes", "over"}]
                   /\ phase \in {"running", "stopping", "done"} /\ result.pass \in BOOLEAN
           Seen == confirmed \subseteq Verifier!Hashes /\ gone \subseteq Verifier!Hashes
                   /\ header \in DOMAIN chain \cup {0}
<1>b. Lists /\ Places /\ Ways /\ Seen
  BY <1>a DEF VerifierTypes, Verifier!TypeOK
<1>c. ASSUME Lists', Places', Ways', Seen' PROVE VerifierTypes'
  BY <1>0, <1>a, <1>c DEF VerifierTypes, Verifier!TypeOK
<1>d. Len(<<>>) <= Cap /\ \A S : <<>> \in Seq(S)
  BY ObservationAssumption, EmptyList
<1>1. CASE \E h \in Verifier!Hashes : Verifier!Confirm(h)
  <2> PICK h \in Verifier!Hashes : Verifier!Confirm(h)
    BY <1>1
  <2>1. /\ confirmed' = confirmed \cup {h} /\ recentH' = Verifier!LastOf(Append(recentH, h))
        /\ gone' = gone \cup (Verifier!ToSet(recentH) \ Verifier!ToSet(recentH'))
        /\ recentB' \in {recentB, Verifier!LastOf(Append(recentB, Verifier!BlockOf(h)))}
        /\ UNCHANGED <<header, at, drained, snapshots, phase, result>>
    BY DEF Verifier!Confirm
  <2>2. recentH' \in Seq(Verifier!Hashes) /\ Len(recentH') <= Cap
    <3>1. Append(recentH, h) \in Seq(Verifier!Hashes)
      BY <1>b
    <3>2. QED
      BY <2>1, <3>1, LastOfDoes
  <2>3. recentB' \in Seq(DOMAIN chain) /\ Len(recentB') <= Cap
    BY <1>b, <2>1, BlockOfIs, ListsBlock
  <2>4. gone' \subseteq Verifier!Hashes
    <3>1. Verifier!ToSet(recentH) \subseteq Verifier!Hashes
      BY <1>b, ToSetIs
    <3>2. QED
      BY <1>b, <2>1, <3>1
  <2>5. confirmed' \subseteq Verifier!Hashes
    BY <1>b, <2>1
  <2>6. QED
    BY <1>0, <1>b, <1>c, <2>1, <2>2, <2>3, <2>4, <2>5
<1>2. CASE \E b \in DOMAIN chain : Verifier!NewHeader(b)
  <2> PICK b \in DOMAIN chain : Verifier!NewHeader(b)
    BY <1>2
  <2>1. /\ header' = b /\ recentB' = Verifier!LastOf(Append(recentB, b))
        /\ UNCHANGED <<confirmed, recentH, gone, at, drained, snapshots, phase, result>>
    BY DEF Verifier!NewHeader
  <2>2. recentB' \in Seq(DOMAIN chain) /\ Len(recentB') <= Cap
    BY <2>1, ListsBlock
  <2>3. QED
    BY <1>0, <1>b, <1>c, <2>1, <2>2
<1>3. CASE \E d \in Verifier!Drainers : Verifier!DrainBlocks(d)
  <2> PICK d \in Verifier!Drainers : Verifier!DrainBlocks(d)
    BY <1>3
  <2>1. /\ at' = [at EXCEPT ![d] = "blocks"] /\ drained' = [drained EXCEPT ![d].blocks = recentB]
        /\ recentB' = <<>> /\ UNCHANGED <<header, confirmed, recentH, gone, snapshots, phase, result>>
    BY DEF Verifier!DrainBlocks
  <2>2. Places'
    BY <1>0, <1>b, <2>1, DrainedType
  <2>3. Ways'
    BY <1>b, <2>1
  <2>4. QED
    BY <1>0, <1>b, <1>c, <1>d, <2>1, <2>2, <2>3
<1>4. CASE \E d \in Verifier!Drainers : Verifier!DrainHashes(d)
  <2> PICK d \in Verifier!Drainers : Verifier!DrainHashes(d)
    BY <1>4
  <2>1. /\ at' = [at EXCEPT ![d] = "hashes"] /\ drained' = [drained EXCEPT ![d].hashes = recentH]
        /\ recentH' = <<>> /\ UNCHANGED <<header, confirmed, recentB, gone, snapshots, phase, result>>
    BY DEF Verifier!DrainHashes
  <2>2. Places'
    BY <1>0, <1>b, <2>1, DrainedType
  <2>3. Ways'
    BY <1>b, <2>1
  <2>4. QED
    BY <1>0, <1>b, <1>c, <1>d, <2>1, <2>2, <2>3
<1>5. CASE \E d \in Verifier!Drainers, p, q \in BOOLEAN : Verifier!Snapshot(d, p, q)
  <2> PICK d \in Verifier!Drainers, p \in BOOLEAN, q \in BOOLEAN : Verifier!Snapshot(d, p, q)
    BY <1>5
  <2>1. /\ drained' = [drained EXCEPT ![d] = [blocks |-> <<>>, hashes |-> <<>>]]
        /\ at' = [at EXCEPT ![d] = IF d = "stop" THEN "over" ELSE "idle"]
        /\ UNCHANGED <<header, confirmed, recentB, recentH, gone, phase, result>>
    BY DEF Verifier!Snapshot, Verifier!Nothing
  <2>2. Places'
    <3>1. [blocks |-> <<>>, hashes |-> <<>>] \in [blocks : Seq(DOMAIN chain), hashes : Seq(Verifier!Hashes)]
      BY <1>d
    <3>2. QED
      BY <1>0, <1>b, <2>1, <3>1
  <2>3. Ways'
    BY <1>b, <2>1
  <2>4. QED
    BY <1>0, <1>b, <1>c, <2>1, <2>2, <2>3
<1>6. CASE Verifier!Stop
  BY <1>0, <1>b, <1>c, <1>6 DEF Verifier!Stop
<1>7. CASE \/ \E delta \in {0, 1} : Verifier!Aggregate(delta)
           \/ \E delta \in {0, 1}, found \in SUBSET DOMAIN chain, sample \in SUBSET confirmed :
                Verifier!FullVerify(delta, found, sample)
  <2>1. /\ phase' = "done"
        /\ UNCHANGED <<header, confirmed, recentB, recentH, gone, at, drained, snapshots>>
    BY <1>7 DEF Verifier!Aggregate, Verifier!FullVerify
  <2>2. \E delta, B, H : result' = Verifier!Verdict(delta, B, H)
    BY <1>7 DEF Verifier!Aggregate, Verifier!FullVerify
  <2>3. \A delta, B, H : Verifier!Verdict(delta, B, H).pass \in BOOLEAN
    BY DEF Verifier!Verdict
  <2>4. QED
    BY <1>0, <1>b, <1>c, <2>1, <2>2, <2>3
<1>8. CASE UNCHANGED verifyVars
  BY <1>0, <1>b, <1>c, <1>8 DEF verifyVars
<1>9. QED
  BY <1>1, <1>2, <1>3, <1>4, <1>5, <1>6, <1>7, <1>8 DEF Verifier!Next

(* Where the hashes are moves with what the step writes.                     *)
LEMMA PlacesStay ==
  ASSUME VerifyInv, UNCHANGED <<confirmed, gone, snapshots, recentH>>,
         \A d \in Verifier!Drainers : drained'[d].hashes = drained[d].hashes,
         \A d \in Verifier!Drainers : at'[d] # "hashes" => at[d] # "hashes"
  PROVE  EmptyHands' /\ Somewhere' /\ OnePlace'
<1>1. Listed' = Listed /\ \A d \in Verifier!Drainers : InHand(d)' = InHand(d)
  BY DEF Listed, InHand, Verifier!ToSet
<1>2. Verifier!Drainers' = Verifier!Drainers
  BY DEF Verifier!Drainers
<1>3. EmptyHands'
  BY <1>2 DEF VerifyInv, EmptyHands
<1>4. Somewhere' /\ OnePlace'
  BY <1>1, <1>2 DEF VerifyInv, Somewhere, OnePlace
<1>5. QED
  BY <1>3, <1>4

LEMMA ConfirmPlaces ==
  ASSUME VerifyInv, NEW h \in Verifier!Hashes, Verifier!Confirm(h)
  PROVE  EmptyHands' /\ Somewhere' /\ OnePlace'
<1>1. /\ h \notin confirmed /\ confirmed' = confirmed \cup {h}
      /\ recentH' = Verifier!LastOf(Append(recentH, h))
      /\ gone' = gone \cup (Verifier!ToSet(recentH) \ Verifier!ToSet(recentH'))
      /\ UNCHANGED <<at, drained, snapshots>>
  BY DEF Verifier!Confirm
<1>2. recentH \in Seq(Verifier!Hashes) /\ Distinct(recentH) /\ h \notin Listed
  BY <1>1 DEF VerifyInv, VerifierTypes, OnePlace, Somewhere
<1>3. /\ Append(recentH, h) \in Seq(Verifier!Hashes)
      /\ Verifier!ToSet(Append(recentH, h)) = Listed \cup {h}
      /\ Distinct(Append(recentH, h))
  BY <1>2, AppendDoes DEF Listed
<1>4. Append(recentH, h) # <<>> /\ Append(recentH, h)[Len(Append(recentH, h))] = h
  BY <1>2
<1>5. Listed' \subseteq Listed \cup {h} /\ h \in Listed' /\ Distinct(recentH')
  BY <1>1, <1>3, <1>4, LastOfDoes DEF Listed
<1>6. gone' = gone \cup (Listed \ Listed')
  BY <1>1 DEF Listed
<1>7. \A d \in Verifier!Drainers : InHand(d)' = InHand(d)
  BY <1>1 DEF InHand, Verifier!ToSet
<1>8. Verifier!Drainers' = Verifier!Drainers
  BY DEF Verifier!Drainers
<1>9. /\ h \notin gone /\ \A d \in Verifier!Drainers : h \notin InHand(d)
      /\ \A n \in snapshots : h \notin n.drained
  BY <1>1 DEF VerifyInv, Somewhere
<1>10. EmptyHands'
  BY <1>1, <1>8 DEF VerifyInv, EmptyHands
<1>11. Somewhere'
  <2> SUFFICES ASSUME NEW g
               PROVE  g \in confirmed' <=>
                        \/ g \in Listed' \/ g \in gone'
                        \/ \E d \in Verifier!Drainers : g \in InHand(d)
                        \/ \E n \in snapshots : g \in n.drained
    BY <1>1, <1>7, <1>8 DEF Somewhere
  <2>1. g \in confirmed <=>
          \/ g \in Listed \/ g \in gone
          \/ \E d \in Verifier!Drainers : g \in InHand(d)
          \/ \E n \in snapshots : g \in n.drained
    BY DEF VerifyInv, Somewhere
  <2>2. QED
    BY <1>1, <1>5, <1>6, <2>1
<1>12. OnePlace'
  <2>1. OnePlace
    BY DEF VerifyInv
  <2>2. Listed' \cup gone' \subseteq Listed \cup gone \cup {h} /\ Listed' \cap gone' = {}
    BY <1>5, <1>6, <1>9, <2>1 DEF OnePlace
  <2>3. \A d \in Verifier!Drainers : InHand(d) \cap (Listed' \cup gone') = {}
    BY <1>9, <2>1, <2>2 DEF OnePlace
  <2>4. \A n \in snapshots : n.drained \cap (Listed' \cup gone') = {}
    BY <1>9, <2>1, <2>2 DEF OnePlace
  <2>5. QED
    BY <1>1, <1>5, <1>7, <1>8, <2>1, <2>2, <2>3, <2>4 DEF OnePlace
<1>13. QED
  BY <1>10, <1>11, <1>12

LEMMA DrainPlaces ==
  ASSUME VerifyInv, NEW d \in Verifier!Drainers, Verifier!DrainHashes(d)
  PROVE  EmptyHands' /\ Somewhere' /\ OnePlace'
<1>1. /\ at[d] = "blocks" /\ at' = [at EXCEPT ![d] = "hashes"]
      /\ drained' = [drained EXCEPT ![d].hashes = recentH] /\ recentH' = <<>>
      /\ UNCHANGED <<confirmed, gone, snapshots>>
  BY DEF Verifier!DrainHashes
<1>2. /\ drained \in [Verifier!Drainers -> [blocks : Seq(DOMAIN chain), hashes : Seq(Verifier!Hashes)]]
      /\ at \in [Verifier!Drainers -> {"idle", "blocks", "hashes", "over"}]
  BY DEF VerifyInv, VerifierTypes, Verifier!TypeOK
<1>3. /\ drained'[d].hashes = recentH
      /\ \A e \in Verifier!Drainers \ {d} : drained'[e] = drained[e]
  BY <1>1, <1>2
<1>4. /\ InHand(d)' = Listed /\ Listed' = {}
      /\ \A e \in Verifier!Drainers \ {d} : InHand(e)' = InHand(e)
  BY <1>1, <1>3, EmptyList DEF InHand, Listed, Verifier!ToSet
<1>5. InHand(d) = {}
  BY <1>1, EmptyList DEF VerifyInv, EmptyHands, InHand
<1>6. Verifier!Drainers' = Verifier!Drainers
  BY DEF Verifier!Drainers
<1>7. EmptyHands'
  BY <1>1, <1>2, <1>3, <1>6 DEF VerifyInv, EmptyHands
<1>8. Somewhere'
  <2> SUFFICES ASSUME NEW g
               PROVE  g \in confirmed <=>
                        \/ g \in Listed' \/ g \in gone
                        \/ \E e \in Verifier!Drainers : g \in InHand(e)'
                        \/ \E n \in snapshots : g \in n.drained
    BY <1>1, <1>6 DEF Somewhere
  <2>1. g \in confirmed <=>
          \/ g \in Listed \/ g \in gone
          \/ \E e \in Verifier!Drainers : g \in InHand(e)
          \/ \E n \in snapshots : g \in n.drained
    BY DEF VerifyInv, Somewhere
  <2>2. (\E e \in Verifier!Drainers : g \in InHand(e)') <=>
          g \in Listed \/ \E e \in Verifier!Drainers : g \in InHand(e)
    BY <1>4, <1>5
  <2>3. QED
    BY <1>4, <2>1, <2>2
<1>9. OnePlace'
  <2>1. OnePlace
    BY DEF VerifyInv
  <2>2. \A e \in Verifier!Drainers : InHand(e)' \cap (Listed' \cup gone) = {}
    BY <1>4, <2>1 DEF OnePlace
  <2>3. \A e, f \in Verifier!Drainers : e # f => InHand(e)' \cap InHand(f)' = {}
    <3> SUFFICES ASSUME NEW e \in Verifier!Drainers, NEW f \in Verifier!Drainers, e # f
                 PROVE  InHand(e)' \cap InHand(f)' = {}
      OBVIOUS
    <3>1. InHand(e)' = IF e = d THEN Listed ELSE InHand(e)
      BY <1>4
    <3>2. InHand(f)' = IF f = d THEN Listed ELSE InHand(f)
      BY <1>4
    <3>3. QED
      BY <2>1, <3>1, <3>2 DEF OnePlace
  <2>4. \A n \in snapshots : \A e \in Verifier!Drainers : n.drained \cap InHand(e)' = {}
    BY <1>4, <2>1 DEF OnePlace
  <2>5. Distinct(recentH')
    BY <1>1, EmptyList
  <2>6. \A n \in snapshots : n.drained \cap (Listed' \cup gone) = {}
    BY <1>4, <2>1 DEF OnePlace
  <2>7. Listed' \cap gone = {}
    BY <1>4
  <2>8. QED
    BY <1>1, <1>6, <2>1, <2>2, <2>3, <2>4, <2>5, <2>6, <2>7 DEF OnePlace
<1>10. QED
  BY <1>7, <1>8, <1>9

LEMMA SnapshotPlaces ==
  ASSUME VerifyInv, NEW d \in Verifier!Drainers, NEW p, NEW q, Verifier!Snapshot(d, p, q)
  PROVE  EmptyHands' /\ Somewhere' /\ OnePlace'
<1>1. /\ drained' = [drained EXCEPT ![d] = [blocks |-> <<>>, hashes |-> <<>>]]
      /\ at' = [at EXCEPT ![d] = IF d = "stop" THEN "over" ELSE "idle"]
      /\ UNCHANGED <<confirmed, gone, recentH>>
  BY DEF Verifier!Snapshot, Verifier!Nothing
<1>2. /\ drained \in [Verifier!Drainers -> [blocks : Seq(DOMAIN chain), hashes : Seq(Verifier!Hashes)]]
      /\ at \in [Verifier!Drainers -> {"idle", "blocks", "hashes", "over"}]
  BY DEF VerifyInv, VerifierTypes, Verifier!TypeOK
<1>3. /\ drained'[d].hashes = <<>>
      /\ \A e \in Verifier!Drainers \ {d} : drained'[e] = drained[e]
  BY <1>1, <1>2
<1>4. /\ InHand(d)' = {} /\ Listed' = Listed
      /\ \A e \in Verifier!Drainers \ {d} : InHand(e)' = InHand(e)
  BY <1>1, <1>3, EmptyList DEF InHand, Listed, Verifier!ToSet
<1>5. Verifier!Drainers' = Verifier!Drainers
  BY DEF Verifier!Drainers
<1>6. \/ snapshots' = snapshots /\ InHand(d) = {}
      \/ \E n : snapshots' = snapshots \cup {n} /\ n.drained = InHand(d)
  <2>1. CASE drained[d] = Verifier!Nothing
    <3>1. drained[d].hashes = <<>>
      BY <2>1 DEF Verifier!Nothing
    <3>2. QED
      BY <2>1, <3>1, EmptyList DEF Verifier!Snapshot, InHand
  <2>2. CASE drained[d] # Verifier!Nothing
    <3>1. snapshots' = snapshots \cup {Verifier!SnapshotOf(d, p, q)}
      BY <2>2 DEF Verifier!Snapshot
    <3>2. Verifier!SnapshotOf(d, p, q).drained = InHand(d)
      BY DEF Verifier!SnapshotOf, InHand
    <3>3. QED
      BY <3>1, <3>2
  <2>3. QED
    BY <2>1, <2>2
<1>7. EmptyHands'
  BY <1>1, <1>2, <1>3, <1>5 DEF VerifyInv, EmptyHands
<1>8. Somewhere'
  <2> SUFFICES ASSUME NEW g
               PROVE  g \in confirmed <=>
                        \/ g \in Listed \/ g \in gone
                        \/ \E e \in Verifier!Drainers : g \in InHand(e)'
                        \/ \E n \in snapshots' : g \in n.drained
    BY <1>1, <1>4, <1>5 DEF Somewhere
  <2>1. g \in confirmed <=>
          \/ g \in Listed \/ g \in gone
          \/ \E e \in Verifier!Drainers : g \in InHand(e)
          \/ \E n \in snapshots : g \in n.drained
    BY DEF VerifyInv, Somewhere
  <2>2. (\E e \in Verifier!Drainers : g \in InHand(e)) <=>
          g \in InHand(d) \/ \E e \in Verifier!Drainers : g \in InHand(e)'
    BY <1>4
  <2>3. (\E n \in snapshots' : g \in n.drained) <=>
          g \in InHand(d) \/ \E n \in snapshots : g \in n.drained
    BY <1>6
  <2>4. QED
    BY <2>1, <2>2, <2>3
<1>9. OnePlace'
  <2>1. OnePlace
    BY DEF VerifyInv
  <2>2. \A e \in Verifier!Drainers : InHand(e)' \subseteq InHand(e) /\ (e = d => InHand(e)' = {})
    BY <1>4
  <2>3. /\ \A e \in Verifier!Drainers : InHand(e)' \cap (Listed \cup gone) = {}
        /\ \A e, f \in Verifier!Drainers : e # f => InHand(e)' \cap InHand(f)' = {}
    BY <2>1, <2>2 DEF OnePlace
  <2>4. ASSUME NEW n \in snapshots'
        PROVE  /\ n.drained \cap (Listed \cup gone) = {}
               /\ \A e \in Verifier!Drainers : n.drained \cap InHand(e)' = {}
    <3>1. n \in snapshots \/ n.drained = InHand(d)
      BY <1>6
    <3>2. CASE n \in snapshots
      BY <2>1, <2>2, <3>2 DEF OnePlace
    <3>3. CASE n.drained = InHand(d)
      <4>1. \A e \in Verifier!Drainers : e # d => InHand(d) \cap InHand(e) = {}
        BY <2>1 DEF OnePlace
      <4>2. QED
        BY <2>1, <2>2, <3>3, <4>1 DEF OnePlace
    <3>4. QED
      BY <3>1, <3>2, <3>3
  <2>5. ASSUME NEW n \in snapshots', NEW m \in snapshots'
        PROVE  n.drained = m.drained \/ n.drained \cap m.drained = {}
    <3>1. (n \in snapshots \/ n.drained = InHand(d)) /\ (m \in snapshots \/ m.drained = InHand(d))
      BY <1>6
    <3>2. CASE n \in snapshots /\ m \in snapshots
      BY <2>1, <3>2 DEF OnePlace
    <3>3. CASE n \in snapshots /\ m.drained = InHand(d)
      BY <2>1, <3>3 DEF OnePlace
    <3>4. CASE n.drained = InHand(d) /\ m \in snapshots
      BY <2>1, <3>4 DEF OnePlace
    <3>5. CASE n.drained = InHand(d) /\ m.drained = InHand(d)
      BY <3>5
    <3>6. QED
      BY <3>1, <3>2, <3>3, <3>4, <3>5
  <2>6. QED
    BY <1>1, <1>4, <1>5, <2>1, <2>3, <2>4, <2>5 DEF OnePlace
<1>10. QED
  BY <1>7, <1>8, <1>9

LEMMA VerifyStep == VerifyInv /\ [Verifier!Next]_verifyVars => VerifyInv'
<1> SUFFICES ASSUME VerifyInv, [Verifier!Next]_verifyVars PROVE EmptyHands' /\ Somewhere' /\ OnePlace'
  BY VerifyTypesStep DEF VerifyInv
<1>0. /\ drained \in [Verifier!Drainers -> [blocks : Seq(DOMAIN chain), hashes : Seq(Verifier!Hashes)]]
      /\ at \in [Verifier!Drainers -> {"idle", "blocks", "hashes", "over"}]
  BY DEF VerifyInv, VerifierTypes, Verifier!TypeOK
<1>1. CASE \E h \in Verifier!Hashes : Verifier!Confirm(h)
  BY <1>1, ConfirmPlaces
<1>2. CASE \E d \in Verifier!Drainers : Verifier!DrainBlocks(d)
  <2> PICK d \in Verifier!Drainers : Verifier!DrainBlocks(d)
    BY <1>2
  <2>1. /\ at[d] = "idle" /\ at' = [at EXCEPT ![d] = "blocks"]
        /\ drained' = [drained EXCEPT ![d].blocks = recentB]
        /\ UNCHANGED <<confirmed, gone, snapshots, recentH>>
    BY DEF Verifier!DrainBlocks
  <2>2. \A e \in Verifier!Drainers : drained'[e].hashes = drained[e].hashes
    BY <1>0, <2>1
  <2>3. \A e \in Verifier!Drainers : at'[e] # "hashes" => at[e] # "hashes"
    BY <1>0, <2>1
  <2>4. QED
    BY <2>1, <2>2, <2>3, PlacesStay
<1>3. CASE \E d \in Verifier!Drainers : Verifier!DrainHashes(d)
  BY <1>3, DrainPlaces
<1>4. CASE \E d \in Verifier!Drainers, p, q \in BOOLEAN : Verifier!Snapshot(d, p, q)
  BY <1>4, SnapshotPlaces
<1>5. CASE \/ \E b \in DOMAIN chain : Verifier!NewHeader(b)
           \/ Verifier!Stop
           \/ \E delta \in {0, 1} : Verifier!Aggregate(delta)
           \/ \E delta \in {0, 1}, found \in SUBSET DOMAIN chain, sample \in SUBSET confirmed :
                Verifier!FullVerify(delta, found, sample)
           \/ UNCHANGED verifyVars
  <2>1. UNCHANGED <<confirmed, gone, snapshots, recentH, at, drained>>
    BY <1>5 DEF Verifier!NewHeader, Verifier!Stop, Verifier!Aggregate, Verifier!FullVerify, verifyVars
  <2>2. QED
    BY <2>1, PlacesStay
<1>6. QED
  BY <1>1, <1>2, <1>3, <1>4, <1>5 DEF Verifier!Next

-----------------------------------------------------------------------------
(* The verdict.  First what is true of any numbers and lists of them.        *)
LEMMA LeastOf ==
  ASSUME NEW T \in SUBSET Nat, T # {}
  PROVE  \E x \in T : \A y \in T : x <= y
<1>1. \E x \in T : \A y \in T : ~(<<y, x>> \in OpToRel(<, Nat))
  BY NatLessThanWellFounded, WFMin
<1>2. PICK x \in T : \A y \in T : ~(<<y, x>> \in OpToRel(<, Nat))
  BY <1>1
<1>3. \A y \in T : ~(y < x)
  BY <1>2 DEF OpToRel
<1>4. QED
  BY <1>3

(* A set of numbers that has the first and every next one has all.           *)
LEMMA AllNumbers ==
  ASSUME NEW T \in SUBSET Nat, 0 \in T, \A k \in T : k + 1 \in T
  PROVE  T = Nat
<1> SUFFICES ASSUME Nat \ T # {} PROVE FALSE
  OBVIOUS
<1>1. PICK x \in Nat \ T : \A y \in Nat \ T : x <= y
  BY LeastOf
<1>2. x # 0 /\ x - 1 \in Nat /\ x - 1 \in T
  BY <1>1
<1>3. x \in T
  <2>1. (x - 1) + 1 = x
    BY <1>1
  <2>2. QED
    BY <1>2, <2>1
<1>4. QED
  BY <1>1, <1>3

(* Of finitely many numbers and nothing, one is the greatest.                *)
LEMMA Greatest ==
  ASSUME NEW n \in Nat, NEW g \in [1..n -> Nat]
  PROVE  \E m \in Nat : /\ m = 0 \/ \E i \in 1..n : m = g[i]
                        /\ \A i \in 1..n : g[i] <= m
<1> DEFINE Found(k) == \E m \in Nat : /\ m = 0 \/ \E i \in 1..k : m = g[i]
                                      /\ \A i \in 1..k : g[i] <= m
           T == {k \in Nat : k <= n => Found(k)}
<1>1. 0 \in T
  BY DEF Found
<1>2. ASSUME NEW k \in T PROVE k + 1 \in T
  <2> SUFFICES ASSUME k + 1 <= n PROVE Found(k + 1)
    OBVIOUS
  <2>1. PICK m \in Nat : (m = 0 \/ \E i \in 1..k : m = g[i]) /\ \A i \in 1..k : g[i] <= m
    BY <1>2
  <2>2. k + 1 \in 1..n /\ g[k + 1] \in Nat /\ \A i \in 1..(k + 1) : i = k + 1 \/ i \in 1..k
    OBVIOUS
  <2>3. CASE g[k + 1] <= m
    <3>1. \A i \in 1..(k + 1) : g[i] <= m
      BY <2>1, <2>2, <2>3
    <3>2. m = 0 \/ \E i \in 1..(k + 1) : m = g[i]
      BY <2>1
    <3>3. QED
      BY <3>1, <3>2
  <2>4. CASE m < g[k + 1]
    <3>1. \A i \in 1..(k + 1) : g[i] <= g[k + 1]
      <4>1. \A i \in 1..k : g[i] \in Nat
        BY <2>2
      <4>2. QED
        BY <2>1, <2>2, <2>4, <4>1
    <3>2. k + 1 \in 1..(k + 1)
      OBVIOUS
    <3>3. QED
      BY <2>2, <3>1, <3>2
  <2>5. QED
    BY <2>2, <2>3, <2>4
<1>3. n \in T
  <2> HIDE DEF T
  <2>1. T \in SUBSET Nat
    BY DEF T
  <2>2. QED
    BY <1>1, <1>2, <2>1, AllNumbers
<1>4. Found(n)
  BY <1>3
<1>5. QED
  BY <1>4

(* Places on a list can be gone through from the first to the last.          *)
LEMMA Enumerated ==
  ASSUME NEW n \in Nat, NEW P \in SUBSET (1..n)
  PROVE  \E m \in Nat : \E f \in [1..m -> P] :
           /\ \A i, j \in 1..m : i < j => f[i] < f[j]
           /\ \A p \in P : \E i \in 1..m : f[i] = p
<1> DEFINE Q(k) == {p \in P : p <= k}
           Goes(k, m, f) == /\ \A i, j \in 1..m : i < j => f[i] < f[j]
                            /\ \A p \in Q(k) : \E i \in 1..m : f[i] = p
           T == {k \in Nat : \E m \in Nat : \E f \in [1..m -> Q(k)] : Goes(k, m, f)}
<1>0. \A p \in P : p \in Nat /\ 1 <= p /\ p <= n
  OBVIOUS
<1>1. 0 \in T
  <2>1. Q(0) = {}
    <3>1. \A p \in P : ~(p <= 0)
      BY <1>0
    <3>2. QED
      BY <3>1
  <2>2. [i \in 1..0 |-> 0] \in [1..0 -> Q(0)]
    OBVIOUS
  <2>3. Goes(0, 0, [i \in 1..0 |-> 0])
    BY <2>1
  <2> HIDE DEF Goes, Q
  <2>4. QED
    BY <2>2, <2>3
<1>2. ASSUME NEW k \in T PROVE k + 1 \in T
  <2>0. PICK m \in Nat : \E f \in [1..m -> Q(k)] : Goes(k, m, f)
    BY <1>2
  <2>1. PICK f \in [1..m -> Q(k)] : Goes(k, m, f)
    BY <2>0
  <2>2. \A i \in 1..m : f[i] \in P /\ f[i] \in Nat /\ f[i] <= k
    BY <1>0, <2>1
  <2>3. CASE k + 1 \in P
    <3> DEFINE g == [i \in 1..(m + 1) |-> IF i = m + 1 THEN k + 1 ELSE f[i]]
    <3>1. \A i \in 1..(m + 1) : i = m + 1 \/ i \in 1..m
      OBVIOUS
    <3>2. g \in [1..(m + 1) -> Q(k + 1)]
      <4>1. \A i \in 1..(m + 1) : g[i] \in Q(k + 1)
        BY <2>2, <2>3, <3>1
      <4>2. QED
        BY <4>1
    <3>3. \A i, j \in 1..(m + 1) : i < j => g[i] < g[j]
      BY <2>1, <2>2, <3>1
    <3>4. \A p \in Q(k + 1) : \E i \in 1..(m + 1) : g[i] = p
      <4> SUFFICES ASSUME NEW p \in Q(k + 1) PROVE \E i \in 1..(m + 1) : g[i] = p
        OBVIOUS
      <4>1. CASE p = k + 1
        <5>1. m + 1 \in 1..(m + 1) /\ g[m + 1] = k + 1
          OBVIOUS
        <5>2. QED
          BY <4>1, <5>1
      <4>2. CASE p # k + 1
        <5>1. p \in Q(k)
          BY <1>0, <4>2
        <5>2. PICK i \in 1..m : f[i] = p
          BY <2>1, <5>1
        <5>3. i \in 1..(m + 1) /\ g[i] = p
          BY <5>2
        <5>4. QED
          BY <5>3
      <4>3. QED
        BY <4>1, <4>2
    <3>5. Goes(k + 1, m + 1, g)
      BY <3>3, <3>4
    <3>6. m + 1 \in Nat /\ k + 1 \in Nat
      OBVIOUS
    <3> HIDE DEF Goes, Q, g
    <3>7. QED
      BY <3>2, <3>5, <3>6
  <2>4. CASE k + 1 \notin P
    <3>1. Q(k + 1) = Q(k)
      <4>1. \A p \in P : p <= k + 1 <=> p <= k
        BY <1>0, <2>4
      <4>2. QED
        BY <4>1
    <3>2. Goes(k + 1, m, f)
      BY <2>1, <3>1
    <3> HIDE DEF Goes, Q
    <3>3. QED
      BY <2>1, <3>1, <3>2
  <2>5. QED
    BY <2>3, <2>4
<1>3. n \in T
  <2> HIDE DEF T
  <2>1. T \in SUBSET Nat
    BY DEF T
  <2>2. QED
    BY <1>1, <1>2, <2>1, AllNumbers
<1>4. Q(n) = P
  BY <1>0
<1>5. PICK m \in Nat : \E f \in [1..m -> Q(n)] : Goes(n, m, f)
  BY <1>3
<1>6. PICK f \in [1..m -> Q(n)] : Goes(n, m, f)
  BY <1>5
<1>7. QED
  BY <1>4, <1>6

(* Neighbours in order: all in order.                                        *)
LEMMA NeighboursSuffice ==
  ASSUME NEW n \in Nat, NEW g \in [1..n -> Nat]
  PROVE  /\ (\A i \in 2..n : g[i] <= g[i - 1]) => \A i, j \in 1..n : i < j => g[j] <= g[i]
         /\ (\A i \in 2..n : g[i] >= g[i - 1]) => \A i, j \in 1..n : i < j => g[j] >= g[i]
<1>1. ASSUME \A i \in 2..n : g[i] <= g[i - 1], NEW i \in 1..n
      PROVE  \A j \in 1..n : i < j => g[j] <= g[i]
  <2> DEFINE T == {k \in Nat : i + k <= n => g[i + k] <= g[i]}
  <2>1. 0 \in T
    OBVIOUS
  <2>2. ASSUME NEW k \in T PROVE k + 1 \in T
    <3> SUFFICES ASSUME i + (k + 1) <= n PROVE g[i + (k + 1)] <= g[i]
      OBVIOUS
    <3>1. i + k \in 1..n /\ i + (k + 1) \in 2..n /\ (i + (k + 1)) - 1 = i + k
      OBVIOUS
    <3>2. g[i + (k + 1)] <= g[i + k] /\ g[i + k] <= g[i]
      BY <1>1, <3>1
    <3>3. g[i + (k + 1)] \in Nat /\ g[i + k] \in Nat /\ g[i] \in Nat
      BY <3>1
    <3>4. QED
      BY <3>2, <3>3
  <2>3. T = Nat
    <3> HIDE DEF T
    <3>1. T \in SUBSET Nat
      BY DEF T
    <3>2. QED
      BY <2>1, <2>2, <3>1, AllNumbers
  <2>4. ASSUME NEW j \in 1..n, i < j PROVE g[j] <= g[i]
    <3>1. j - i \in Nat /\ i + (j - i) = j /\ j <= n
      BY <2>4
    <3>2. j - i \in T
      BY <2>3, <3>1
    <3>3. QED
      BY <3>1, <3>2
  <2>5. QED
    BY <2>4
<1>2. ASSUME \A i \in 2..n : g[i] >= g[i - 1], NEW i \in 1..n
      PROVE  \A j \in 1..n : i < j => g[j] >= g[i]
  <2> DEFINE T == {k \in Nat : i + k <= n => g[i + k] >= g[i]}
  <2>1. 0 \in T
    OBVIOUS
  <2>2. ASSUME NEW k \in T PROVE k + 1 \in T
    <3> SUFFICES ASSUME i + (k + 1) <= n PROVE g[i + (k + 1)] >= g[i]
      OBVIOUS
    <3>1. i + k \in 1..n /\ i + (k + 1) \in 2..n /\ (i + (k + 1)) - 1 = i + k
      OBVIOUS
    <3>2. g[i + (k + 1)] >= g[i + k] /\ g[i + k] >= g[i]
      BY <1>2, <3>1
    <3>3. g[i + (k + 1)] \in Nat /\ g[i + k] \in Nat /\ g[i] \in Nat
      BY <3>1
    <3>4. QED
      BY <3>2, <3>3
  <2>3. T = Nat
    <3> HIDE DEF T
    <3>1. T \in SUBSET Nat
      BY DEF T
    <3>2. QED
      BY <2>1, <2>2, <3>1, AllNumbers
  <2>4. ASSUME NEW j \in 1..n, i < j PROVE g[j] >= g[i]
    <3>1. j - i \in Nat /\ i + (j - i) = j /\ j <= n
      BY <2>4
    <3>2. j - i \in T
      BY <2>3, <3>1
    <3>3. QED
      BY <3>1, <3>2
  <2>5. QED
    BY <2>4
<1>3. QED
  BY <1>1, <1>2

(* A block of the chain, without its deposit or with it.                     *)
LEMMA UserTxsAre ==
  ASSUME chain \in Chains, NEW b \in DOMAIN chain
  PROVE  \E S : /\ Verifier!UserTxs(b) \in Seq(S)
                /\ \A t \in S : Verifier!TipOf(t) \in Nat
<1> DEFINE S == {chain[b][i] : i \in DOMAIN chain[b]}
<1>1. chain[b] \in Seq(S) /\ \A t \in S : t.tip \in Nat /\ t.price \in Nat
  BY ObservationAssumption
<1> HIDE DEF S
<1>2. Verifier!UserTxs(b) \in Seq(S)
  <2>1. chain[b] # <<>> => Tail(chain[b]) \in Seq(S)
    BY <1>1
  <2>2. QED
    BY <1>1, <2>1 DEF Verifier!UserTxs
<1>3. \A t \in S : Verifier!TipOf(t) \in Nat
  BY <1>1 DEF Verifier!TipOf
<1>4. QED
  BY <1>2, <1>3

LEMMA SendersAre ==
  ASSUME chain \in Chains, NEW b \in DOMAIN chain
  PROVE  /\ Len(Verifier!UserTxs(b)) \in Nat
         /\ DOMAIN Verifier!UserTxs(b) = 1..Len(Verifier!UserTxs(b))
         /\ Verifier!Senders(b) =
              {Verifier!UserTxs(b)[i].from : i \in 1..Len(Verifier!UserTxs(b))}
<1>1. PICK S : Verifier!UserTxs(b) \in Seq(S)
  BY UserTxsAre
<1>2. Verifier!ToSet(Verifier!UserTxs(b)) =
        {Verifier!UserTxs(b)[i] : i \in 1..Len(Verifier!UserTxs(b))}
  BY <1>1, ToSetIs
<1>3. QED
  BY <1>1, <1>2 DEF Verifier!Senders

(* A sender has a first transaction, and it is no other sender's.            *)
LEMMA FirstAtIs ==
  ASSUME chain \in Chains, NEW b \in DOMAIN chain, NEW s \in Verifier!Senders(b)
  PROVE  /\ Verifier!FirstAt(b, s) \in 1..Len(Verifier!UserTxs(b))
         /\ Verifier!UserTxs(b)[Verifier!FirstAt(b, s)].from = s
<1> DEFINE u == Verifier!UserTxs(b)
           T == {i \in 1..Len(u) : u[i].from = s}
<1>1. Len(u) \in Nat /\ DOMAIN u = 1..Len(u) /\ \E i \in 1..Len(u) : u[i].from = s
  BY SendersAre
<1>2. T \in SUBSET Nat /\ T # {}
  BY <1>1
<1>3. PICK x \in T : \A y \in T : x <= y
  BY <1>2, LeastOf
<1>4. \A j \in 1..(x - 1) : u[j].from # s
  <2> SUFFICES ASSUME NEW j \in 1..(x - 1), u[j].from = s PROVE FALSE
    OBVIOUS
  <2>1. j \in 1..Len(u)
    BY <1>1, <1>3
  <2>2. j \in T
    BY <2>1
  <2>3. x <= j
    BY <1>3, <2>2
  <2>4. QED
    BY <1>3, <2>1, <2>3
<1>5. \E i \in DOMAIN u : u[i].from = s /\ \A j \in 1..(i - 1) : u[j].from # s
  BY <1>1, <1>3, <1>4
<1>6. QED
  BY <1>1, <1>5 DEF Verifier!FirstAt

(* The senders of a block, in the order in which the code meets them.        *)
LEMMA SenderOrderIs ==
  ASSUME chain \in Chains, NEW b \in DOMAIN chain
  PROVE  \E n \in Nat :
           /\ Verifier!SenderOrder(b) \in [1..n -> Verifier!Senders(b)]
           /\ \A i, j \in 1..n : i < j =>
                Verifier!FirstAt(b, Verifier!SenderOrder(b)[i]) < Verifier!FirstAt(b, Verifier!SenderOrder(b)[j])
           /\ \A s \in Verifier!Senders(b) : \E i \in 1..n : Verifier!SenderOrder(b)[i] = s
<1> DEFINE u == Verifier!UserTxs(b)
           S == Verifier!Senders(b)
           At(s) == Verifier!FirstAt(b, s)
           P == {At(s) : s \in S}
           Rising(f) == \A i, j \in DOMAIN f : i < j => At(f[i]) < At(f[j])
<1>1. Len(u) \in Nat /\ \A s \in S : At(s) \in 1..Len(u) /\ u[At(s)].from = s
  BY SendersAre, FirstAtIs
<1> HIDE DEF u, S, At
<1>2. PICK m \in Nat : \E e \in [1..m -> P] :
        /\ \A i, j \in 1..m : i < j => e[i] < e[j]
        /\ \A p \in P : \E i \in 1..m : e[i] = p
  <2>1. P \in SUBSET (1..Len(u))
    BY <1>1
  <2> HIDE DEF P
  <2>2. QED
    BY <1>1, <2>1, Enumerated
<1>3. PICK e \in [1..m -> P] :
        /\ \A i, j \in 1..m : i < j => e[i] < e[j]
        /\ \A p \in P : \E i \in 1..m : e[i] = p
  BY <1>2
<1> DEFINE w == [i \in 1..m |-> u[e[i]].from]
<1>4. \A i \in 1..m : w[i] \in S /\ At(w[i]) = e[i]
  <2> SUFFICES ASSUME NEW i \in 1..m PROVE w[i] \in S /\ At(w[i]) = e[i]
    OBVIOUS
  <2>1. e[i] \in P
    BY <1>3
  <2>2. PICK s \in S : e[i] = At(s)
    BY <2>1
  <2>3. w[i] = s
    BY <1>1, <2>2
  <2>4. QED
    BY <2>2, <2>3
<1>5. w \in [1..m -> S] /\ DOMAIN w = 1..m
  BY <1>4
<1>6. \A s \in S : \E i \in 1..m : w[i] = s
  <2> SUFFICES ASSUME NEW s \in S PROVE \E i \in 1..m : w[i] = s
    OBVIOUS
  <2>1. PICK i \in 1..m : e[i] = At(s)
    BY <1>3
  <2>2. w[i] = s
    BY <1>1, <2>1
  <2>3. QED
    BY <2>2
<1> HIDE DEF w
<1>7. Rising(w)
  BY <1>3, <1>4, <1>5
<1> HIDE DEF P
<1>8. ASSUME NEW f, NEW k \in Nat, f \in [1..k -> S], Rising(f)
      PROVE  f \in Injection(1..k, S) /\ \A i, j \in 1..k : i # j => f[i] # f[j]
  <2>1. \A i, j \in 1..k : f[i] = f[j] => i = j
    <3> SUFFICES ASSUME NEW i \in 1..k, NEW j \in 1..k, f[i] = f[j], i # j PROVE FALSE
      OBVIOUS
    <3>1. At(f[i]) \in Nat
      BY <1>1, <1>8
    <3>2. i < j \/ j < i
      OBVIOUS
    <3>3. ~(At(f[i]) < At(f[j])) /\ ~(At(f[j]) < At(f[i]))
      BY <3>1
    <3>4. QED
      BY <1>8, <3>2, <3>3
  <2>2. QED
    BY <1>8, <2>1 DEF Injection, IsInjective
<1>9. IsFiniteSet(S) /\ Cardinality(S) = m
  <2>1. w \in Bijection(1..m, S)
    <3>1. w \in Injection(1..m, S)
      BY <1>5, <1>7, <1>8
    <3>2. w \in Surjection(1..m, S)
      BY <1>5, <1>6 DEF Surjection
    <3>3. QED
      BY <3>1, <3>2 DEF Bijection
  <2>2. ExistsBijection(1..m, S)
    BY <2>1 DEF ExistsBijection
  <2>3. QED
    BY <2>2, FS_CountingElements, FS_NatBijection
<1>10. Verifier!SetToSeqs(S) = {f \in [1..m -> S] : \A i, j \in 1..m : i # j => f[i] # f[j]}
  <2>1. Verifier!Cardinality(S) = Cardinality(S)
    BY DEF Verifier!Cardinality, Cardinality
  <2>2. QED
    BY <1>9, <2>1 DEF Verifier!SetToSeqs
<1>11. w \in Verifier!SetToSeqs(S)
  BY <1>5, <1>7, <1>8, <1>10
<1> DEFINE o == Verifier!SenderOrder(b)
<1>12. o \in Verifier!SetToSeqs(S) /\ Rising(o)
  <2>1. \E f \in Verifier!SetToSeqs(S) : Rising(f)
    BY <1>7, <1>11
  <2>2. o = CHOOSE f \in Verifier!SetToSeqs(S) : Rising(f)
    BY DEF Verifier!SenderOrder, S, At
  <2> HIDE DEF o, Rising
  <2>3. QED
    BY <2>1, <2>2
<1> HIDE DEF o
<1>13. o \in [1..m -> S]
  BY <1>10, <1>12
<1>14. o \in Surjection(1..m, S)
  <2>1. o \in Injection(1..m, S)
    BY <1>8, <1>12, <1>13
  <2>2. IsFiniteSet(1..m) /\ Cardinality(1..m) = m
    BY FS_Interval
  <2>3. QED
    BY <1>9, <2>1, <2>2, FS_Injection
<1>15. \A s \in S : \E i \in 1..m : o[i] = s
  BY <1>14 DEF Surjection
<1>16. \A i, j \in 1..m : i < j => At(o[i]) < At(o[j])
  BY <1>12, <1>13
<1>17. QED
  BY <1>13, <1>15, <1>16 DEF o, S, At

LEMMA MaxTipIs ==
  ASSUME chain \in Chains, NEW b \in DOMAIN chain, NEW s
  PROVE  Verifier!MaxTip(b, s) \in Nat
<1> DEFINE u == Verifier!UserTxs(b)
           tips == {Verifier!TipOf(t) : t \in {v \in Verifier!ToSet(u) : v.from = s}}
           g == [i \in 1..Len(u) |-> IF u[i].from = s THEN Verifier!TipOf(u[i]) ELSE 0]
<1>1. PICK S : u \in Seq(S) /\ \A t \in S : Verifier!TipOf(t) \in Nat
  BY UserTxsAre
<1>2. Len(u) \in Nat /\ Verifier!ToSet(u) = {u[i] : i \in 1..Len(u)} /\ \A i \in 1..Len(u) : u[i] \in S
  BY <1>1, ToSetIs
<1> HIDE DEF u
<1>3. g \in [1..Len(u) -> Nat]
  BY <1>1, <1>2
<1>4. \A x \in tips : \E i \in 1..Len(u) : x = g[i]
  BY <1>2
<1>5. \A i \in 1..Len(u) : g[i] \in {0} \cup tips
  BY <1>2
<1> HIDE DEF g
<1>6. PICK m \in Nat : (m = 0 \/ \E i \in 1..Len(u) : m = g[i]) /\ \A i \in 1..Len(u) : g[i] <= m
  BY <1>2, <1>3, Greatest
<1>7. m \in {0} \cup tips
  BY <1>5, <1>6
<1>8. \A x \in {0} \cup tips : m >= x
  BY <1>3, <1>4, <1>6
<1>9. {0} \cup tips \subseteq Nat
  BY <1>3, <1>4
<1> HIDE DEF tips
<1>10. Verifier!Max({0} \cup tips) \in {0} \cup tips
  BY <1>7, <1>8 DEF Verifier!Max
<1>11. Verifier!MaxTip(b, s) = Verifier!Max({0} \cup tips)
  BY DEF Verifier!MaxTip, tips, u
<1>12. QED
  BY <1>9, <1>10, <1>11

LEMMA LenOfFunction ==
  ASSUME NEW n \in Nat, NEW S, NEW f \in [1..n -> S]
  PROVE  Len(f) = n
<1>1. f \in Seq(S)
  OBVIOUS
<1>2. DOMAIN f = 1..n /\ DOMAIN f = 1..Len(f) /\ Len(f) \in Nat
  BY <1>1
<1>3. QED
  BY <1>2

(* The best tips, sender by sender.                                          *)
LEMMA SenderTipsAre ==
  ASSUME chain \in Chains, NEW b \in DOMAIN chain,
         NEW n \in Nat, Verifier!SenderOrder(b) \in [1..n -> Verifier!Senders(b)]
  PROVE  /\ Verifier!SenderTips(b) \in [1..n -> Nat] /\ Len(Verifier!SenderTips(b)) = n
         /\ Len(Verifier!SenderOrder(b)) = n
         /\ \A i \in 1..n : Verifier!SenderTips(b)[i] = Verifier!MaxTip(b, Verifier!SenderOrder(b)[i])
<1>1. \A s : Verifier!MaxTip(b, s) \in Nat
  BY MaxTipIs
<1>2. Verifier!SenderTips(b) = [i \in 1..n |-> Verifier!MaxTip(b, Verifier!SenderOrder(b)[i])]
  BY DEF Verifier!SenderTips
<1>3. Verifier!SenderTips(b) \in [1..n -> Nat]
  BY <1>1, <1>2
<1>4. Len(Verifier!SenderTips(b)) = n /\ Len(Verifier!SenderOrder(b)) = n
  BY <1>3, LenOfFunction
<1>5. QED
  BY <1>2, <1>3, <1>4

(* checkSenderTipOrdering compares neighbours: that is all pairs.            *)
LEMMA IsOrderedIsInOrder ==
  ASSUME chain \in Chains, NEW b \in DOMAIN chain
  PROVE  /\ Verifier!IsOrdered(b) <=> Verifier!InOrder(b)
         /\ Verifier!Passes(b) <=> Verifier!InOrder(b)
<1> DEFINE o == Verifier!SenderOrder(b)
           tips == Verifier!SenderTips(b)
           At(s) == Verifier!FirstAt(b, s)
           Tip(s) == Verifier!MaxTip(b, s)
           S == Verifier!Senders(b)
           desc == ordering = "tip_desc"
           asc == ordering = "tip_asc"
<1>1. PICK n \in Nat : /\ o \in [1..n -> S]
                       /\ \A i, j \in 1..n : i < j => At(o[i]) < At(o[j])
                       /\ \A s \in S : \E i \in 1..n : o[i] = s
  BY SenderOrderIs
<1>2. /\ tips \in [1..n -> Nat] /\ Len(tips) = n /\ Len(o) = n
      /\ \A i \in 1..n : tips[i] = Tip(o[i])
  BY <1>1, SenderTipsAre
<1>3. \A s \in S : At(s) \in Nat
  BY SendersAre, FirstAtIs
<1>4. Verifier!IsOrdered(b) <=> \A i \in 2..n :
        /\ desc => tips[i] <= tips[i - 1]
        /\ asc => tips[i] >= tips[i - 1]
  BY <1>2, Zenon DEF Verifier!IsOrdered
<1>5. Verifier!InOrder(b) <=> \A s, t \in S : At(s) < At(t) =>
      /\ desc => Tip(s) >= Tip(t)
      /\ asc => Tip(s) <= Tip(t)
  BY Zenon DEF Verifier!InOrder, Verifier!Leads
<1>6. Verifier!Passes(b) <=> n <= 1 \/ Verifier!IsOrdered(b)
  BY <1>2, Zenon DEF Verifier!Passes
<1> HIDE DEF o, tips, At, Tip, S, desc, asc
<1>7. ASSUME Verifier!IsOrdered(b) PROVE Verifier!InOrder(b)
  <2> SUFFICES ASSUME NEW s \in S, NEW t \in S, At(s) < At(t)
               PROVE  (desc => Tip(s) >= Tip(t)) /\ (asc => Tip(s) <= Tip(t))
    BY <1>5
  <2>1. PICK i \in 1..n, j \in 1..n : o[i] = s /\ o[j] = t
    BY <1>1
  <2>2. i < j
    <3>1. ~(j < i)
      <4>1. j < i => At(t) < At(s)
        BY <1>1, <2>1
      <4>2. QED
        BY <1>3, <4>1
    <3>2. i # j
      BY <1>3, <2>1
    <3>3. QED
      BY <3>1, <3>2
  <2>3. tips[i] = Tip(s) /\ tips[j] = Tip(t) /\ tips[i] \in Nat /\ tips[j] \in Nat
    BY <1>2, <2>1
  <2>4. /\ (\A k \in 2..n : tips[k] <= tips[k - 1]) => tips[j] <= tips[i]
        /\ (\A k \in 2..n : tips[k] >= tips[k - 1]) => tips[j] >= tips[i]
    BY <1>2, <2>2, NeighboursSuffice
  <2>5. /\ desc => tips[j] <= tips[i]
        /\ asc => tips[j] >= tips[i]
    BY <1>4, <1>7, <2>4
  <2>6. QED
    BY <2>3, <2>5
<1>8. ASSUME Verifier!InOrder(b) PROVE Verifier!IsOrdered(b)
  <2> SUFFICES ASSUME NEW i \in 2..n
               PROVE  (desc => tips[i] <= tips[i - 1]) /\ (asc => tips[i] >= tips[i - 1])
    BY <1>4
  <2>1. i \in 1..n /\ i - 1 \in 1..n /\ i - 1 < i
    OBVIOUS
  <2>2. o[i] \in S /\ o[i - 1] \in S /\ At(o[i - 1]) < At(o[i])
    BY <1>1, <2>1
  <2>3. (desc => Tip(o[i - 1]) >= Tip(o[i])) /\ (asc => Tip(o[i - 1]) <= Tip(o[i]))
    BY <1>5, <1>8, <2>2
  <2>4. /\ tips[i] = Tip(o[i]) /\ tips[i - 1] = Tip(o[i - 1])
        /\ tips[i] \in Nat /\ tips[i - 1] \in Nat
    BY <1>2, <2>1
  <2>5. QED
    BY <2>3, <2>4
<1>9. n <= 1 => Verifier!IsOrdered(b)
  BY <1>4
<1>10. QED
  BY <1>6, <1>7, <1>8, <1>9

(* findSenderOrderingViolations stops at ten, and so finds one if there is.  *)
LEMMA FaultsAreFound ==
  ASSUME chain \in Chains, NEW b \in DOMAIN chain, Verifier!ChecksOrder(ordering)
  PROVE  Verifier!Violations(b) # {} <=> ~Verifier!InOrder(b)
<1> DEFINE tips == Verifier!SenderTips(b)
           desc == ordering = "tip_desc"
           asc == ordering = "tip_asc"
           bad == {i \in 2..Len(tips) : (desc /\ tips[i] > tips[i - 1]) \/ (asc /\ tips[i] < tips[i - 1])}
<1>1. PICK n \in Nat : Verifier!SenderOrder(b) \in [1..n -> Verifier!Senders(b)]
  BY SenderOrderIs
<1>2. tips \in [1..n -> Nat] /\ Len(tips) = n
  BY <1>1, SenderTipsAre
<1>3. Verifier!IsOrdered(b) <=> \A i \in 2..Len(tips) :
        /\ desc => tips[i] <= tips[i - 1]
        /\ asc => tips[i] >= tips[i - 1]
  BY Zenon DEF Verifier!IsOrdered
<1>4. Verifier!Violations(b) = {i \in bad : Verifier!Cardinality({j \in bad : j < i}) < 10}
  BY Zenon DEF Verifier!Violations
<1> HIDE DEF tips, desc, asc
<1>5. \A i \in 2..n : tips[i] \in Nat /\ tips[i - 1] \in Nat
  <2>1. \A i \in 2..n : i \in 1..n /\ i - 1 \in 1..n
    OBVIOUS
  <2>2. QED
    BY <1>2, <2>1
<1>6. bad = {} <=> Verifier!IsOrdered(b)
  <2>1. \A i \in 2..n : i \in bad <=> ~((desc => tips[i] <= tips[i - 1]) /\ (asc => tips[i] >= tips[i - 1]))
    BY <1>2, <1>5
  <2>2. bad \subseteq 2..n
    BY <1>2
  <2> HIDE DEF bad
  <2>3. QED
    BY <1>2, <1>3, <2>1, <2>2
<1>7. bad \in SUBSET Nat
  BY <1>2
<1> HIDE DEF bad
<1>8. ASSUME bad # {} PROVE Verifier!Violations(b) # {}
  <2>1. PICK i \in bad : \A j \in bad : i <= j
    BY <1>7, <1>8, LeastOf
  <2>2. {j \in bad : j < i} = {}
    <3>1. \A j \in bad : ~(j < i)
      BY <1>7, <2>1
    <3>2. QED
      BY <3>1
  <2>3. Verifier!Cardinality({}) = 0
    <3>1. Verifier!Cardinality({}) = Cardinality({})
      BY DEF Verifier!Cardinality, Cardinality
    <3>2. QED
      BY <3>1, FS_EmptySet
  <2>4. QED
    BY <1>4, <2>1, <2>2, <2>3
<1>9. bad = {} => Verifier!Violations(b) = {}
  BY <1>4
<1>10. QED
  BY <1>6, <1>8, <1>9, IsOrderedIsInOrder

(* What a snapshot looked at is on the chain and was confirmed, and the      *)
(* result is the verdict on what it says was looked at.                      *)
VerdictInv ==
  /\ \A n \in snapshots : n.blocks \subseteq DOMAIN chain /\ n.hashes \subseteq confirmed
  /\ result.made => /\ result = Verifier!Verdict(result.delta, result.blocks, result.hashes)
                    /\ result.blocks \subseteq DOMAIN chain
                    /\ result.hashes \subseteq confirmed

LEMMA InitVerdict == Verifier!Init => VerdictInv
<1> SUFFICES ASSUME Verifier!Init PROVE VerdictInv
  OBVIOUS
<1>1. snapshots = {} /\ ~result.made
  BY DEF Verifier!Init, Verifier!NoResult
<1>2. QED
  BY <1>1 DEF VerdictInv

LEMMA VerdictMade ==
  ASSUME NEW delta, NEW B, NEW H
  PROVE  /\ Verifier!Verdict(delta, B, H).delta = delta
         /\ Verifier!Verdict(delta, B, H).blocks = B
         /\ Verifier!Verdict(delta, B, H).hashes = H
BY DEF Verifier!Verdict

LEMMA SameVerdict ==
  ASSUME UNCHANGED <<chain, ordering, deposit>>
  PROVE  \A delta, B, H : Verifier!Verdict(delta, B, H)' = Verifier!Verdict(delta, B, H)
<1>1. \A b : Verifier!UserTxs(b)' = Verifier!UserTxs(b)
  BY DEF Verifier!UserTxs
<1>2. \A b, s : Verifier!FirstAt(b, s)' = Verifier!FirstAt(b, s)
  BY <1>1 DEF Verifier!FirstAt
<1>3. \A b : Verifier!Senders(b)' = Verifier!Senders(b)
  BY <1>1 DEF Verifier!Senders, Verifier!ToSet
<1>4. \A b : Verifier!SenderOrder(b)' = Verifier!SenderOrder(b)
  BY <1>2, <1>3 DEF Verifier!SenderOrder
<1>5. \A b, s : Verifier!MaxTip(b, s)' = Verifier!MaxTip(b, s)
  BY <1>1 DEF Verifier!MaxTip, Verifier!ToSet, Verifier!TipOf
<1>6. \A b : Verifier!SenderTips(b)' = Verifier!SenderTips(b)
  BY <1>4, <1>5 DEF Verifier!SenderTips
<1>7. \A b : /\ Verifier!Passes(b)' <=> Verifier!Passes(b)
             /\ Verifier!Violations(b)' = Verifier!Violations(b)
  BY <1>4, <1>6 DEF Verifier!Passes, Verifier!IsOrdered, Verifier!Violations
<1>8. \A H : Verifier!Reverted(H)' = Verifier!Reverted(H)
  BY DEF Verifier!Reverted, Verifier!TxOf, Verifier!TxsOf, Verifier!ToSet
<1>9. QED
  BY <1>7, <1>8 DEF Verifier!Verdict, Verifier!ChecksOrder

(* The entries of a list that are sampled are entries of it.                 *)
LEMMA SpreadWithin ==
  ASSUME NEW S, NEW s \in Seq(S)
  PROVE  Verifier!Spread(s) \subseteq S /\ Verifier!Spread(s) \subseteq Verifier!ToSet(s)
<1>1. DOMAIN s = 1..Len(s) /\ \A i \in DOMAIN s : s[i] \in S
  OBVIOUS
<1>2. \A x \in Verifier!Spread(s) : \E i \in DOMAIN s : x = s[i]
  BY Zenon DEF Verifier!Spread
<1>3. QED
  BY <1>1, <1>2, ToSetIs

LEMMA VerdictStep == VerifyInv /\ VerdictInv /\ [Verifier!Next]_verifyVars => VerdictInv'
<1> SUFFICES ASSUME VerifyInv, VerdictInv, [Verifier!Next]_verifyVars PROVE VerdictInv'
  OBVIOUS
<1>0. UNCHANGED <<chain, ordering, live, deposit>>
  BY ChainStays
<1>1. \A delta, B, H : Verifier!Verdict(delta, B, H)' = Verifier!Verdict(delta, B, H)
  BY <1>0, SameVerdict
<1>2. ASSUME UNCHANGED <<result, snapshots>>, confirmed \subseteq confirmed' PROVE VerdictInv'
  <2>1. DOMAIN chain' = DOMAIN chain
    BY <1>0
  <2>2. \A n \in snapshots' : n.blocks \subseteq DOMAIN chain' /\ n.hashes \subseteq confirmed'
    BY <1>2, <2>1 DEF VerdictInv
  <2>3. result'.made => /\ result' = Verifier!Verdict(result'.delta, result'.blocks, result'.hashes)
                        /\ result'.blocks \subseteq DOMAIN chain'
                        /\ result'.hashes \subseteq confirmed'
    BY <1>2, <2>1 DEF VerdictInv
  <2>4. QED
    BY <1>1, <2>2, <2>3 DEF VerdictInv
<1>3. CASE \E h \in Verifier!Hashes : Verifier!Confirm(h)
  BY <1>2, <1>3 DEF Verifier!Confirm
<1>4. CASE \/ \E b \in DOMAIN chain : Verifier!NewHeader(b)
           \/ \E d \in Verifier!Drainers : Verifier!DrainBlocks(d)
           \/ \E d \in Verifier!Drainers : Verifier!DrainHashes(d)
           \/ Verifier!Stop
           \/ UNCHANGED verifyVars
  BY <1>2, <1>4 DEF Verifier!NewHeader, Verifier!DrainBlocks, Verifier!DrainHashes, Verifier!Stop, verifyVars
<1>5. CASE \E d \in Verifier!Drainers, p, q \in BOOLEAN : Verifier!Snapshot(d, p, q)
  <2> PICK d \in Verifier!Drainers, p \in BOOLEAN, q \in BOOLEAN : Verifier!Snapshot(d, p, q)
    BY <1>5
  <2> DEFINE n == Verifier!SnapshotOf(d, p, q)
  <2>1. snapshots' \subseteq snapshots \cup {n} /\ UNCHANGED <<confirmed, result>>
    BY DEF Verifier!Snapshot
  <2>2. drained[d].blocks \in Seq(DOMAIN chain) /\ drained[d].hashes \in Seq(Verifier!Hashes)
    BY DEF VerifyInv, VerifierTypes
  <2>3. InHand(d) \subseteq confirmed
    BY DEF VerifyInv, Somewhere
  <2>4. n.blocks \subseteq DOMAIN chain
    <3>1. n.blocks \subseteq Verifier!Spread(drained[d].blocks)
      BY DEF Verifier!SnapshotOf
    <3>2. QED
      BY <2>2, <3>1, SpreadWithin
  <2>5. n.hashes \subseteq confirmed
    <3>1. n.hashes \subseteq Verifier!Spread(drained[d].hashes)
      BY DEF Verifier!SnapshotOf
    <3>2. Verifier!Spread(drained[d].hashes) \subseteq InHand(d)
      BY <2>2, SpreadWithin DEF InHand
    <3>3. QED
      BY <2>3, <3>1, <3>2
  <2> HIDE DEF n
  <2>6. \A m \in snapshots' : m.blocks \subseteq DOMAIN chain' /\ m.hashes \subseteq confirmed'
    <3>1. DOMAIN chain' = DOMAIN chain
      BY <1>0
    <3>2. QED
      BY <2>1, <2>4, <2>5, <3>1 DEF VerdictInv
  <2>7. result'.made => /\ result' = Verifier!Verdict(result'.delta, result'.blocks, result'.hashes)
                        /\ result'.blocks \subseteq DOMAIN chain'
                        /\ result'.hashes \subseteq confirmed'
    <3>1. DOMAIN chain' = DOMAIN chain
      BY <1>0
    <3>2. QED
      BY <2>1, <3>1 DEF VerdictInv
  <2>8. QED
    BY <1>1, <2>6, <2>7 DEF VerdictInv
<1>6. ASSUME NEW delta, NEW B, NEW H, result' = Verifier!Verdict(delta, B, H),
             B \subseteq DOMAIN chain, H \subseteq confirmed, UNCHANGED <<snapshots, confirmed>>
      PROVE  VerdictInv'
  <2>1. DOMAIN chain' = DOMAIN chain
    BY <1>0
  <2>2. \A n \in snapshots' : n.blocks \subseteq DOMAIN chain' /\ n.hashes \subseteq confirmed'
    BY <1>6, <2>1 DEF VerdictInv
  <2>3. result'.delta = delta /\ result'.blocks = B /\ result'.hashes = H
    BY <1>6, VerdictMade
  <2>4. QED
    BY <1>1, <1>6, <2>1, <2>2, <2>3 DEF VerdictInv
<1>7. CASE \E delta \in {0, 1} : Verifier!Aggregate(delta)
  <2> PICK delta \in {0, 1} : Verifier!Aggregate(delta)
    BY <1>7
  <2>1. /\ result' = Verifier!Verdict(delta, UNION {n.blocks : n \in snapshots},
                                             UNION {n.hashes : n \in snapshots})
        /\ UNCHANGED <<snapshots, confirmed>>
    BY DEF Verifier!Aggregate
  <2>2. /\ UNION {n.blocks : n \in snapshots} \subseteq DOMAIN chain
        /\ UNION {n.hashes : n \in snapshots} \subseteq confirmed
    BY DEF VerdictInv
  <2>3. QED
    BY <1>6, <2>1, <2>2
<1>8. CASE \E delta \in {0, 1}, found \in SUBSET DOMAIN chain, sample \in SUBSET confirmed :
             Verifier!FullVerify(delta, found, sample)
  <2> PICK delta \in {0, 1}, found \in SUBSET DOMAIN chain, sample \in SUBSET confirmed :
             Verifier!FullVerify(delta, found, sample)
    BY <1>8
  <2>1. /\ result' = Verifier!Verdict(delta, Verifier!FullBlocks(found), sample)
        /\ UNCHANGED <<snapshots, confirmed>>
    BY DEF Verifier!FullVerify
  <2>2. Verifier!FullBlocks(found) \subseteq DOMAIN chain
    BY DEF Verifier!FullBlocks
  <2>3. QED
    BY <1>6, <2>1, <2>2
<1>9. QED
  BY <1>3, <1>4, <1>5, <1>7, <1>8 DEF Verifier!Next

(* It is what the verdict should be.                                         *)
LEMMA VerdictSuffices == VerifyInv /\ VerdictInv => Verifier!VerdictExact
<1> SUFFICES ASSUME VerifyInv, VerdictInv, result.made PROVE Verifier!VerdictExact
  BY DEF Verifier!VerdictExact
<1> DEFINE B == result.blocks
           H == result.hashes
           checks == Verifier!ChecksOrder(ordering)
           bad == {b \in B : checks /\ ~Verifier!InOrder(b)}
<1>1. chain \in Chains
  BY DEF VerifyInv, VerifierTypes, Verifier!TypeOK
<1>2. B \subseteq DOMAIN chain /\ H \subseteq confirmed
  BY DEF VerdictInv
<1>3. result = Verifier!Verdict(result.delta, B, H)
  BY DEF VerdictInv
<1>4. result.pass <=> /\ result.delta = 0
                      /\ checks => \A b \in B : Verifier!Passes(b)
                      /\ Verifier!Reverted(H) = {}
  <2>1. Verifier!Verdict(result.delta, B, H).pass <=>
          /\ result.delta = 0
          /\ checks => \A b \in B : Verifier!Passes(b)
          /\ Verifier!Reverted(H) = {}
    BY DEF Verifier!Verdict
  <2>2. QED
    BY <1>3, <2>1
<1>5. result.faults = IF checks THEN UNION {Verifier!Violations(b) : b \in B} ELSE {}
  <2>1. Verifier!Verdict(result.delta, B, H).faults =
          IF checks THEN UNION {Verifier!Violations(b) : b \in B} ELSE {}
    BY DEF Verifier!Verdict
  <2>2. QED
    BY <1>3, <2>1
<1>6. \A b \in B : Verifier!Passes(b) <=> Verifier!InOrder(b)
  BY <1>1, <1>2, IsOrderedIsInOrder
<1>7. checks => \A b \in B : Verifier!Violations(b) # {} <=> ~Verifier!InOrder(b)
  BY <1>1, <1>2, FaultsAreFound
<1>8. Verifier!Reverted(H) = {} <=> \A h \in H : Verifier!TxOf(h).ok
  BY DEF Verifier!Reverted
<1>9. Verifier!VerdictExact <=>
        /\ result.pass <=> result.delta = 0 /\ bad = {} /\ \A h \in H : Verifier!TxOf(h).ok
        /\ result.faults # {} <=> bad # {}
        /\ H \subseteq confirmed
  BY DEF Verifier!VerdictExact
<1> HIDE DEF B, H, checks
<1>10. bad = {} <=> (checks => \A b \in B : Verifier!Passes(b))
  BY <1>6
<1>11. result.faults # {} <=> bad # {}
  <2>1. CASE ~checks
    BY <1>5, <2>1
  <2>2. CASE checks
    <3>1. result.faults # {} <=> \E b \in B : Verifier!Violations(b) # {}
      BY <1>5, <2>2
    <3>2. QED
      BY <1>7, <2>2, <3>1
  <2>3. QED
    BY <2>1, <2>2
<1>12. result.pass <=> result.delta = 0 /\ bad = {} /\ \A h \in H : Verifier!TxOf(h).ok
  BY <1>4, <1>8, <1>10
<1>13. QED
  BY <1>2, <1>9, <1>11, <1>12

-----------------------------------------------------------------------------
(* BlockMetrics.  Its theorems speak of another instance of the same module,  *)
(* definition for definition.                                                *)
LEMMA SameSizes == Proved!Sizes
BY ObservationAssumption DEF Proved!Sizes

LEMMA SameInit == Metrics!Init => Proved!Init
BY DEF Metrics!Init, Proved!Init, Metrics!StreamsOf, Proved!StreamsOf, Metrics!HasBuilderStreams,
       Proved!HasBuilderStreams, Metrics!Streams, Proved!Streams, Metrics!Blocks, Proved!Blocks

LEMMA SameNext == Metrics!Next => Proved!Next
<1> SUFFICES ASSUME Metrics!Next PROVE Proved!Next
  OBVIOUS
<1> USE DEF Metrics!Once, Proved!Once, Metrics!Higher, Proved!Higher, Metrics!Arrives, Proved!Arrives, Metrics!RecordDetailed, Proved!RecordDetailed, Metrics!FirstSeen, Proved!FirstSeen, Metrics!ToFetch, Proved!ToFetch, Metrics!Counted, Proved!Counted, Metrics!RangeFirst, Proved!RangeFirst, Metrics!RangeLast, Proved!RangeLast, Metrics!run, Proved!run, Metrics!counts, Proved!counts, Metrics!Blocks, Proved!Blocks, Metrics!Streams, Proved!Streams
<1>1. Metrics!Mine => Proved!Mine
  BY DEF Metrics!Mine, Proved!Mine
<1>2. ASSUME NEW n, Metrics!BuilderEvent(n) PROVE Proved!BuilderEvent(n)
  BY <1>2 DEF Metrics!BuilderEvent, Proved!BuilderEvent
<1>3. ASSUME NEW n, Metrics!NewHead(n) PROVE Proved!NewHead(n)
  BY <1>3 DEF Metrics!NewHead, Proved!NewHead
<1>4. ASSUME NEW has, Metrics!PollBlock(has) PROVE Proved!PollBlock(has)
  BY <1>4 DEF Metrics!PollBlock, Proved!PollBlock
<1>5. Metrics!PeriodFromStreams => Proved!PeriodFromStreams
  BY DEF Metrics!PeriodFromStreams, Proved!PeriodFromStreams
<1>6. Metrics!PeriodByRpc => Proved!PeriodByRpc
  BY DEF Metrics!PeriodByRpc, Proved!PeriodByRpc
<1>7. ASSUME NEW got, Metrics!RpcFetched(got) PROVE Proved!RpcFetched(got)
  BY <1>7 DEF Metrics!RpcFetched, Proved!RpcFetched
<1>8. ASSUME NEW tps, Metrics!RollingTps(tps) PROVE Proved!RollingTps(tps)
  BY <1>8 DEF Metrics!RollingTps, Proved!RollingTps
<1>9. Metrics!CancelRun => Proved!CancelRun
  BY DEF Metrics!CancelRun, Proved!CancelRun
<1>10. ASSUME NEW answered, Metrics!RecordEnd(answered) PROVE Proved!RecordEnd(answered)
  BY <1>10 DEF Metrics!RecordEnd, Proved!RecordEnd
<1>11. Metrics!Verify => Proved!Verify
  BY DEF Metrics!Verify, Proved!Verify
<1>12. ASSUME NEW tps, NEW swapped, Metrics!TpsTick(tps, swapped) PROVE Proved!TpsTick(tps, swapped)
  BY <1>12 DEF Metrics!TpsTick, Proved!TpsTick
<1>13. QED
  BY <1>1, <1>2, <1>3, <1>4, <1>5, <1>6, <1>7, <1>8, <1>9, <1>10, <1>11, <1>12 DEF Metrics!Next, Proved!Next

LEMMA SameProperties ==
  /\ Proved!TypeOK => Metrics!TypeOK
  /\ Proved!EachPathOnce => Metrics!EachPathOnce
  /\ Proved!TotalsWithinRange => Metrics!TotalsWithinRange
BY DEF Proved!TypeOK, Metrics!TypeOK, Proved!EachPathOnce, Metrics!EachPathOnce,
       Proved!TotalsWithinRange, Metrics!TotalsWithinRange, Metrics!Blocks, Proved!Blocks,
       Metrics!Streams, Proved!Streams

-----------------------------------------------------------------------------
(* The four together: RateControl's invariant holds in every behaviour,      *)
(* the others' in those of their part.                                       *)
BlocksInv == Proved!TypeOK /\ Proved!Inv /\ Proved!InRange

PartInv ==
  /\ TypeOK /\ Inv
  /\ part = "limiter" => Limiter!TypeOK /\ PaceInv
  /\ part = "blocks" => BlocksInv
  /\ part = "verify" => VerifyInv /\ VerdictInv

LEMMA BlocksInit == Metrics!Init => BlocksInv
BY SameSizes, SameInit, Proved!InitTypes, Proved!InitInv, Proved!InitRange DEF BlocksInv

LEMMA BlocksStep == BlocksInv /\ [Metrics!Next]_blockVars => BlocksInv'
<1> SUFFICES ASSUME BlocksInv, [Metrics!Next]_blockVars PROVE BlocksInv'
  OBVIOUS
<1>1. [Proved!Next]_Proved!vars
  BY SameNext DEF Proved!vars, blockVars
<1>2. QED
  BY <1>1, SameSizes, Proved!StepTypes, Proved!StepInv, Proved!StepRange DEF BlocksInv

LEMMA PartBegins == PartInit => PartInv
<1> SUFFICES ASSUME PartInit PROVE PartInv
  OBVIOUS
<1>1. Init
  BY DEF PartInit
<1>2. TypeOK /\ Inv
  BY <1>1, InitTypes, InitInv
<1>3. part = "limiter" => Limiter!TypeOK /\ PaceInv
  BY LimiterTypesInit, InitPace DEF PartInit
<1>4. part = "blocks" => BlocksInv
  BY BlocksInit DEF PartInit
<1>5. part = "verify" => VerifyInv /\ VerdictInv
  BY InitVerify, InitVerdict DEF PartInit
<1>6. QED
  BY <1>2, <1>3, <1>4, <1>5 DEF PartInv

LEMMA PartSteps ==
  PartInv /\ [PartNext]_<<part, vars, limiterVars, blockVars, verifyVars>> => PartInv'
<1> SUFFICES ASSUME PartInv, [PartNext]_<<part, vars, limiterVars, blockVars, verifyVars>>
             PROVE  PartInv'
  OBVIOUS
<1>1. part' = part
  BY DEF PartNext
<1>2. TypeOK' /\ Inv'
  <2>1. [Next]_vars
    BY DEF PartNext
  <2>2. QED
    BY <2>1, StepTypes, StepInv DEF PartInv
<1>3. ASSUME part = "limiter" PROVE Limiter!TypeOK' /\ PaceInv'
  <2>1. [Limiter!Next]_limiterVars
    BY <1>3 DEF PartNext
  <2>2. Limiter!TypeOK /\ PaceInv /\ Paced
    BY <1>3 DEF PartInv, PaceInv
  <2>3. QED
    BY <2>1, <2>2, LimiterTypesStep, PaceStep
<1>4. ASSUME part = "blocks" PROVE BlocksInv'
  <2>1. [Metrics!Next]_blockVars
    BY <1>4 DEF PartNext
  <2>2. QED
    BY <1>4, <2>1, BlocksStep DEF PartInv
<1>5. ASSUME part = "verify" PROVE VerifyInv' /\ VerdictInv'
  <2>1. [Verifier!Next]_verifyVars
    BY <1>5 DEF PartNext
  <2>2. QED
    BY <1>5, <2>1, VerifyStep, VerdictStep DEF PartInv
<1>6. QED
  BY <1>1, <1>2, <1>3, <1>4, <1>5 DEF PartInv

LEMMA PartInvAlways == PartSpec => []PartInv
BY PartBegins, PartSteps, PTL DEF PartSpec

(* Types, of all four components (rates the limiter divides by are not zero, *)
(* lists keep their limit, cursors stay on the chain).                       *)
THEOREM TypesOKAlways == PartSpec => []TypesOK
<1>1. PartInv => TypesOK
  <2> SUFFICES ASSUME PartInv PROVE TypesOK
    OBVIOUS
  <2>1. part = "blocks" => Metrics!TypeOK
    BY SameProperties DEF PartInv, BlocksInv
  <2>2. part = "verify" => Verifier!TypeOK
    BY DEF PartInv, VerifyInv, VerifierTypes
  <2>3. QED
    BY <2>1, <2>2 DEF PartInv, TypesOK
<1>2. QED
  BY <1>1, PartInvAlways, PTL

(* However many goroutines wait, cancel and wake, and however the rate       *)
(* changes meanwhile, the limiter grants no more than its fastest rate       *)
(* allows and reserves no further ahead than its sleepers' turns, as long    *)
(* as every cancelled wait gives back what it took.                          *)
THEOREM PaceKeptAlways == PartSpec => []PaceKept
<1>1. PartInv => PaceKept
  BY PaceIsKept DEF PartInv, PaceKept
<1>2. QED
  BY <1>1, PartInvAlways, PTL

(* Whatever the streams deliver, skip or repeat and whenever a period falls   *)
(* back to the node, a block is charted once per path and counted once.       *)
THEOREM EachPathOnceAlways == PartSpec => []EachPathOnce
<1>1. BlocksInv => Proved!EachPathOnce
  BY SameSizes, Proved!InvSuffices DEF BlocksInv
<1>2. PartInv => EachPathOnce
  BY <1>1, SameProperties DEF PartInv, EachPathOnce
<1>3. QED
  BY <1>2, PartInvAlways, PTL

(* A block event that arrives while the run stops, or after it, is not in    *)
(* the totals that are divided by the blocks of the run.                     *)
THEOREM TotalsWithinRangeAlways == PartSpec => []TotalsWithinRange
<1>1. BlocksInv => Proved!TotalsWithinRange
  BY SameSizes, Proved!RangeSuffices DEF BlocksInv
<1>2. PartInv => TotalsWithinRange
  BY <1>1, SameProperties DEF PartInv, TotalsWithinRange
<1>3. QED
  BY <1>2, PartInvAlways, PTL

(* A confirmed hash is in one place, whoever of the stream, the ticker and    *)
(* the stopping test is between its two locks: no hash is sampled twice by    *)
(* two snapshots, none is lost but those the list's limit cut off.            *)
THEOREM HashOnceAlways == PartSpec => []HashOnce
<1>1. PartInv => HashOnce
  BY OnePlaceSuffices DEF PartInv, HashOnce
<1>2. QED
  BY <1>1, PartInvAlways, PTL

(* However a run is verified, from snapshots the ticker and the stopping test *)
(* made between confirmations or all at once, it passes if and only if the    *)
(* counts agree and nothing that was looked at is wrong: comparing neighbours *)
(* finds any two senders of a block in the wrong order, and a block that is   *)
(* not in order is never without a reported violation.                        *)
THEOREM VerdictExactAlways == PartSpec => []VerdictExact
<1>1. PartInv => VerdictExact
  BY VerdictSuffices DEF PartInv, VerdictExact
<1>2. QED
  BY <1>1, PartInvAlways, PTL
=============================================================================
