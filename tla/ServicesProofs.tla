--------------------------- MODULE ServicesProofs ---------------------------
(* Theorems about the four components of Services, for all values of their   *)
(* constants that ServicesAssumption allows.                                 *)
EXTENDS Services, FiniteSetTheorems, SequenceTheorems, WellFoundedInduction, TLAPS

-----------------------------------------------------------------------------
(* The least and the greatest of two numbers, and counting.                  *)
LEMMA MinOfTwo ==
  ASSUME NEW a \in Int, NEW b \in Int
  PROVE  /\ Reads!Min({a, b}) \in {a, b}
         /\ Reads!Min({a, b}) <= a /\ Reads!Min({a, b}) <= b
<1>1. \E m \in {a, b} : \A n \in {a, b} : m <= n
  OBVIOUS
<1>2. QED
  BY <1>1 DEF Reads!Min

LEMMA MaxOfTwo ==
  ASSUME NEW a \in Int, NEW b \in Int
  PROVE  /\ Reads!Max({a, b}) \in {a, b}
         /\ Reads!Max({a, b}) >= a /\ Reads!Max({a, b}) >= b
<1>1. \E m \in {a, b} : \A n \in {a, b} : m >= n
  OBVIOUS
<1>2. QED
  BY <1>1 DEF Reads!Max

If1(c) == IF c THEN 1 ELSE 0

(* Two sets that differ in one element at most.                              *)
LEMMA CountMoved ==
  ASSUME NEW S, NEW T, NEW w, IsFiniteSet(S), T \ {w} = S \ {w}
  PROVE  /\ IsFiniteSet(T) /\ Cardinality(S) \in Nat /\ Cardinality(T) \in Nat
         /\ Cardinality(T) + If1(w \in S) = Cardinality(S) + If1(w \in T)
<1>1. IsFiniteSet(S \ {w}) /\ Cardinality(S \ {w}) \in Nat /\ Cardinality(S) \in Nat
  BY FS_Subset, FS_CardinalityType
<1>2. Cardinality(S) = Cardinality(S \ {w}) + If1(w \in S)
  <2>1. CASE w \in S
    BY <1>1, <2>1, FS_RemoveElement DEF If1
  <2>2. CASE w \notin S
    <3>1. S \ {w} = S
      BY <2>2
    <3>2. Cardinality(S \ {w}) = Cardinality(S)
      BY <3>1, Zenon
    <3>3. QED
      BY <1>1, <2>2, <3>2 DEF If1
  <2>3. QED
    BY <2>1, <2>2
<1>3. IsFiniteSet(T) /\ Cardinality(T) = Cardinality(S \ {w}) + If1(w \in T)
  <2>1. CASE w \in T
    <3>1. T = (S \ {w}) \cup {w} /\ w \notin S \ {w}
      BY <2>1
    <3>2. IsFiniteSet(T) /\ Cardinality(T) = Cardinality(S \ {w}) + 1
      BY <1>1, <3>1, FS_AddElement
    <3>3. QED
      BY <2>1, <3>2 DEF If1
  <2>2. CASE w \notin T
    <3>1. T = S \ {w}
      BY <2>2
    <3>2. QED
      BY <1>1, <2>2, <3>1 DEF If1
  <2>3. QED
    BY <2>1, <2>2
<1>4. QED
  BY <1>1, <1>2, <1>3 DEF If1

-----------------------------------------------------------------------------
(* ReadLoad.  Where a worker is, and the method of its read.                 *)
Places == {"none", "top", "waiting", "asked", "count ok", "count err", "sent ok", "sent err",
           "lat", "errors", "errs", "pooled", "gone"}

ReadTypes ==
  /\ Reads!TypeOK
  /\ worker \in [Workers -> Places]
  /\ read \in [Workers -> [method : Reads!Methods, from : Int, to : Int, at : Int]]

At(P)    == {w \in Workers : worker[w] \in P}
Of(P, m) == {w \in At(P) : read[w].method = m}

OkPlaces  == {"count ok", "sent ok", "lat"}
ErrPlaces == {"count err", "sent err", "errors"}
NotYet    == {"count ok", "count err"}
Unsent    == {"sent ok", "sent err"}

(* ReadsAddUp is not inductive: what a counter lacks is in the hands of the  *)
(* workers that are about to move it.                                        *)
PerMethod(m) ==
  /\ answered[m] = lat[m] + Cardinality(Of(OkPlaces, m))
  /\ failed[m] = errors[m] + Cardinality(Of(ErrPlaces, m))
  /\ answered[m] + failed[m] = count[m] + Cardinality(Of(NotYet, m))

InTotal ==
  /\ Reads!Total(count) = reads + Cardinality(At(Unsent))
  /\ Reads!Total(errors) = errs + Cardinality(At({"errs"}))
  /\ Reads!Total(lat) = pooled + Cardinality(At({"pooled"}))

(* A run that ended with all of them gone has nothing in anybody's hands.    *)
RowKept ==
  /\ engine = "stopped" => Reads!Gone
  /\ row # Reads!NoRow => engine \in {"stopped", "cut short"}
  /\ row # Reads!NoRow /\ engine = "stopped" => row = Reads!Metrics

ReadInv == ReadTypes /\ (\A m \in Reads!Methods : PerMethod(m)) /\ InTotal /\ RowKept

LEMMA TotalBump ==
  ASSUME NEW f \in [Reads!Methods -> Nat], NEW m \in Reads!Methods
  PROVE  /\ [f EXCEPT ![m] = f[m] + 1] \in [Reads!Methods -> Nat]
         /\ Reads!Total([f EXCEPT ![m] = f[m] + 1]) = Reads!Total(f) + 1
         /\ Reads!Total(f) \in Nat
BY DEF Reads!Methods, Reads!Total

LEMMA CrowdsFinite ==
  ASSUME NEW P, NEW m
  PROVE  /\ IsFiniteSet(At(P)) /\ Cardinality(At(P)) \in Nat
         /\ IsFiniteSet(Of(P, m)) /\ Cardinality(Of(P, m)) \in Nat
<1>1. IsFiniteSet(Workers)
  BY ServicesAssumption
<1>2. At(P) \subseteq Workers /\ Of(P, m) \subseteq Workers
  BY DEF At, Of
<1>3. QED
  BY <1>1, <1>2, FS_Subset, FS_CardinalityType

(* One worker goes from one place to another, all keep their methods.        *)
Moves(w, a, b) ==
  /\ worker[w] = a /\ worker' = [worker EXCEPT ![w] = b]
  /\ \A v \in Workers : read'[v].method = read[v].method

LEMMA CrowdMoves ==
  ASSUME ReadTypes, NEW w \in Workers, NEW a, NEW b, Moves(w, a, b), NEW P, NEW m
  PROVE  /\ Cardinality(At(P)') + If1(a \in P) = Cardinality(At(P)) + If1(b \in P)
         /\ Cardinality(Of(P, m)') + If1(a \in P /\ read[w].method = m)
              = Cardinality(Of(P, m)) + If1(b \in P /\ read[w].method = m)
<1>1. /\ worker[w] = a /\ worker'[w] = b
      /\ \A v \in Workers \ {w} : worker'[v] = worker[v]
      /\ \A v \in Workers : read'[v].method = read[v].method
  BY DEF Moves, ReadTypes
<1>2. At(P)' \ {w} = At(P) \ {w} /\ (w \in At(P) <=> a \in P) /\ (w \in At(P)' <=> b \in P)
  BY <1>1 DEF At
<1>3. /\ Of(P, m)' \ {w} = Of(P, m) \ {w}
      /\ w \in Of(P, m) <=> (a \in P /\ read[w].method = m)
      /\ w \in Of(P, m)' <=> (b \in P /\ read[w].method = m)
  BY <1>1 DEF Of, At
<1>4. IsFiniteSet(At(P)) /\ IsFiniteSet(Of(P, m))
  BY CrowdsFinite
<1>5. Cardinality(At(P)') + If1(w \in At(P)) = Cardinality(At(P)) + If1(w \in At(P)')
  BY <1>2, <1>4, CountMoved
<1>6. Cardinality(Of(P, m)') + If1(w \in Of(P, m)) = Cardinality(Of(P, m)) + If1(w \in Of(P, m)')
  BY <1>3, <1>4, CountMoved
<1>7. QED
  BY <1>2, <1>3, <1>5, <1>6 DEF If1

(* A step that concerns no worker between its counters.                      *)
Outside == {"none", "top", "waiting", "asked", "gone"}

LEMMA CrowdStays ==
  ASSUME ReadTypes,
         \A v \in Workers : \/ worker'[v] = worker[v] /\ read'[v].method = read[v].method
                            \/ worker[v] \in Outside /\ worker'[v] \in Outside,
         NEW P, P \cap Outside = {}, NEW m
  PROVE  Cardinality(At(P)') = Cardinality(At(P)) /\ Cardinality(Of(P, m)') = Cardinality(Of(P, m))
<1>1. At(P)' = At(P) /\ Of(P, m)' = Of(P, m)
  BY DEF At, Of
<1>2. QED
  BY <1>1

(* What the steps of a worker do to the six differences.                     *)

Balanced(x, a, y, b, P) == x \in Nat /\ y \in Nat /\ x + If1(a \in P) = y + If1(b \in P)

LEMMA OwedMoves ==
  ASSUME ReadTypes, NEW w \in Workers, NEW a, NEW b, Moves(w, a, b), NEW m
  PROVE  /\ read[w].method = m =>
              /\ Balanced(Cardinality(Of(OkPlaces, m)'), a, Cardinality(Of(OkPlaces, m)), b, OkPlaces)
              /\ Balanced(Cardinality(Of(ErrPlaces, m)'), a, Cardinality(Of(ErrPlaces, m)), b, ErrPlaces)
              /\ Balanced(Cardinality(Of(NotYet, m)'), a, Cardinality(Of(NotYet, m)), b, NotYet)
         /\ read[w].method # m =>
              /\ Cardinality(Of(OkPlaces, m)') = Cardinality(Of(OkPlaces, m))
              /\ Cardinality(Of(ErrPlaces, m)') = Cardinality(Of(ErrPlaces, m))
              /\ Cardinality(Of(NotYet, m)') = Cardinality(Of(NotYet, m))
         /\ Balanced(Cardinality(At(Unsent)'), a, Cardinality(At(Unsent)), b, Unsent)
         /\ Balanced(Cardinality(At({"errs"})'), a, Cardinality(At({"errs"})), b, {"errs"})
         /\ Balanced(Cardinality(At({"pooled"})'), a, Cardinality(At({"pooled"})), b, {"pooled"})
<1>1. ASSUME NEW P
      PROVE  /\ Balanced(Cardinality(At(P)'), a, Cardinality(At(P)), b, P)
             /\ read[w].method = m =>
                  Balanced(Cardinality(Of(P, m)'), a, Cardinality(Of(P, m)), b, P)
             /\ read[w].method # m => Cardinality(Of(P, m)') = Cardinality(Of(P, m))
  <2>1. /\ Cardinality(At(P)) \in Nat /\ Cardinality(At(P)') \in Nat
        /\ Cardinality(Of(P, m)) \in Nat /\ Cardinality(Of(P, m)') \in Nat
    <3>1. IsFiniteSet(Workers) /\ At(P) \subseteq Workers /\ Of(P, m) \subseteq Workers
          /\ At(P)' \subseteq Workers /\ Of(P, m)' \subseteq Workers
      BY ServicesAssumption DEF At, Of
    <3>2. QED
      BY <3>1, FS_Subset, FS_CardinalityType
  <2>2. /\ Cardinality(At(P)') + If1(a \in P) = Cardinality(At(P)) + If1(b \in P)
        /\ Cardinality(Of(P, m)') + If1(a \in P /\ read[w].method = m)
              = Cardinality(Of(P, m)) + If1(b \in P /\ read[w].method = m)
    BY CrowdMoves
  <2>3. QED
    BY <2>1, <2>2 DEF If1, Balanced
<1>2. QED
  BY <1>1, Zenon

LEMMA OwedStays ==
  ASSUME ReadTypes,
         \A v \in Workers : \/ worker'[v] = worker[v] /\ read'[v].method = read[v].method
                            \/ worker[v] \in Outside /\ worker'[v] \in Outside,
         NEW m
  PROVE  /\ Cardinality(Of(OkPlaces, m)') = Cardinality(Of(OkPlaces, m))
         /\ Cardinality(Of(ErrPlaces, m)') = Cardinality(Of(ErrPlaces, m))
         /\ Cardinality(Of(NotYet, m)') = Cardinality(Of(NotYet, m))
         /\ Cardinality(At(Unsent)') = Cardinality(At(Unsent))
         /\ Cardinality(At({"errs"})') = Cardinality(At({"errs"}))
         /\ Cardinality(At({"pooled"})') = Cardinality(At({"pooled"}))
<1>1. ASSUME NEW P, P \cap Outside = {}
      PROVE  Cardinality(At(P)') = Cardinality(At(P)) /\ Cardinality(Of(P, m)') = Cardinality(Of(P, m))
  BY <1>1, CrowdStays
<1>2. /\ OkPlaces \cap Outside = {} /\ ErrPlaces \cap Outside = {} /\ NotYet \cap Outside = {}
      /\ Unsent \cap Outside = {} /\ {"errs"} \cap Outside = {} /\ {"pooled"} \cap Outside = {}
  BY DEF OkPlaces, ErrPlaces, NotYet, Unsent, Outside
<1>3. QED
  BY <1>1, <1>2, Zenon

(* A worker that moves at a place where it holds something moves the         *)
(* counters, and a step beside the workers moves none.                       *)
Still == UNCHANGED <<answered, failed, reads, errs, count, errors, lat, pooled>>

LEMMA StillAddsUp ==
  ASSUME ReadInv, Still,
         \A v \in Workers : \/ worker'[v] = worker[v] /\ read'[v].method = read[v].method
                            \/ worker[v] \in Outside /\ worker'[v] \in Outside
  PROVE  (\A m \in Reads!Methods : PerMethod(m)') /\ InTotal'
<1>1. \A m \in Reads!Methods : PerMethod(m)'
  <2> SUFFICES ASSUME NEW m \in Reads!Methods PROVE PerMethod(m)'
    OBVIOUS
  <2>1. PerMethod(m)
    BY DEF ReadInv
  <2>2. /\ Cardinality(Of(OkPlaces, m)') = Cardinality(Of(OkPlaces, m))
        /\ Cardinality(Of(ErrPlaces, m)') = Cardinality(Of(ErrPlaces, m))
        /\ Cardinality(Of(NotYet, m)') = Cardinality(Of(NotYet, m))
    BY OwedStays DEF ReadInv
  <2>3. QED
    BY <2>1, <2>2 DEF PerMethod, Still
<1>2. InTotal'
  <2>1. /\ Cardinality(At(Unsent)') = Cardinality(At(Unsent))
        /\ Cardinality(At({"errs"})') = Cardinality(At({"errs"}))
        /\ Cardinality(At({"pooled"})') = Cardinality(At({"pooled"}))
    BY OwedStays DEF ReadInv
  <2>2. QED
    BY <2>1 DEF InTotal, Still, ReadInv, Reads!Total
<1>3. QED
  BY <1>1, <1>2

(* The counter of one method goes up, or none does.                          *)
Grown(g, f, m, d) == \A n \in Reads!Methods : g[n] = f[n] + (IF n = m THEN d ELSE 0)

LEMMA Balance ==
  ASSUME NEW A \in Int, NEW L \in Int, NEW x \in Int, NEW y \in Int, NEW p \in Int, NEW q \in Int,
         NEW d \in Int, NEW e \in Int, A = L + x, y + p = x + q, d + p = e + q
  PROVE  A + d = (L + e) + y
OBVIOUS

LEMMA If1Int == \A c : If1(c) \in Int
BY DEF If1

LEMMA TotalGrows ==
  ASSUME NEW f, NEW g, f \in [Reads!Methods -> Nat], NEW m \in Reads!Methods, NEW d \in Nat,
         Grown(g, f, m, d)
  PROVE  Reads!Total(g) = Reads!Total(f) + d /\ Reads!Total(f) \in Nat
BY DEF Grown, Reads!Methods, Reads!Total

(* What a worker counts is what it leaves behind.                            *)
LEMMA MoveAddsUp ==
  ASSUME ReadInv, NEW w \in Workers, NEW a, NEW b, Moves(w, a, b),
         NEW dA \in {0, 1}, NEW dF \in {0, 1}, NEW dC \in {0, 1}, NEW dE \in {0, 1}, NEW dL \in {0, 1},
         NEW dS \in {0, 1}, NEW dR \in {0, 1}, NEW dQ \in {0, 1},
         Grown(answered', answered, read[w].method, dA),
         Grown(failed', failed, read[w].method, dF),
         Grown(count', count, read[w].method, dC),
         Grown(errors', errors, read[w].method, dE),
         Grown(lat', lat, read[w].method, dL),
         reads' = reads + dS, errs' = errs + dR, pooled' = pooled + dQ,
         dA + If1(a \in OkPlaces) = dL + If1(b \in OkPlaces),
         dF + If1(a \in ErrPlaces) = dE + If1(b \in ErrPlaces),
         dA + dF + If1(a \in NotYet) = dC + If1(b \in NotYet),
         dC + If1(a \in Unsent) = dS + If1(b \in Unsent),
         dE + If1(a \in {"errs"}) = dR + If1(b \in {"errs"}),
         dL + If1(a \in {"pooled"}) = dQ + If1(b \in {"pooled"})
  PROVE  (\A m \in Reads!Methods : PerMethod(m)') /\ InTotal'
<1>0. /\ read[w].method \in Reads!Methods /\ ReadTypes
      /\ {answered, failed, count, errors, lat} \subseteq [Reads!Methods -> Nat]
      /\ {reads, errs, pooled} \subseteq Nat
  BY DEF ReadInv, ReadTypes, Reads!TypeOK
<1>1. ASSUME NEW m \in Reads!Methods PROVE PerMethod(m)'
  <2>1. /\ answered[m] = lat[m] + Cardinality(Of(OkPlaces, m))
        /\ failed[m] = errors[m] + Cardinality(Of(ErrPlaces, m))
        /\ answered[m] + failed[m] = count[m] + Cardinality(Of(NotYet, m))
    BY DEF ReadInv, PerMethod
  <2>2. answered[m] \in Nat /\ failed[m] \in Nat /\ count[m] \in Nat /\ errors[m] \in Nat /\ lat[m] \in Nat
    BY <1>0
  <2>3. CASE read[w].method = m
    <3>1. /\ Balanced(Cardinality(Of(OkPlaces, m)'), a, Cardinality(Of(OkPlaces, m)), b, OkPlaces)
          /\ Balanced(Cardinality(Of(ErrPlaces, m)'), a, Cardinality(Of(ErrPlaces, m)), b, ErrPlaces)
          /\ Balanced(Cardinality(Of(NotYet, m)'), a, Cardinality(Of(NotYet, m)), b, NotYet)
      BY <1>0, <2>3, OwedMoves
    <3>2. /\ answered'[m] = answered[m] + dA /\ failed'[m] = failed[m] + dF /\ count'[m] = count[m] + dC
          /\ errors'[m] = errors[m] + dE /\ lat'[m] = lat[m] + dL
      BY <2>3 DEF Grown
    <3>3. answered'[m] = lat'[m] + Cardinality(Of(OkPlaces, m)')
      <4>1. /\ If1(a \in OkPlaces) \in Int /\ If1(b \in OkPlaces) \in Int
            /\ Cardinality(Of(OkPlaces, m)') \in Int /\ Cardinality(Of(OkPlaces, m)) \in Int
            /\ answered[m] \in Int /\ lat[m] \in Int /\ dA \in Int /\ dL \in Int
            /\ Cardinality(Of(OkPlaces, m)') + If1(a \in OkPlaces)
                 = Cardinality(Of(OkPlaces, m)) + If1(b \in OkPlaces)
        <5>1. /\ Cardinality(Of(OkPlaces, m)') \in Nat /\ Cardinality(Of(OkPlaces, m)) \in Nat
              /\ Cardinality(Of(OkPlaces, m)') + If1(a \in OkPlaces)
                   = Cardinality(Of(OkPlaces, m)) + If1(b \in OkPlaces)
          BY <3>1, Zenon DEF Balanced
        <5>2. If1(a \in OkPlaces) \in Int /\ If1(b \in OkPlaces) \in Int
          BY If1Int
        <5>3. answered[m] \in Int /\ lat[m] \in Int /\ dA \in Int /\ dL \in Int
          BY <2>2
        <5>4. QED
          BY <5>1, <5>2, <5>3
      <4> DEFINE p == If1(a \in OkPlaces)
                 q == If1(b \in OkPlaces)
      <4>2. dA + p = dL + q /\ p \in Int /\ q \in Int
            /\ Cardinality(Of(OkPlaces, m)') + p = Cardinality(Of(OkPlaces, m)) + q
        BY <4>1
      <4> HIDE DEF p, q
      <4>3. answered[m] + dA = (lat[m] + dL) + Cardinality(Of(OkPlaces, m)')
        BY <2>1, <4>1, <4>2, Balance
      <4>4. QED
        BY <3>2, <4>3
    <3>4. failed'[m] = errors'[m] + Cardinality(Of(ErrPlaces, m)')
      BY <2>1, <2>2, <3>1, <3>2 DEF Balanced, If1
    <3>5. answered'[m] + failed'[m] = count'[m] + Cardinality(Of(NotYet, m)')
      BY <2>1, <2>2, <3>1, <3>2 DEF Balanced, If1
    <3>6. QED
      BY <3>3, <3>4, <3>5 DEF PerMethod
  <2>4. CASE read[w].method # m
    <3>1. /\ Cardinality(Of(OkPlaces, m)') = Cardinality(Of(OkPlaces, m))
          /\ Cardinality(Of(ErrPlaces, m)') = Cardinality(Of(ErrPlaces, m))
          /\ Cardinality(Of(NotYet, m)') = Cardinality(Of(NotYet, m))
      BY <1>0, <2>4, OwedMoves
    <3>2. /\ answered'[m] = answered[m] /\ failed'[m] = failed[m] /\ count'[m] = count[m]
          /\ errors'[m] = errors[m] /\ lat'[m] = lat[m]
      BY <2>2, <2>4 DEF Grown
    <3>3. QED
      BY <2>1, <2>2, <3>1, <3>2 DEF PerMethod
  <2>5. QED
    BY <2>3, <2>4
<1>2. InTotal'
  <2>1. /\ Balanced(Cardinality(At(Unsent)'), a, Cardinality(At(Unsent)), b, Unsent)
        /\ Balanced(Cardinality(At({"errs"})'), a, Cardinality(At({"errs"})), b, {"errs"})
        /\ Balanced(Cardinality(At({"pooled"})'), a, Cardinality(At({"pooled"})), b, {"pooled"})
    BY <1>0, OwedMoves
  <2>2. Reads!Total(count') = Reads!Total(count) + dC /\ Reads!Total(count) \in Nat
    <3>1. count \in [Reads!Methods -> Nat] /\ read[w].method \in Reads!Methods /\ dC \in Nat
      BY <1>0
    <3>2. QED
      BY <3>1, TotalGrows, Zenon
  <2>3. Reads!Total(errors') = Reads!Total(errors) + dE /\ Reads!Total(errors) \in Nat
    <3>1. errors \in [Reads!Methods -> Nat] /\ read[w].method \in Reads!Methods /\ dE \in Nat
      BY <1>0
    <3>2. QED
      BY <3>1, TotalGrows, Zenon
  <2>4. Reads!Total(lat') = Reads!Total(lat) + dL /\ Reads!Total(lat) \in Nat
    <3>1. lat \in [Reads!Methods -> Nat] /\ read[w].method \in Reads!Methods /\ dL \in Nat
      BY <1>0
    <3>2. QED
      BY <3>1, TotalGrows, Zenon
  <2>5. /\ Reads!Total(count)' = Reads!Total(count') /\ Reads!Total(errors)' = Reads!Total(errors')
        /\ Reads!Total(lat)' = Reads!Total(lat')
    BY DEF Reads!Total
  <2>6. /\ Reads!Total(count) = reads + Cardinality(At(Unsent))
        /\ Reads!Total(errors) = errs + Cardinality(At({"errs"}))
        /\ Reads!Total(lat) = pooled + Cardinality(At({"pooled"}))
    BY DEF ReadInv, InTotal
  <2>7. reads \in Nat /\ errs \in Nat /\ pooled \in Nat
    BY <1>0
  <2>8. Reads!Total(count)' = reads' + Cardinality(At(Unsent)')
    BY <2>1, <2>2, <2>5, <2>6, <2>7 DEF Balanced, If1
  <2>9. Reads!Total(errors)' = errs' + Cardinality(At({"errs"})')
    BY <2>1, <2>3, <2>5, <2>6, <2>7 DEF Balanced, If1
  <2>10. Reads!Total(lat)' = pooled' + Cardinality(At({"pooled"})')
    BY <2>1, <2>4, <2>5, <2>6, <2>7 DEF Balanced, If1
  <2>11. QED
    BY <2>8, <2>9, <2>10 DEF InTotal
<1>3. QED
  BY <1>1, <1>2

LEMMA Counters ==
  ASSUME ReadInv
  PROVE  /\ ReadTypes
         /\ \A w \in Workers : read[w].method \in Reads!Methods
         /\ answered \in [Reads!Methods -> Nat] /\ failed \in [Reads!Methods -> Nat]
         /\ count \in [Reads!Methods -> Nat] /\ errors \in [Reads!Methods -> Nat]
         /\ lat \in [Reads!Methods -> Nat]
         /\ reads \in Nat /\ errs \in Nat /\ pooled \in Nat
BY DEF ReadInv, ReadTypes, Reads!TypeOK

LEMMA GrownSame ==
  ASSUME NEW f \in [Reads!Methods -> Nat], NEW g, g = f, NEW m
  PROVE  Grown(g, f, m, 0)
BY DEF Grown

LEMMA GrownOne ==
  ASSUME NEW f \in [Reads!Methods -> Nat], NEW m \in Reads!Methods, NEW g, g = [f EXCEPT ![m] = f[m] + 1]
  PROVE  Grown(g, f, m, 1)
BY DEF Grown

(* Every step of a worker that has counted or is to count.                   *)
Keeps == (\A m \in Reads!Methods : PerMethod(m)') /\ InTotal'

LEMMA MethodsStay ==
  ASSUME ReadTypes, NEW w \in Workers, Reads!Over(w)
  PROVE  /\ \A v \in Workers : read'[v].method = read[v].method
         /\ read' \in [Workers -> [method : Reads!Methods, from : Int, to : Int, at : Int]]
<1>1. read[w].method \in Reads!Methods /\ read' = [read EXCEPT ![w] = [Reads!NoRead EXCEPT !.method = read[w].method]]
  BY DEF ReadTypes, Reads!Over
<1>2. [Reads!NoRead EXCEPT !.method = read[w].method]
        = [method |-> read[w].method, from |-> 0, to |-> 0, at |-> 0]
  BY DEF Reads!NoRead
<1>3. QED
  BY <1>1, <1>2 DEF ReadTypes

LEMMA AnsweredAddsUp ==
  ASSUME ReadInv, NEW w \in Workers, Reads!Answered(w)
  PROVE  Keeps
<1>1. /\ answered' = [answered EXCEPT ![read[w].method] = answered[read[w].method] + 1]
      /\ UNCHANGED <<failed, count, errors, lat, reads, errs, pooled>>
  BY DEF Reads!Answered, Reads!tallies, Reads!past
<1>2. Moves(w, "asked", "count ok")
  BY Counters, MethodsStay DEF Reads!Answered, Reads!At, Reads!Goes, Moves
<1>3. /\ Grown(answered', answered, read[w].method, 1)
      /\ Grown(failed', failed, read[w].method, 0)
      /\ Grown(count', count, read[w].method, 0)
      /\ Grown(errors', errors, read[w].method, 0)
      /\ Grown(lat', lat, read[w].method, 0)
  BY <1>1, Counters, GrownSame, GrownOne, Zenon
<1>4. reads' = reads + 0 /\ errs' = errs + 0 /\ pooled' = pooled + 0
  BY <1>1, Counters
<1>5. /\ 1 + If1("asked" \in OkPlaces) = 0 + If1("count ok" \in OkPlaces)
      /\ 0 + If1("asked" \in ErrPlaces) = 0 + If1("count ok" \in ErrPlaces)
      /\ 1 + 0 + If1("asked" \in NotYet) = 0 + If1("count ok" \in NotYet)
      /\ 0 + If1("asked" \in Unsent) = 0 + If1("count ok" \in Unsent)
      /\ 0 + If1("asked" \in {"errs"}) = 0 + If1("count ok" \in {"errs"})
      /\ 0 + If1("asked" \in {"pooled"}) = 0 + If1("count ok" \in {"pooled"})
  BY DEF If1, OkPlaces, ErrPlaces, NotYet, Unsent
<1>6. QED
  BY <1>2, <1>3, <1>4, <1>5, MoveAddsUp DEF Keeps

LEMMA FailedAddsUp ==
  ASSUME ReadInv, NEW w \in Workers, Reads!Failed(w), Reads!Running
  PROVE  Keeps
<1>1. /\ failed' = [failed EXCEPT ![read[w].method] = failed[read[w].method] + 1]
      /\ UNCHANGED <<answered, count, errors, lat, reads, errs, pooled>>
  BY DEF Reads!Failed, Reads!tallies, Reads!past
<1>2. Moves(w, "asked", "count err")
  BY Counters, MethodsStay DEF Reads!Failed, Reads!At, Reads!Goes, Moves
<1>3. /\ Grown(answered', answered, read[w].method, 0)
      /\ Grown(failed', failed, read[w].method, 1)
      /\ Grown(count', count, read[w].method, 0)
      /\ Grown(errors', errors, read[w].method, 0)
      /\ Grown(lat', lat, read[w].method, 0)
  BY <1>1, Counters, GrownSame, GrownOne, Zenon
<1>4. reads' = reads + 0 /\ errs' = errs + 0 /\ pooled' = pooled + 0
  BY <1>1, Counters
<1>5. /\ 0 + If1("asked" \in OkPlaces) = 0 + If1("count err" \in OkPlaces)
      /\ 1 + If1("asked" \in ErrPlaces) = 0 + If1("count err" \in ErrPlaces)
      /\ 0 + 1 + If1("asked" \in NotYet) = 0 + If1("count err" \in NotYet)
      /\ 0 + If1("asked" \in Unsent) = 0 + If1("count err" \in Unsent)
      /\ 0 + If1("asked" \in {"errs"}) = 0 + If1("count err" \in {"errs"})
      /\ 0 + If1("asked" \in {"pooled"}) = 0 + If1("count err" \in {"pooled"})
  BY DEF If1, OkPlaces, ErrPlaces, NotYet, Unsent
<1>6. QED
  BY <1>2, <1>3, <1>4, <1>5, MoveAddsUp DEF Keeps

(* A read is counted under its method first, then in total.                  *)
Pays(a, b, dC, dS) ==
  /\ 0 + If1(a \in OkPlaces) = 0 + If1(b \in OkPlaces)
  /\ 0 + If1(a \in ErrPlaces) = 0 + If1(b \in ErrPlaces)
  /\ 0 + 0 + If1(a \in NotYet) = dC + If1(b \in NotYet)
  /\ dC + If1(a \in Unsent) = dS + If1(b \in Unsent)
  /\ 0 + If1(a \in {"errs"}) = 0 + If1(b \in {"errs"})
  /\ 0 + If1(a \in {"pooled"}) = 0 + If1(b \in {"pooled"})

LEMMA PaysInTurn ==
  /\ Pays("count ok", "sent ok", 1, 0) /\ Pays("count err", "sent err", 1, 0)
  /\ Pays("sent ok", "lat", 0, 1) /\ Pays("sent err", "errors", 0, 1)
BY DEF Pays, If1, OkPlaces, ErrPlaces, NotYet, Unsent

LEMMA CountAddsUp ==
  ASSUME ReadInv, NEW w \in Workers, Reads!Count(w), NEW a, NEW b, Moves(w, a, b),
         Pays(a, b, 1, 0)
  PROVE  Keeps
<1>1. /\ count' = [count EXCEPT ![read[w].method] = count[read[w].method] + 1]
      /\ UNCHANGED <<answered, failed, errors, lat, reads, errs, pooled>>
  BY DEF Reads!Count, Reads!Bump, Reads!tallies, Reads!past
<1>2. /\ Grown(answered', answered, read[w].method, 0)
      /\ Grown(failed', failed, read[w].method, 0)
      /\ Grown(count', count, read[w].method, 1)
      /\ Grown(errors', errors, read[w].method, 0)
      /\ Grown(lat', lat, read[w].method, 0)
  BY <1>1, Counters, GrownSame, GrownOne, Zenon
<1>3. reads' = reads + 0 /\ errs' = errs + 0 /\ pooled' = pooled + 0
  BY <1>1, Counters
<1>4. QED
  BY <1>2, <1>3, MoveAddsUp DEF Keeps, Pays

LEMMA SentAddsUp ==
  ASSUME ReadInv, NEW w \in Workers, Reads!Sent(w), NEW a, NEW b, Moves(w, a, b),
         Pays(a, b, 0, 1)
  PROVE  Keeps
<1>1. /\ reads' = reads + 1
      /\ UNCHANGED <<answered, failed, count, errors, lat, errs, pooled>>
  BY DEF Reads!Sent, Reads!tallies, Reads!past
<1>2. /\ Grown(answered', answered, read[w].method, 0)
      /\ Grown(failed', failed, read[w].method, 0)
      /\ Grown(count', count, read[w].method, 0)
      /\ Grown(errors', errors, read[w].method, 0)
      /\ Grown(lat', lat, read[w].method, 0)
  BY <1>1, Counters, GrownSame, GrownOne, Zenon
<1>3. reads' = reads + 1 /\ errs' = errs + 0 /\ pooled' = pooled + 0
  BY <1>1, Counters
<1>4. QED
  BY <1>2, <1>3, MoveAddsUp DEF Keeps, Pays

LEMMA ErrorsAddsUp ==
  ASSUME ReadInv, NEW w \in Workers, Reads!Errors(w)
  PROVE  Keeps
<1>1. /\ errors' = [errors EXCEPT ![read[w].method] = errors[read[w].method] + 1]
      /\ UNCHANGED <<answered, failed, count, lat, reads, errs, pooled>>
  BY DEF Reads!Errors, Reads!Bump, Reads!tallies, Reads!past
<1>2. Moves(w, "errors", "errs")
  BY Counters DEF Reads!Errors, Reads!At, Reads!Goes, Moves
<1>3. /\ Grown(answered', answered, read[w].method, 0)
      /\ Grown(failed', failed, read[w].method, 0)
      /\ Grown(count', count, read[w].method, 0)
      /\ Grown(errors', errors, read[w].method, 1)
      /\ Grown(lat', lat, read[w].method, 0)
  BY <1>1, Counters, GrownSame, GrownOne, Zenon
<1>4. reads' = reads + 0 /\ errs' = errs + 0 /\ pooled' = pooled + 0
  BY <1>1, Counters
<1>5. /\ 0 + If1("errors" \in OkPlaces) = 0 + If1("errs" \in OkPlaces)
      /\ 0 + If1("errors" \in ErrPlaces) = 1 + If1("errs" \in ErrPlaces)
      /\ 0 + 0 + If1("errors" \in NotYet) = 0 + If1("errs" \in NotYet)
      /\ 0 + If1("errors" \in Unsent) = 0 + If1("errs" \in Unsent)
      /\ 1 + If1("errors" \in {"errs"}) = 0 + If1("errs" \in {"errs"})
      /\ 0 + If1("errors" \in {"pooled"}) = 0 + If1("errs" \in {"pooled"})
  BY DEF If1, OkPlaces, ErrPlaces, NotYet, Unsent
<1>6. QED
  BY <1>2, <1>3, <1>4, <1>5, MoveAddsUp DEF Keeps

LEMMA ErrsAddsUp ==
  ASSUME ReadInv, NEW w \in Workers, Reads!Errs(w)
  PROVE  Keeps
<1>1. /\ errs' = errs + 1
      /\ UNCHANGED <<answered, failed, count, errors, lat, reads, pooled>>
  BY DEF Reads!Errs, Reads!tallies, Reads!past
<1>2. Moves(w, "errs", "top")
  BY Counters DEF Reads!Errs, Reads!At, Reads!Goes, Moves
<1>3. /\ Grown(answered', answered, read[w].method, 0)
      /\ Grown(failed', failed, read[w].method, 0)
      /\ Grown(count', count, read[w].method, 0)
      /\ Grown(errors', errors, read[w].method, 0)
      /\ Grown(lat', lat, read[w].method, 0)
  BY <1>1, Counters, GrownSame, GrownOne, Zenon
<1>4. reads' = reads + 0 /\ errs' = errs + 1 /\ pooled' = pooled + 0
  BY <1>1, Counters
<1>5. /\ 0 + If1("errs" \in OkPlaces) = 0 + If1("top" \in OkPlaces)
      /\ 0 + If1("errs" \in ErrPlaces) = 0 + If1("top" \in ErrPlaces)
      /\ 0 + 0 + If1("errs" \in NotYet) = 0 + If1("top" \in NotYet)
      /\ 0 + If1("errs" \in Unsent) = 0 + If1("top" \in Unsent)
      /\ 0 + If1("errs" \in {"errs"}) = 1 + If1("top" \in {"errs"})
      /\ 0 + If1("errs" \in {"pooled"}) = 0 + If1("top" \in {"pooled"})
  BY DEF If1, OkPlaces, ErrPlaces, NotYet, Unsent
<1>6. QED
  BY <1>2, <1>3, <1>4, <1>5, MoveAddsUp DEF Keeps

LEMMA LatAddsUp ==
  ASSUME ReadInv, NEW w \in Workers, Reads!Lat(w)
  PROVE  Keeps
<1>1. /\ lat' = [lat EXCEPT ![read[w].method] = lat[read[w].method] + 1]
      /\ UNCHANGED <<answered, failed, count, errors, reads, errs, pooled>>
  BY DEF Reads!Lat, Reads!Bump, Reads!tallies, Reads!past
<1>2. Moves(w, "lat", "pooled")
  BY Counters DEF Reads!Lat, Reads!At, Reads!Goes, Moves
<1>3. /\ Grown(answered', answered, read[w].method, 0)
      /\ Grown(failed', failed, read[w].method, 0)
      /\ Grown(count', count, read[w].method, 0)
      /\ Grown(errors', errors, read[w].method, 0)
      /\ Grown(lat', lat, read[w].method, 1)
  BY <1>1, Counters, GrownSame, GrownOne, Zenon
<1>4. reads' = reads + 0 /\ errs' = errs + 0 /\ pooled' = pooled + 0
  BY <1>1, Counters
<1>5. /\ 0 + If1("lat" \in OkPlaces) = 1 + If1("pooled" \in OkPlaces)
      /\ 0 + If1("lat" \in ErrPlaces) = 0 + If1("pooled" \in ErrPlaces)
      /\ 0 + 0 + If1("lat" \in NotYet) = 0 + If1("pooled" \in NotYet)
      /\ 0 + If1("lat" \in Unsent) = 0 + If1("pooled" \in Unsent)
      /\ 0 + If1("lat" \in {"errs"}) = 0 + If1("pooled" \in {"errs"})
      /\ 1 + If1("lat" \in {"pooled"}) = 0 + If1("pooled" \in {"pooled"})
  BY DEF If1, OkPlaces, ErrPlaces, NotYet, Unsent
<1>6. QED
  BY <1>2, <1>3, <1>4, <1>5, MoveAddsUp DEF Keeps

LEMMA PooledAddsUp ==
  ASSUME ReadInv, NEW w \in Workers, Reads!Pooled(w)
  PROVE  Keeps
<1>1. /\ pooled' = pooled + 1
      /\ UNCHANGED <<answered, failed, count, errors, lat, reads, errs>>
  BY DEF Reads!Pooled, Reads!tallies, Reads!past
<1>2. Moves(w, "pooled", "top")
  BY Counters DEF Reads!Pooled, Reads!At, Reads!Goes, Moves
<1>3. /\ Grown(answered', answered, read[w].method, 0)
      /\ Grown(failed', failed, read[w].method, 0)
      /\ Grown(count', count, read[w].method, 0)
      /\ Grown(errors', errors, read[w].method, 0)
      /\ Grown(lat', lat, read[w].method, 0)
  BY <1>1, Counters, GrownSame, GrownOne, Zenon
<1>4. reads' = reads + 0 /\ errs' = errs + 0 /\ pooled' = pooled + 1
  BY <1>1, Counters
<1>5. /\ 0 + If1("pooled" \in OkPlaces) = 0 + If1("top" \in OkPlaces)
      /\ 0 + If1("pooled" \in ErrPlaces) = 0 + If1("top" \in ErrPlaces)
      /\ 0 + 0 + If1("pooled" \in NotYet) = 0 + If1("top" \in NotYet)
      /\ 0 + If1("pooled" \in Unsent) = 0 + If1("top" \in Unsent)
      /\ 0 + If1("pooled" \in {"errs"}) = 0 + If1("top" \in {"errs"})
      /\ 0 + If1("pooled" \in {"pooled"}) = 1 + If1("top" \in {"pooled"})
  BY DEF If1, OkPlaces, ErrPlaces, NotYet, Unsent
<1>6. QED
  BY <1>2, <1>3, <1>4, <1>5, MoveAddsUp DEF Keeps

-----------------------------------------------------------------------------
(* The block ranges of a run whose configuration was accepted.               *)
Selected ==
  /\ cfg.select \in {"latest", "recent", "archive"}
  /\ cfg.window \in Nat \ {0} /\ cfg.span \in Nat \ {0} /\ cfg.depth \in 1..100

Settings == [shares : [Reads!Methods -> Int],
             select : {"", "latest", "recent", "archive", "unknown"}, window : Int, span : Int,
             depth : Int, archive : {"unset", "yes", "no"}, erc20 : BOOLEAN]

LEMMA DefaultsSelect ==
  ASSUME NEW c \in Settings
  PROVE  /\ Reads!WithDefaults(c) \in Settings
         /\ Reads!Validate(c) =>
              LET d == Reads!WithDefaults(c) IN
                /\ d.select \in {"latest", "recent", "archive"}
                /\ d.window \in Nat \ {0} /\ d.span \in Nat \ {0} /\ d.depth \in 1..100
<1> DEFINE s == IF c.select = "" THEN "recent" ELSE c.select
           x == IF c.window <= 0 THEN 64 ELSE c.window
           y == IF c.span <= 0 THEN 16 ELSE c.span
           z == IF c.depth <= 0 THEN 100 ELSE c.depth
           d == [c EXCEPT !.select = s, !.window = x, !.span = y, !.depth = z]
<1>1. Reads!WithDefaults(c) = d
  BY DEF Reads!WithDefaults
<1>2. c.window \in Int /\ c.span \in Int /\ c.depth \in Int
  BY DEF Settings
<1>3. x \in Nat \ {0} /\ y \in Nat \ {0}
  BY <1>2
<1>4. z \in Int /\ z > 0 /\ (c.depth \in 0..100 => z \in 1..100)
  BY <1>2
<1>5. s \in {"", "latest", "recent", "archive", "unknown"}
  BY DEF Settings
<1>6. Reads!Validate(c) => c.select \in {"", "latest", "recent", "archive"} /\ c.depth \in 0..100
  BY DEF Reads!Validate
<1>7. c.select \in {"", "latest", "recent", "archive"} => s \in {"latest", "recent", "archive"}
  OBVIOUS
<1> HIDE DEF s, x, y, z
<1>8. d \in Settings
  <2> DEFINE c1 == [c EXCEPT !.select = s]
             c2 == [c1 EXCEPT !.window = x]
             c3 == [c2 EXCEPT !.span = y]
  <2>1. c1 \in Settings
    BY <1>5 DEF Settings
  <2> HIDE DEF c1
  <2>2. c2 \in Settings
    <3>1. x \in Int
      BY <1>3
    <3>2. QED
      BY <2>1, <3>1 DEF Settings
  <2> HIDE DEF c2
  <2>3. c3 \in Settings
    <3>1. y \in Int
      BY <1>3
    <3>2. QED
      BY <2>2, <3>1 DEF Settings
  <2> HIDE DEF c3
  <2>4. [c3 EXCEPT !.depth = z] \in Settings
    BY <1>4, <2>3 DEF Settings
  <2>5. d = [c3 EXCEPT !.depth = z]
    BY DEF c1, c2, c3
  <2>6. QED
    BY <2>4, <2>5
<1>9. d.select = s /\ d.window = x /\ d.span = y /\ d.depth = z
  BY DEF Settings
<1> HIDE DEF d
<1>10. QED
  BY <1>1, <1>3, <1>4, <1>6, <1>7, <1>8, <1>9

(* A range is of numbered blocks, or of the latest one.                      *)
InRange(from, to, h) ==
  from # 0 =>
    /\ 1 <= from /\ from <= to /\ to <= h
    /\ to - from < cfg.span
    /\ IF cfg.select = "archive"
       THEN (h - from + 1) * 100 <= Reads!Max({100, h * cfg.depth})
       ELSE h - from < Reads!Max({cfg.window, cfg.span})

LEMMA ArchiveBegins ==
  ASSUME Selected, NEW h \in Nat \ {0}
  PROVE  LET o == Reads!archiveOldestBlock(h) IN
           /\ o \in Nat /\ 1 <= o /\ o <= h
           /\ \A b \in Int : o <= b => (h - b + 1) * 100 <= Reads!Max({100, h * cfg.depth})
<1> DEFINE part100 == h * cfg.depth
           share == part100 \div 100
           span == Reads!Max({1, share})
           o == Reads!archiveOldestBlock(h)
<1>1. part100 \in Nat
  BY DEF Selected
<1> HIDE DEF part100
<1>2. share \in Nat /\ share * 100 <= part100
  BY <1>1
<1> HIDE DEF share
<1>3. span \in {1, share} /\ span >= 1 /\ span >= share
  BY <1>2, MaxOfTwo
<1>4. Reads!Max({100, part100}) >= 100 /\ Reads!Max({100, part100}) >= part100
      /\ Reads!Max({100, part100}) \in Int
  BY <1>1, MaxOfTwo
<1>5. o = IF span >= h THEN 1 ELSE h - span + 1
  BY DEF Reads!archiveOldestBlock, share, part100
<1> HIDE DEF span
<1>6. span * 100 <= Reads!Max({100, part100}) /\ span \in Nat
  BY <1>1, <1>2, <1>3, <1>4
<1>7. o \in Nat /\ 1 <= o /\ o <= h /\ h - o + 1 <= span
  BY <1>3, <1>5, <1>6
<1> HIDE DEF o
<1>8. ASSUME NEW b \in Int, o <= b PROVE (h - b + 1) * 100 <= Reads!Max({100, part100})
  BY <1>4, <1>6, <1>7, <1>8
<1>9. QED
  BY <1>7, <1>8 DEF o, part100

LEMMA BlockTags ==
  ASSUME Selected, NEW h \in Nat, NEW b \in Reads!blockTag(h)
  PROVE  b.from \in Int /\ b.to \in Int /\ InRange(b.from, b.to, h)
<1>0. cfg.window \in Nat \ {0} /\ cfg.span \in Nat \ {0} /\ cfg.select \in {"latest", "recent", "archive"}
  BY DEF Selected
<1>1. CASE b = Reads!Latest
  BY <1>1 DEF Reads!Latest, InRange
<1>2. CASE cfg.select = "archive" /\ h > 1
  <2>1. \E n \in Reads!archiveOldestBlock(h)..h : b = [from |-> n, to |-> n]
    BY <1>2 DEF Reads!blockTag, Reads!BlocksAt
  <2> PICK n \in Reads!archiveOldestBlock(h)..h : b = [from |-> n, to |-> n]
    BY <2>1
  <2> DEFINE o == Reads!archiveOldestBlock(h)
  <2>2. o \in Nat /\ 1 <= o /\ \A k \in Int : o <= k => (h - k + 1) * 100 <= Reads!Max({100, h * cfg.depth})
    BY <1>2, ArchiveBegins
  <2>3. n \in o..h /\ b.from = n /\ b.to = n
    OBVIOUS
  <2> HIDE DEF o
  <2>4. n \in Int /\ 1 <= n /\ n <= h /\ (h - n + 1) * 100 <= Reads!Max({100, h * cfg.depth})
    BY <2>2, <2>3
  <2>5. QED
    BY <1>0, <1>2, <2>3, <2>4 DEF InRange
<1>3. CASE cfg.select = "recent" /\ h > 0
  <2> DEFINE m == Reads!Min({cfg.window, h})
  <2>0. cfg.window \in Int /\ h \in Int
    BY <1>0
  <2>1. m \in {cfg.window, h} /\ m <= cfg.window /\ m <= h
    BY <2>0, MinOfTwo, Zenon
  <2>2. \E n \in h - m + 1..h : b = [from |-> n, to |-> n]
    BY <1>3 DEF Reads!blockTag, Reads!BlocksAt
  <2> HIDE DEF m
  <2> PICK n \in h - m + 1..h : b = [from |-> n, to |-> n]
    BY <2>2
  <2>3. n \in Int /\ 1 <= n /\ n <= h /\ h - n < cfg.window /\ b.from = n /\ b.to = n
    BY <1>0, <2>1
  <2>4. cfg.window \in Int /\ cfg.span \in Int
    BY <1>0
  <2>5. /\ Reads!Max({cfg.window, cfg.span}) >= cfg.window
        /\ Reads!Max({cfg.window, cfg.span}) \in {cfg.window, cfg.span}
    BY <2>4, MaxOfTwo, Zenon
  <2>6. QED
    BY <1>0, <1>3, <2>3, <2>5 DEF InRange
<1>4. CASE cfg.select = "latest" \/ (cfg.select = "archive" /\ h <= 1) \/ (cfg.select = "recent" /\ h = 0)
  BY <1>0, <1>1, <1>4 DEF Reads!blockTag
<1>5. QED
  BY <1>0, <1>2, <1>3, <1>4

LEMMA LogRanges ==
  ASSUME Selected, NEW h \in Nat, NEW b \in Reads!logRange(h)
  PROVE  b.from \in Int /\ b.to \in Int /\ InRange(b.from, b.to, h)
<1> DEFINE span   == Reads!Min({cfg.span, h})
           near   == Reads!Min({cfg.window, h})
           window == Reads!Max({span, near})
           oldest == IF cfg.select = "archive" THEN Reads!archiveOldestBlock(h) ELSE h - window + 1
           last   == h - span + 1
<1>1. h # 0 /\ h > 0 /\ h \in Nat \ {0}
  BY DEF Reads!logRange
<1>2. /\ \/ last < oldest /\ b = [from |-> oldest, to |-> h]
         \/ \E n \in oldest..last : b = [from |-> n, to |-> n + span - 1]
  BY <1>1 DEF Reads!logRange
<1>3. cfg.window \in Int /\ cfg.span \in Int /\ h \in Int /\ cfg.window > 0 /\ cfg.span > 0
  BY DEF Selected
<1>4. span \in {cfg.span, h} /\ span <= cfg.span /\ span <= h
  BY <1>3, MinOfTwo, Zenon
<1>5. near \in {cfg.window, h} /\ near <= cfg.window /\ near <= h
  BY <1>3, MinOfTwo, Zenon
<1> HIDE DEF span, near
<1>6. span \in Int /\ near \in Int /\ 1 <= span /\ 1 <= near
  BY <1>1, <1>3, <1>4, <1>5
<1>7. window \in {span, near} /\ window >= span /\ window >= near
  BY <1>6, MaxOfTwo, Zenon
<1> HIDE DEF window
<1>8. /\ Reads!Max({cfg.window, cfg.span}) >= cfg.window
      /\ Reads!Max({cfg.window, cfg.span}) >= cfg.span
      /\ Reads!Max({cfg.window, cfg.span}) \in {cfg.window, cfg.span}
  BY <1>3, MaxOfTwo, Zenon
<1>9. window \in Int /\ 1 <= window /\ window <= h /\ window <= Reads!Max({cfg.window, cfg.span})
      /\ Reads!Max({cfg.window, cfg.span}) \in Int
  BY <1>3, <1>4, <1>5, <1>6, <1>7, <1>8
<1>10. CASE cfg.select # "archive"
  <2>1. oldest = h - window + 1
    BY <1>10
  <2> HIDE DEF oldest
  <2>2. CASE last < oldest /\ b = [from |-> oldest, to |-> h]
    BY <1>3, <1>4, <1>6, <1>7, <1>9, <2>1, <2>2
  <2>3. CASE \E n \in oldest..last : b = [from |-> n, to |-> n + span - 1]
    <3> PICK n \in oldest..last : b = [from |-> n, to |-> n + span - 1]
      BY <2>3
    <3>1. n \in Int /\ oldest <= n /\ n <= last /\ b.from = n /\ b.to = n + span - 1
      BY <1>3, <1>6, <1>9, <2>1
    <3>2. 1 <= n /\ n <= n + span - 1 /\ n + span - 1 <= h /\ (n + span - 1) - n < cfg.span
          /\ h - n < Reads!Max({cfg.window, cfg.span}) /\ n + span - 1 \in Int
      BY <1>3, <1>4, <1>6, <1>9, <2>1, <3>1
    <3>3. QED
      BY <1>10, <3>1, <3>2 DEF InRange
  <2>4. QED
    BY <1>2, <2>2, <2>3
<1>11. CASE cfg.select = "archive"
  <2>1. /\ oldest \in Nat /\ 1 <= oldest /\ oldest <= h
        /\ \A k \in Int : oldest <= k => (h - k + 1) * 100 <= Reads!Max({100, h * cfg.depth})
    BY <1>1, <1>11, ArchiveBegins
  <2> HIDE DEF oldest
  <2>2. CASE last < oldest /\ b = [from |-> oldest, to |-> h]
    <3>1. b.from = oldest /\ b.to = h /\ h - oldest < cfg.span
      BY <1>3, <1>4, <1>6, <2>1, <2>2
    <3>2. (h - oldest + 1) * 100 <= Reads!Max({100, h * cfg.depth})
      BY <2>1
    <3>3. QED
      BY <1>3, <1>11, <2>1, <3>1, <3>2 DEF InRange
  <2>3. CASE \E n \in oldest..last : b = [from |-> n, to |-> n + span - 1]
    <3> PICK n \in oldest..last : b = [from |-> n, to |-> n + span - 1]
      BY <2>3
    <3>1. n \in Int /\ oldest <= n /\ n <= last /\ b.from = n /\ b.to = n + span - 1
      BY <1>3, <1>6, <2>1
    <3>2. 1 <= n /\ n <= n + span - 1 /\ n + span - 1 <= h /\ (n + span - 1) - n < cfg.span
          /\ n + span - 1 \in Int
      BY <1>3, <1>4, <1>6, <2>1, <3>1
    <3>3. (h - n + 1) * 100 <= Reads!Max({100, h * cfg.depth})
      BY <2>1, <3>1
    <3>4. QED
      BY <1>11, <3>1, <3>2, <3>3 DEF InRange
  <2>4. QED
    BY <1>2, <2>2, <2>3
<1>12. QED
  BY <1>10, <1>11

LEMMA BuildRanges ==
  ASSUME Selected, NEW h \in Nat, NEW m, NEW b \in Reads!build(m, h)
  PROVE  b.from \in Int /\ b.to \in Int /\ InRange(b.from, b.to, h)
<1>1. CASE b = Reads!Latest
  BY <1>1 DEF Reads!Latest, InRange
<1>2. b = Reads!Latest \/ b \in Reads!blockTag(h) \/ b \in Reads!logRange(h)
  BY DEF Reads!build
<1>3. QED
  BY <1>1, <1>2, BlockTags, LogRanges

-----------------------------------------------------------------------------
(* Nobody reads before the run has started, and then within the selection.   *)
Unstarted == {"new", "refused", "ready"}

Ranged ==
  /\ cfg \in Settings
  /\ engine \notin {"new", "refused"} => Selected
  /\ engine \in Unstarted => \A w \in Workers : worker[w] = "none" /\ read[w] = Reads!NoRead
  /\ \A w \in Workers : InRange(read[w].from, read[w].to, read[w].at)

ReadsInv == ReadInv /\ Ranged

LEMMA TipIsNat == MaxTip \in Nat
BY ServicesAssumption, Zenon

LEMMA ReadsBegin ==
  ASSUME Reads!Init PROVE ReadsInv
<1>1. cfg \in Settings
  BY ServicesAssumption DEF Reads!Init, Settings
<1>2. \A m \in Reads!Methods : Reads!Zero[m] = 0
  BY DEF Reads!Zero
<1>3. ReadTypes
  <2>1. Reads!TypeOK
    <3>1. Reads!Zero \in [Reads!Methods -> Nat]
      BY DEF Reads!Zero
    <3>2. 0 \in 0..MaxTip
      BY TipIsNat
    <3> HIDE DEF Reads!Zero
    <3>3. /\ engine \in {"new", "refused", "ready", "started", "stopping", "stopped", "cut short"}
      BY DEF Reads!Init
    <3>8. archive \in BOOLEAN /\ confirmed \in BOOLEAN
      BY DEF Reads!Init
    <3>9. {reads, errs, skips, pooled, permits} \subseteq Nat
      BY DEF Reads!Init
    <3>7. DOMAIN worker = Workers /\ DOMAIN read = Workers
      BY DEF Reads!Init
    <3>4. {tip, cachedHead} \subseteq 0..MaxTip
      BY <3>2 DEF Reads!Init
    <3>5. {count, errors, lat, answered, failed} \subseteq [Reads!Methods -> Nat]
      BY <3>1 DEF Reads!Init
    <3>6. QED
      BY <3>3, <3>4, <3>5, <3>7, <3>8, <3>9 DEF Reads!TypeOK
  <2>2. worker \in [Workers -> Places]
    BY DEF Reads!Init, Places
  <2>3. read \in [Workers -> [method : Reads!Methods, from : Int, to : Int, at : Int]]
    BY DEF Reads!Init, Reads!NoRead, Reads!Methods
  <2>4. QED
    BY <2>1, <2>2, <2>3 DEF ReadTypes
<1>4. ASSUME NEW P, P \cap Outside = {}, NEW m
      PROVE  Cardinality(At(P)) = 0 /\ Cardinality(Of(P, m)) = 0
  <2>1. At(P) = {} /\ Of(P, m) = {}
    BY <1>4 DEF Reads!Init, At, Of, Outside
  <2>2. QED
    BY <2>1, FS_EmptySet
<1>5. /\ OkPlaces \cap Outside = {} /\ ErrPlaces \cap Outside = {} /\ NotYet \cap Outside = {}
      /\ Unsent \cap Outside = {} /\ {"errs"} \cap Outside = {} /\ {"pooled"} \cap Outside = {}
  BY DEF OkPlaces, ErrPlaces, NotYet, Unsent, Outside
<1>6. ASSUME NEW m \in Reads!Methods PROVE PerMethod(m)
  <2>1. /\ Cardinality(Of(OkPlaces, m)) = 0 /\ Cardinality(Of(ErrPlaces, m)) = 0
        /\ Cardinality(Of(NotYet, m)) = 0
    BY <1>4, <1>5
  <2>2. /\ answered[m] = 0 /\ failed[m] = 0 /\ count[m] = 0 /\ errors[m] = 0 /\ lat[m] = 0
    BY <1>2 DEF Reads!Init
  <2>3. QED
    BY <2>1, <2>2 DEF PerMethod
<1>7. InTotal
  <2>1. /\ Cardinality(At(Unsent)) = 0 /\ Cardinality(At({"errs"})) = 0
        /\ Cardinality(At({"pooled"})) = 0
    BY <1>4, <1>5
  <2>2. Reads!Total(Reads!Zero) = 0
    BY <1>2 DEF Reads!Total, Reads!Methods
  <2>3. QED
    BY <2>1, <2>2 DEF InTotal, Reads!Init
<1>8. RowKept
  BY DEF RowKept, Reads!Init
<1>9. Ranged
  <2>1. \A w \in Workers : worker[w] = "none" /\ read[w] = Reads!NoRead
    BY DEF Reads!Init
  <2>2. \A w \in Workers : read[w].from = 0
    BY <2>1 DEF Reads!NoRead
  <2>3. engine = "new"
    BY DEF Reads!Init
  <2>4. QED
    BY <1>1, <2>1, <2>2, <2>3 DEF Ranged, InRange
<1>10. QED
  BY <1>3, <1>6, <1>7, <1>8, <1>9 DEF ReadsInv, ReadInv

(* The steps of the engine move no worker between its counters.              *)
SetupStep  == \E h \in 0..MaxTip, b \in {"ok", "pruned", "other"} : Reads!setupReadLoad(h, b)
EngineStep ==
  \/ \E h \in 0..MaxTip : Reads!headRefresher(h)
  \/ Reads!Stop \/ Reads!Stopped \/ Reads!TimedOut \/ Reads!Save
  \/ Reads!Block \/ Reads!Confirmations

LEMMA SetupKeeps ==
  ASSUME ReadsInv, SetupStep PROVE ReadsInv'
<1> PICK h \in 0..MaxTip, b \in {"ok", "pruned", "other"} : Reads!setupReadLoad(h, b)
  BY DEF SetupStep
<1>1. /\ engine = "new" /\ cfg' = Reads!WithDefaults(cfg)
      /\ engine' \in {"ready", "refused"} /\ archive' \in BOOLEAN
      /\ (engine' = "ready" => Reads!Validate(cfg))
      /\ UNCHANGED <<tip, cachedHead, confirmed, worker, read>>
      /\ UNCHANGED <<reads, errs, skips, count, errors, lat, pooled, answered, failed, permits, row>>
  BY DEF Reads!setupReadLoad, Reads!New, Reads!target, Reads!tallies, Reads!past
<1>2. cfg \in Settings /\ \A w \in Workers : worker[w] = "none" /\ read[w] = Reads!NoRead
  BY <1>1 DEF ReadsInv, Ranged, Unstarted
<1>3. cfg' \in Settings /\ (Reads!Validate(cfg) => Selected')
  BY <1>1, <1>2, DefaultsSelect DEF Selected
<1>4. ReadTypes'
  BY <1>1 DEF ReadsInv, ReadInv, ReadTypes, Reads!TypeOK
<1>5. (\A m \in Reads!Methods : PerMethod(m)') /\ InTotal'
  BY <1>1, StillAddsUp DEF ReadsInv, Still
<1>6. RowKept'
  BY <1>1 DEF ReadsInv, ReadInv, RowKept
<1>7. Ranged'
  <2>1. \A w \in Workers : worker'[w] = "none" /\ read'[w] = Reads!NoRead
    BY <1>1, <1>2
  <2>2. \A w \in Workers : read'[w].from = 0
    BY <2>1 DEF Reads!NoRead
  <2>3. QED
    BY <1>1, <1>3, <2>1, <2>2 DEF Ranged, InRange
<1>8. QED
  BY <1>4, <1>5, <1>6, <1>7 DEF ReadsInv, ReadInv

LEMMA EngineKeeps ==
  ASSUME ReadsInv, EngineStep PROVE ReadsInv'
<1>1. /\ UNCHANGED <<cfg, archive, worker, read>>
      /\ UNCHANGED <<reads, errs, skips, count, errors, lat, pooled, answered, failed, permits>>
      /\ tip' \in 0..MaxTip /\ cachedHead' \in 0..MaxTip /\ confirmed' \in BOOLEAN
  <2>1. tip \in 0..MaxTip /\ cachedHead \in 0..MaxTip /\ confirmed \in BOOLEAN
    BY DEF ReadsInv, ReadInv, ReadTypes, Reads!TypeOK
  <2>2. /\ UNCHANGED <<cfg, archive, worker, read>>
        /\ UNCHANGED <<reads, errs, skips, count, errors, lat, pooled, answered, failed, permits>>
    BY DEF EngineStep, Reads!headRefresher, Reads!Stop, Reads!Stopped, Reads!TimedOut,
      Reads!Save, Reads!Block, Reads!Confirmations, Reads!setup, Reads!target, Reads!tallies,
      Reads!past
  <2>3. CASE \E h \in 0..MaxTip : Reads!headRefresher(h)
    BY <2>1, <2>2, <2>3 DEF Reads!headRefresher
  <2>4. CASE Reads!Block
    BY <2>1, <2>2, <2>4, TipIsNat DEF Reads!Block
  <2>5. CASE Reads!Confirmations
    BY <2>1, <2>2, <2>5 DEF Reads!Confirmations
  <2>6. CASE UNCHANGED <<tip, cachedHead, confirmed>>
    BY <2>1, <2>2, <2>6
  <2>7. QED
    BY <2>2, <2>3, <2>4, <2>5, <2>6 DEF EngineStep, Reads!Stop, Reads!Stopped, Reads!TimedOut,
      Reads!Save, Reads!target
<1>2. /\ engine' \in {"new", "refused", "ready", "started", "stopping", "stopped", "cut short"}
      /\ engine' \in Unstarted <=> engine \in Unstarted
      /\ engine' \in {"new", "refused"} <=> engine \in {"new", "refused"}
  <2>1. engine \in {"new", "refused", "ready", "started", "stopping", "stopped", "cut short"}
    BY DEF ReadsInv, ReadInv, ReadTypes, Reads!TypeOK
  <2>2. QED
    BY <2>1 DEF EngineStep, Reads!headRefresher, Reads!Stop, Reads!Stopped, Reads!Running,
      Reads!TimedOut, Reads!Save, Reads!Block, Reads!Confirmations, Reads!setup, Unstarted
<1>3. ReadTypes'
  BY <1>1, <1>2 DEF ReadsInv, ReadInv, ReadTypes, Reads!TypeOK
<1>4. (\A m \in Reads!Methods : PerMethod(m)') /\ InTotal'
  BY <1>1, StillAddsUp DEF ReadsInv, Still
<1>5. Ranged'
  BY <1>1, <1>2 DEF ReadsInv, Ranged, InRange, Selected
<1>6. RowKept'
  <2>1. RowKept
    BY DEF ReadsInv, ReadInv
  <2>2. Reads!Gone' <=> Reads!Gone
    BY <1>1 DEF Reads!Gone
  <2>3. Reads!Metrics' = Reads!Metrics
    BY <1>1 DEF Reads!Metrics
  <2>4. CASE Reads!Save
    BY <2>1, <2>2, <2>3, <2>4 DEF RowKept, Reads!Save, Reads!setup
  <2>5. CASE Reads!Stopped
    BY <2>1, <2>2, <2>5 DEF RowKept, Reads!Stopped, Reads!past
  <2>6. CASE Reads!Stop \/ Reads!TimedOut
    BY <2>1, <2>6 DEF RowKept, Reads!Stop, Reads!TimedOut, Reads!Running, Reads!past
  <2>7. CASE UNCHANGED <<engine, row>>
    BY <2>1, <2>2, <2>3, <2>7 DEF RowKept
  <2>8. QED
    BY <2>4, <2>5, <2>6, <2>7 DEF EngineStep, Reads!headRefresher, Reads!Block,
      Reads!Confirmations, Reads!setup, Reads!past
<1>7. QED
  BY <1>3, <1>4, <1>5, <1>6 DEF ReadsInv, ReadInv

LEMMA StartKeeps ==
  ASSUME ReadsInv, NEW h \in 0..MaxTip, Reads!Start(h) PROVE ReadsInv'
<1>1. /\ engine = "ready" /\ engine' = "started"
      /\ cachedHead' = h /\ worker' = [w \in Workers |-> "top"]
      /\ UNCHANGED <<cfg, archive, tip, confirmed, read>>
      /\ UNCHANGED <<reads, errs, skips, count, errors, lat, pooled, answered, failed, permits, row>>
  BY DEF Reads!Start, Reads!tallies, Reads!past
<1>2. Selected /\ \A w \in Workers : worker[w] = "none" /\ read[w] = Reads!NoRead
  BY <1>1 DEF ReadsInv, Ranged, Unstarted
<1>3. ReadTypes'
  <2>1. worker' \in [Workers -> Places] /\ DOMAIN worker' = Workers
    BY <1>1 DEF Places
  <2>2. QED
    BY <1>1, <2>1 DEF ReadsInv, ReadInv, ReadTypes, Reads!TypeOK
<1>4. (\A m \in Reads!Methods : PerMethod(m)') /\ InTotal'
  <2>1. \A v \in Workers : worker[v] \in Outside /\ worker'[v] \in Outside
    BY <1>1, <1>2 DEF Outside
  <2>2. QED
    BY <1>1, <2>1, StillAddsUp DEF ReadsInv, Still
<1>5. RowKept'
  BY <1>1 DEF ReadsInv, ReadInv, RowKept
<1>6. Ranged'
  BY <1>1, <1>2 DEF ReadsInv, Ranged, Unstarted, Selected, InRange
<1>7. QED
  BY <1>3, <1>4, <1>5, <1>6 DEF ReadsInv, ReadInv

(* What the steps of a worker leave alone, and what its reads may become.    *)
Beside == UNCHANGED <<cfg, engine, archive, tip, cachedHead, confirmed, row>>

ReadsStay ==
  /\ read' \in [Workers -> [method : Reads!Methods, from : Int, to : Int, at : Int]]
  /\ \A v \in Workers : \/ read'[v] = read[v]
                        \/ InRange(read'[v].from, read'[v].to, read'[v].at)

Numbers ==
  /\ {reads, errs, skips, pooled, permits} \subseteq Nat
  /\ {count, errors, lat, answered, failed} \subseteq [Reads!Methods -> Nat]

LEMMA WorkerKeeps ==
  ASSUME ReadsInv, NEW w \in Workers, worker[w] \notin {"none", "gone"},
         NEW b \in Places, worker' = [worker EXCEPT ![w] = b],
         Beside, ReadsStay, Numbers', Keeps
  PROVE  ReadsInv'
<1>1. ReadTypes'
  <2>1. worker' \in [Workers -> Places] /\ DOMAIN worker' = Workers /\ DOMAIN read' = Workers
    BY DEF ReadsInv, ReadInv, ReadTypes, ReadsStay
  <2>2. QED
    BY <2>1 DEF ReadsInv, ReadInv, ReadTypes, Reads!TypeOK, Beside, Numbers, ReadsStay
<1>2. RowKept'
  BY DEF ReadsInv, ReadInv, RowKept, Reads!Gone, Beside
<1>3. Ranged'
  <2>1. engine \notin Unstarted
    BY DEF ReadsInv, Ranged
  <2>2. \A v \in Workers : InRange(read'[v].from, read'[v].to, read'[v].at)
    BY DEF ReadsInv, Ranged, ReadsStay
  <2>3. \A v \in Workers : InRange(read[v].from, read[v].to, read[v].at)'
    BY <2>2 DEF InRange, Beside
  <2>4. QED
    BY <2>1, <2>3 DEF ReadsInv, Ranged, Beside, Selected
<1>4. QED
  BY <1>1, <1>2, <1>3 DEF ReadsInv, ReadInv, Keeps

LEMMA NumbersNow ==
  ASSUME ReadsInv
  PROVE  /\ Numbers
         /\ reads \in Nat /\ errs \in Nat /\ skips \in Nat /\ pooled \in Nat /\ permits \in Nat
         /\ answered \in [Reads!Methods -> Nat] /\ failed \in [Reads!Methods -> Nat]
         /\ count \in [Reads!Methods -> Nat] /\ errors \in [Reads!Methods -> Nat]
         /\ lat \in [Reads!Methods -> Nat]
BY DEF ReadsInv, ReadInv, ReadTypes, Reads!TypeOK, Numbers

LEMMA SameReads ==
  ASSUME ReadsInv, UNCHANGED read
  PROVE  ReadsStay
BY DEF ReadsInv, ReadInv, ReadTypes, ReadsStay

LEMMA OverReads ==
  ASSUME ReadsInv, NEW w \in Workers, Reads!Over(w)
  PROVE  ReadsStay
<1>1. read[w].method \in Reads!Methods /\ read' = [read EXCEPT ![w] = [Reads!NoRead EXCEPT !.method = read[w].method]]
  BY DEF ReadsInv, ReadInv, ReadTypes, Reads!Over
<1>2. [Reads!NoRead EXCEPT !.method = read[w].method]
        = [method |-> read[w].method, from |-> 0, to |-> 0, at |-> 0]
  BY DEF Reads!NoRead
<1>3. read'[w].from = 0 /\ \A v \in Workers \ {w} : read'[v] = read[v]
  BY <1>1, <1>2 DEF ReadsInv, ReadInv, ReadTypes
<1>4. read' \in [Workers -> [method : Reads!Methods, from : Int, to : Int, at : Int]]
  BY MethodsStay DEF ReadsInv, ReadInv
<1>5. QED
  BY <1>3, <1>4 DEF ReadsStay, InRange

LEMMA LeaveOrTurn ==
  ASSUME ReadsInv, NEW w \in Workers, Reads!Leave(w) \/ Reads!Turn(w) PROVE ReadsInv'
<1>1. PICK b \in {"gone", "waiting"} : worker' = [worker EXCEPT ![w] = b]
  BY DEF Reads!Leave, Reads!Turn, Reads!Goes
<1>2. /\ worker[w] \in {"top", "waiting"} /\ Beside /\ UNCHANGED read
      /\ UNCHANGED <<reads, errs, skips, count, errors, lat, pooled, answered, failed, permits>>
  BY DEF Reads!Leave, Reads!Turn, Reads!At, Beside, Reads!setup, Reads!target, Reads!tallies, Reads!past
<1>3. ReadsStay /\ Numbers'
  BY <1>2, SameReads, NumbersNow DEF Numbers
<1>4. Keeps
  <2>1. \A v \in Workers : \/ worker'[v] = worker[v] /\ read'[v].method = read[v].method
                           \/ worker[v] \in Outside /\ worker'[v] \in Outside
    BY <1>1, <1>2 DEF Outside, ReadsInv, ReadInv, ReadTypes
  <2>2. QED
    BY <1>2, <2>1, StillAddsUp DEF ReadsInv, Still, Keeps
<1>5. b \in Places /\ worker[w] \notin {"none", "gone"}
  BY <1>2 DEF Places
<1>6. QED
  BY <1>1, <1>2, <1>3, <1>4, <1>5, WorkerKeeps

LEMMA AskKeeps ==
  ASSUME ReadsInv, NEW w \in Workers, Reads!Ask(w) PROVE ReadsInv'
<1>1. PICK m \in Reads!pick, h \in Reads!heads :
        \/ /\ skips' = skips + 1 /\ worker' = [worker EXCEPT ![w] = "top"] /\ read' = read
        \/ \E b \in Reads!build(m, h) :
             /\ read' = [read EXCEPT ![w] = [method |-> m, from |-> b.from, to |-> b.to, at |-> h]]
             /\ worker' = [worker EXCEPT ![w] = "asked"] /\ skips' = skips
  BY DEF Reads!Ask, Reads!Goes
<1>2. /\ worker[w] = "waiting" /\ permits' = permits + 1 /\ Beside
      /\ UNCHANGED <<reads, errs, count, errors, lat, pooled, answered, failed>>
  BY DEF Reads!Ask, Reads!At, Beside, Reads!setup, Reads!target
<1>3. m \in Reads!Methods /\ h \in Nat
  <2>1. tip \in 0..MaxTip /\ cachedHead \in 0..MaxTip
    BY DEF ReadsInv, ReadInv, ReadTypes, Reads!TypeOK
  <2>2. QED
    BY <2>1 DEF Reads!pick, Reads!heads, Reads!readHeadBlock
<1>4. Selected
  BY <1>2 DEF ReadsInv, Ranged, Unstarted
<1>5. PICK p \in {"top", "asked"} : worker' = [worker EXCEPT ![w] = p]
  BY <1>1
<1>6. skips' \in Nat
  BY <1>1, NumbersNow
<1>7. Numbers'
  BY <1>2, <1>6, NumbersNow DEF Numbers
<1>8. ReadsStay
  <2>1. CASE read' = read
    BY <2>1, SameReads
  <2>2. ASSUME NEW b \in Reads!build(m, h),
               read' = [read EXCEPT ![w] = [method |-> m, from |-> b.from, to |-> b.to, at |-> h]]
        PROVE  ReadsStay
    <3>1. b.from \in Int /\ b.to \in Int /\ InRange(b.from, b.to, h)
      BY <1>3, <1>4, BuildRanges
    <3> DEFINE r == [method |-> m, from |-> b.from, to |-> b.to, at |-> h]
    <3>2. r \in [method : Reads!Methods, from : Int, to : Int, at : Int]
      BY <1>3, <3>1
    <3>3. r.from = b.from /\ r.to = b.to /\ r.at = h
      OBVIOUS
    <3>4. read' = [read EXCEPT ![w] = r]
      BY <2>2
    <3> HIDE DEF r
    <3>5. /\ read' \in [Workers -> [method : Reads!Methods, from : Int, to : Int, at : Int]]
          /\ read'[w] = r /\ \A v \in Workers \ {w} : read'[v] = read[v]
      BY <3>2, <3>4 DEF ReadsInv, ReadInv, ReadTypes
    <3>6. InRange(read'[w].from, read'[w].to, read'[w].at)
      BY <3>1, <3>3, <3>5
    <3>7. QED
      BY <3>5, <3>6 DEF ReadsStay
  <2>3. QED
    BY <1>1, <2>1, <2>2
<1>9. Keeps
  <2>1. \A v \in Workers \ {w} : worker'[v] = worker[v] /\ read'[v] = read[v]
    BY <1>1 DEF ReadsInv, ReadInv, ReadTypes
  <2>2. worker[w] \in Outside /\ worker'[w] \in Outside
    BY <1>2, <1>5 DEF Outside, ReadsInv, ReadInv, ReadTypes
  <2>3. \A v \in Workers : \/ worker'[v] = worker[v] /\ read'[v].method = read[v].method
                           \/ worker[v] \in Outside /\ worker'[v] \in Outside
    BY <2>1, <2>2
  <2>4. QED
    BY <1>2, <2>3, StillAddsUp DEF ReadsInv, Still, Keeps
<1>10. p \in Places /\ worker[w] \notin {"none", "gone"}
  BY <1>2 DEF Places
<1>11. QED
  BY <1>2, <1>5, <1>7, <1>8, <1>9, <1>10, WorkerKeeps

LEMMA BumpCounts ==
  ASSUME ReadsInv, NEW w \in Workers
  PROVE  /\ [answered EXCEPT ![read[w].method] = @ + 1] \in [Reads!Methods -> Nat]
         /\ [failed EXCEPT ![read[w].method] = @ + 1] \in [Reads!Methods -> Nat]
         /\ [count EXCEPT ![read[w].method] = @ + 1] \in [Reads!Methods -> Nat]
         /\ [errors EXCEPT ![read[w].method] = @ + 1] \in [Reads!Methods -> Nat]
         /\ [lat EXCEPT ![read[w].method] = @ + 1] \in [Reads!Methods -> Nat]
<1>1. read[w].method \in Reads!Methods
  BY DEF ReadsInv, ReadInv, ReadTypes
<1>2. QED
  BY <1>1, NumbersNow, TotalBump

LEMMA AnsweredKeeps ==
  ASSUME ReadsInv, NEW w \in Workers, Reads!Answered(w) PROVE ReadsInv'
<1>1. /\ worker[w] = "asked" /\ worker' = [worker EXCEPT ![w] = "count ok"] /\ Beside
      /\ Reads!Over(w) /\ answered' = [answered EXCEPT ![read[w].method] = @ + 1]
      /\ UNCHANGED <<reads, errs, skips, pooled, permits, count, errors, lat, failed>>
  BY DEF Reads!Answered, Reads!At, Reads!Goes, Beside, Reads!setup, Reads!target, Reads!tallies
<1>2. Numbers'
  <2>1. answered' \in [Reads!Methods -> Nat]
    BY <1>1, BumpCounts
  <2>2. QED
    BY <1>1, <2>1, NumbersNow DEF Numbers
<1>3. Keeps
  BY AnsweredAddsUp DEF ReadsInv
<1>4. QED
  BY <1>1, <1>2, <1>3, OverReads, WorkerKeeps DEF Places

LEMMA FailedKeeps ==
  ASSUME ReadsInv, NEW w \in Workers, Reads!Failed(w) PROVE ReadsInv'
<1>1. /\ worker[w] = "asked" /\ Beside /\ Reads!Over(w)
      /\ UNCHANGED <<reads, errs, skips, pooled, permits, count, errors, lat, answered>>
  BY DEF Reads!Failed, Reads!At, Beside, Reads!setup, Reads!target, Reads!tallies
<1>2. ReadsStay
  BY <1>1, OverReads
<1>3. CASE Reads!Running
  <2>1. /\ worker' = [worker EXCEPT ![w] = "count err"]
        /\ failed' = [failed EXCEPT ![read[w].method] = @ + 1]
    BY <1>3 DEF Reads!Failed, Reads!Goes
  <2>2. Numbers'
    <3>1. failed' \in [Reads!Methods -> Nat]
      BY <2>1, BumpCounts
    <3>2. QED
      BY <1>1, <3>1, NumbersNow DEF Numbers
  <2>3. Keeps
    BY <1>3, FailedAddsUp DEF ReadsInv
  <2>4. QED
    BY <1>1, <1>2, <2>1, <2>2, <2>3, WorkerKeeps DEF Places
<1>4. CASE ~Reads!Running
  <2>1. worker' = [worker EXCEPT ![w] = "gone"] /\ UNCHANGED failed
    BY <1>4 DEF Reads!Failed, Reads!Goes
  <2>2. Numbers'
    BY <1>1, <2>1, NumbersNow DEF Numbers
  <2>3. \A v \in Workers : read'[v].method = read[v].method
    BY <1>1, MethodsStay DEF ReadsInv, ReadInv
  <2>4. \A v \in Workers : \/ worker'[v] = worker[v] /\ read'[v].method = read[v].method
                           \/ worker[v] \in Outside /\ worker'[v] \in Outside
    BY <1>1, <2>1, <2>3 DEF Outside, ReadsInv, ReadInv, ReadTypes
  <2>5. Keeps
    BY <1>1, <2>1, <2>4, StillAddsUp DEF ReadsInv, Still, Keeps
  <2>6. QED
    BY <1>1, <1>2, <2>1, <2>2, <2>5, WorkerKeeps DEF Places
<1>5. QED
  BY <1>3, <1>4

LEMMA CountKeeps ==
  ASSUME ReadsInv, NEW w \in Workers, Reads!Count(w) PROVE ReadsInv'
<1>1. /\ Beside /\ UNCHANGED read
      /\ count' = [count EXCEPT ![read[w].method] = @ + 1]
      /\ UNCHANGED <<reads, errs, skips, pooled, permits, errors, lat, answered, failed>>
  BY DEF Reads!Count, Reads!Bump, Beside, Reads!setup, Reads!target, Reads!past
<1>2. Numbers' /\ ReadsStay
  <2>1. count' \in [Reads!Methods -> Nat]
    BY <1>1, BumpCounts
  <2>2. QED
    BY <1>1, <2>1, NumbersNow, SameReads DEF Numbers
<1>3. /\ worker[w] \notin {"none", "gone"}
      /\ \/ Moves(w, "count ok", "sent ok") /\ worker' = [worker EXCEPT ![w] = "sent ok"]
         \/ Moves(w, "count err", "sent err") /\ worker' = [worker EXCEPT ![w] = "sent err"]
  BY <1>1 DEF Reads!Count, Reads!At, Reads!Goes, Moves
<1>4. Keeps
  BY <1>3, PaysInTurn, CountAddsUp DEF ReadsInv
<1>5. QED
  BY <1>1, <1>2, <1>3, <1>4, WorkerKeeps DEF Places

LEMMA SentKeeps ==
  ASSUME ReadsInv, NEW w \in Workers, Reads!Sent(w) PROVE ReadsInv'
<1>1. /\ Beside /\ UNCHANGED read /\ reads' = reads + 1
      /\ UNCHANGED <<errs, skips, pooled, permits, count, errors, lat, answered, failed>>
  BY DEF Reads!Sent, Beside, Reads!setup, Reads!target, Reads!past
<1>2. Numbers' /\ ReadsStay
  BY <1>1, NumbersNow, SameReads DEF Numbers
<1>3. /\ worker[w] \notin {"none", "gone"}
      /\ \/ Moves(w, "sent ok", "lat") /\ worker' = [worker EXCEPT ![w] = "lat"]
         \/ Moves(w, "sent err", "errors") /\ worker' = [worker EXCEPT ![w] = "errors"]
  BY <1>1 DEF Reads!Sent, Reads!At, Reads!Goes, Moves
<1>4. Keeps
  BY <1>3, PaysInTurn, SentAddsUp DEF ReadsInv
<1>5. QED
  BY <1>1, <1>2, <1>3, <1>4, WorkerKeeps DEF Places

LEMMA ErrorsKeeps ==
  ASSUME ReadsInv, NEW w \in Workers, Reads!Errors(w) PROVE ReadsInv'
<1>1. /\ worker[w] = "errors" /\ worker' = [worker EXCEPT ![w] = "errs"] /\ Beside /\ UNCHANGED read
      /\ errors' = [errors EXCEPT ![read[w].method] = @ + 1]
      /\ UNCHANGED <<reads, errs, skips, pooled, permits, count, lat, answered, failed>>
  BY DEF Reads!Errors, Reads!At, Reads!Goes, Reads!Bump, Beside, Reads!setup, Reads!target, Reads!past
<1>2. Numbers' /\ ReadsStay
  <2>1. errors' \in [Reads!Methods -> Nat]
    BY <1>1, BumpCounts
  <2>2. QED
    BY <1>1, <2>1, NumbersNow, SameReads DEF Numbers
<1>3. Keeps
  BY ErrorsAddsUp DEF ReadsInv
<1>4. QED
  BY <1>1, <1>2, <1>3, WorkerKeeps DEF Places

LEMMA ErrsKeeps ==
  ASSUME ReadsInv, NEW w \in Workers, Reads!Errs(w) PROVE ReadsInv'
<1>1. /\ worker[w] = "errs" /\ worker' = [worker EXCEPT ![w] = "top"] /\ Beside /\ UNCHANGED read
      /\ errs' = errs + 1
      /\ UNCHANGED <<reads, skips, pooled, permits, count, errors, lat, answered, failed>>
  BY DEF Reads!Errs, Reads!At, Reads!Goes, Beside, Reads!setup, Reads!target, Reads!past
<1>2. Numbers' /\ ReadsStay
  BY <1>1, NumbersNow, SameReads DEF Numbers
<1>3. Keeps
  BY ErrsAddsUp DEF ReadsInv
<1>4. QED
  BY <1>1, <1>2, <1>3, WorkerKeeps DEF Places

LEMMA LatKeeps ==
  ASSUME ReadsInv, NEW w \in Workers, Reads!Lat(w) PROVE ReadsInv'
<1>1. /\ worker[w] = "lat" /\ worker' = [worker EXCEPT ![w] = "pooled"] /\ Beside /\ UNCHANGED read
      /\ lat' = [lat EXCEPT ![read[w].method] = @ + 1]
      /\ UNCHANGED <<reads, errs, skips, pooled, permits, count, errors, answered, failed>>
  BY DEF Reads!Lat, Reads!At, Reads!Goes, Reads!Bump, Beside, Reads!setup, Reads!target, Reads!past
<1>2. Numbers' /\ ReadsStay
  <2>1. lat' \in [Reads!Methods -> Nat]
    BY <1>1, BumpCounts
  <2>2. QED
    BY <1>1, <2>1, NumbersNow, SameReads DEF Numbers
<1>3. Keeps
  BY LatAddsUp DEF ReadsInv
<1>4. QED
  BY <1>1, <1>2, <1>3, WorkerKeeps DEF Places

LEMMA PooledKeeps ==
  ASSUME ReadsInv, NEW w \in Workers, Reads!Pooled(w) PROVE ReadsInv'
<1>1. /\ worker[w] = "pooled" /\ worker' = [worker EXCEPT ![w] = "top"] /\ Beside /\ UNCHANGED read
      /\ pooled' = pooled + 1
      /\ UNCHANGED <<reads, errs, skips, permits, count, errors, lat, answered, failed>>
  BY DEF Reads!Pooled, Reads!At, Reads!Goes, Beside, Reads!setup, Reads!target, Reads!past
<1>2. Numbers' /\ ReadsStay
  BY <1>1, NumbersNow, SameReads DEF Numbers
<1>3. Keeps
  BY PooledAddsUp DEF ReadsInv
<1>4. QED
  BY <1>1, <1>2, <1>3, WorkerKeeps DEF Places

LEMMA ReadsStep ==
  ASSUME ReadsInv, Reads!Next PROVE ReadsInv'
<1>1. CASE SetupStep
  BY <1>1, SetupKeeps
<1>2. CASE \E h \in 0..MaxTip : Reads!Start(h)
  BY <1>2, StartKeeps
<1>3. CASE EngineStep
  BY <1>3, EngineKeeps
<1>4. CASE \E w \in Workers : Reads!Leave(w) \/ Reads!Turn(w)
  BY <1>4, LeaveOrTurn
<1>5. CASE \E w \in Workers : Reads!Ask(w)
  BY <1>5, AskKeeps
<1>6. CASE \E w \in Workers : Reads!Answered(w) \/ Reads!Failed(w)
  BY <1>6, AnsweredKeeps, FailedKeeps
<1>7. CASE \E w \in Workers : Reads!Count(w) \/ Reads!Sent(w)
  BY <1>7, CountKeeps, SentKeeps
<1>8. CASE \E w \in Workers : Reads!Errors(w) \/ Reads!Errs(w)
  BY <1>8, ErrorsKeeps, ErrsKeeps
<1>9. CASE \E w \in Workers : Reads!Lat(w) \/ Reads!Pooled(w)
  BY <1>9, LatKeeps, PooledKeeps
<1>10. QED
  BY <1>1, <1>2, <1>3, <1>4, <1>5, <1>6, <1>7, <1>8, <1>9, Zenon
    DEF Reads!Next, SetupStep, EngineStep

LEMMA ReadsStutter ==
  ASSUME ReadsInv, UNCHANGED readVars PROVE ReadsInv'
<1>1. UNCHANGED <<cfg, engine, archive, tip, cachedHead, confirmed, worker, read, permits, row>>
  BY DEF readVars
<1>2. UNCHANGED <<reads, errs, skips, count, errors, lat, pooled, answered, failed>>
  BY DEF readVars
<1>3. ReadTypes'
  BY <1>1, <1>2 DEF ReadsInv, ReadInv, ReadTypes, Reads!TypeOK
<1>4. (\A m \in Reads!Methods : PerMethod(m)') /\ InTotal'
  BY <1>1, <1>2, StillAddsUp DEF ReadsInv, Still
<1>5. RowKept'
  BY <1>1, <1>2 DEF ReadsInv, ReadInv, RowKept, Reads!Gone, Reads!Metrics
<1>6. Ranged'
  BY <1>1 DEF ReadsInv, Ranged, InRange, Selected
<1>7. QED
  BY <1>3, <1>4, <1>5, <1>6 DEF ReadsInv, ReadInv

(* With every worker gone the differences are nothing.                       *)
LEMMA ReadsAreCounted ==
  ASSUME ReadsInv PROVE Reads!ReadsAddUp
<1> SUFFICES ASSUME engine = "stopped", row # Reads!NoRow
             PROVE  /\ row.lat = answered /\ row.errors = failed
                    /\ \A m \in Reads!Methods : row.count[m] = answered[m] + failed[m]
                    /\ row.sent = Reads!Total(answered) + Reads!Total(failed)
                    /\ row.errs = Reads!Total(failed) /\ row.pooled = Reads!Total(answered)
  BY DEF Reads!ReadsAddUp
<1>1. row = Reads!Metrics /\ \A w \in Workers : worker[w] = "gone"
  BY DEF ReadsInv, ReadInv, RowKept, Reads!Gone
<1>2. ASSUME NEW P, P \cap Outside = {}, NEW m
      PROVE  Cardinality(At(P)) = 0 /\ Cardinality(Of(P, m)) = 0
  <2>1. At(P) = {} /\ Of(P, m) = {}
    BY <1>1, <1>2 DEF At, Of, Outside
  <2>2. QED
    BY <2>1, FS_EmptySet
<1>3. /\ OkPlaces \cap Outside = {} /\ ErrPlaces \cap Outside = {} /\ NotYet \cap Outside = {}
      /\ Unsent \cap Outside = {} /\ {"errs"} \cap Outside = {} /\ {"pooled"} \cap Outside = {}
  BY DEF OkPlaces, ErrPlaces, NotYet, Unsent, Outside
<1>4. ASSUME NEW m \in Reads!Methods
      PROVE  answered[m] = lat[m] /\ failed[m] = errors[m] /\ answered[m] + failed[m] = count[m]
  <2>1. /\ Cardinality(Of(OkPlaces, m)) = 0 /\ Cardinality(Of(ErrPlaces, m)) = 0
        /\ Cardinality(Of(NotYet, m)) = 0
    BY <1>2, <1>3
  <2>2. /\ answered[m] \in Nat /\ failed[m] \in Nat /\ count[m] \in Nat
        /\ errors[m] \in Nat /\ lat[m] \in Nat
    BY NumbersNow
  <2>3. PerMethod(m)
    BY DEF ReadsInv, ReadInv
  <2>4. QED
    BY <2>1, <2>2, <2>3 DEF PerMethod
<1>5. answered = lat /\ failed = errors
  BY <1>4, NumbersNow
<1>6. /\ Reads!Total(count) = reads /\ Reads!Total(errors) = errs /\ Reads!Total(lat) = pooled
  <2>1. /\ Cardinality(At(Unsent)) = 0 /\ Cardinality(At({"errs"})) = 0
        /\ Cardinality(At({"pooled"})) = 0
    BY <1>2, <1>3
  <2>2. QED
    BY <2>1, NumbersNow DEF InTotal, ReadsInv, ReadInv
<1>7. Reads!Total(count) = Reads!Total(answered) + Reads!Total(failed)
  <2>1. \A m \in Reads!Methods : /\ answered[m] \in Nat /\ failed[m] \in Nat
                                 /\ count[m] = answered[m] + failed[m]
    BY <1>4, NumbersNow
  <2>2. QED
    BY <2>1 DEF Reads!Total, Reads!Methods
<1>8. /\ row.sent = reads /\ row.errs = errs /\ row.count = count /\ row.errors = errors
      /\ row.lat = lat /\ row.pooled = pooled
  BY <1>1 DEF Reads!Metrics
<1>9. QED
  BY <1>4, <1>5, <1>6, <1>7, <1>8

LEMMA ReadsAreInRange ==
  ASSUME ReadsInv PROVE Reads!RangesWithin
BY DEF ReadsInv, Ranged, InRange, Reads!RangesWithin

-----------------------------------------------------------------------------
(* RpcClient.  What an answer, and a result, may say of an item.             *)
Kinds == {"value", "null", "garbled", "badhex", "error"}

Grounded(tx) ==
  /\ call.op \in Client!SendOps \cup {"GetTransactionByHash"} => tx \in Client!Known
  /\ call.op \in {"GetTransactionReceipt", "GetTransactionReceiptsBatch"} => tx \in known

OwnPayload(i, p) ==
  /\ p.item = call.items[i] /\ p.at \in Nat /\ began <= p.at /\ p.kind \in Kinds
  /\ call.op \in Client!SendOps => p.kind \in {"value", "error"}
  /\ p.kind \in {"value", "badhex"} => Grounded(call.items[i])

OwnResult(i, r) ==
  /\ r.kind \in {"value", "failed", "nil", "panic", "zeroed"}
  /\ r.kind \in {"value", "zeroed"} =>
       r.item = call.items[i] /\ r.at \in Nat /\ r.at >= began /\ Grounded(call.items[i])

(* No two answers to an item; every answer is the node's to it.              *)
ReplyOwn ==
  /\ \A k \in DOMAIN reply : /\ reply[k].id \in DOMAIN call.items
                             /\ OwnPayload(reply[k].id, reply[k].payload)
  /\ \A j, k \in DOMAIN reply : reply[j].id = reply[k].id => j = k
  /\ DOMAIN reply \subseteq Nat /\ (reply # <<>> => 1 \in DOMAIN reply)

ResultsOwn ==
  /\ DOMAIN results = DOMAIN call.items /\ Len(results) = Len(call.items)
  /\ \A i \in DOMAIN results : OwnResult(i, results[i])

ProperCall ==
  \/ call \in Calls
  \/ call.op = "none" /\ phase = "idle" /\ results = <<>>

ClientInv ==
  /\ Client!TypeOK
  /\ phase = "backoff" => attempt < MaxRetries
  /\ ProperCall
  /\ began \in Nat /\ began <= head
  /\ phase # "waiting" => reply = Client!NoReply
  /\ phase # "idle" => results = <<>>
  /\ reply # Client!NoReply => ReplyOwn
  /\ results # <<>> => ResultsOwn

LEMMA AnyCall ==
  ASSUME NEW c \in Calls
  PROVE  /\ c.items \in Seq(Txs) /\ c.op \in Client!BatchOps \cup Client!SingleOps
         /\ c.op \in Client!SingleOps => Len(c.items) = 1
BY ServicesAssumption, Zenon

LEMMA ClientNumbers ==
  /\ MaxRetries \in Nat /\ InitialBackoff \in Nat /\ MaxBackoff \in Nat /\ MaxHead \in Nat
  /\ RetryAfters \subseteq Nat
  /\ Oddities \subseteq {"null", "garbled", "badhex", "error"}
<1>1. {MaxRetries, InitialBackoff, MaxBackoff, MaxHead, MaxCalls} \subseteq Nat
  BY ServicesAssumption, Zenon
<1>2. RetryAfters \subseteq Nat
  BY ServicesAssumption, Zenon
<1>3. Oddities \subseteq {"null", "garbled", "badhex", "error"}
  BY ServicesAssumption, Zenon
<1>4. QED
  BY <1>1, <1>2, <1>3

(* What an operation returns is of the payload it was given.                 *)
LEMMA DecodedIsOwn ==
  ASSUME NEW op \in Client!BatchOps \cup Client!SingleOps, NEW p, p.kind \in Kinds,
         op \in Client!SingleOps => p.kind # "error",
         op \in Client!SendOps => p.kind \in {"value", "error"}
  PROVE  LET r == Client!Decoded(op, p) IN
           /\ r.kind \in {"value", "failed", "nil", "panic", "zeroed"}
           /\ r.kind \in {"value", "zeroed"} =>
                r.item = p.item /\ r.at = p.at /\ p.kind \in {"value", "badhex"}
<1> DEFINE Own(r) == /\ r.kind \in {"value", "failed", "nil", "panic", "zeroed"}
                     /\ r.kind \in {"value", "zeroed"} =>
                          r.item = p.item /\ r.at = p.at /\ p.kind \in {"value", "badhex"}
<1> SUFFICES Own(Client!Decoded(op, p))
  OBVIOUS
<1>1. Own(Client!Failed) /\ Own(Client!Nil) /\ Own(Client!Panicked)
  BY DEF Client!Failed, Client!Nil, Client!Panicked
<1>2. p.kind \in {"value", "badhex"} => Own(Client!Value(p)) /\ Own(Client!Zeroed(p))
  BY DEF Client!Value, Client!Zeroed
<1> HIDE DEF Own
<1>3. p.kind # "error" => Own(Client!Quantity(p))
  BY <1>1, <1>2 DEF Client!Quantity, Kinds
<1>4. p.kind # "error" => /\ Own(Client!GetBlockByNumber(p)) /\ Own(Client!GetCode(p))
                          /\ Own(Client!GetTransactionReceipt(p))
  BY <1>1, <1>2 DEF Client!GetBlockByNumber, Client!GetCode, Client!GetTransactionReceipt, Kinds
<1>5. Own(Client!parseBlockFull(p)) /\ Own(Client!parseReceipt(p))
  BY <1>1, <1>2 DEF Client!parseBlockFull, Client!parseReceipt
<1>6. p.kind = "value" => Own(Client!SendRawTransaction(p))
  BY DEF Client!SendRawTransaction, Own
<1>7. CASE op \in Client!BatchOps
  <2>1. CASE op = "SendRawTransactionBatch"
    BY <1>1, <1>6, <2>1 DEF Client!Decoded, Client!SendOps, Client!SendRawTransactionBatch
  <2>2. CASE op # "SendRawTransactionBatch"
    BY <1>5, <1>7, <2>2 DEF Client!Decoded, Client!BatchOps
  <2>3. QED
    BY <2>1, <2>2
<1>8. CASE op \in Client!SingleOps
  <2>1. p.kind # "error"
    BY <1>8
  <2>2. CASE op = "SendRawTransaction"
    <3>1. p.kind = "value"
      BY <2>1, <2>2 DEF Client!SendOps
    <3>2. QED
      BY <1>6, <2>2, <3>1 DEF Client!Decoded
  <2>3. CASE op \in {"GetNonce", "GetConfirmedNonce", "GetBlockNumber", "GetGasPrice", "GetBalance"}
    BY <1>3, <2>1, <2>3 DEF Client!Decoded, Client!GetConfirmedNonce, Client!GetBlockNumber,
      Client!GetGasPrice, Client!GetBalance
  <2>4. CASE op = "GetBaseFee"
    BY <1>1, <1>3, <2>1, <2>4 DEF Client!Decoded, Client!GetBaseFee
  <2>5. CASE op \in {"GetCode", "GetBlockByNumber", "GetBlockByNumberFull",
                     "GetTransactionReceipt", "GetTransactionByHash"}
    BY <1>4, <2>1, <2>5 DEF Client!Decoded, Client!GetBlockByNumberFull,
      Client!GetTransactionByHash
  <2>6. QED
    BY <1>8, <2>2, <2>3, <2>4, <2>5 DEF Client!SingleOps
<1>9. QED
  BY <1>7, <1>8

LEMMA ClientBegins ==
  ASSUME Client!Init PROVE ClientInv
<1>1. Client!TypeOK
  <2>1. /\ head \in 0..MaxHead /\ attempt \in 0..MaxRetries /\ backoff \in Nat
    BY ClientNumbers DEF Client!Init
  <2>2. /\ pool \subseteq Txs /\ known \subseteq Txs /\ stray \subseteq Txs /\ wire \subseteq 0..MaxRetries
    BY DEF Client!Init
  <2>3. phase \in {"idle", "waiting", "backoff"} /\ stage \in {1, 2} /\ call.op = "none"
    BY DEF Client!Init
  <2>4. \A i \in DOMAIN results : results[i].kind \in {"value", "failed", "nil", "panic", "zeroed"}
    BY DEF Client!Init
  <2>5. QED
    BY <2>1, <2>2, <2>3, <2>4 DEF Client!TypeOK
<1>2. /\ phase = "idle" /\ call.op = "none" /\ results = <<>> /\ reply = Client!NoReply
      /\ began = 0 /\ head = 0
  BY DEF Client!Init
<1>3. QED
  BY <1>1, <1>2 DEF ClientInv, ProperCall

LEMMA CallUnderWay ==
  ASSUME ClientInv, phase # "idle"
  PROVE  /\ call \in Calls /\ results = <<>>
         /\ call.items \in Seq(Txs) /\ call.op \in Client!BatchOps \cup Client!SingleOps
         /\ call.op \in Client!SingleOps => Len(call.items) = 1
BY AnyCall DEF ClientInv, ProperCall

(* Whatever reached the node stays there.                                    *)
NodeGrows ==
  /\ pool' \subseteq Txs /\ known' \subseteq Txs /\ head' \in 0..MaxHead /\ head <= head'
  /\ Client!Known \subseteq Client!Known' /\ known \subseteq known'

LEMMA ResultsStand ==
  ASSUME NodeGrows, UNCHANGED <<call, began, results>>, ResultsOwn
  PROVE  ResultsOwn'
<1>1. \A tx : Grounded(tx) => Grounded(tx)'
  BY DEF Grounded, NodeGrows
<1>2. \A i \in DOMAIN results : OwnResult(i, results[i])'
  BY <1>1 DEF ResultsOwn, OwnResult
<1>3. QED
  BY <1>2 DEF ResultsOwn

LEMMA ReplyStands ==
  ASSUME NodeGrows, UNCHANGED <<call, began, reply>>, ReplyOwn
  PROVE  ReplyOwn'
<1>1. \A tx : Grounded(tx) => Grounded(tx)'
  BY DEF Grounded, NodeGrows
<1>2. ASSUME NEW i, NEW p, OwnPayload(i, p) PROVE (call.items[i] = call'.items[i]) /\ OwnPayload(i, p)'
  BY <1>1, <1>2 DEF OwnPayload
<1>3. \A k \in DOMAIN reply : OwnPayload(reply[k].id, reply[k].payload)'
  BY <1>2 DEF ReplyOwn
<1>4. QED
  BY <1>3 DEF ReplyOwn

(* A step of the node that answers nobody.                                   *)
LEMMA NodeKeeps ==
  ASSUME ClientInv, NodeGrows, stray' \subseteq stray, wire' \subseteq wire,
         UNCHANGED <<call, stage, began, phase, attempt, backoff, reply, results>>
  PROVE  ClientInv'
<1>1. Client!TypeOK'
  BY DEF ClientInv, Client!TypeOK, NodeGrows
<1>2. reply' # Client!NoReply => ReplyOwn'
  BY ReplyStands DEF ClientInv
<1>3. results' # <<>> => ResultsOwn'
  BY ResultsStand DEF ClientInv
<1>4. began' <= head'
  BY DEF ClientInv, NodeGrows, Client!TypeOK
<1>5. QED
  BY <1>1, <1>2, <1>3, <1>4 DEF ClientInv, ProperCall

LEMMA MineKeeps ==
  ASSUME ClientInv, NEW block \in SUBSET pool, Client!Mine(block) PROVE ClientInv'
<1>1. NodeGrows
  <2>1. head \in 0..MaxHead /\ pool \subseteq Txs /\ known \subseteq Txs
    BY DEF ClientInv, Client!TypeOK
  <2>2. /\ head' = head + 1 /\ head < MaxHead
        /\ known' = known \cup block /\ pool' = pool \ block
    BY DEF Client!Mine
  <2>3. head' \in 0..MaxHead /\ head <= head'
    BY <2>1, <2>2, ClientNumbers
  <2>4. pool' \subseteq Txs /\ known' \subseteq Txs /\ known \subseteq known'
    BY <2>1, <2>2
  <2>5. Client!Known \subseteq Client!Known'
    BY <2>2 DEF Client!Known
  <2>6. QED
    BY <2>3, <2>4, <2>5 DEF NodeGrows
<1>2. /\ UNCHANGED <<call, stage, began, phase, attempt, backoff, reply, results>>
      /\ stray' = stray /\ wire' = wire
  BY DEF Client!Mine, Client!request
<1>3. QED
  BY <1>1, <1>2, NodeKeeps

LEMMA StrayKeeps ==
  ASSUME ClientInv, NEW t \in stray, Client!StrayArrives(t) PROVE ClientInv'
<1>1. NodeGrows
  BY DEF ClientInv, Client!TypeOK, NodeGrows, Client!StrayArrives, Client!Known
<1>2. /\ UNCHANGED <<call, stage, began, phase, attempt, backoff, reply, results>>
      /\ stray' \subseteq stray /\ wire' = wire
  BY DEF Client!StrayArrives, Client!request
<1>3. QED
  BY <1>1, <1>2, NodeKeeps

LEMMA LostKeeps ==
  ASSUME ClientInv, NEW a \in wire, Client!Lost(a) PROVE ClientInv'
<1>1. NodeGrows
  BY DEF ClientInv, Client!TypeOK, NodeGrows, Client!Lost, Client!node, Client!Known
<1>2. /\ UNCHANGED <<call, stage, began, phase, attempt, backoff, reply, results>>
      /\ stray' = stray /\ wire' \subseteq wire
  BY DEF Client!Lost, Client!request
<1>3. QED
  BY <1>1, <1>2, NodeKeeps

LEMMA BeginKeeps ==
  ASSUME ClientInv, NEW c \in Calls, Client!Begin(c) PROVE ClientInv'
<1>1. /\ call' = c /\ stage' = 1 /\ attempt' = 0 /\ backoff' = InitialBackoff /\ wire' = {0}
      /\ reply' = Client!NoReply /\ results' = <<>> /\ began' = head /\ phase' = "waiting"
      /\ UNCHANGED <<head, pool, known>>
  BY DEF Client!Begin, Client!node
<1>2. stray' \subseteq Txs
  <2>1. stray \subseteq Txs
    BY DEF ClientInv, Client!TypeOK
  <2>2. CASE stray' = stray
    BY <2>1, <2>2
  <2>3. CASE wire # {} /\ call.op \in Client!SendOps /\ stray' = stray \cup Client!ToSet(call.items)
    <3>1. call \in Calls
      BY <2>3 DEF ClientInv, ProperCall, Client!SendOps
    <3>2. call.items \in Seq(Txs)
      BY <3>1, AnyCall
    <3>3. QED
      BY <2>1, <2>3, <3>2 DEF Client!ToSet
  <2>4. QED
    BY <2>2, <2>3 DEF Client!Begin
<1>3. Client!TypeOK'
  <2>1. 0 \in 0..MaxRetries /\ InitialBackoff \in Nat
    BY ClientNumbers
  <2>2. QED
    BY <1>1, <1>2, <2>1 DEF ClientInv, Client!TypeOK
<1>4. head \in Nat
  BY DEF ClientInv, Client!TypeOK
<1>5. QED
  BY <1>1, <1>3, <1>4 DEF ClientInv, ProperCall

(* The end of a call, and another attempt.                                   *)
LEMMA ReturnKeeps ==
  ASSUME ClientInv, phase # "idle", NEW r, Client!Return(r),
         DOMAIN r = DOMAIN call.items, Len(r) = Len(call.items),
         \A i \in DOMAIN r : OwnResult(i, r[i])
  PROVE  ClientInv'
<1>1. /\ results' = r /\ phase' = "idle" /\ reply' = Client!NoReply
      /\ UNCHANGED <<head, pool, known, call, stage, began, attempt, backoff, wire, stray>>
  BY DEF Client!Return, Client!node, Client!request
<1>2. NodeGrows
  BY <1>1 DEF ClientInv, Client!TypeOK, NodeGrows, Client!Known
<1>3. \A i \in DOMAIN r : OwnResult(i, r[i])'
  BY <1>1 DEF OwnResult, Grounded, Client!Known
<1>4. ResultsOwn'
  BY <1>1, <1>3 DEF ResultsOwn
<1>5. \A i \in DOMAIN r : r[i].kind \in {"value", "failed", "nil", "panic", "zeroed"}
  BY DEF OwnResult
<1>6. Client!TypeOK'
  BY <1>1, <1>5 DEF ClientInv, Client!TypeOK
<1>7. call \in Calls
  BY CallUnderWay
<1>8. QED
  BY <1>1, <1>4, <1>6, <1>7 DEF ClientInv, ProperCall

LEMMA TryNextKeeps ==
  ASSUME ClientInv, phase # "idle", Client!TryNext PROVE ClientInv'
<1>1. /\ stage' = 2 /\ attempt' = 0 /\ backoff' = InitialBackoff /\ wire' = {0}
      /\ reply' = Client!NoReply /\ phase' = "waiting"
      /\ UNCHANGED <<head, pool, known, call, began, stray, results>>
  BY DEF Client!TryNext, Client!node
<1>2. call \in Calls /\ results = <<>>
  BY CallUnderWay
<1>3. Client!TypeOK'
  <2>1. 0 \in 0..MaxRetries /\ InitialBackoff \in Nat
    BY ClientNumbers
  <2>2. QED
    BY <1>1, <2>1 DEF ClientInv, Client!TypeOK
<1>4. QED
  BY <1>1, <1>2, <1>3 DEF ClientInv, ProperCall

LEMMA AllFailedKeeps ==
  ASSUME ClientInv, phase # "idle", Client!Return(Client!AllFailed(call)) PROVE ClientInv'
<1> DEFINE r == Client!AllFailed(call)
<1>1. call.items \in Seq(Txs)
  BY CallUnderWay
<1>2. DOMAIN r = DOMAIN call.items /\ \A i \in DOMAIN r : r[i] = Client!Failed
  BY DEF Client!AllFailed
<1>3. Len(r) = Len(call.items)
  BY <1>1 DEF Client!AllFailed
<1>4. \A i \in DOMAIN r : OwnResult(i, r[i])
  BY <1>2 DEF OwnResult, Client!Failed
<1> HIDE DEF r
<1>5. QED
  BY <1>2, <1>3, <1>4, ReturnKeeps DEF r

LEMMA FailKeeps ==
  ASSUME ClientInv, NEW retryable \in BOOLEAN, NEW after \in RetryAfters,
         Client!AttemptFails(retryable, after)
  PROVE  ClientInv'
<1>1. phase = "waiting"
  BY DEF Client!AttemptFails
<1>2. CASE attempt < MaxRetries
  <2>1. /\ phase' = "backoff" /\ reply' = Client!NoReply /\ backoff' \in {after, backoff}
        /\ UNCHANGED <<head, pool, known, call, stage, began, attempt, wire, stray, results>>
    BY <1>2 DEF Client!AttemptFails, Client!Delay, Client!node, Client!request
  <2>2. after \in Nat
    BY ClientNumbers
  <2>3. Client!TypeOK'
    BY <2>1, <2>2 DEF ClientInv, Client!TypeOK
  <2>4. call \in Calls /\ results = <<>>
    BY <1>1, CallUnderWay
  <2>5. QED
    BY <1>2, <2>1, <2>3, <2>4 DEF ClientInv, ProperCall
<1>3. CASE ~(attempt < MaxRetries)
  <2>1. Client!TryNext \/ Client!Return(Client!AllFailed(call))
    BY <1>3 DEF Client!AttemptFails
  <2>2. QED
    BY <1>1, <2>1, TryNextKeeps, AllFailedKeeps
<1>4. QED
  BY <1>2, <1>3

LEMMA RetryKeeps ==
  ASSUME ClientInv, Client!Retry PROVE ClientInv'
<1>1. /\ phase = "backoff" /\ attempt' = attempt + 1 /\ backoff' \in {backoff * 2, MaxBackoff}
      /\ wire' = wire \cup {attempt + 1} /\ phase' = "waiting"
      /\ UNCHANGED <<head, pool, known, call, stage, began, stray, reply, results>>
  BY DEF Client!Retry, Client!node, Client!request
<1>2. /\ attempt < MaxRetries /\ attempt \in 0..MaxRetries /\ backoff \in Nat
      /\ reply = Client!NoReply
  BY <1>1 DEF ClientInv, Client!TypeOK
<1>3. attempt + 1 \in 0..MaxRetries /\ backoff' \in Nat
  BY <1>1, <1>2, ClientNumbers
<1>4. Client!TypeOK'
  BY <1>1, <1>3 DEF ClientInv, Client!TypeOK
<1>5. call \in Calls /\ results = <<>>
  BY <1>1, CallUnderWay
<1>6. QED
  BY <1>1, <1>2, <1>4, <1>5 DEF ClientInv, ProperCall

(* What the node may answer is the truth about its transactions.             *)
LEMMA PayloadsAreOwn ==
  ASSUME ClientInv, call \in Calls, NEW i \in DOMAIN call.items,
         NEW p \in Client!Payloads(call.op, call.items[i])
  PROVE  /\ p.item = call.items[i] /\ p.at = head /\ p.kind \in Kinds
         /\ call.op \in Client!SendOps => p.kind \in {"value", "error"}
         /\ (p.kind \in {"value", "badhex"} /\ call.op \notin Client!SendOps) => Grounded(call.items[i])
<1>1. PICK said \in {Client!Right(call.op, call.items[i])} \cup Client!MayBe(call.op, call.items[i]) :
        p = [kind |-> said, item |-> call.items[i], at |-> head]
  BY DEF Client!Payloads, Client!Payload
<1> DEFINE tx == call.items[i]
<1>2. p.item = tx /\ p.at = head /\ p.kind = said
  BY <1>1
<1>3. Oddities \subseteq {"null", "garbled", "badhex", "error"}
  BY ClientNumbers
<1>4. Client!Right(call.op, tx) \in {"value", "error", "null"}
  BY DEF Client!Right
<1>5. Client!MayBe(call.op, tx) \subseteq {"null", "garbled", "badhex", "error"}
  BY <1>3 DEF Client!MayBe
<1>6. said \in Kinds
  BY <1>4, <1>5 DEF Kinds
<1>7. ASSUME call.op \in Client!SendOps PROVE said \in {"value", "error"}
  <2>1. Client!Right(call.op, tx) \in {"value", "error"}
    BY <1>7 DEF Client!Right, Client!SendOps
  <2>2. Client!MayBe(call.op, tx) = {"error"}
    BY <1>7 DEF Client!MayBe
  <2>3. QED
    BY <2>1, <2>2
<1>8. ASSUME said \in {"value", "badhex"}, call.op \notin Client!SendOps
      PROVE  Grounded(tx)
  <2>1. Client!Right(call.op, tx) # "null"
    BY <1>3, <1>4, <1>8 DEF Client!MayBe
  <2>2. call.op \in {"GetTransactionReceipt", "GetTransactionReceiptsBatch"} => tx \in known
    BY <1>8, <2>1 DEF Client!Right
  <2>3. call.op = "GetTransactionByHash" => tx \in Client!Known
    BY <1>8, <2>1 DEF Client!Right
  <2>4. QED
    BY <1>8, <2>2, <2>3 DEF Grounded
<1>9. QED
  BY <1>2, <1>6, <1>7, <1>8

LEMMA HandlesKeeps ==
  ASSUME ClientInv, NEW a \in wire, NEW answers \in Client!AnswersTo(call),
         Client!NodeHandles(a, answers)
  PROVE  ClientInv'
<1> DEFINE sent1 == {answers[i].item : i \in {j \in DOMAIN answers : answers[j].kind = "value"}}
<1>1. /\ UNCHANGED <<head, known, call, stage, began, calls, phase, attempt, backoff, stray, results>>
      /\ wire' = wire \ {a}
      /\ pool' = IF call.op \in Client!SendOps THEN pool \cup sent1 ELSE pool
  BY DEF Client!NodeHandles, Client!request
<1>2. DOMAIN answers = DOMAIN call.items
  BY DEF Client!AnswersTo
<1>3. ASSUME NEW i \in DOMAIN call.items PROVE answers[i] \in Client!Payloads(call.op, call.items[i])
  BY DEF Client!NodeHandles
<1>4. CASE call \notin Calls
  <2>1. call.op = "none" /\ phase = "idle" /\ results = <<>>
    BY <1>4 DEF ClientInv, ProperCall
  <2>2. pool' = pool /\ reply' = reply
    BY <1>1, <2>1 DEF Client!SendOps, Client!NodeHandles
  <2>3. NodeGrows
    BY <1>1, <2>2 DEF ClientInv, Client!TypeOK, NodeGrows, Client!Known
  <2>4. QED
    BY <1>1, <2>2, <2>3, NodeKeeps
<1>5. CASE call \in Calls
  <2>1. call.items \in Seq(Txs)
    BY <1>5, AnyCall
  <2>2. ASSUME NEW i \in DOMAIN call.items
        PROVE  /\ answers[i].item = call.items[i] /\ answers[i].at = head /\ answers[i].kind \in Kinds
               /\ call.op \in Client!SendOps => answers[i].kind \in {"value", "error"}
               /\ (answers[i].kind \in {"value", "badhex"} /\ call.op \notin Client!SendOps)
                    => Grounded(call.items[i])
    BY <1>3, <1>5, PayloadsAreOwn
  <2>3. sent1 \subseteq Txs
    BY <1>2, <2>1, <2>2
  <2>4. NodeGrows
    <3>1. pool \subseteq pool' /\ pool' \subseteq Txs
      BY <1>1, <2>3 DEF ClientInv, Client!TypeOK
    <3>2. QED
      BY <1>1, <3>1 DEF ClientInv, Client!TypeOK, NodeGrows, Client!Known
  <2>5. CASE UNCHANGED reply
    BY <1>1, <2>4, <2>5, NodeKeeps
  <2>6. CASE /\ phase = "waiting"
             /\ \E ids \in {s \in UNION {[1..n -> DOMAIN answers] : n \in 0..Len(answers)} : Client!IsInjective(s)} :
                  reply' = [k \in DOMAIN ids |-> [id |-> ids[k], payload |-> answers[ids[k]]]]
    <3>0. PICK n \in 0..Len(answers) : \E ids \in [1..n -> DOMAIN answers] :
            /\ Client!IsInjective(ids)
            /\ reply' = [k \in DOMAIN ids |-> [id |-> ids[k], payload |-> answers[ids[k]]]]
      BY <2>6
    <3>1. PICK ids \in [1..n -> DOMAIN answers] :
            /\ Client!IsInjective(ids)
            /\ reply' = [k \in DOMAIN ids |-> [id |-> ids[k], payload |-> answers[ids[k]]]]
      BY <3>0
    <3>2. \A j, k \in DOMAIN ids : ids[j] = ids[k] => j = k
      BY <3>1 DEF Client!IsInjective
    <3>3. \A i \in DOMAIN call.items : OwnPayload(i, answers[i])'
      <4>1. SUFFICES ASSUME NEW i \in DOMAIN call.items PROVE OwnPayload(i, answers[i])'
        OBVIOUS
      <4>2. head \in Nat /\ began <= head
        BY DEF ClientInv, Client!TypeOK
      <4>3. answers[i].kind \in {"value", "badhex"} => Grounded(call.items[i])'
        <5>1. CASE call.op \in Client!SendOps
          <6>1. answers[i].kind = "value" => call.items[i] \in sent1
            BY <1>2, <2>2
          <6>2. answers[i].kind = "value" => call.items[i] \in pool'
            BY <1>1, <5>1, <6>1
          <6>3. QED
            BY <1>1, <2>2, <5>1, <6>2 DEF Grounded, Client!Known, Client!SendOps
        <5>2. CASE call.op \notin Client!SendOps
          BY <1>1, <2>2, <2>4, <5>2 DEF Grounded, NodeGrows
        <5>3. QED
          BY <5>1, <5>2
      <4>4. QED
        BY <1>1, <2>2, <4>2, <4>3 DEF OwnPayload
    <3>4. DOMAIN reply' = DOMAIN ids /\ DOMAIN ids = 1..n /\ n \in Nat
      BY <3>1
    <3>9. reply' # <<>> => 1 \in DOMAIN reply'
      <4>1. CASE n = 0
        BY <3>1, <3>4, <4>1
      <4>2. CASE n > 0
        BY <3>4, <4>2
      <4>3. QED
        BY <3>4, <4>1, <4>2
    <3>5. \A k \in DOMAIN reply' : /\ reply'[k].id = ids[k] /\ ids[k] \in DOMAIN call.items
                                   /\ reply'[k].payload = answers[ids[k]]
      BY <1>2, <3>1
    <3>6. ReplyOwn'
      BY <1>1, <3>2, <3>3, <3>4, <3>5, <3>9 DEF ReplyOwn
    <3>7. Client!TypeOK'
      BY <1>1, <2>4 DEF ClientInv, Client!TypeOK, NodeGrows
    <3>8. QED
      BY <1>1, <1>5, <2>6, <3>6, <3>7 DEF ClientInv, ProperCall
  <2>7. QED
    BY <2>5, <2>6 DEF Client!NodeHandles
<1>6. QED
  BY <1>4, <1>5

LEMMA BatchKeeps ==
  ASSUME ClientInv, Client!BatchReturns PROVE ClientInv'
<1> DEFINE r == Client!doBatchRequest(call, reply)
<1>1. phase = "waiting" /\ reply # Client!NoReply /\ call.op \in Client!BatchOps /\ Client!Return(r)
  BY DEF Client!BatchReturns, Client!Answered
<1>2. call \in Calls /\ call.items \in Seq(Txs)
  BY <1>1, CallUnderWay
<1>3. ReplyOwn
  BY <1>1 DEF ClientInv
<1>4. DOMAIN r = DOMAIN call.items /\ Len(r) = Len(call.items)
  BY <1>2 DEF Client!doBatchRequest
<1>5. ASSUME NEW i \in DOMAIN r PROVE OwnResult(i, r[i])
  <2> DEFINE mine == {j \in DOMAIN reply : reply[j].id = i}
             last == CHOOSE j \in mine : \A k \in mine : k <= j
  <2>1. r[i] = Client!ByID(call.op, reply, i)
    BY <1>4, <1>5 DEF Client!doBatchRequest
  <2>2. CASE mine = {}
    <3>1. r[i] = Client!MissingAnswer(call.op)
      BY <2>1, <2>2 DEF Client!ByID
    <3>2. QED
      BY <3>1 DEF Client!MissingAnswer, Client!Failed, Client!Nil, OwnResult
  <2>3. CASE mine # {}
    <3>1. PICK j \in mine : TRUE
      BY <2>3
    <3>2. mine = {j} /\ \A k \in mine : k <= j
      <4>1. mine = {j}
        BY <1>3, <3>1 DEF ReplyOwn
      <4>2. j \in Nat
        BY <1>3, <3>1 DEF ReplyOwn
      <4>3. QED
        BY <4>1, <4>2
    <3>3. last = j
      BY <3>2
    <3>4. r[i] = Client!Decoded(call.op, reply[j].payload)
      BY <2>1, <2>3, <3>3 DEF Client!ByID
    <3> DEFINE p == reply[j].payload
    <3>5. reply[j].id = i /\ OwnPayload(i, p)
      BY <1>3, <3>1 DEF ReplyOwn
    <3>6. /\ r[i].kind \in {"value", "failed", "nil", "panic", "zeroed"}
          /\ r[i].kind \in {"value", "zeroed"} =>
               r[i].item = p.item /\ r[i].at = p.at /\ p.kind \in {"value", "badhex"}
      <4>1. call.op \in Client!BatchOps \cup Client!SingleOps /\ call.op \notin Client!SingleOps
        BY <1>1 DEF Client!BatchOps, Client!SingleOps
      <4>2. p.kind \in Kinds /\ (call.op \in Client!SendOps => p.kind \in {"value", "error"})
        BY <3>5 DEF OwnPayload
      <4> HIDE DEF p, r
      <4>3. QED
        BY <3>4, <4>1, <4>2, DecodedIsOwn DEF p
    <3>7. began \in Nat
      BY DEF ClientInv
    <3>8. QED
      BY <3>5, <3>6, <3>7 DEF OwnResult, OwnPayload
  <2>4. QED
    BY <2>2, <2>3
<1> HIDE DEF r
<1>6. QED
  BY <1>1, <1>4, <1>5, ReturnKeeps

LEMMA SingleKeeps ==
  ASSUME ClientInv, Client!SingleReturns PROVE ClientInv'
<1> DEFINE p == reply[1].payload
           v == IF p.kind = "error" THEN Client!Failed ELSE Client!Decoded(call.op, p)
<1>1. /\ phase = "waiting" /\ reply # Client!NoReply /\ reply # <<>>
      /\ call.op \notin Client!BatchOps
      /\ Client!TryNext \/ Client!Return(<<v>>)
  BY DEF Client!SingleReturns, Client!Answered
<1>2. /\ call \in Calls /\ call.items \in Seq(Txs) /\ Len(call.items) = 1
      /\ call.op \in Client!SingleOps
  BY <1>1, CallUnderWay
<1>3. CASE Client!TryNext
  BY <1>1, <1>3, TryNextKeeps
<1>4. CASE Client!Return(<<v>>)
  <2>1. ReplyOwn
    BY <1>1 DEF ClientInv
  <2>2. DOMAIN call.items = {1}
    BY <1>2
  <2>3. 1 \in DOMAIN reply
    BY <1>1, <2>1 DEF ReplyOwn
  <2>4. reply[1].id = 1 /\ OwnPayload(1, p)
    BY <2>1, <2>2, <2>3 DEF ReplyOwn
  <2>5. OwnResult(1, v)
    <3>1. CASE p.kind = "error"
      BY <3>1 DEF OwnResult, Client!Failed
    <3>2. CASE p.kind # "error"
      <4>1. /\ p.kind \in Kinds /\ (call.op \in Client!SendOps => p.kind \in {"value", "error"})
        BY <2>4 DEF OwnPayload
      <4>2. v = Client!Decoded(call.op, p)
        BY <3>2
      <4> HIDE DEF p, v
      <4>3. /\ v.kind \in {"value", "failed", "nil", "panic", "zeroed"}
            /\ v.kind \in {"value", "zeroed"} =>
                 v.item = p.item /\ v.at = p.at /\ p.kind \in {"value", "badhex"}
        BY <1>2, <3>2, <4>1, <4>2, DecodedIsOwn
      <4>4. QED
        BY <2>4, <4>3 DEF OwnResult, OwnPayload, ClientInv
    <3>3. QED
      BY <3>1, <3>2
  <2> HIDE DEF v
  <2>6. DOMAIN <<v>> = DOMAIN call.items /\ Len(<<v>>) = Len(call.items) /\ <<v>>[1] = v
    BY <1>2, <2>2
  <2>7. \A i \in DOMAIN <<v>> : OwnResult(i, <<v>>[i])
    BY <2>2, <2>5, <2>6
  <2>8. QED
    BY <1>1, <1>4, <2>6, <2>7, ReturnKeeps
<1>5. QED
  BY <1>1, <1>3, <1>4

LEMMA ClientStep ==
  ASSUME ClientInv, Client!Next PROVE ClientInv'
<1>1. CASE \E block \in SUBSET pool : Client!Mine(block)
  BY <1>1, MineKeeps
<1>2. CASE \E c \in Calls : Client!Begin(c)
  BY <1>2, BeginKeeps
<1>3. CASE \E a \in wire : \E answers \in Client!AnswersTo(call) : Client!NodeHandles(a, answers)
  BY <1>3, HandlesKeeps
<1>4. CASE \E t \in stray : Client!StrayArrives(t)
  BY <1>4, StrayKeeps
<1>5. CASE Client!BatchReturns \/ Client!SingleReturns
  BY <1>5, BatchKeeps, SingleKeeps
<1>6. CASE \E retryable \in BOOLEAN, after \in RetryAfters : Client!AttemptFails(retryable, after)
  BY <1>6, FailKeeps
<1>7. CASE Client!Retry
  BY <1>7, RetryKeeps
<1>8. CASE Client!ContextEnds
  BY <1>8, AllFailedKeeps DEF Client!ContextEnds
<1>9. CASE \E a \in wire : Client!Lost(a)
  BY <1>9, LostKeeps
<1>10. QED
  BY <1>1, <1>2, <1>3, <1>4, <1>5, <1>6, <1>7, <1>8, <1>9, Zenon DEF Client!Next

LEMMA ClientStutter ==
  ASSUME ClientInv, UNCHANGED rpcVars PROVE ClientInv'
<1>1. /\ UNCHANGED <<call, stage, began, phase, attempt, backoff, reply, results>>
      /\ UNCHANGED <<head, pool, known, stray, wire>>
  BY DEF rpcVars
<1>2. NodeGrows
  BY <1>1 DEF ClientInv, Client!TypeOK, NodeGrows, Client!Known
<1>3. QED
  BY <1>1, <1>2, NodeKeeps

LEMMA ResultsAreTheirOwn ==
  ASSUME ClientInv PROVE Client!ResultsAreOwn
BY DEF ClientInv, ResultsOwn, OwnResult, Grounded, Client!ResultsAreOwn

-----------------------------------------------------------------------------
(* SetupFunds.  Its counting is that of FiniteSets.                          *)
LEMMA FundsCount == \A S : Funds!Cardinality(S) = Cardinality(S)
BY DEF Funds!Cardinality, Cardinality

LEMMA FundsMin ==
  ASSUME NEW a \in Int, NEW b \in Int
  PROVE  /\ Funds!Min({a, b}) \in {a, b}
         /\ Funds!Min({a, b}) <= a /\ Funds!Min({a, b}) <= b
<1>1. \E m \in {a, b} : \A n \in {a, b} : m <= n
  OBVIOUS
<1>2. QED
  BY <1>1 DEF Funds!Min

LEMMA FundsMax ==
  ASSUME NEW a \in Int, NEW b \in Int
  PROVE  /\ Funds!Max({a, b}) \in {a, b}
         /\ Funds!Max({a, b}) >= a /\ Funds!Max({a, b}) >= b
<1>1. \E m \in {a, b} : \A n \in {a, b} : m >= n
  OBVIOUS
<1>2. QED
  BY <1>1 DEF Funds!Max

LEMMA Least ==
  ASSUME NEW T \in SUBSET Nat, T # {}
  PROVE  \E x \in T : \A y \in T : x <= y
<1>1. \E x \in T : \A y \in T : ~(<<y, x>> \in OpToRel(<, Nat))
  BY NatLessThanWellFounded, WFMin
<1>2. PICK x \in T : \A y \in T : ~(<<y, x>> \in OpToRel(<, Nat))
  BY <1>1
<1>3. \A y \in T : ~(y < x)
  BY <1>2 DEF OpToRel
<1>4. QED
  BY <1>3

(* The positions P up to each of them are numbered 1, 2, ...                 *)
LEMMA Ranks ==
  ASSUME NEW m \in Nat, NEW P, P \subseteq 1..m, NEW k \in 1..Cardinality(P)
  PROVE  \E i \in P : Cardinality({j \in P : j <= i}) = k
<1>1. IsFiniteSet(1..m)
  BY FS_Interval
<1>2. IsFiniteSet(P)
  BY <1>1, FS_Subset
<1>3. \A j \in P : j \in Nat /\ 1 <= j /\ j <= m
  OBVIOUS
<1> DEFINE U(n) == {j \in P : j <= n}
<1>4. ASSUME NEW n \in Nat PROVE IsFiniteSet(U(n)) /\ Cardinality(U(n)) \in Nat
  <2>1. U(n) \subseteq P
    OBVIOUS
  <2>2. QED
    BY <1>2, <2>1, FS_Subset, FS_CardinalityType
<1> DEFINE B == {n \in Nat : Cardinality(U(n)) >= k}
<1>5. m \in B
  <2>1. U(m) = P
    BY <1>3
  <2>2. Cardinality(U(m)) >= k
    BY <1>4, <2>1
  <2>3. QED
    BY <2>2
<1>6. PICK x \in B : \A y \in B : x <= y
  <2>1. B \in SUBSET Nat /\ B # {}
    BY <1>5
  <2> HIDE DEF B
  <2>2. QED
    BY <2>1, Least
<1>7. x \in Nat /\ Cardinality(U(x)) >= k
  BY <1>6
<1> HIDE DEF B
<1>8. x # 0
  <2>1. \A j \in P : ~(j <= 0)
    BY <1>3
  <2>2. U(0) = {}
    BY <2>1, Zenon
  <2> HIDE DEF U
  <2>3. Cardinality(U(0)) = 0
    BY <2>2, FS_EmptySet
  <2>4. k >= 1
    OBVIOUS
  <2>5. QED
    BY <1>7, <2>3, <2>4
<1>9. x - 1 \in Nat /\ Cardinality(U(x - 1)) \in Nat /\ Cardinality(U(x)) \in Nat
  <2>1. x - 1 \in Nat /\ x \in Nat
    BY <1>7, <1>8
  <2> HIDE DEF U
  <2>2. QED
    BY <1>4, <2>1
<1>10. Cardinality(U(x - 1)) < k
  <2>1. x - 1 \notin B
    <3>1. ~(x <= x - 1)
      BY <1>7
    <3>2. QED
      BY <1>6, <3>1
  <2>2. ~(Cardinality(U(x - 1)) >= k)
    BY <1>9, <2>1, Zenon DEF B
  <2> HIDE DEF U
  <2>3. QED
    BY <1>9, <2>2
<1>11. CASE x \in P
  <2>1. \A j \in P : j <= x <=> j <= x - 1 \/ j = x
    BY <1>3, <1>7
  <2>2. U(x) = U(x - 1) \cup {x}
    BY <1>11, <2>1, Zenon
  <2>3. ~(x <= x - 1)
    BY <1>7
  <2>4. x \notin U(x - 1)
    BY <2>3, Zenon
  <2>5. IsFiniteSet(U(x - 1))
    BY <1>4, <1>9
  <2> HIDE DEF U
  <2>6. Cardinality(U(x)) = Cardinality(U(x - 1)) + 1
    BY <2>2, <2>4, <2>5, FS_AddElement
  <2>7. Cardinality(U(x)) = k
    BY <1>7, <1>9, <1>10, <2>6
  <2>8. QED
    BY <1>11, <2>7 DEF U
<1>12. CASE x \notin P
  <2>1. \A j \in P : j <= x <=> j <= x - 1
    BY <1>3, <1>7, <1>12
  <2>2. U(x) = U(x - 1)
    BY <2>1, Zenon
  <2> HIDE DEF U
  <2>3. Cardinality(U(x)) = Cardinality(U(x - 1))
    BY <2>2
  <2>4. FALSE
    BY <1>7, <1>9, <1>10, <2>3
  <2>5. QED
    BY <2>4
<1>13. QED
  BY <1>11, <1>12

(* A list without repetitions, and those of it that are in S.                *)
Distinct(s) == \A i, j \in DOMAIN s : s[i] = s[j] => i = j

LEMMA AmongIsPart ==
  ASSUME NEW A, NEW s \in Seq(A), NEW S
  PROVE  /\ Funds!Among(s, S) \in Seq(A)
         /\ \A k \in DOMAIN Funds!Among(s, S) :
              Funds!Among(s, S)[k] \in S /\ \E i \in DOMAIN s : Funds!Among(s, S)[k] = s[i]
         /\ Distinct(s) => Distinct(Funds!Among(s, S))
<1> DEFINE P == {i \in DOMAIN s : s[i] \in S}
           N == Cardinality(P)
           rank(i) == Cardinality({j \in P : j <= i})
           pos(k) == CHOOSE i \in P : rank(i) = k
           t == Funds!Among(s, S)
<1>1. t = [k \in 1..N |-> s[pos(k)]]
  <2>1. Funds!Cardinality(P) = N
    BY FundsCount
  <2>2. \A i : Funds!Cardinality({j \in P : j <= i}) = rank(i)
    BY FundsCount
  <2> DEFINE other(k) == CHOOSE i \in P : Funds!Cardinality({j \in P : j <= i}) = k
  <2>3. t = [k \in 1..Funds!Cardinality(P) |-> s[other(k)]]
    BY Zenon DEF Funds!Among
  <2>4. \A k : other(k) = pos(k)
    <3> TAKE k
    <3>1. \A i : (i \in P /\ Funds!Cardinality({j \in P : j <= i}) = k) <=> (i \in P /\ rank(i) = k)
      BY <2>2
    <3>2. QED
      BY <3>1, Zenon
  <2> HIDE DEF P, N, rank, pos, t, other
  <2>5. [k \in 1..N |-> s[other(k)]] = [k \in 1..N |-> s[pos(k)]]
    BY <2>4
  <2>6. QED
    BY <2>1, <2>3, <2>5
<1>2. Len(s) \in Nat /\ P \subseteq 1..Len(s) /\ DOMAIN s = 1..Len(s)
  OBVIOUS
<1>3. N \in Nat
  <2>1. IsFiniteSet(1..Len(s))
    BY <1>2, FS_Interval
  <2>2. QED
    BY <1>2, <2>1, FS_Subset, FS_CardinalityType
<1>4. ASSUME NEW k \in 1..N PROVE pos(k) \in P /\ rank(pos(k)) = k
  <2>1. \E i \in P : rank(i) = k
    BY <1>2, Ranks
  <2>2. QED
    BY <2>1
<1> HIDE DEF rank, pos, t, N
<1>5. DOMAIN t = 1..N /\ \A k \in 1..N : t[k] = s[pos(k)] /\ pos(k) \in P
  BY <1>1, <1>4
<1>6. \A k \in 1..N : t[k] \in A /\ t[k] \in S /\ \E i \in DOMAIN s : t[k] = s[i]
  BY <1>2, <1>5
<1>7. t \in Seq(A)
  <2>1. t = [k \in 1..N |-> t[k]]
    BY <1>1, <1>5
  <2>2. QED
    BY <1>3, <1>6, <2>1
<1>8. Distinct(s) => Distinct(t)
  BY <1>2, <1>4, <1>5 DEF Distinct
<1>9. QED
  BY <1>5, <1>6, <1>7, <1>8 DEF t

LEMMA FundsConstants ==
  /\ NumFaucets \in Nat \ {0} /\ Needs \subseteq Nat
  /\ {MaxAccounts, FaucetNonces} \subseteq Nat
<1>1. /\ NumFaucets \in Nat \ {0} /\ Needs \subseteq Nat
      /\ {MaxAccounts, FaucetNonces, MaxStrays, FundedRuns} \subseteq Nat
  BY ServicesAssumption, Zenon
<1>2. QED
  BY <1>1

LEMMA OneRemainder ==
  ASSUME NEW n \in Nat \ {0}, NEW d \in Int, NEW r \in 0..n-1, NEW s \in 0..n-1, n * d = r - s
  PROVE  r = s
<1>1. CASE d >= 1
  <2>1. n * d >= n
    BY <1>1
  <2>2. QED
    BY <2>1
<1>2. CASE d <= -1
  <2>1. n * d <= -n
    BY <1>2
  <2>2. QED
    BY <2>1
<1>3. CASE d = 0
  BY <1>3
<1>4. QED
  BY <1>1, <1>2, <1>3

LEMMA ModShift ==
  ASSUME NEW a \in Nat, NEW n \in Nat \ {0}
  PROVE  (a + n) % n = a % n
<1> DEFINE b == a + n
           p == b \div n
           q == a \div n
           r == b % n
           s == a % n
<1>1. /\ r \in 0..n-1 /\ p \in Int /\ b = n * p + r
      /\ s \in 0..n-1 /\ q \in Int /\ a = n * q + s
  <2>1. b \in Nat
    OBVIOUS
  <2> HIDE DEF b
  <2>2. QED
    BY <2>1
<1>2. b = a + n
  OBVIOUS
<1> HIDE DEF b, p, q, r, s
<1>3. n * (q + 1 - p) = r - s /\ q + 1 - p \in Int
  <2>1. n * (q + 1 - p) = n * q + n - n * p
    BY <1>1
  <2>2. QED
    BY <1>1, <1>2, <2>1
<1>4. r = s
  BY <1>1, <1>3, OneRemainder
<1>5. QED
  BY <1>4 DEF r, s, b

(* Lists of accounts: their first ones, new ones, one after the other.       *)
Apart(s, t) == \A i \in DOMAIN s, j \in DOMAIN t : s[i] # t[j]

Named(s, m) == s \in Seq(1..m) /\ Distinct(s)

LEMMA NamedGrows ==
  ASSUME NEW m \in Nat, NEW n \in Nat, m <= n, NEW s, Named(s, m)
  PROVE  Named(s, n)
<1>1. s \in Seq(1..m) /\ 1..m \subseteq 1..n
  BY DEF Named
<1>2. QED
  BY <1>1 DEF Named

LEMMA NoneNamed == \A m \in Nat : Named(<<>>, m) /\ Len(<<>>) = 0
BY DEF Named, Distinct

LEMMA AmongNamed ==
  ASSUME NEW m \in Nat, NEW s, Named(s, m), NEW S
  PROVE  Named(Funds!Among(s, S), m)
BY AmongIsPart DEF Named

LEMMA AmongApart ==
  ASSUME NEW m \in Nat, NEW s, Named(s, m), NEW S, NEW T, S \cap T = {}
  PROVE  Apart(Funds!Among(s, S), Funds!Among(s, T))
<1>1. \A k \in DOMAIN Funds!Among(s, S) : Funds!Among(s, S)[k] \in S
  BY AmongIsPart DEF Named
<1>2. \A k \in DOMAIN Funds!Among(s, T) : Funds!Among(s, T)[k] \in T
  BY AmongIsPart DEF Named
<1>3. QED
  BY <1>1, <1>2 DEF Apart

LEMMA FirstNamed ==
  ASSUME NEW m \in Nat, NEW s, Named(s, m), NEW n \in Nat
  PROVE  /\ Named(Funds!First(n, s), m)
         /\ Len(Funds!First(n, s)) <= n
         /\ Len(s) >= n => Len(Funds!First(n, s)) = n
         /\ \A t : Apart(t, s) => Apart(t, Funds!First(n, s))
<1> DEFINE k == Funds!Min({n, Len(s)})
           u == Funds!First(n, s)
<1>1. s \in Seq(1..m) /\ Distinct(s) /\ Len(s) \in Nat /\ DOMAIN s = 1..Len(s)
  BY DEF Named
<1>2. k \in Nat /\ k <= n /\ k <= Len(s) /\ k \in {n, Len(s)}
  <2> DEFINE l == Len(s)
  <2>1. l \in Int /\ n \in Int /\ l \in Nat
    BY <1>1
  <2> HIDE DEF l
  <2>2. Funds!Min({n, l}) \in {n, l} /\ Funds!Min({n, l}) <= n /\ Funds!Min({n, l}) <= l
    BY <2>1, FundsMin
  <2>3. k = Funds!Min({n, l})
    BY DEF l
  <2> HIDE DEF k
  <2>4. QED
    BY <2>1, <2>2, <2>3 DEF l
<1>3. u = SubSeq(s, 1, k)
  BY DEF Funds!First
<1> HIDE DEF k, u
<1>4. \A i \in 1..k : i \in DOMAIN s /\ s[i] \in 1..m
  <2>1. \A i \in 1..Len(s) : s[i] \in 1..m
    BY <1>1
  <2> DEFINE l == Len(s)
  <2>2. \A i \in 1..k : i \in 1..l
    <3>1. l \in Nat /\ k \in Nat /\ k <= l
      BY <1>1, <1>2
    <3> HIDE DEF l
    <3>2. QED
      BY <3>1
  <2>3. QED
    BY <1>1, <2>1, <2>2, Zenon
<1>5. u \in Seq(1..m) /\ Len(u) = k /\ \A i \in 1..k : u[i] = s[i]
  <2>1. 1 \in Int /\ k \in Int
    BY <1>2
  <2>2. /\ u \in Seq(1..m)
        /\ Len(u) = IF 1 <= k THEN k - 1 + 1 ELSE 0
        /\ \A i \in 1..k - 1 + 1 : u[i] = s[1 + i - 1]
    BY <1>3, <1>4, <2>1, SubSeqProperties
  <2>3. QED
    BY <1>2, <2>2
<1>6. DOMAIN u = 1..k /\ 1..k \subseteq DOMAIN s
  <2>1. DOMAIN u = 1..Len(u)
    BY <1>5
  <2>2. QED
    BY <1>4, <1>5, <2>1
<1>7. Distinct(u)
  BY <1>1, <1>5, <1>6 DEF Distinct
<1>8. \A t : Apart(t, s) => Apart(t, u)
  BY <1>5, <1>6 DEF Apart
<1>9. Named(u, m)
  BY <1>1, <1>5, <1>7 DEF Named
<1>10. Len(u) <= n /\ (Len(s) >= n => Len(u) = n)
  <2> DEFINE l == Len(s)
  <2>1. l \in Nat /\ k \in {n, l} /\ k <= l /\ k <= n
    BY <1>1, <1>2
  <2> HIDE DEF l
  <2>2. k <= n /\ (l >= n => k = n)
    BY <1>2, <2>1
  <2>3. QED
    BY <1>5, <2>2 DEF l
<1>11. QED
  BY <1>8, <1>9, <1>10 DEF u

LEMMA NewNamed ==
  ASSUME made \in Nat, NEW k \in Nat
  PROVE  /\ Named(Funds!NewAccounts(k), made + k) /\ Len(Funds!NewAccounts(k)) = k
         /\ \A t : Named(t, made) => Apart(t, Funds!NewAccounts(k))
<1> DEFINE u == [i \in 1..k |-> made + i]
<1>1. Funds!NewAccounts(k) = u
  BY DEF Funds!NewAccounts
<1>2. u \in Seq(1..made + k) /\ Len(u) = k /\ DOMAIN u = 1..k /\ \A i \in 1..k : u[i] = made + i
  OBVIOUS
<1> HIDE DEF u
<1>3. Distinct(u)
  BY <1>2 DEF Distinct
<1>4. ASSUME NEW t, Named(t, made) PROVE Apart(t, u)
  <2>1. \A i \in DOMAIN t : t[i] \in 1..made
    BY <1>4 DEF Named
  <2>2. QED
    BY <1>2, <2>1 DEF Apart
<1>5. QED
  BY <1>1, <1>2, <1>3, <1>4 DEF Named

LEMMA JoinNamed ==
  ASSUME NEW m \in Nat, NEW s, NEW t, Named(s, m), Named(t, m), Apart(s, t)
  PROVE  Named(s \o t, m) /\ Len(s \o t) = Len(s) + Len(t)
<1> DEFINE u == s \o t
<1>1. /\ s \in Seq(1..m) /\ t \in Seq(1..m) /\ Len(s) \in Nat /\ Len(t) \in Nat
      /\ DOMAIN s = 1..Len(s) /\ DOMAIN t = 1..Len(t)
  BY DEF Named
<1>2. /\ u \in Seq(1..m) /\ Len(u) = Len(s) + Len(t)
      /\ \A i \in 1..Len(s) + Len(t) : u[i] = IF i <= Len(s) THEN s[i] ELSE t[i - Len(s)]
  BY <1>1, ConcatProperties
<1> HIDE DEF u
<1>3. DOMAIN u = 1..Len(s) + Len(t)
  BY <1>2
<1>4. ASSUME NEW i \in DOMAIN u
      PROVE  \/ i \in DOMAIN s /\ u[i] = s[i]
             \/ i - Len(s) \in DOMAIN t /\ u[i] = t[i - Len(s)]
  BY <1>1, <1>2, <1>3
<1>5. Distinct(u)
  <2> SUFFICES ASSUME NEW i \in DOMAIN u, NEW j \in DOMAIN u, u[i] = u[j] PROVE i = j
    BY DEF Distinct
  <2>1. i \in Int /\ j \in Int
    BY <1>1, <1>3
  <2> DEFINE k == i - Len(s)
             l == j - Len(s)
  <2>2. k = l => i = j
    BY <1>1, <2>1
  <2>3. /\ (i \in DOMAIN s /\ u[i] = s[i]) \/ (k \in DOMAIN t /\ u[i] = t[k])
        /\ (j \in DOMAIN s /\ u[j] = s[j]) \/ (l \in DOMAIN t /\ u[j] = t[l])
    <3>1. (i \in DOMAIN s /\ u[i] = s[i]) \/ (k \in DOMAIN t /\ u[i] = t[k])
      BY <1>4
    <3>2. (j \in DOMAIN s /\ u[j] = s[j]) \/ (l \in DOMAIN t /\ u[j] = t[l])
      BY <1>4
    <3>3. QED
      BY <3>1, <3>2
  <2>4. /\ \A a, b \in DOMAIN s : s[a] = s[b] => a = b
        /\ \A a, b \in DOMAIN t : t[a] = t[b] => a = b
        /\ \A a \in DOMAIN s, b \in DOMAIN t : s[a] # t[b]
    BY DEF Named, Distinct, Apart
  <2> HIDE DEF k, l
  <2>5. CASE i \in DOMAIN s /\ u[i] = s[i]
    BY <2>3, <2>4, <2>5
  <2>6. CASE k \in DOMAIN t /\ u[i] = t[k]
    BY <2>2, <2>3, <2>4, <2>6
  <2>7. QED
    BY <2>3, <2>5, <2>6
<1>6. QED
  BY <1>2, <1>5 DEF Named, u

(* The lists of accounts.  What a run begins with is as many as it needs, no *)
(* two the same, because the lists it is put together from have none in      *)
(* common and a round knows how many are missing.                            *)
FundRounds == {"sync", "not funded", "send", "wait", "funded"}

Lists ==
  /\ made \in Nat /\ need \in Nat
  /\ Named(cachedAccounts, made) /\ Named(dynAccounts, made)
  /\ Named(kept, made) /\ Named(list, made)

Enough ==
  /\ fundingAt \in FundRounds /\ mode = "refund" =>
       Apart(kept, list) /\ Len(kept) < need /\ Len(kept) + Len(list) <= need
  /\ fundingAt \in FundRounds /\ mode = "new" =>
       Apart(kept, list) /\ Len(kept) + Len(list) = need
  /\ fundingAt \in FundRounds /\ mode = "cold" => Len(dynAccounts) = need
  /\ fundingAt = "set" => Len(kept) = need
  /\ fundingAt = "done" => Len(dynAccounts) = need

LEMMA LengthsNatural ==
  ASSUME Lists
  PROVE  Len(kept) \in Nat /\ Len(list) \in Nat /\ Len(dynAccounts) \in Nat
BY DEF Lists, Named

(* Most steps leave the lists as they are.                                   *)
LEMMA ListsFrame ==
  ASSUME Lists, Enough,
         UNCHANGED <<made, need, cachedAccounts, dynAccounts, kept, list, mode>>,
         fundingAt' \in FundRounds => fundingAt \in FundRounds,
         fundingAt' \in {"set", "done"} => fundingAt' = fundingAt
  PROVE  Lists' /\ Enough'
<1>1. Lists'
  BY DEF Lists
<1>2. Enough'
  BY DEF Enough
<1>3. QED
  BY <1>1, <1>2

(* A round of new accounts, beside those that are kept.                      *)
LEMMA NewRound ==
  ASSUME Lists, NEW k \in Nat, Funds!Generate(k), Funds!Fund("new", dynAccounts'),
         Named(kept', made), Len(kept') + k = need,
         UNCHANGED <<need, cachedAccounts>>
  PROVE  Lists' /\ Enough'
<1>1. /\ made \in Nat /\ need \in Nat /\ Named(cachedAccounts, made)
  BY DEF Lists
<1>2. made' = made + k /\ dynAccounts' = Funds!NewAccounts(k) /\ list' = dynAccounts'
  BY DEF Funds!Generate, Funds!Fund
<1>3. fundingAt' = "sync" /\ mode' = "new"
  BY DEF Funds!Fund
<1>4. made' \in Nat /\ made <= made'
  BY <1>1, <1>2
<1>5. Named(dynAccounts', made') /\ Len(dynAccounts') = k /\ Apart(kept', dynAccounts')
  BY <1>1, <1>2, NewNamed
<1>6. Named(kept', made') /\ Named(cachedAccounts', made')
  BY <1>1, <1>4, NamedGrows
<1>7. Lists'
  BY <1>1, <1>2, <1>4, <1>5, <1>6 DEF Lists
<1>8. Enough'
  BY <1>2, <1>3, <1>5 DEF Enough
<1>9. QED
  BY <1>7, <1>8

LEMMA StartRunLists ==
  ASSUME Lists, Enough, NEW n \in Needs, Funds!StartRun(n)
  PROVE  Lists' /\ Enough'
<1>1. /\ need' = n /\ kept' = <<>> /\ n \in Nat
      /\ UNCHANGED <<cachedAccounts, dynAccounts, made, list>>
  BY FundsConstants DEF Funds!StartRun, Funds!keeping, Funds!round
<1>2. fundingAt' \in {"warm", "cold", "gasless"}
  BY DEF Funds!StartRun
<1>3. Lists'
  BY <1>1, NoneNamed DEF Lists
<1>4. Enough'
  BY <1>2 DEF Enough, FundRounds
<1>5. QED
  BY <1>3, <1>4

LEMMA WarmLists ==
  ASSUME Lists, Enough, NEW seen, NEW ok, Funds!tryWarmStart(seen, ok)
  PROVE  Lists' /\ Enough'
<1> DEFINE fine == Funds!Among(cachedAccounts, seen)
           poor == Funds!Among(cachedAccounts, Funds!Accounts \ seen)
           some == Funds!First(need - Len(fine), poor)
<1>0. /\ made \in Nat /\ need \in Nat /\ Named(cachedAccounts, made)
      /\ Named(dynAccounts, made) /\ Named(kept, made) /\ Named(list, made)
  BY DEF Lists
<1>1. Named(fine, made) /\ Named(poor, made) /\ Apart(fine, poor)
  <2>1. seen \cap (Funds!Accounts \ seen) = {}
    OBVIOUS
  <2>2. QED
    BY <1>0, <2>1, AmongNamed, AmongApart
<1>2. Len(fine) \in Nat
  BY <1>1 DEF Named
<1>3. /\ Funds!ValidateBalances(seen).funded = fine
      /\ Funds!ValidateBalances(seen).unfunded = poor
  BY DEF Funds!ValidateBalances
<1>4. need' = need
  BY DEF Funds!tryWarmStart
<1> HIDE DEF fine, poor
<1>5. \/ /\ cachedAccounts' \in {cachedAccounts, <<>>} /\ fundingAt' = "cold"
         /\ UNCHANGED <<dynAccounts, made, mode, kept, list>>
      \/ /\ Len(fine) >= need
         /\ kept' = Funds!First(need, fine) /\ fundingAt' = "set"
         /\ UNCHANGED <<cachedAccounts, dynAccounts, made, mode, list>>
      \/ /\ Len(fine) < need
         /\ kept' = fine /\ UNCHANGED <<cachedAccounts, dynAccounts, made>>
         /\ Funds!Fund("refund", some)
      \/ /\ kept' = fine /\ UNCHANGED <<cachedAccounts, dynAccounts, made>>
         /\ fundingAt' = "cold" /\ UNCHANGED <<mode, list>>
      \/ /\ Len(fine) < need
         /\ kept' = fine /\ UNCHANGED cachedAccounts
         /\ Funds!Generate(need - Len(fine)) /\ Funds!Fund("new", dynAccounts')
  BY <1>3, Zenon DEF Funds!tryWarmStart, Funds!round
<1>6. CASE /\ cachedAccounts' \in {cachedAccounts, <<>>} /\ fundingAt' = "cold"
           /\ UNCHANGED <<dynAccounts, made, mode, kept, list>>
  <2>1. Lists'
    BY <1>0, <1>4, <1>6, NoneNamed DEF Lists
  <2>2. Enough'
    BY <1>6 DEF Enough, FundRounds
  <2>3. QED
    BY <2>1, <2>2
<1>7. CASE /\ Len(fine) >= need
           /\ kept' = Funds!First(need, fine) /\ fundingAt' = "set"
           /\ UNCHANGED <<cachedAccounts, dynAccounts, made, mode, list>>
  <2>1. Named(kept', made) /\ Len(kept') = need
    BY <1>0, <1>1, <1>2, <1>7, FirstNamed
  <2>2. Lists'
    BY <1>0, <1>4, <1>7, <2>1 DEF Lists
  <2>3. Enough'
    BY <1>4, <1>7, <2>1 DEF Enough, FundRounds
  <2>4. QED
    BY <2>2, <2>3
<1>8. CASE /\ Len(fine) < need
           /\ kept' = fine /\ UNCHANGED <<cachedAccounts, dynAccounts, made>>
           /\ Funds!Fund("refund", some)
  <2>1. need - Len(fine) \in Nat
    BY <1>0, <1>2, <1>8
  <2>2. Named(some, made) /\ Len(some) <= need - Len(fine) /\ Apart(fine, some)
    BY <1>0, <1>1, <2>1, FirstNamed
  <2> HIDE DEF some
  <2>3. list' = some /\ fundingAt' = "sync" /\ mode' = "refund"
    BY <1>8 DEF Funds!Fund
  <2>4. Lists'
    BY <1>0, <1>1, <1>4, <1>8, <2>2, <2>3 DEF Lists
  <2>5. Len(some) \in Nat
    BY <2>2 DEF Named
  <2>6. Len(kept') < need /\ Len(kept') + Len(list') <= need
    BY <1>0, <1>2, <1>8, <2>2, <2>3, <2>5
  <2>7. Enough'
    BY <1>4, <1>8, <2>2, <2>3, <2>6 DEF Enough
  <2>8. QED
    BY <2>4, <2>7
<1>9. CASE /\ kept' = fine /\ UNCHANGED <<cachedAccounts, dynAccounts, made>>
           /\ fundingAt' = "cold" /\ UNCHANGED <<mode, list>>
  <2>1. Lists'
    BY <1>0, <1>1, <1>4, <1>9 DEF Lists
  <2>2. Enough'
    BY <1>9 DEF Enough, FundRounds
  <2>3. QED
    BY <2>1, <2>2
<1>10. CASE /\ Len(fine) < need
            /\ kept' = fine /\ UNCHANGED cachedAccounts
            /\ Funds!Generate(need - Len(fine)) /\ Funds!Fund("new", dynAccounts')
  <2>1. need - Len(fine) \in Nat /\ Len(fine) + (need - Len(fine)) = need
    BY <1>0, <1>2, <1>10
  <2>2. QED
    BY <1>1, <1>4, <1>10, <2>1, NewRound
<1>11. QED
  BY <1>5, <1>6, <1>7, <1>8, <1>9, <1>10

LEMMA AfterRefundLists ==
  ASSUME Lists, Enough, Funds!AfterRefund
  PROVE  Lists' /\ Enough'
<1> DEFINE sum == IF fundingAt = "funded" THEN kept \o list ELSE kept
<1>0. /\ made \in Nat /\ need \in Nat /\ Named(cachedAccounts, made)
      /\ Named(dynAccounts, made) /\ Named(kept, made) /\ Named(list, made)
  BY DEF Lists
<1>1. Apart(kept, list) /\ Len(kept) < need /\ Len(kept) + Len(list) <= need
  <2>1. fundingAt \in FundRounds /\ mode = "refund"
    BY DEF Funds!AfterRefund, FundRounds
  <2>2. QED
    BY <2>1 DEF Enough
<1>2. Len(kept) \in Nat /\ Len(list) \in Nat
  BY LengthsNatural
<1>3. Named(sum, made) /\ Len(sum) <= need
  <2>1. CASE fundingAt = "funded"
    BY <1>0, <1>1, <2>1, JoinNamed
  <2>2. CASE fundingAt # "funded"
    BY <1>0, <1>1, <1>2, <2>2
  <2>3. QED
    BY <2>1, <2>2
<1>4. /\ kept' = sum /\ need' = need /\ cachedAccounts' = cachedAccounts
      /\ \/ Len(sum) < need /\ Funds!Generate(need - Len(sum)) /\ Funds!Fund("new", dynAccounts')
         \/ ~(Len(sum) < need) /\ fundingAt' = "set" /\ UNCHANGED <<made, dynAccounts, mode, list>>
  BY DEF Funds!AfterRefund, Funds!round
<1> HIDE DEF sum
<1>5. Len(sum) \in Nat
  BY <1>3 DEF Named
<1>6. CASE Len(sum) < need /\ Funds!Generate(need - Len(sum)) /\ Funds!Fund("new", dynAccounts')
  <2>1. need - Len(sum) \in Nat /\ Len(sum) + (need - Len(sum)) = need
    BY <1>0, <1>5, <1>6
  <2>2. QED
    BY <1>3, <1>4, <1>6, <2>1, NewRound
<1>7. CASE ~(Len(sum) < need) /\ fundingAt' = "set" /\ UNCHANGED <<made, dynAccounts, mode, list>>
  <2>1. Len(sum) = need
    BY <1>0, <1>3, <1>5, <1>7
  <2>2. Lists'
    BY <1>0, <1>3, <1>4, <1>7 DEF Lists
  <2>3. Enough'
    BY <1>4, <1>7, <2>1 DEF Enough, FundRounds
  <2>4. QED
    BY <2>2, <2>3
<1>8. QED
  BY <1>4, <1>6, <1>7

LEMMA AfterNewLists ==
  ASSUME Lists, Enough, Funds!AfterNew
  PROVE  Lists' /\ Enough'
<1>0. /\ made \in Nat /\ need \in Nat /\ Named(cachedAccounts, made)
      /\ Named(dynAccounts, made) /\ Named(kept, made) /\ Named(list, made)
  BY DEF Lists
<1>1. Apart(kept, list) /\ Len(kept) + Len(list) = need
  <2>1. fundingAt \in FundRounds /\ mode = "new"
    BY DEF Funds!AfterNew, FundRounds
  <2>2. QED
    BY <2>1 DEF Enough
<1>2. /\ kept' = kept \o list /\ fundingAt' = "set"
      /\ UNCHANGED <<need, made, cachedAccounts, dynAccounts, list>>
  BY DEF Funds!AfterNew, Funds!round, Funds!keeping
<1>3. Named(kept', made) /\ Len(kept') = need
  BY <1>0, <1>1, <1>2, JoinNamed
<1>4. Lists'
  BY <1>0, <1>2, <1>3 DEF Lists
<1>5. Enough'
  BY <1>2, <1>3 DEF Enough, FundRounds
<1>6. QED
  BY <1>4, <1>5

(* A list that is saved takes the place of its accounts in the cache.        *)
LEMMA SavedNamed ==
  ASSUME Lists, NEW s, Named(s, made)
  PROVE  Named(Funds!Saved(s), made)
<1> DEFINE rest == Funds!Among(cachedAccounts, Funds!Accounts \ Funds!ToSet(s))
<1>1. made \in Nat /\ Named(cachedAccounts, made)
  BY DEF Lists
<1>2. Named(rest, made)
  BY <1>1, AmongNamed
<1>3. \A k \in DOMAIN rest : rest[k] \in Funds!Accounts \ Funds!ToSet(s)
  BY <1>1, AmongIsPart DEF Named
<1>4. Funds!Saved(s) = rest \o s
  BY DEF Funds!Saved
<1> HIDE DEF rest
<1>5. \A i \in DOMAIN s : s[i] \in Funds!ToSet(s)
  BY DEF Funds!ToSet
<1>6. Apart(rest, s)
  BY <1>3, <1>5 DEF Apart
<1>7. QED
  BY <1>1, <1>2, <1>4, <1>6, JoinNamed

LEMMA SetLists ==
  ASSUME Lists, Enough, Funds!Set
  PROVE  Lists' /\ Enough'
<1>0. /\ made \in Nat /\ need \in Nat /\ Named(cachedAccounts, made)
      /\ Named(dynAccounts, made) /\ Named(kept, made) /\ Named(list, made)
  BY DEF Lists
<1>1. /\ dynAccounts' = kept /\ fundingAt' = "done" /\ fundingAt = "set"
      /\ cachedAccounts' \in {Funds!Saved(kept), cachedAccounts}
      /\ UNCHANGED <<made, need, kept, list>>
  BY DEF Funds!Set, Funds!round
<1>2. Named(cachedAccounts', made)
  BY <1>0, <1>1, SavedNamed
<1>3. Len(kept) = need
  BY <1>1 DEF Enough
<1>4. Lists'
  BY <1>0, <1>1, <1>2 DEF Lists
<1>5. Enough'
  BY <1>1, <1>3 DEF Enough, FundRounds
<1>6. QED
  BY <1>4, <1>5

LEMMA GeneratedLists ==
  ASSUME Lists, Funds!Generate(need), UNCHANGED need
  PROVE  /\ made' \in Nat /\ made <= made' /\ Named(dynAccounts', made') /\ Len(dynAccounts') = need
         /\ \A s : Named(s, made) => Named(s, made') /\ Apart(s, dynAccounts')
<1>1. made \in Nat /\ need \in Nat
  BY DEF Lists
<1>2. made' = made + need /\ dynAccounts' = Funds!NewAccounts(need)
  BY DEF Funds!Generate
<1>3. made' \in Nat /\ made <= made'
  BY <1>1, <1>2
<1>4. Named(dynAccounts', made') /\ Len(dynAccounts') = need
  BY <1>1, <1>2, NewNamed
<1>5. \A s : Named(s, made) => Named(s, made') /\ Apart(s, dynAccounts')
  BY <1>1, <1>2, <1>3, NewNamed, NamedGrows
<1>6. QED
  BY <1>3, <1>4, <1>5

LEMMA ColdLists ==
  ASSUME Lists, Enough, NEW ok, Funds!Cold(ok)
  PROVE  Lists' /\ Enough'
<1>1. /\ Funds!Generate(need) /\ UNCHANGED <<need, cachedAccounts, kept>>
      /\ \/ Funds!Fund("cold", dynAccounts')
         \/ fundingAt' = "failed" /\ UNCHANGED list
  BY DEF Funds!Cold, Funds!round
<1>2. /\ made' \in Nat /\ Named(dynAccounts', made') /\ Len(dynAccounts') = need
      /\ \A s : Named(s, made) => Named(s, made')
  BY <1>1, GeneratedLists
<1>3. /\ need' \in Nat /\ Named(cachedAccounts', made') /\ Named(kept', made')
  BY <1>1, <1>2 DEF Lists
<1>4. CASE Funds!Fund("cold", dynAccounts')
  <2>1. list' = dynAccounts' /\ fundingAt' = "sync" /\ mode' = "cold"
    BY <1>4 DEF Funds!Fund
  <2>2. Lists'
    BY <1>2, <1>3, <2>1 DEF Lists
  <2>3. Enough'
    BY <1>1, <1>2, <2>1 DEF Enough
  <2>4. QED
    BY <2>2, <2>3
<1>5. CASE fundingAt' = "failed" /\ UNCHANGED list
  <2>1. Named(list', made')
    BY <1>2, <1>5 DEF Lists
  <2>2. Lists'
    BY <1>2, <1>3, <2>1 DEF Lists
  <2>3. Enough'
    BY <1>5 DEF Enough, FundRounds
  <2>4. QED
    BY <2>2, <2>3
<1>6. QED
  BY <1>1, <1>4, <1>5

LEMMA AfterColdLists ==
  ASSUME Lists, Enough, Funds!AfterCold
  PROVE  Lists' /\ Enough'
<1>1. /\ fundingAt \in FundRounds /\ mode = "cold"
      /\ UNCHANGED <<made, need, dynAccounts, kept, list>>
      /\ fundingAt' \in {"failed", "done"}
      /\ cachedAccounts' \in {Funds!Saved(dynAccounts), cachedAccounts}
  BY DEF Funds!AfterCold, Funds!round, FundRounds
<1>2. Named(dynAccounts, made) /\ Named(cachedAccounts, made)
  BY DEF Lists
<1>3. Named(cachedAccounts', made)
  BY <1>1, <1>2, SavedNamed
<1>4. Lists'
  BY <1>1, <1>3 DEF Lists
<1>5. Enough'
  BY <1>1 DEF Enough, FundRounds
<1>6. QED
  BY <1>4, <1>5

LEMMA GaslessLists ==
  ASSUME Lists, Enough, Funds!Gasless
  PROVE  Lists' /\ Enough'
<1>1. /\ Funds!Generate(need) /\ UNCHANGED <<need, kept, list>> /\ fundingAt' = "done"
      /\ cachedAccounts' \in {cachedAccounts \o dynAccounts', cachedAccounts}
  BY DEF Funds!Gasless, Funds!round
<1>2. /\ made' \in Nat /\ Named(dynAccounts', made') /\ Len(dynAccounts') = need
      /\ \A s : Named(s, made) => Named(s, made') /\ Apart(s, dynAccounts')
  BY <1>1, GeneratedLists
<1>3. /\ need' \in Nat /\ Named(cachedAccounts, made') /\ Apart(cachedAccounts, dynAccounts')
      /\ Named(kept', made') /\ Named(list', made')
  BY <1>1, <1>2 DEF Lists
<1>4. Named(cachedAccounts', made')
  <2>1. Named(cachedAccounts \o dynAccounts', made')
    BY <1>2, <1>3, JoinNamed
  <2>2. QED
    BY <1>1, <1>3, <2>1
<1>5. Lists'
  BY <1>2, <1>3, <1>4 DEF Lists
<1>6. Enough'
  BY <1>1, <1>2 DEF Enough, FundRounds
<1>7. QED
  BY <1>5, <1>6

(* The steps of a round, and those beside it.                                *)
LEMMA ListsStay ==
  ASSUME Lists, Enough,
         \/ \E f \in Funds!Faucets : Funds!Mine(f)
         \/ \E s \in late : Funds!Arrive(s)
         \/ Funds!LoadFailed
         \/ Funds!Sync
         \/ Funds!SyncFailed
         \/ \E f \in Funds!Faucets, o \in {"accepted", "lost", "refused", "late"} :
              Funds!fundAccountFast(f, o)
         \/ Funds!AllSent
         \/ \E f \in Funds!Faucets : Funds!Confirmed(f)
         \/ \E f \in Funds!Faucets : Funds!GaveUp(f)
         \/ Funds!Waited
         \/ \E spent \in SUBSET (Funds!ToSet(dynAccounts) \cap rich), busy \in SUBSET Funds!Faucets :
              Funds!Run(spent, busy)
         \/ Funds!Fail
         \/ \E back \in SUBSET (Funds!ToSet(dynAccounts) \cap rich) : Funds!RecycleFunds(back)
  PROVE  Lists' /\ Enough'
<1> USE DEF Funds!keeping, Funds!round
<1>1. UNCHANGED <<made, need, cachedAccounts, dynAccounts, kept, list, mode>>
  BY DEF Funds!Mine, Funds!Arrive, Funds!LoadFailed, Funds!Sync, Funds!SyncFailed,
         Funds!fundAccountFast, Funds!AllSent, Funds!Confirmed, Funds!GaveUp, Funds!Waited,
         Funds!Run, Funds!Fail, Funds!RecycleFunds
<1>2. \/ fundingAt' = fundingAt
      \/ fundingAt \in FundRounds /\ fundingAt' \in FundRounds
      \/ fundingAt' \in {"cold", "idle"}
  BY DEF FundRounds, Funds!Mine, Funds!Arrive, Funds!LoadFailed, Funds!Sync, Funds!SyncFailed,
         Funds!fundAccountFast, Funds!AllSent, Funds!Confirmed, Funds!GaveUp, Funds!Waited,
         Funds!Run, Funds!Fail, Funds!RecycleFunds
<1>3. /\ fundingAt' \in FundRounds => fundingAt \in FundRounds
      /\ fundingAt' \in {"set", "done"} => fundingAt' = fundingAt
  BY <1>2 DEF FundRounds
<1>4. QED
  BY <1>1, <1>3, ListsFrame

LEMMA ListsBegin ==
  ASSUME Funds!Init PROVE Lists /\ Enough
<1>1. /\ made = 0 /\ need = 0 /\ cachedAccounts = <<>> /\ dynAccounts = <<>> /\ kept = <<>>
      /\ list = <<>> /\ fundingAt = "idle"
  BY DEF Funds!Init
<1>2. QED
  BY <1>1, NoneNamed DEF Lists, Enough, FundRounds

LEMMA ListsStep ==
  ASSUME Lists, Enough, Funds!Next
  PROVE  Lists' /\ Enough'
<1>1. CASE \/ \E f \in Funds!Faucets : Funds!Mine(f)
           \/ \E s \in late : Funds!Arrive(s)
           \/ Funds!LoadFailed
           \/ Funds!Sync
           \/ Funds!SyncFailed
           \/ \E f \in Funds!Faucets, o \in {"accepted", "lost", "refused", "late"} :
                Funds!fundAccountFast(f, o)
           \/ Funds!AllSent
           \/ \E f \in Funds!Faucets : Funds!Confirmed(f)
           \/ \E f \in Funds!Faucets : Funds!GaveUp(f)
           \/ Funds!Waited
           \/ \E spent \in SUBSET (Funds!ToSet(dynAccounts) \cap rich), busy \in SUBSET Funds!Faucets :
                Funds!Run(spent, busy)
           \/ Funds!Fail
           \/ \E back \in SUBSET (Funds!ToSet(dynAccounts) \cap rich) : Funds!RecycleFunds(back)
  BY <1>1, ListsStay
<1>2. CASE \E n \in Needs : Funds!StartRun(n)
  BY <1>2, StartRunLists
<1>3. CASE \E seen \in SUBSET (rich \cap Funds!ToSet(cachedAccounts)), ok \in BOOLEAN :
             Funds!tryWarmStart(seen, ok)
  BY <1>3, WarmLists
<1>4. CASE \E ok \in BOOLEAN : Funds!Cold(ok)
  BY <1>4, ColdLists
<1>5. CASE Funds!Gasless \/ Funds!AfterRefund \/ Funds!AfterNew \/ Funds!AfterCold \/ Funds!Set
  BY <1>5, GaslessLists, AfterRefundLists, AfterNewLists, AfterColdLists, SetLists
<1>6. QED
  BY <1>1, <1>2, <1>3, <1>4, <1>5, Zenon DEF Funds!Next

(* The faucets, the builder and the chain.                                   *)
FundPlaces == {"idle", "warm", "cold", "gasless", "sync", "not funded", "send", "wait",
               "funded", "set", "done", "failed"}
Values     == {Funds!None, Funds!Traffic} \cup Funds!Accounts
OnTheWay   == [faucet : Funds!Faucets, nonce : 0..FaucetNonces, to : Funds!Accounts,
               of : Nat \X {"refund", "new", "cold"}]

FundTypes ==
  /\ counter \in [Funds!Faucets -> 0..FaucetNonces]
  /\ funded \in [Funds!Faucets -> 0..FaucetNonces]
  /\ funding \in [Funds!Faucets -> [0..FaucetNonces -> Values]]
  /\ late \subseteq OnTheWay
  /\ rich \subseteq Funds!Accounts /\ vouched \subseteq Funds!Accounts
  /\ made <= MaxAccounts
  /\ fundingAt \in FundPlaces /\ mode \in {"refund", "new", "cold"}
  /\ at \in [Funds!Faucets -> Nat] /\ start \in [Funds!Faucets -> 0..FaucetNonces]
  /\ waited \in [Funds!Faucets -> {"", "confirmed", "gave up"}]
  /\ fundRuns \in Nat

(* No nonce is skipped by the chain, and a faucet that sends has nonces for  *)
(* the rest of its share.                                                    *)
Passed == \A f \in Funds!Faucets : \A n \in 0..FaucetNonces :
            n < funded[f] => funding[f][n] # Funds!None

Rest(f) == {i \in Funds!Share(f) : i >= at[f]}

Budget == fundingAt = "send" =>
            \A f \in Funds!Faucets : counter[f] + Cardinality(Rest(f)) <= FaucetNonces

(* A send that is still on its way names its run and round; none names the   *)
(* round that is about to begin.                                             *)
Early == {"warm", "cold", "gasless"}

Strays ==
  \A s \in late :
    /\ s.of[1] <= fundRuns
    /\ fundingAt \in Early => s.of[1] # fundRuns
    /\ fundingAt \in FundRounds /\ mode = "refund" /\ s.of[1] = fundRuns => s.of[2] = "refund"
    /\ fundingAt = "sync" => s.of # <<fundRuns, mode>>

(* What the transactions of a faucet in this round are, unless an older one  *)
(* holds one of its nonces: each account of its share that it has come to is *)
(* paid by one transaction at most, be it in the builder or on its way.      *)
Window(f) == {n \in 0..FaucetNonces : start[f] <= n}
Ours(f)   == {s \in late : s.faucet = f /\ s.of = <<fundRuns, mode>>}
Turn(f, a) == \E i \in Funds!Share(f) : i < at[f] /\ a = list[i]

Aligned ==
  fundingAt \in {"sync", "send", "wait"} =>
    \A f \in Funds!Faucets : at[f] >= 1 /\ at[f] % NumFaucets = f % NumFaucets

PaidOnce(f) ==
  /\ \A n \in Window(f) : funding[f][n] # Funds!None => Turn(f, funding[f][n])
  /\ \A n, m \in Window(f) : funding[f][n] # Funds!None /\ funding[f][n] = funding[f][m] => n = m

LateOnce(f) ==
  \A s \in Ours(f) :
    /\ Turn(f, s.to)
    /\ \A n \in Window(f) : funding[f][n] # s.to
    /\ \A t \in Ours(f) : s.to = t.to => s = t

PaidIsRich(f) == \A n \in Window(f) : n < funded[f] => funding[f][n] \in rich \cup recycled

Rounds ==
  fundingAt \in {"send", "wait"} =>
    \A f \in Funds!Faucets :
      /\ start[f] <= counter[f]
      /\ f \notin intruder => PaidOnce(f) /\ LateOnce(f) /\ PaidIsRich(f)

Vouched == vouched \ recycled \subseteq rich

FundsInv ==
  /\ Lists /\ Enough
  /\ FundTypes /\ Passed /\ Budget /\ Strays /\ Aligned /\ Rounds /\ Vouched

LEMMA FundKinds ==
  /\ Funds!Faucets = 1..NumFaucets /\ Funds!Accounts = 1..MaxAccounts
  /\ Funds!None = 0 /\ Funds!Traffic = -1
  /\ NumFaucets \in Nat /\ NumFaucets >= 1 /\ FaucetNonces \in Nat /\ MaxAccounts \in Nat
BY FundsConstants DEF Funds!Faucets, Funds!Accounts, Funds!None, Funds!Traffic

LEMMA ShareFinite ==
  ASSUME Lists, NEW f
  PROVE  IsFiniteSet(Funds!Share(f)) /\ Cardinality(Funds!Share(f)) \in Nat
<1>1. Funds!Share(f) \subseteq 1..Len(list)
  BY DEF Funds!Share
<1>2. IsFiniteSet(1..Len(list))
  <2>1. Len(list) \in Int /\ 1 \in Int
    BY LengthsNatural
  <2>2. QED
    BY <2>1, FS_Interval
<1>3. QED
  BY <1>1, <1>2, FS_Subset, FS_CardinalityType

LEMMA ListedAccount ==
  ASSUME Lists, made <= MaxAccounts, NEW i \in 1..Len(list)
  PROVE  list[i] \in Funds!Accounts
<1>1. list \in Seq(1..made) /\ made \in Nat
  BY DEF Lists, Named
<1>2. list[i] \in 1..made
  BY <1>1
<1>3. QED
  BY <1>1, <1>2, FundKinds

LEMMA ToSetNamed ==
  ASSUME made \in Nat, made <= MaxAccounts, NEW s, Named(s, made)
  PROVE  Funds!ToSet(s) \subseteq Funds!Accounts
<1>1. \A i \in DOMAIN s : s[i] \in 1..made
  BY DEF Named
<1>2. 1..made \subseteq Funds!Accounts
  BY FundKinds
<1>3. QED
  BY <1>1, <1>2 DEF Funds!ToSet

(* The steps of initialisation leave faucets, builder and chain alone.       *)
LEMMA AsideKeeps ==
  ASSUME FundsInv, Lists', Enough',
         UNCHANGED <<counter, funding, funded, rich, late>>,
         fundingAt' \in FundPlaces \ {"send", "wait"},
         mode' \in {"refund", "new", "cold"}, made' <= MaxAccounts,
         at' \in [Funds!Faucets -> Nat], start' \in [Funds!Faucets -> 0..FaucetNonces],
         waited' \in [Funds!Faucets -> {"", "confirmed", "gave up"}],
         vouched' \subseteq Funds!Accounts, fundRuns' \in Nat,
         Vouched', Strays', Aligned'
  PROVE  FundsInv'
<1>1. FundTypes'
  BY DEF FundsInv, FundTypes
<1>2. Passed'
  BY DEF FundsInv, Passed
<1>3. fundingAt' # "send" /\ fundingAt' # "wait"
  OBVIOUS
<1>4. Budget' /\ Rounds'
  BY <1>3 DEF Budget, Rounds
<1>5. QED
  BY <1>1, <1>2, <1>4 DEF FundsInv

(* A round begins.                                                           *)
LEMMA FundBegins ==
  ASSUME NEW m, NEW s, Funds!Fund(m, s)
  PROVE  /\ fundingAt' = "sync" /\ mode' = m
         /\ at' \in [Funds!Faucets -> Nat] /\ start' \in [Funds!Faucets -> 0..FaucetNonces]
         /\ waited' \in [Funds!Faucets -> {"", "confirmed", "gave up"}]
         /\ Aligned'
<1>1. /\ fundingAt' = "sync" /\ mode' = m
      /\ at' = [f \in Funds!Faucets |-> f] /\ start' = [f \in Funds!Faucets |-> 0]
      /\ waited' = [f \in Funds!Faucets |-> ""]
  BY DEF Funds!Fund
<1>2. 0 \in 0..FaucetNonces /\ Funds!Faucets \subseteq Nat /\ \A f \in Funds!Faucets : f >= 1
  BY FundKinds
<1>3. "" \in {"", "confirmed", "gave up"}
  OBVIOUS
<1>4. waited' \in [Funds!Faucets -> {"", "confirmed", "gave up"}]
  BY <1>1, <1>3, Zenon
<1>5. Aligned'
  BY <1>1, <1>2 DEF Aligned
<1>6. QED
  BY <1>1, <1>2, <1>4, <1>5

(* Of the run that is being set up there is no send on its way yet.          *)
LEMMA OldStrays ==
  ASSUME Strays, fundingAt \in Early, late' = late, fundRuns' = fundRuns
  PROVE  Strays'
BY DEF Strays

(* A step that does not go to a round, nor begin a run.                      *)
LEMMA IdleStrays ==
  ASSUME Strays, late' = late, fundRuns' = fundRuns, fundingAt' \notin Early \cup FundRounds
  PROVE  Strays' /\ Aligned'
BY DEF Strays, Aligned, FundRounds

LEMMA StartRunFunds ==
  ASSUME FundsInv, NEW n \in Needs, Funds!StartRun(n)
  PROVE  FundsInv'
<1>1. Lists' /\ Enough'
  BY StartRunLists DEF FundsInv
<1>2. /\ UNCHANGED <<counter, funding, funded, rich, late, made, at, start, waited>>
      /\ fundRuns' = fundRuns + 1 /\ vouched' = {} /\ mode' = "cold"
      /\ fundingAt' \in Early
  BY DEF Funds!StartRun, Funds!chain, Funds!round, Early
<1>3. fundRuns \in Nat /\ late \subseteq OnTheWay
  BY DEF FundsInv, FundTypes
<1>4. Strays'
  <2>1. \A s \in late : s.of[1] \in Nat /\ s.of[1] <= fundRuns
    BY <1>3 DEF FundsInv, Strays, OnTheWay
  <2>2. \A s \in late : s.of[1] <= fundRuns + 1 /\ s.of[1] # fundRuns + 1
    BY <1>3, <2>1
  <2>3. fundingAt' \notin FundRounds
    BY <1>2 DEF Early, FundRounds
  <2>4. fundingAt' # "sync"
    BY <1>2 DEF Early
  <2>5. QED
    BY <1>2, <2>2, <2>3, <2>4 DEF Strays
<1>5. Vouched'
  BY <1>2 DEF Vouched
<1>6. fundingAt' \in FundPlaces \ {"send", "wait"} /\ Aligned'
  BY <1>2 DEF Early, FundPlaces, Aligned
<1>7. /\ mode' \in {"refund", "new", "cold"} /\ made' <= MaxAccounts
      /\ at' \in [Funds!Faucets -> Nat] /\ start' \in [Funds!Faucets -> 0..FaucetNonces]
      /\ waited' \in [Funds!Faucets -> {"", "confirmed", "gave up"}]
  BY <1>2, Zenon DEF FundsInv, FundTypes
<1>8. vouched' \subseteq Funds!Accounts /\ fundRuns' \in Nat
  BY <1>2, <1>3
<1>9. QED
  BY <1>1, <1>2, <1>4, <1>5, <1>6, <1>7, <1>8, AsideKeeps

(* What a step of initialisation does to a round: nothing, or it begins one. *)
RoundOrNot(places, modes) ==
  \/ fundingAt' \in places /\ UNCHANGED <<mode, at, start, waited>>
  \/ \E m \in modes : \E s : Funds!Fund(m, s)

LEMMA RoundTypes ==
  ASSUME FundTypes, NEW places, places \subseteq FundPlaces \ {"sync", "send", "wait"},
         NEW modes, modes \subseteq {"refund", "new", "cold"}, RoundOrNot(places, modes)
  PROVE  /\ fundingAt' \in FundPlaces \ {"send", "wait"} /\ mode' \in {"refund", "new", "cold"}
         /\ at' \in [Funds!Faucets -> Nat] /\ start' \in [Funds!Faucets -> 0..FaucetNonces]
         /\ waited' \in [Funds!Faucets -> {"", "confirmed", "gave up"}]
         /\ Aligned'
<1>1. CASE fundingAt' \in places /\ UNCHANGED <<mode, at, start, waited>>
  <2>1. fundingAt' \in FundPlaces \ {"sync", "send", "wait"}
    BY <1>1
  <2>2. Aligned' /\ fundingAt' \in FundPlaces \ {"send", "wait"}
    BY <2>1 DEF Aligned
  <2>3. QED
    BY <1>1, <2>2, Zenon DEF FundTypes
<1>2. CASE \E m \in modes : \E s : Funds!Fund(m, s)
  <2>0. PICK m \in modes : \E s : Funds!Fund(m, s)
    BY <1>2
  <2>1. PICK s : Funds!Fund(m, s)
    BY <2>0
  <2>2. fundingAt' \in FundPlaces \ {"send", "wait"}
    BY <2>1, FundBegins DEF FundPlaces
  <2>3. m \in {"refund", "new", "cold"}
    OBVIOUS
  <2>4. QED
    BY <2>1, <2>2, <2>3, FundBegins, Zenon
<1>3. QED
  BY <1>1, <1>2 DEF RoundOrNot

LEMMA GenerateBound ==
  ASSUME NEW k, Funds!Generate(k) PROVE made' <= MaxAccounts
BY DEF Funds!Generate

LEMMA WarmFunds ==
  ASSUME FundsInv, NEW seen \in SUBSET (rich \cap Funds!ToSet(cachedAccounts)),
         NEW ok \in BOOLEAN, Funds!tryWarmStart(seen, ok)
  PROVE  FundsInv'
<1> DEFINE fine == Funds!Among(cachedAccounts, seen)
           poor == Funds!Among(cachedAccounts, Funds!Accounts \ seen)
<1>1. Lists' /\ Enough'
  BY WarmLists DEF FundsInv
<1>2. /\ UNCHANGED <<counter, funding, funded, rich, late, fundRuns>> /\ fundingAt = "warm"
      /\ vouched' = Funds!ToSet(fine)
  BY Zenon DEF Funds!tryWarmStart, Funds!chain, Funds!ValidateBalances
<1>3. RoundOrNot({"cold", "set"}, {"refund", "new"}) /\ (made' = made \/ made' <= MaxAccounts)
  <2>1. \/ fundingAt' = "cold" /\ UNCHANGED <<made, mode, at, start, waited>>
        \/ fundingAt' = "set" /\ UNCHANGED <<made, mode, at, start, waited>>
        \/ made' = made /\ \E s : Funds!Fund("refund", s)
        \/ (\E k : Funds!Generate(k)) /\ \E s : Funds!Fund("new", s)
    BY Zenon DEF Funds!tryWarmStart, Funds!round
  <2>2. QED
    BY <2>1, GenerateBound, Zenon DEF RoundOrNot
<1>4. FundTypes /\ fundRuns \in Nat /\ made <= MaxAccounts /\ rich \subseteq Funds!Accounts
  BY DEF FundsInv, FundTypes
<1>5. Strays'
  BY <1>2, OldStrays DEF FundsInv, Early
<1>6. vouched' \subseteq rich
  <2>1. Named(cachedAccounts, made) /\ made \in Nat
    BY DEF FundsInv, Lists
  <2>2. \A i \in DOMAIN fine : fine[i] \in seen
    BY <2>1, AmongIsPart DEF Named
  <2> HIDE DEF fine
  <2>3. Funds!ToSet(fine) \subseteq seen
    BY <2>2 DEF Funds!ToSet
  <2>4. QED
    BY <1>2, <2>3
<1>7. Vouched' /\ vouched' \subseteq Funds!Accounts
  BY <1>2, <1>4, <1>6 DEF Vouched
<1>8. /\ {"cold", "set"} \subseteq FundPlaces \ {"sync", "send", "wait"}
      /\ {"refund", "new"} \subseteq {"refund", "new", "cold"}
  BY DEF FundPlaces
<1>9. /\ fundingAt' \in FundPlaces \ {"send", "wait"} /\ mode' \in {"refund", "new", "cold"}
      /\ at' \in [Funds!Faucets -> Nat] /\ start' \in [Funds!Faucets -> 0..FaucetNonces]
      /\ waited' \in [Funds!Faucets -> {"", "confirmed", "gave up"}]
      /\ Aligned'
  BY <1>3, <1>4, <1>8, RoundTypes, Zenon
<1>10. QED
  BY <1>1, <1>2, <1>3, <1>4, <1>5, <1>7, <1>9, AsideKeeps

LEMMA ColdFunds ==
  ASSUME FundsInv, NEW ok \in BOOLEAN, Funds!Cold(ok)
  PROVE  FundsInv'
<1>1. Lists' /\ Enough'
  BY ColdLists DEF FundsInv
<1>2. /\ UNCHANGED <<counter, funding, funded, rich, late, fundRuns>> /\ fundingAt = "cold"
      /\ vouched' = {} /\ Funds!Generate(need)
  BY DEF Funds!Cold, Funds!chain
<1>3. RoundOrNot({"failed"}, {"cold"})
  <2>1. \/ fundingAt' = "failed" /\ UNCHANGED <<mode, at, start, waited>>
        \/ \E s : Funds!Fund("cold", s)
    BY Zenon DEF Funds!Cold, Funds!round
  <2>2. QED
    BY <2>1, Zenon DEF RoundOrNot
<1>4. FundTypes /\ fundRuns \in Nat
  BY DEF FundsInv, FundTypes
<1>5. Strays'
  BY <1>2, OldStrays DEF FundsInv, Early
<1>6. Vouched' /\ vouched' \subseteq Funds!Accounts /\ made' <= MaxAccounts
  BY <1>2, GenerateBound DEF Vouched
<1>7. /\ {"failed"} \subseteq FundPlaces \ {"sync", "send", "wait"}
      /\ {"cold"} \subseteq {"refund", "new", "cold"}
  BY DEF FundPlaces
<1>8. /\ fundingAt' \in FundPlaces \ {"send", "wait"} /\ mode' \in {"refund", "new", "cold"}
      /\ at' \in [Funds!Faucets -> Nat] /\ start' \in [Funds!Faucets -> 0..FaucetNonces]
      /\ waited' \in [Funds!Faucets -> {"", "confirmed", "gave up"}]
      /\ Aligned'
  BY <1>3, <1>4, <1>7, RoundTypes, Zenon
<1>9. QED
  BY <1>1, <1>2, <1>4, <1>5, <1>6, <1>8, AsideKeeps

LEMMA GaslessFunds ==
  ASSUME FundsInv, Funds!Gasless
  PROVE  FundsInv'
<1>1. Lists' /\ Enough'
  BY GaslessLists DEF FundsInv
<1>2. /\ UNCHANGED <<counter, funding, funded, rich, late, fundRuns, mode, at, start, waited>>
      /\ fundingAt' = "done" /\ vouched' = {} /\ Funds!Generate(need)
  BY DEF Funds!Gasless, Funds!chain, Funds!round
<1>3. fundingAt' \in FundPlaces \ {"send", "wait"} /\ fundingAt' \notin Early \cup FundRounds
  BY <1>2 DEF FundPlaces, Early, FundRounds
<1>4. Strays' /\ Aligned'
  BY <1>2, <1>3, IdleStrays DEF FundsInv
<1>5. Vouched' /\ vouched' \subseteq Funds!Accounts /\ made' <= MaxAccounts
  BY <1>2, GenerateBound DEF Vouched
<1>6. /\ mode' \in {"refund", "new", "cold"} /\ fundRuns' \in Nat
      /\ at' \in [Funds!Faucets -> Nat] /\ start' \in [Funds!Faucets -> 0..FaucetNonces]
      /\ waited' \in [Funds!Faucets -> {"", "confirmed", "gave up"}]
  BY <1>2, Zenon DEF FundsInv, FundTypes
<1>7. QED
  BY <1>1, <1>2, <1>3, <1>4, <1>5, <1>6, AsideKeeps

LEMMA AfterRefundFunds ==
  ASSUME FundsInv, Funds!AfterRefund
  PROVE  FundsInv'
<1>1. Lists' /\ Enough'
  BY AfterRefundLists DEF FundsInv
<1>2. /\ UNCHANGED <<counter, funding, funded, rich, late, fundRuns, vouched, recycled>>
      /\ fundingAt \in FundRounds /\ mode = "refund"
  BY DEF Funds!AfterRefund, Funds!chain, FundRounds
<1>3. \/ fundingAt' = "set" /\ UNCHANGED <<made, mode, at, start, waited>>
      \/ (\E k : Funds!Generate(k)) /\ \E s : Funds!Fund("new", s)
  BY Zenon DEF Funds!AfterRefund, Funds!round
<1>4. RoundOrNot({"set"}, {"new"}) /\ (made' = made \/ made' <= MaxAccounts)
  BY <1>3, GenerateBound, Zenon DEF RoundOrNot
<1>5. FundTypes /\ fundRuns \in Nat /\ made <= MaxAccounts /\ vouched \subseteq Funds!Accounts
  BY DEF FundsInv, FundTypes
<1>6. Strays'
  <2>1. CASE fundingAt' = "set"
    <3>1. fundingAt' \notin Early \cup FundRounds
      BY <2>1 DEF Early, FundRounds
    <3>2. QED
      BY <1>2, <3>1, IdleStrays DEF FundsInv
  <2>2. CASE \E s : Funds!Fund("new", s)
    <3>1. fundingAt' = "sync" /\ mode' = "new"
      BY <2>2, FundBegins
    <3>2. \A s \in late : s.of[1] <= fundRuns /\ (s.of[1] = fundRuns => s.of[2] = "refund")
      BY <1>2 DEF FundsInv, Strays
    <3>3. \A s \in late : s.of # <<fundRuns, "new">>
      <4>1. \A s \in late : s.of = <<fundRuns, "new">> => s.of[1] = fundRuns /\ s.of[2] = "new"
        OBVIOUS
      <4>2. QED
        BY <3>2, <4>1
    <3>4. QED
      BY <1>2, <3>1, <3>2, <3>3 DEF Strays, Early
  <2>3. QED
    BY <1>3, <2>1, <2>2
<1>7. Vouched' /\ vouched' \subseteq Funds!Accounts
  BY <1>2, <1>5 DEF FundsInv, Vouched
<1>8. /\ {"set"} \subseteq FundPlaces \ {"sync", "send", "wait"}
      /\ {"new"} \subseteq {"refund", "new", "cold"}
  BY DEF FundPlaces
<1>9. /\ fundingAt' \in FundPlaces \ {"send", "wait"} /\ mode' \in {"refund", "new", "cold"}
      /\ at' \in [Funds!Faucets -> Nat] /\ start' \in [Funds!Faucets -> 0..FaucetNonces]
      /\ waited' \in [Funds!Faucets -> {"", "confirmed", "gave up"}]
      /\ Aligned'
  BY <1>4, <1>5, <1>8, RoundTypes, Zenon
<1>10. QED
  BY <1>1, <1>2, <1>4, <1>5, <1>6, <1>7, <1>9, AsideKeeps

(* The steps that end a round or the initialisation.                         *)
LEMMA EndingsFunds ==
  ASSUME FundsInv,
         Funds!LoadFailed \/ Funds!AfterNew \/ Funds!AfterCold \/ Funds!Set \/ Funds!Fail
  PROVE  FundsInv'
<1>1. Lists' /\ Enough'
  BY ListsStay, AfterNewLists, AfterColdLists, SetLists, Zenon DEF FundsInv
<1>2. /\ UNCHANGED <<counter, funding, funded, rich, late, fundRuns, vouched, recycled>>
      /\ UNCHANGED <<made, mode, at, start, waited>>
  BY Zenon DEF Funds!LoadFailed, Funds!AfterNew, Funds!AfterCold, Funds!Set, Funds!Fail, Funds!chain,
         Funds!round
<1>3. \/ fundingAt = "warm" /\ fundingAt' = "cold"
      \/ fundingAt' \in {"set", "done", "failed", "idle"}
  BY DEF Funds!LoadFailed, Funds!AfterNew, Funds!AfterCold, Funds!Set, Funds!Fail
<1>4. fundingAt' \in FundPlaces \ {"sync", "send", "wait"}
  BY <1>3 DEF FundPlaces
<1>5. Strays' /\ Aligned'
  <2>1. CASE fundingAt = "warm" /\ fundingAt' = "cold"
    BY <1>2, <2>1, OldStrays DEF FundsInv, Early, Aligned
  <2>2. CASE fundingAt' \in {"set", "done", "failed", "idle"}
    <3>1. fundingAt' \notin Early \cup FundRounds
      BY <2>2 DEF Early, FundRounds
    <3>2. QED
      BY <1>2, <3>1, IdleStrays DEF FundsInv
  <2>3. QED
    BY <1>3, <2>1, <2>2
<1>6. Vouched'
  BY <1>2 DEF FundsInv, Vouched
<1>7. /\ mode' \in {"refund", "new", "cold"} /\ fundRuns' \in Nat /\ made' <= MaxAccounts
      /\ at' \in [Funds!Faucets -> Nat] /\ start' \in [Funds!Faucets -> 0..FaucetNonces]
      /\ waited' \in [Funds!Faucets -> {"", "confirmed", "gave up"}]
      /\ vouched' \subseteq Funds!Accounts
  BY <1>2, Zenon DEF FundsInv, FundTypes
<1>8. QED
  BY <1>1, <1>2, <1>4, <1>5, <1>6, <1>7, AsideKeeps

(* The steps of a round.                                                     *)
LEMMA ResyncedRange ==
  ASSUME FundTypes, NEW f \in Funds!Faucets, NEW v \in 0..FaucetNonces
  PROVE  Funds!Resynced(f, v) \in 0..FaucetNonces
<1>1. counter[f] \in 0..FaucetNonces
  BY DEF FundTypes
<1>2. counter[f] \in Int /\ v \in Int
  BY <1>1, FundKinds
<1>3. Funds!Max({counter[f], v}) \in {counter[f], v}
  BY <1>2, FundsMax
<1>4. QED
  BY <1>1, <1>3 DEF Funds!Resynced

LEMMA SyncFunds ==
  ASSUME FundsInv, Funds!Sync
  PROVE  FundsInv'
<1>1. Lists' /\ Enough'
  BY ListsStay DEF FundsInv
<1>2. /\ UNCHANGED <<funding, funded, rich, late, fundRuns, vouched, recycled>>
      /\ UNCHANGED <<made, mode, at, waited, list>>
      /\ fundingAt = "sync" /\ fundingAt' = "send" /\ start' = counter'
      /\ intruder' = {f \in Funds!Faucets : \E n \in counter'[f]..FaucetNonces : funding[f][n] # Funds!None}
  BY DEF Funds!Sync, Funds!chain
<1>3. PICK v \in [Funds!Faucets -> 0..FaucetNonces] :
        /\ counter' = [f \in Funds!Faucets |-> Funds!Resynced(f, v[f])]
        /\ \A f \in Funds!Faucets : counter'[f] + Funds!Cardinality(Funds!Share(f)) <= FaucetNonces
  BY DEF Funds!Sync
<1>4. FundTypes /\ Passed /\ Strays /\ Aligned /\ Vouched /\ Lists
  BY DEF FundsInv
<1>5. counter' \in [Funds!Faucets -> 0..FaucetNonces]
  BY <1>3, <1>4, ResyncedRange
<1>6. FundTypes'
  <2>1. fundingAt' \in FundPlaces
    BY <1>2 DEF FundPlaces
  <2>2. QED
    BY <1>2, <1>4, <1>5, <2>1, Zenon DEF FundTypes
<1>7. Passed' /\ Vouched'
  BY <1>2, <1>4 DEF Passed, Vouched
<1>8. Budget'
  <2> SUFFICES ASSUME NEW f \in Funds!Faucets
               PROVE  counter'[f] + Cardinality(Rest(f)') <= FaucetNonces
    BY DEF Budget
  <2>1. Funds!Share(f)' = Funds!Share(f) /\ Rest(f)' \subseteq Funds!Share(f)
    BY <1>2 DEF Rest, Funds!Share
  <2>2. IsFiniteSet(Funds!Share(f)) /\ Cardinality(Funds!Share(f)) \in Nat
    BY <1>4, ShareFinite
  <2>3. Cardinality(Rest(f)') <= Cardinality(Funds!Share(f)) /\ Cardinality(Rest(f)') \in Nat
    BY <2>1, <2>2, FS_Subset, FS_CardinalityType
  <2>4. counter'[f] + Cardinality(Funds!Share(f)) <= FaucetNonces
    BY <1>3, FundsCount
  <2>5. counter'[f] \in Nat /\ FaucetNonces \in Nat
    BY <1>5, FundKinds
  <2>6. QED
    BY <2>2, <2>3, <2>4, <2>5
<1>9. Strays'
  BY <1>2, <1>4 DEF Strays, Early, FundRounds
<1>10. Aligned'
  BY <1>2, <1>4 DEF Aligned
<1>11. Rounds'
  <2> SUFFICES ASSUME NEW f \in Funds!Faucets
               PROVE  /\ start'[f] <= counter'[f]
                      /\ f \notin intruder' => PaidOnce(f)' /\ LateOnce(f)' /\ PaidIsRich(f)'
    BY DEF Rounds
  <2>1. start'[f] = counter'[f] /\ counter'[f] \in Nat
    BY <1>2, <1>5, FundKinds
  <2>2. ASSUME f \notin intruder', NEW n \in Window(f)'
        PROVE  funding'[f][n] = Funds!None /\ ~(n < funded'[f])
    <3>1. n \in 0..FaucetNonces /\ counter'[f] <= n
      BY <2>1 DEF Window
    <3>2. n \in counter'[f]..FaucetNonces
      BY <2>1, <3>1, FundKinds
    <3>3. funding[f][n] = Funds!None
      BY <1>2, <2>2, <3>2
    <3>4. ~(n < funded[f])
      BY <1>4, <3>1, <3>3 DEF Passed
    <3>5. QED
      BY <1>2, <3>3, <3>4
  <2>3. Ours(f)' = {}
    BY <1>2, <1>4 DEF Ours, Strays
  <2>4. QED
    BY <2>1, <2>2, <2>3 DEF PaidOnce, LateOnce, PaidIsRich
<1>12. QED
  BY <1>1, <1>6, <1>7, <1>8, <1>9, <1>10, <1>11 DEF FundsInv

LEMMA SyncFailedFunds ==
  ASSUME FundsInv, Funds!SyncFailed
  PROVE  FundsInv'
<1>1. Lists' /\ Enough'
  BY ListsStay DEF FundsInv
<1>2. /\ UNCHANGED <<funding, funded, rich, late, fundRuns, vouched, recycled>>
      /\ UNCHANGED <<made, mode, at, start, waited, list>>
      /\ fundingAt = "sync" /\ fundingAt' = "not funded"
  BY DEF Funds!SyncFailed, Funds!chain, Funds!round
<1>3. PICK l \in 0..NumFaucets - 1, v \in [Funds!Faucets -> 0..FaucetNonces] :
        counter' = [f \in Funds!Faucets |-> IF f <= l THEN Funds!Resynced(f, v[f]) ELSE counter[f]]
  BY DEF Funds!SyncFailed
<1>4. FundTypes /\ Passed /\ Strays /\ Aligned /\ Vouched /\ Lists
  BY DEF FundsInv
<1>5. counter' \in [Funds!Faucets -> 0..FaucetNonces]
  <2>1. \A f \in Funds!Faucets : Funds!Resynced(f, v[f]) \in 0..FaucetNonces /\ counter[f] \in 0..FaucetNonces
    BY <1>4, ResyncedRange DEF FundTypes
  <2>2. QED
    BY <1>3, <2>1
<1>6. FundTypes'
  <2>1. fundingAt' \in FundPlaces
    BY <1>2 DEF FundPlaces
  <2>2. QED
    BY <1>2, <1>4, <1>5, <2>1, Zenon DEF FundTypes
<1>7. Passed' /\ Vouched' /\ Budget' /\ Aligned' /\ Rounds'
  BY <1>2, <1>4 DEF Passed, Vouched, Budget, Aligned, Rounds
<1>8. Strays'
  BY <1>2, <1>4 DEF Strays, Early, FundRounds
<1>9. QED
  BY <1>1, <1>6, <1>7, <1>8 DEF FundsInv

(* A faucet sends to the next account of its share.                          *)
LEMMA NextTurn ==
  ASSUME Lists, FundTypes, Budget, Aligned, fundingAt = "send",
         NEW f \in Funds!Faucets, at[f] <= Len(list), Funds!Next1(f), list' = list,
         NEW b, b = list[at[f]]
  PROVE  /\ at[f] \in Funds!Share(f) /\ list[at[f]] \in Funds!Accounts
         /\ counter[f] + 1 \in 0..FaucetNonces
         /\ at' \in [Funds!Faucets -> Nat]
         /\ \A g \in Funds!Faucets : g # f => at'[g] = at[g]
         /\ at'[f] >= 1 /\ at'[f] % NumFaucets = f % NumFaucets
         /\ counter[f] + 1 + Cardinality(Rest(f)') <= FaucetNonces
         /\ counter[f] + Cardinality(Rest(f)') <= FaucetNonces
         /\ ~Turn(f, b) /\ Turn(f, b)'
         /\ \A g \in Funds!Faucets : \A a : Turn(g, a) => Turn(g, a)'
<1>1. /\ at \in [Funds!Faucets -> Nat] /\ at[f] \in Nat /\ at[f] >= 1
      /\ at[f] % NumFaucets = f % NumFaucets
      /\ counter[f] \in Nat /\ FaucetNonces \in Nat /\ NumFaucets \in Nat \ {0}
  <2>1. at \in [Funds!Faucets -> Nat] /\ counter \in [Funds!Faucets -> 0..FaucetNonces]
    BY DEF FundTypes
  <2>2. at[f] >= 1 /\ at[f] % NumFaucets = f % NumFaucets
    BY DEF Aligned
  <2>3. FaucetNonces \in Nat /\ NumFaucets \in Nat \ {0}
    BY FundsConstants
  <2>4. counter[f] \in Nat
    BY <2>1, <2>3
  <2>5. QED
    BY <2>1, <2>2, <2>3, <2>4
<1>2. at' = [at EXCEPT ![f] = at[f] + NumFaucets]
  BY DEF Funds!Next1
<1>3. at'[f] = at[f] + NumFaucets /\ \A g \in Funds!Faucets : g # f => at'[g] = at[g]
  BY <1>1, <1>2
<1>4. at' \in [Funds!Faucets -> Nat]
  BY <1>1, <1>2
<1>5. at'[f] >= 1 /\ at'[f] % NumFaucets = f % NumFaucets
  <2>1. (at[f] + NumFaucets) % NumFaucets = at[f] % NumFaucets
    BY <1>1, ModShift
  <2>2. at'[f] >= 1
    BY <1>1, <1>3
  <2>3. QED
    BY <1>1, <1>3, <2>1, <2>2
<1>6. Len(list) \in Nat /\ at[f] \in 1..Len(list)
  BY <1>1, LengthsNatural
<1>7. at[f] \in Funds!Share(f) /\ list[at[f]] \in Funds!Accounts
  BY <1>1, <1>6, ListedAccount DEF Funds!Share, FundTypes
<1>8. \A g : Funds!Share(g)' = Funds!Share(g) /\ Funds!Share(g) \subseteq 1..Len(list)
  BY DEF Funds!Share
<1>9. /\ Cardinality(Rest(f)) \in Nat /\ Cardinality(Rest(f)') \in Nat
      /\ Cardinality(Rest(f)') + 1 <= Cardinality(Rest(f))
  <2>1. IsFiniteSet(Funds!Share(f)) /\ Rest(f) \subseteq Funds!Share(f)
    BY ShareFinite DEF Rest
  <2>2. at[f] \in Rest(f)
    BY <1>1, <1>7 DEF Rest
  <2>3. Rest(f)' \subseteq Rest(f) \ {at[f]}
    <3>1. ASSUME NEW i \in Rest(f)' PROVE i \in Rest(f) /\ i # at[f]
      <4>1. i \in Funds!Share(f) /\ i >= at'[f] /\ i \in Int
        BY <1>8 DEF Rest
      <4>2. i >= at[f] /\ i # at[f]
        BY <1>1, <1>3, <4>1
      <4>3. QED
        BY <4>1, <4>2 DEF Rest
    <3>2. QED
      BY <3>1
  <2>4. IsFiniteSet(Rest(f)) /\ Cardinality(Rest(f)) \in Nat
    BY <2>1, FS_Subset, FS_CardinalityType
  <2>5. IsFiniteSet(Rest(f) \ {at[f]}) /\ Cardinality(Rest(f) \ {at[f]}) = Cardinality(Rest(f)) - 1
    BY <2>2, <2>4, FS_RemoveElement
  <2>6. Cardinality(Rest(f)') \in Nat /\ Cardinality(Rest(f)') <= Cardinality(Rest(f) \ {at[f]})
    BY <2>3, <2>5, FS_Subset, FS_CardinalityType
  <2>7. QED
    BY <2>4, <2>5, <2>6
<1>10. counter[f] + Cardinality(Rest(f)) <= FaucetNonces
  BY DEF Budget
<1>11. ~Turn(f, b)
  <2>1. ASSUME NEW i \in Funds!Share(f), i < at[f], b = list[i] PROVE FALSE
    <3>1. list \in Seq(1..made) /\ Distinct(list) /\ DOMAIN list = 1..Len(list)
      BY DEF Lists, Named
    <3>2. i = at[f]
      BY <1>6, <1>8, <2>1, <3>1 DEF Distinct
    <3>3. QED
      BY <1>1, <2>1, <3>2
  <2>2. QED
    BY <2>1 DEF Turn
<1>12. Turn(f, b)'
  <2>1. at[f] < at'[f]
    BY <1>1, <1>3
  <2>2. \E i \in Funds!Share(f)' : i < at'[f] /\ b = list'[i]
    BY <1>7, <1>8, <2>1
  <2>3. QED
    BY <2>2 DEF Turn
<1>13. ASSUME NEW g \in Funds!Faucets, NEW a, Turn(g, a) PROVE Turn(g, a)'
  <2>1. PICK i \in Funds!Share(g) : i < at[g] /\ a = list[i]
    BY <1>13 DEF Turn
  <2>2. i \in Int /\ at[g] \in Nat /\ at'[g] \in Nat
    BY <1>1, <1>4, <1>8
  <2>3. at[g] <= at'[g]
    BY <1>1, <1>3, <2>2
  <2>4. i < at'[g]
    BY <2>1, <2>2, <2>3
  <2>5. \E j \in Funds!Share(g)' : j < at'[g] /\ a = list'[j]
    BY <1>8, <2>1, <2>4
  <2>6. QED
    BY <2>5 DEF Turn
<1>14. /\ counter[f] + 1 \in 0..FaucetNonces
       /\ counter[f] + 1 + Cardinality(Rest(f)') <= FaucetNonces
       /\ counter[f] + Cardinality(Rest(f)') <= FaucetNonces
  <2> DEFINE c == counter[f]
             r == Cardinality(Rest(f))
             q == Cardinality(Rest(f)')
  <2>1. c \in Nat /\ FaucetNonces \in Nat /\ r \in Nat /\ q \in Nat /\ q + 1 <= r /\ c + r <= FaucetNonces
    BY <1>1, <1>9, <1>10
  <2> HIDE DEF c, r, q
  <2>2. c + 1 \in 0..FaucetNonces /\ c + 1 + q <= FaucetNonces /\ c + q <= FaucetNonces
    BY <2>1
  <2>3. QED
    BY <2>2 DEF c, q
<1>15. QED
  BY <1>3, <1>4, <1>5, <1>7, <1>11, <1>12, <1>13, <1>14

(* A faucet that nothing happens to...                                       *)
LEMMA PaidKept ==
  ASSUME NEW f \in Funds!Faucets, PaidOnce(f), LateOnce(f), PaidIsRich(f),
         funding'[f] = funding[f], Ours(f)' \subseteq Ours(f), funded'[f] = funded[f],
         start' = start, rich \cup recycled \subseteq rich' \cup recycled',
         \A a : Turn(f, a) => Turn(f, a)'
  PROVE  PaidOnce(f)' /\ LateOnce(f)' /\ PaidIsRich(f)'
<1>1. Window(f)' = Window(f)
  BY DEF Window
<1>2. PaidOnce(f)'
  BY <1>1 DEF PaidOnce
<1>3. LateOnce(f)'
  BY <1>1 DEF LateOnce
<1>4. PaidIsRich(f)'
  BY <1>1 DEF PaidIsRich
<1>5. QED
  BY <1>2, <1>3, <1>4

(* ... and one that pays the next account, or one it could not pay before.   *)
LEMMA PaidMore ==
  ASSUME FundTypes, NEW f \in Funds!Faucets, PaidOnce(f), LateOnce(f), PaidIsRich(f),
         NEW k, NEW b, b # Funds!None,
         funding' = [funding EXCEPT ![f][k] = b], funding[f][k] = Funds!None, ~(k < funded[f]),
         Ours(f)' \subseteq Ours(f), \A s \in Ours(f)' : s.to # b,
         \A n \in Window(f) : funding[f][n] # b,
         UNCHANGED <<start, funded, rich, recycled>>,
         Turn(f, b)', \A a : Turn(f, a) => Turn(f, a)'
  PROVE  PaidOnce(f)' /\ LateOnce(f)' /\ PaidIsRich(f)'
<1>1. Window(f)' = Window(f) /\ Window(f) \subseteq 0..FaucetNonces
  BY DEF Window
<1>2. \A n \in Window(f) : funding'[f][n] = IF n = k THEN b ELSE funding[f][n]
  BY <1>1 DEF FundTypes
<1>3. PaidOnce(f)'
  <2>1. ASSUME NEW n \in Window(f), NEW c, c = funding'[f][n], c # Funds!None
        PROVE  Turn(f, c)'
    <3>1. CASE n = k
      BY <1>2, <2>1, <3>1
    <3>2. CASE n # k
      BY <1>2, <2>1, <3>2 DEF PaidOnce
    <3>3. QED
      BY <3>1, <3>2
  <2>2. \A n, m \in Window(f) :
          funding'[f][n] # Funds!None /\ funding'[f][n] = funding'[f][m] => n = m
    BY <1>2 DEF PaidOnce
  <2>3. ASSUME NEW n \in Window(f), funding'[f][n] # Funds!None
        PROVE  \E i \in Funds!Share(f)' : i < at'[f] /\ funding'[f][n] = list'[i]
    <3>1. PICK c : c = funding'[f][n]
      OBVIOUS
    <3>2. Turn(f, c)'
      BY <2>1, <2>3, <3>1
    <3>3. \E i \in Funds!Share(f)' : i < at'[f] /\ c = list'[i]
      BY <3>2 DEF Turn
    <3>4. QED
      BY <3>1, <3>3
  <2>4. QED
    BY <1>1, <2>2, <2>3 DEF PaidOnce, Turn, Funds!None
<1>4. LateOnce(f)'
  <2> SUFFICES ASSUME NEW s \in Ours(f)'
               PROVE  /\ Turn(f, s.to)'
                      /\ \A n \in Window(f) : funding'[f][n] # s.to
                      /\ \A t \in Ours(f)' : s.to = t.to => s = t
    BY <1>1, Zenon DEF LateOnce
  <2>1. s \in Ours(f) /\ s.to # b
    OBVIOUS
  <2>2. Turn(f, s.to)'
    BY <2>1 DEF LateOnce
  <2>3. \A n \in Window(f) : funding'[f][n] # s.to
    BY <1>2, <2>1 DEF LateOnce
  <2>4. \A t \in Ours(f)' : s.to = t.to => s = t
    BY <2>1 DEF LateOnce
  <2>5. QED
    BY <2>2, <2>3, <2>4
<1>5. PaidIsRich(f)'
  BY <1>1, <1>2 DEF PaidIsRich
<1>6. QED
  BY <1>3, <1>4, <1>5

LEMMA LateMore ==
  ASSUME FundTypes, NEW f \in Funds!Faucets, PaidOnce(f), LateOnce(f), PaidIsRich(f),
         NEW z, z.to # Funds!None, ~Turn(f, z.to), Turn(f, z.to)',
         Ours(f)' \subseteq Ours(f) \cup {z},
         UNCHANGED <<start, funding, funded, rich, recycled>>,
         \A a : Turn(f, a) => Turn(f, a)'
  PROVE  PaidOnce(f)' /\ LateOnce(f)' /\ PaidIsRich(f)'
<1>1. Window(f)' = Window(f)
  BY DEF Window
<1>2. PaidOnce(f)'
  BY <1>1 DEF PaidOnce
<1>3. PaidIsRich(f)'
  BY <1>1 DEF PaidIsRich
<1>4. /\ \A n \in Window(f) : funding[f][n] # z.to
      /\ \A s \in Ours(f) : s.to # z.to
  BY DEF PaidOnce, LateOnce
<1>5. LateOnce(f)'
  <2> SUFFICES ASSUME NEW s \in Ours(f)'
               PROVE  /\ Turn(f, s.to)'
                      /\ \A n \in Window(f) : funding[f][n] # s.to
                      /\ \A t \in Ours(f)' : s.to = t.to => s = t
    BY <1>1, Zenon DEF LateOnce
  <2>1. CASE s = z
    BY <1>4, <2>1
  <2>2. CASE s \in Ours(f)
    BY <1>4, <2>2 DEF LateOnce
  <2>3. QED
    BY <2>1, <2>2
<1>6. QED
  BY <1>2, <1>3, <1>5

LEMMA SendShape ==
  ASSUME NEW f \in Funds!Faucets, NEW o \in {"accepted", "lost", "refused", "late"},
         Funds!fundAccountFast(f, o)
  PROVE  /\ fundingAt = "send" /\ at[f] <= Len(list) /\ Funds!Next1(f)
         /\ UNCHANGED <<funded, rich, made, fundingAt, mode, list, start, waited, intruder, vouched,
                        recycled, fundRuns>>
         /\ \/ /\ Funds!Free(f, counter[f])
               /\ funding' = [funding EXCEPT ![f][counter[f]] = list[at[f]]]
               /\ counter' = [counter EXCEPT ![f] = counter[f] + 1] \/ counter' = counter
               /\ late' = late
            \/ UNCHANGED <<funding, counter, late>>
            \/ /\ late' = late \cup {[faucet |-> f, nonce |-> counter[f], to |-> list[at[f]],
                                      of |-> <<fundRuns, mode>>]}
               /\ UNCHANGED <<funding, counter>>
<1>1. CASE o = "accepted"
  BY <1>1 DEF Funds!fundAccountFast, Funds!Put
<1>2. CASE o = "lost"
  BY <1>2 DEF Funds!fundAccountFast, Funds!Put
<1>3. CASE o = "refused"
  BY <1>3 DEF Funds!fundAccountFast
<1>4. CASE o = "late"
  BY <1>4 DEF Funds!fundAccountFast
<1>5. QED
  BY <1>1, <1>2, <1>3, <1>4

LEMMA SendFunds ==
  ASSUME FundsInv, NEW f \in Funds!Faucets, NEW o \in {"accepted", "lost", "refused", "late"},
         Funds!fundAccountFast(f, o)
  PROVE  FundsInv'
<1> DEFINE k == counter[f]
           z == [faucet |-> f, nonce |-> counter[f], to |-> list[at[f]], of |-> <<fundRuns, mode>>]
<1>1. Lists' /\ Enough'
  BY ListsStay DEF FundsInv
<1>2. /\ fundingAt = "send" /\ at[f] <= Len(list) /\ Funds!Next1(f)
      /\ UNCHANGED <<funded, rich, made, fundingAt, mode, list, start, waited, intruder, vouched,
                     recycled, fundRuns>>
  BY SendShape, Zenon
<1>3. \/ /\ Funds!Free(f, k) /\ funding' = [funding EXCEPT ![f][k] = list[at[f]]]
         /\ counter' = [counter EXCEPT ![f] = k + 1] \/ counter' = counter
         /\ late' = late
      \/ UNCHANGED <<funding, counter, late>>
      \/ late' = late \cup {z} /\ UNCHANGED <<funding, counter>>
  BY SendShape
<1>4. FundTypes /\ Passed /\ Strays /\ Aligned /\ Vouched /\ Lists /\ Budget /\ Rounds
  BY DEF FundsInv
<1> PICK b : b = list[at[f]]
  OBVIOUS
<1>5. /\ b \in Funds!Accounts /\ k + 1 \in 0..FaucetNonces
      /\ at' \in [Funds!Faucets -> Nat]
      /\ \A g \in Funds!Faucets : g # f => at'[g] = at[g]
      /\ at'[f] >= 1 /\ at'[f] % NumFaucets = f % NumFaucets
      /\ k + 1 + Cardinality(Rest(f)') <= FaucetNonces
      /\ k + Cardinality(Rest(f)') <= FaucetNonces
      /\ ~Turn(f, b) /\ Turn(f, b)'
      /\ \A g \in Funds!Faucets : \A a : Turn(g, a) => Turn(g, a)'
  BY <1>2, <1>4, NextTurn
<1>6. k \in 0..FaucetNonces /\ k \in Nat /\ b # Funds!None /\ b \in Values
  <2>1. k \in 0..FaucetNonces
    BY <1>4 DEF FundTypes
  <2>2. b # Funds!None
    BY <1>5, FundKinds
  <2>3. b \in Values
    BY <1>5 DEF Values
  <2>4. k \in Nat
    BY <2>1, FundKinds
  <2>5. QED
    BY <2>1, <2>2, <2>3, <2>4
<1>7. z \in OnTheWay
  BY <1>4, <1>5, <1>6, Zenon DEF FundTypes, OnTheWay
<1>8. counter' \in [Funds!Faucets -> 0..FaucetNonces] /\ \A g \in Funds!Faucets : g # f => counter'[g] = counter[g]
  <2>1. counter \in [Funds!Faucets -> 0..FaucetNonces]
    BY <1>4 DEF FundTypes
  <2>2. counter' = [counter EXCEPT ![f] = k + 1] \/ counter' = counter
    BY <1>3
  <2>3. QED
    BY <1>5, <2>1, <2>2
<1>9. counter'[f] \in {k, k + 1}
  BY <1>3, <1>4, <1>5 DEF FundTypes
<1>10. late' \subseteq late \cup {z} /\ late' \subseteq OnTheWay
  BY <1>3, <1>4, <1>7, Zenon DEF FundTypes
<1>11. /\ funding' \in [Funds!Faucets -> [0..FaucetNonces -> Values]]
       /\ \A g \in Funds!Faucets : g # f => funding'[g] = funding[g]
       /\ \A n \in 0..FaucetNonces : funding'[f][n] = funding[f][n] \/ funding'[f][n] = b
  <2>1. funding \in [Funds!Faucets -> [0..FaucetNonces -> Values]]
    BY <1>4 DEF FundTypes
  <2>2. funding' = [funding EXCEPT ![f][k] = b] \/ funding' = funding
    BY <1>3
  <2> HIDE DEF k
  <2>3. [funding[f] EXCEPT ![k] = b] \in [0..FaucetNonces -> Values]
    BY <1>6, <2>1
  <2>4. CASE funding' = [funding EXCEPT ![f][k] = b]
    <3>1. funding' = [funding EXCEPT ![f] = [funding[f] EXCEPT ![k] = b]]
      BY <2>1, <2>4
    <3>2. /\ funding' \in [Funds!Faucets -> [0..FaucetNonces -> Values]]
          /\ funding'[f] = [funding[f] EXCEPT ![k] = b]
          /\ \A g \in Funds!Faucets : g # f => funding'[g] = funding[g]
      BY <2>1, <2>3, <3>1
    <3>3. \A n \in 0..FaucetNonces : funding'[f][n] = funding[f][n] \/ funding'[f][n] = b
      BY <2>1, <3>2
    <3>4. QED
      BY <3>2, <3>3
  <2>5. CASE funding' = funding
    BY <2>1, <2>5
  <2>6. QED
    BY <2>2, <2>4, <2>5
<1>12. FundTypes'
  BY <1>2, <1>4, <1>5, <1>8, <1>10, <1>11, Zenon DEF FundTypes
<1>13. Passed'
  BY <1>2, <1>4, <1>6, <1>11 DEF Passed
<1>14. Budget'
  <2> SUFFICES ASSUME NEW g \in Funds!Faucets
               PROVE  counter'[g] + Cardinality(Rest(g)') <= FaucetNonces
    BY DEF Budget
  <2>1. CASE g = f
    BY <1>5, <1>9, <2>1
  <2>2. CASE g # f
    <3>1. Rest(g)' = Rest(g)
      BY <1>2, <1>5, <2>2 DEF Rest, Funds!Share
    <3>2. QED
      BY <1>2, <1>4, <1>8, <2>2, <3>1 DEF Budget
  <2>3. QED
    BY <2>1, <2>2
<1>15. Strays'
  <2> SUFFICES ASSUME NEW s \in late'
               PROVE  /\ s.of[1] <= fundRuns
                      /\ mode = "refund" /\ s.of[1] = fundRuns => s.of[2] = "refund"
    BY <1>2 DEF Strays, Early
  <2>1. CASE s = z
    <3>1. z.of[1] = fundRuns /\ z.of[2] = mode /\ fundRuns \in Nat
      BY <1>4 DEF FundTypes
    <3> HIDE DEF z
    <3>2. QED
      BY <2>1, <3>1
  <2>2. CASE s \in late
    BY <1>2, <1>4, <2>2 DEF Strays, FundRounds
  <2>3. QED
    BY <1>10, <2>1, <2>2
<1>16. Aligned'
  BY <1>2, <1>4, <1>5 DEF Aligned
<1>17. Vouched'
  BY <1>2, <1>4 DEF Vouched
<1>18. Rounds'
  <2> SUFFICES ASSUME NEW g \in Funds!Faucets
               PROVE  /\ start'[g] <= counter'[g]
                      /\ g \notin intruder' => PaidOnce(g)' /\ LateOnce(g)' /\ PaidIsRich(g)'
    BY DEF Rounds
  <2>1. start[g] <= counter[g] /\ (g \notin intruder => PaidOnce(g) /\ LateOnce(g) /\ PaidIsRich(g))
    BY <1>2, <1>4 DEF Rounds
  <2>2. start'[g] <= counter'[g]
    <3>0. 0..FaucetNonces \subseteq Nat
      BY FundKinds
    <3>1. start[g] \in Nat /\ counter[g] \in Nat /\ start'[g] = start[g]
      BY <1>2, <1>4, <3>0 DEF FundTypes
    <3>2. counter'[g] = counter[g] \/ counter'[g] = counter[g] + 1
      BY <1>8, <1>9
    <3>3. QED
      BY <2>1, <3>1, <3>2
  <2>3. ASSUME g \notin intruder' PROVE PaidOnce(g)' /\ LateOnce(g)' /\ PaidIsRich(g)'
    <3>1. PaidOnce(g) /\ LateOnce(g) /\ PaidIsRich(g)
      BY <1>2, <2>1, <2>3
    <3>2. /\ start' = start /\ funded' = funded /\ rich' = rich /\ recycled' = recycled
          /\ \A a : Turn(g, a) => Turn(g, a)'
      BY <1>2, <1>5
    <3>3. rich \cup recycled \subseteq rich' \cup recycled'
      BY <3>2
    <3>4. CASE g # f
      <4>1. Ours(g)' \subseteq Ours(g)
        <5>1. z.faucet = f
          OBVIOUS
        <5> HIDE DEF z
        <5>2. QED
          BY <1>2, <1>10, <3>4, <5>1 DEF Ours
      <4>2. funding'[g] = funding[g]
        BY <1>11, <3>4
      <4>3. QED
        BY <3>1, <3>2, <3>3, <4>1, <4>2, PaidKept
    <3>5. CASE g = f
      <4>1. CASE /\ Funds!Free(f, k) /\ funding' = [funding EXCEPT ![f][k] = list[at[f]]]
                 /\ late' = late
        <5>1. Ours(f)' = Ours(f)
          BY <1>2, <4>1 DEF Ours
        <5>2. /\ \A s \in Ours(f) : s.to # b
              /\ \A n \in Window(f) : funding[f][n] # b
          BY <1>5, <1>6, <3>1, <3>5 DEF LateOnce, PaidOnce
        <5>3. /\ funding[f][k] = Funds!None /\ ~(k < funded[f])
          <6>0. 0..FaucetNonces \subseteq Nat
            BY FundKinds
          <6>1. funded[f] \in Nat /\ k \in Nat
            BY <1>4, <1>6, <6>0 DEF FundTypes
          <6>2. k >= funded[f] /\ funding[f][k] = Funds!None
            BY <4>1, Zenon DEF Funds!Free
          <6>3. QED
            BY <6>1, <6>2
        <5>4. funding' = [funding EXCEPT ![f][k] = b]
          BY <4>1
        <5> HIDE DEF k
        <5>5. QED
          BY <1>4, <1>5, <1>6, <3>1, <3>2, <3>5, <5>1, <5>2, <5>3, <5>4, PaidMore
      <4>2. CASE UNCHANGED <<funding, counter, late>>
        <5>1. Ours(f)' = Ours(f)
          BY <1>2, <4>2 DEF Ours
        <5>2. QED
          BY <3>1, <3>2, <3>3, <3>5, <4>2, <5>1, PaidKept
      <4>3. CASE late' = late \cup {z} /\ UNCHANGED <<funding, counter>>
        <5>1. z.to = b
          OBVIOUS
        <5> HIDE DEF z
        <5>2. Ours(f)' \subseteq Ours(f) \cup {z}
          BY <1>2, <4>3 DEF Ours
        <5>3. QED
          BY <1>4, <1>5, <1>6, <3>1, <3>2, <3>5, <4>3, <5>1, <5>2, LateMore
      <4>4. QED
        BY <1>3, <4>1, <4>2, <4>3
    <3>6. QED
      BY <3>4, <3>5
  <2>4. QED
    BY <2>2, <2>3
<1>19. QED
  BY <1>1, <1>12, <1>13, <1>14, <1>15, <1>16, <1>17, <1>18 DEF FundsInv

(* A step that does not go on with the round: what it paid stays.            *)
LEMMA RoundKept ==
  ASSUME FundsInv, Lists', Enough',
         UNCHANGED <<counter, funding, funded, rich, late, made, mode, list, at, start,
                     intruder, recycled, fundRuns>>,
         fundingAt \in {"send", "wait"}, fundingAt' \in {"wait", "funded"},
         waited' \in [Funds!Faucets -> {"", "confirmed", "gave up"}],
         vouched' \subseteq Funds!Accounts, Vouched'
  PROVE  FundsInv'
<1>1. FundTypes /\ Passed /\ Strays /\ Aligned /\ Rounds
  BY DEF FundsInv
<1>2. FundTypes'
  <2>1. fundingAt' \in FundPlaces
    BY DEF FundPlaces
  <2>2. QED
    BY <1>1, <2>1, Zenon DEF FundTypes
<1>3. Passed' /\ Budget' /\ Aligned'
  BY <1>1 DEF Passed, Budget, Aligned
<1>4. Strays'
  BY <1>1 DEF Strays, Early, FundRounds
<1>5. ASSUME NEW f
      PROVE  /\ PaidOnce(f) => PaidOnce(f)'
             /\ LateOnce(f) => LateOnce(f)'
             /\ PaidIsRich(f) => PaidIsRich(f)'
  <2>1. Window(f)' = Window(f) /\ Ours(f)' = Ours(f) /\ \A a : Turn(f, a)' <=> Turn(f, a)
    BY DEF Window, Ours, Turn, Funds!Share
  <2>2. PaidOnce(f) => PaidOnce(f)'
    BY <2>1 DEF PaidOnce
  <2>3. LateOnce(f) => LateOnce(f)'
    BY <2>1 DEF LateOnce
  <2>4. PaidIsRich(f) => PaidIsRich(f)'
    BY <2>1 DEF PaidIsRich
  <2>5. QED
    BY <2>2, <2>3, <2>4
<1>6. Rounds'
  BY <1>1, <1>5 DEF Rounds
<1>7. QED
  BY <1>2, <1>3, <1>4, <1>6 DEF FundsInv

LEMMA WaitFunds ==
  ASSUME FundsInv, Funds!AllSent \/ Funds!Waited \/ \E f \in Funds!Faucets : Funds!GaveUp(f)
  PROVE  FundsInv'
<1>1. Lists' /\ Enough'
  BY ListsStay DEF FundsInv
<1>2. /\ UNCHANGED <<counter, funding, funded, rich, late, made, mode, list, at, start,
                     intruder, recycled, fundRuns, vouched>>
      /\ fundingAt \in {"send", "wait"} /\ fundingAt' \in {"wait", "funded"}
      /\ waited' = waited \/ \E f \in Funds!Faucets : waited' = [waited EXCEPT ![f] = "gave up"]
  BY DEF Funds!AllSent, Funds!Waited, Funds!GaveUp, Funds!chain, Funds!round
<1>3. waited' \in [Funds!Faucets -> {"", "confirmed", "gave up"}]
  BY <1>2 DEF FundsInv, FundTypes
<1>4. vouched' \subseteq Funds!Accounts /\ Vouched'
  BY <1>2 DEF FundsInv, FundTypes, Vouched
<1>5. QED
  BY <1>1, <1>2, <1>3, <1>4, RoundKept

(* As many payments as there are accounts, no account paid twice: each is    *)
(* paid.                                                                     *)
Covered(v, W, l, S) == \A n \in W : \E i \in S : v[n] = l[i]

LEMMA EachIsPaid ==
  ASSUME NEW W, NEW S, IsFiniteSet(S), Cardinality(W) = Cardinality(S), NEW v, NEW l,
         Covered(v, W, l, S), \A n, m \in W : v[n] = v[m] => n = m
  PROVE  Covered(l, S, v, W)
<1> DEFINE g == [n \in W |-> CHOOSE i \in S : v[n] = l[i]]
<1>1. \A n \in W : g[n] \in S /\ v[n] = l[g[n]]
  BY DEF Covered
<1>2. g \in [W -> S]
  BY <1>1
<1> HIDE DEF g
<1>3. g \in Injection(W, S)
  BY <1>1, <1>2 DEF Injection, IsInjective
<1>4. g \in Surjection(W, S)
  BY <1>3, FS_Injection
<1>5. \A i \in S : \E n \in W : g[n] = i
  BY <1>4 DEF Surjection
<1>6. QED
  BY <1>1, <1>5 DEF Covered

LEMMA RunLength ==
  ASSUME NEW a \in Nat, NEW n \in Nat PROVE Cardinality(a..a + n - 1) = n
<1> DEFINE b == a + n - 1
<1>1. b \in Int /\ (IF a > b THEN 0 ELSE b - a + 1) = n
  OBVIOUS
<1> HIDE DEF b
<1>2. Cardinality(a..b) = n
  BY <1>1, FS_Interval
<1>3. QED
  BY <1>2 DEF b

LEMMA ConfirmedFunds ==
  ASSUME FundsInv, NEW f \in Funds!Faucets, Funds!Confirmed(f)
  PROVE  FundsInv'
<1> DEFINE N == Cardinality(Funds!Share(f))
           W == start[f]..start[f] + N - 1
<1>1. Lists' /\ Enough'
  BY ListsStay DEF FundsInv
<1>2. /\ UNCHANGED <<counter, funding, funded, rich, late, made, mode, list, at, start,
                     intruder, recycled, fundRuns>>
      /\ fundingAt = "wait" /\ fundingAt' = "wait"
      /\ waited' = [waited EXCEPT ![f] = "confirmed"]
      /\ vouched' = vouched \cup (IF f \in intruder THEN {} ELSE {list[i] : i \in Funds!Share(f)})
  BY DEF Funds!Confirmed, Funds!chain
<1>3. funded[f] >= start[f] + N
  BY FundsCount DEF Funds!Confirmed
<1>4. FundTypes /\ Passed /\ Rounds /\ Vouched /\ Lists
  BY DEF FundsInv
<1>5. waited' \in [Funds!Faucets -> {"", "confirmed", "gave up"}]
  BY <1>2, <1>4 DEF FundTypes
<1>6. IsFiniteSet(Funds!Share(f)) /\ N \in Nat
  BY <1>4, ShareFinite
<1>7. vouched' \subseteq Funds!Accounts
  <2>1. \A i \in Funds!Share(f) : list[i] \in Funds!Accounts
    BY <1>4, ListedAccount DEF FundTypes, Funds!Share
  <2>2. vouched \subseteq Funds!Accounts
    BY <1>4 DEF FundTypes
  <2>3. QED
    BY <1>2, <2>1, <2>2
<1>8. ASSUME f \notin intruder, NEW i \in Funds!Share(f)
      PROVE  list[i] \in rich \cup recycled
  <2>1. PaidOnce(f) /\ PaidIsRich(f)
    BY <1>2, <1>4, <1>8 DEF Rounds
  <2>2. start[f] \in Nat /\ funded[f] \in Nat /\ funded[f] <= FaucetNonces /\ FaucetNonces \in Nat
    <3>1. start[f] \in 0..FaucetNonces /\ funded[f] \in 0..FaucetNonces
      BY <1>4 DEF FundTypes
    <3>2. QED
      BY <3>1, FundKinds
  <2> HIDE DEF N
  <2>3. ASSUME NEW n \in W PROVE n \in Window(f) /\ n \in 0..FaucetNonces /\ n < funded[f]
    <3>1. n \in 0..FaucetNonces /\ start[f] <= n /\ n < funded[f]
      BY <1>3, <1>6, <2>2, <2>3
    <3>2. QED
      BY <3>1 DEF Window
  <2>4. Cardinality(W) = N
    BY <1>6, <2>2, RunLength
  <2> HIDE DEF W
  <2>5. ASSUME NEW n \in W
        PROVE  /\ funding[f][n] # Funds!None
               /\ \E j \in Funds!Share(f) : funding[f][n] = list[j]
               /\ funding[f][n] \in rich \cup recycled
    <3>1. funding[f][n] # Funds!None
      BY <1>4, <2>3 DEF Passed
    <3>2. Turn(f, funding[f][n])
      BY <2>1, <2>3, <3>1 DEF PaidOnce
    <3>3. funding[f][n] \in rich \cup recycled
      BY <2>1, <2>3 DEF PaidIsRich
    <3>4. QED
      BY <3>1, <3>2, <3>3 DEF Turn
  <2>6. \A n, m \in W : funding[f][n] = funding[f][m] => n = m
    BY <2>1, <2>3, <2>5 DEF PaidOnce
  <2>7. Cardinality(W) = Cardinality(Funds!Share(f))
    BY <2>4 DEF N
  <2>8. \E n \in W : list[i] = funding[f][n]
    <3>1. Covered(funding[f], W, list, Funds!Share(f))
      BY <2>5 DEF Covered
    <3>2. Covered(list, Funds!Share(f), funding[f], W)
      BY <1>6, <2>6, <2>7, <3>1, EachIsPaid
    <3>3. QED
      BY <1>8, <3>2 DEF Covered
  <2>9. QED
    BY <2>5, <2>8
<1>9. Vouched'
  BY <1>2, <1>4, <1>8 DEF Vouched
<1>10. QED
  BY <1>1, <1>2, <1>5, <1>7, <1>9, RoundKept

(* The chain takes the next transaction of a faucet.                         *)
LEMMA MineFunds ==
  ASSUME FundsInv, NEW f \in Funds!Faucets, Funds!Mine(f)
  PROVE  FundsInv'
<1> DEFINE k == funded[f]
           b == funding[f][k]
<1>1. Lists' /\ Enough'
  BY ListsStay DEF FundsInv
<1>2. /\ UNCHANGED <<counter, funding, late, made, fundingAt, mode, list, at, start, waited,
                     vouched, intruder, recycled, fundRuns>>
      /\ k < FaucetNonces /\ b # Funds!None
      /\ funded' = [funded EXCEPT ![f] = k + 1]
      /\ rich' = rich \cup ({b} \ {Funds!Traffic})
  BY DEF Funds!Mine, Funds!keeping, Funds!round
<1>3. FundTypes /\ Passed /\ Strays /\ Aligned /\ Vouched /\ Lists /\ Budget /\ Rounds
  BY DEF FundsInv
<1>4. k \in 0..FaucetNonces /\ k \in Nat /\ k + 1 \in 0..FaucetNonces
  <2>1. k \in 0..FaucetNonces
    BY <1>3 DEF FundTypes
  <2> HIDE DEF k
  <2>2. QED
    BY <1>2, <2>1, FundKinds
<1>5. b \in Values
  <2>1. funding \in [Funds!Faucets -> [0..FaucetNonces -> Values]]
    BY <1>3 DEF FundTypes
  <2>2. QED
    BY <1>4, <2>1
<1>6. /\ funded' \in [Funds!Faucets -> 0..FaucetNonces]
      /\ funded'[f] = k + 1 /\ \A g \in Funds!Faucets : g # f => funded'[g] = funded[g]
  <2>1. funded \in [Funds!Faucets -> 0..FaucetNonces]
    BY <1>3 DEF FundTypes
  <2> HIDE DEF k
  <2>2. QED
    BY <1>2, <1>4, <2>1
<1>7. rich' \subseteq Funds!Accounts /\ rich \subseteq rich'
  <2>1. rich \subseteq Funds!Accounts
    BY <1>3 DEF FundTypes
  <2>2. b \in Funds!Accounts \/ b = Funds!Traffic
    BY <1>2, <1>5 DEF Values
  <2> HIDE DEF b
  <2>3. QED
    BY <1>2, <2>1, <2>2
<1>8. FundTypes'
  BY <1>2, <1>3, <1>6, <1>7, Zenon DEF FundTypes
<1>9. ASSUME NEW n \in Nat PROVE n < k + 1 <=> n < k \/ n = k
  BY <1>4
<1>10. \A n \in 0..FaucetNonces : n \in Nat
  BY FundKinds
<1>11. Passed'
  <2> SUFFICES ASSUME NEW g \in Funds!Faucets, NEW n \in 0..FaucetNonces, n < funded'[g]
               PROVE  funding[g][n] # Funds!None
    BY <1>2 DEF Passed, Funds!None
  <2>1. CASE g = f
    <3>1. n < k \/ n = k
      BY <1>6, <1>9, <1>10, <2>1
    <3>2. QED
      BY <1>2, <1>3, <2>1, <3>1 DEF Passed
  <2>2. CASE g # f
    BY <1>3, <1>6, <2>2 DEF Passed
  <2>3. QED
    BY <2>1, <2>2
<1>12. Budget' /\ Strays' /\ Aligned'
  BY <1>2, <1>3 DEF Budget, Rest, Funds!Share, Strays, Aligned
<1>13. Vouched'
  BY <1>2, <1>3, <1>7 DEF Vouched
<1>14. Rounds'
  <2> SUFFICES ASSUME fundingAt \in {"send", "wait"}, NEW g \in Funds!Faucets
               PROVE  /\ start'[g] <= counter'[g]
                      /\ g \notin intruder' => PaidOnce(g)' /\ LateOnce(g)' /\ PaidIsRich(g)'
    BY <1>2 DEF Rounds
  <2>1. start'[g] <= counter'[g]
    BY <1>2, <1>3 DEF Rounds
  <2>2. ASSUME g \notin intruder' PROVE PaidOnce(g)' /\ LateOnce(g)' /\ PaidIsRich(g)'
    <3>1. PaidOnce(g) /\ LateOnce(g) /\ PaidIsRich(g)
      BY <1>2, <1>3, <2>2 DEF Rounds
    <3>2. /\ Window(g)' = Window(g) /\ Ours(g)' = Ours(g)
          /\ \A a : Turn(g, a) => Turn(g, a)'
          /\ Window(g) \subseteq 0..FaucetNonces
      BY <1>2 DEF Window, Ours, Turn, Funds!Share
    <3>3. PaidOnce(g)'
      BY <1>2, <3>1, <3>2 DEF PaidOnce
    <3>4. LateOnce(g)'
      BY <1>2, <3>1, <3>2 DEF LateOnce
    <3>5. ASSUME NEW n \in Window(g), n < funded'[g]
          PROVE  funding[g][n] \in rich' \cup recycled'
      <4>1. CASE n < funded[g]
        BY <1>2, <1>7, <3>1, <4>1 DEF PaidIsRich
      <4>2. CASE g = f /\ n = k
        <5>1. Turn(f, b)
          BY <1>2, <3>1, <3>5, <4>2 DEF PaidOnce
        <5>2. \E i \in Funds!Share(f) : b = list[i]
          BY <5>1 DEF Turn
        <5>3. b \in Funds!Accounts
          BY <1>3, <5>2, ListedAccount DEF FundTypes, Funds!Share
        <5>4. b # Funds!Traffic
          BY <5>3, FundKinds
        <5>5. b \in rich'
          BY <1>2, <5>4
        <5>6. QED
          BY <4>2, <5>5
      <4>3. QED
        BY <1>6, <1>9, <1>10, <3>2, <3>5, <4>1, <4>2
    <3>6. PaidIsRich(g)'
      BY <1>2, <3>2, <3>5 DEF PaidIsRich
    <3>7. QED
      BY <3>3, <3>4, <3>6
  <2>3. QED
    BY <2>1, <2>2
<1>15. QED
  BY <1>1, <1>8, <1>11, <1>12, <1>13, <1>14 DEF FundsInv

(* A send reaches the builder, or finds that its nonce is taken.             *)
LEMMA ArriveFunds ==
  ASSUME FundsInv, NEW s \in late, Funds!Arrive(s)
  PROVE  FundsInv'
<1> DEFINE f == s.faucet
           k == s.nonce
           b == s.to
<1>1. Lists' /\ Enough'
  BY ListsStay DEF FundsInv
<1>2. /\ UNCHANGED <<counter, funded, rich, made, fundingAt, mode, list, at, start, waited,
                     vouched, recycled, fundRuns>>
      /\ late' = late \ {s}
  BY DEF Funds!Arrive, Funds!keeping
<1>3. \/ /\ Funds!Free(f, k) /\ funding' = [funding EXCEPT ![f][k] = b]
         /\ intruder' = IF s.of = <<fundRuns, mode>> THEN intruder ELSE intruder \cup {f}
      \/ UNCHANGED <<funding, intruder>>
  BY DEF Funds!Arrive, Funds!Put
<1>4. FundTypes /\ Passed /\ Strays /\ Aligned /\ Vouched /\ Lists /\ Budget /\ Rounds
  BY DEF FundsInv
<1>5. f \in Funds!Faucets /\ k \in 0..FaucetNonces /\ b \in Funds!Accounts
  BY <1>4 DEF FundTypes, OnTheWay
<1>6. b \in Values /\ b # Funds!None
  <2>1. b # Funds!None
    BY <1>5, FundKinds
  <2>2. QED
    BY <1>5, <2>1 DEF Values
<1> HIDE DEF f, k, b
<1>7. /\ funding' \in [Funds!Faucets -> [0..FaucetNonces -> Values]]
      /\ \A g \in Funds!Faucets : g # f => funding'[g] = funding[g]
      /\ \A n \in 0..FaucetNonces : funding'[f][n] = funding[f][n] \/ funding'[f][n] = b
  <2>1. funding \in [Funds!Faucets -> [0..FaucetNonces -> Values]]
    BY <1>4 DEF FundTypes
  <2>2. funding' = [funding EXCEPT ![f][k] = b] \/ funding' = funding
    BY <1>3
  <2>3. [funding[f] EXCEPT ![k] = b] \in [0..FaucetNonces -> Values]
    BY <1>5, <1>6, <2>1
  <2>4. CASE funding' = [funding EXCEPT ![f][k] = b]
    <3>1. funding' = [funding EXCEPT ![f] = [funding[f] EXCEPT ![k] = b]]
      BY <2>1, <2>4
    <3>2. /\ funding' \in [Funds!Faucets -> [0..FaucetNonces -> Values]]
          /\ funding'[f] = [funding[f] EXCEPT ![k] = b]
          /\ \A g \in Funds!Faucets : g # f => funding'[g] = funding[g]
      BY <1>5, <2>1, <2>3, <3>1
    <3>3. \A n \in 0..FaucetNonces : funding'[f][n] = funding[f][n] \/ funding'[f][n] = b
      BY <1>5, <2>1, <3>2
    <3>4. QED
      BY <3>2, <3>3
  <2>5. CASE funding' = funding
    BY <2>1, <2>5
  <2>6. QED
    BY <2>2, <2>4, <2>5
<1>8. late' \subseteq late /\ late' \subseteq OnTheWay
  BY <1>2, <1>4 DEF FundTypes
<1>9. FundTypes'
  BY <1>2, <1>4, <1>7, <1>8, Zenon DEF FundTypes
<1>10. Passed'
  BY <1>2, <1>4, <1>6, <1>7 DEF Passed
<1>11. Budget' /\ Strays' /\ Aligned' /\ Vouched'
  BY <1>2, <1>4, <1>8 DEF Budget, Rest, Funds!Share, Strays, Aligned, Vouched
<1>12. Rounds'
  <2> SUFFICES ASSUME fundingAt \in {"send", "wait"}, NEW g \in Funds!Faucets
               PROVE  /\ start'[g] <= counter'[g]
                      /\ g \notin intruder' => PaidOnce(g)' /\ LateOnce(g)' /\ PaidIsRich(g)'
    BY <1>2 DEF Rounds
  <2>1. start'[g] <= counter'[g]
    BY <1>2, <1>4 DEF Rounds
  <2>2. ASSUME g \notin intruder' PROVE PaidOnce(g)' /\ LateOnce(g)' /\ PaidIsRich(g)'
    <3>1. intruder \subseteq intruder'
      BY <1>3
    <3>2. PaidOnce(g) /\ LateOnce(g) /\ PaidIsRich(g)
      BY <1>4, <2>2, <3>1 DEF Rounds
    <3>3. /\ Ours(g)' \subseteq Ours(g)
          /\ \A a : Turn(g, a) => Turn(g, a)'
          /\ rich \cup recycled \subseteq rich' \cup recycled'
      BY <1>2 DEF Ours, Turn, Funds!Share
    <3>4. CASE funding'[g] = funding[g]
      BY <1>2, <3>2, <3>3, <3>4, PaidKept
    <3>5. CASE g = f /\ Funds!Free(f, k) /\ funding' = [funding EXCEPT ![f][k] = b]
               /\ s.of = <<fundRuns, mode>>
      <4>1. s \in Ours(f)
        BY <3>5 DEF Ours, f
      <4>2. Turn(f, b)' /\ \A n \in Window(f) : funding[f][n] # b
        BY <3>2, <3>3, <3>5, <4>1 DEF LateOnce, b
      <4>3. \A t \in Ours(f)' : t.to # b
        <5>1. \A t \in Ours(f)' : t \in Ours(f) /\ t # s
          BY <1>2, <3>3, <3>5 DEF Ours
        <5>2. QED
          BY <3>2, <3>5, <4>1, <5>1 DEF LateOnce, b
      <4>4. funding[f][k] = Funds!None /\ ~(k < funded[f])
        <5>1. 0..FaucetNonces \subseteq Nat
          BY FundKinds
        <5>2. funded[f] \in Nat /\ k \in Nat
          BY <1>4, <1>5, <5>1 DEF FundTypes
        <5>3. k >= funded[f] /\ funding[f][k] = Funds!None
          BY <3>5, Zenon DEF Funds!Free
        <5>4. QED
          BY <5>2, <5>3
      <4>5. QED
        BY <1>2, <1>4, <1>5, <1>6, <3>2, <3>3, <3>5, <4>2, <4>3, <4>4, PaidMore
    <3>6. QED
      <4>1. g # f => funding'[g] = funding[g]
        BY <1>7
      <4>2. CASE g = f /\ Funds!Free(f, k) /\ funding' = [funding EXCEPT ![f][k] = b]
                 /\ intruder' = IF s.of = <<fundRuns, mode>> THEN intruder ELSE intruder \cup {f}
        <5>1. s.of = <<fundRuns, mode>>
          BY <2>2, <4>2
        <5>2. QED
          BY <3>5, <4>2, <5>1
      <4>3. QED
        BY <1>3, <3>4, <4>1, <4>2
  <2>3. QED
    BY <2>1, <2>2
<1>13. QED
  BY <1>1, <1>9, <1>10, <1>11, <1>12 DEF FundsInv

(* A run spends what its accounts have, and a reset takes it back.           *)
LEMMA RunFunds ==
  ASSUME FundsInv, NEW spent, NEW busy, busy \subseteq Funds!Faucets, Funds!Run(spent, busy),
         Lists', Enough'
  PROVE  FundsInv'
<1>1. PICK view \in [Funds!Faucets -> 0..FaucetNonces] :
        /\ \A f \in busy : view[f] < FaucetNonces /\ Funds!Free(f, view[f])
        /\ counter' = [f \in Funds!Faucets |-> view[f] + (IF f \in busy THEN 1 ELSE 0)]
        /\ funding' = [f \in Funds!Faucets |->
                         IF f \in busy THEN [funding[f] EXCEPT ![view[f]] = Funds!Traffic]
                         ELSE funding[f]]
  BY DEF Funds!Run
<1>2. /\ UNCHANGED <<funded, late, made, mode, list, at, start, waited, intruder, recycled, fundRuns>>
      /\ fundingAt' = "idle" /\ vouched' = {} /\ rich' \subseteq rich
  BY DEF Funds!Run, Funds!round
<1>3. FundTypes /\ Passed /\ Strays
  BY DEF FundsInv
<1>4. counter' \in [Funds!Faucets -> 0..FaucetNonces]
  <2>1. ASSUME NEW f \in Funds!Faucets
        PROVE  view[f] + (IF f \in busy THEN 1 ELSE 0) \in 0..FaucetNonces
    <3>1. view[f] \in 0..FaucetNonces /\ (f \in busy => view[f] < FaucetNonces) /\ FaucetNonces \in Nat
      BY <1>1, FundKinds
    <3>2. QED
      BY <3>1
  <2>2. QED
    BY <1>1, <2>1
<1>5. ASSUME NEW f \in Funds!Faucets
      PROVE  /\ funding'[f] \in [0..FaucetNonces -> Values]
             /\ \A n \in 0..FaucetNonces : funding'[f][n] = funding[f][n] \/ funding'[f][n] = Funds!Traffic
  <2>1. funding[f] \in [0..FaucetNonces -> Values]
    BY <1>3 DEF FundTypes
  <2>2. Funds!Traffic \in Values /\ view[f] \in 0..FaucetNonces
    BY <1>1 DEF Values
  <2>3. \/ funding'[f] = [funding[f] EXCEPT ![view[f]] = Funds!Traffic]
        \/ funding'[f] = funding[f]
    BY <1>1
  <2>4. QED
    BY <2>1, <2>2, <2>3
<1>6. funding' \in [Funds!Faucets -> [0..FaucetNonces -> Values]]
  <2>1. DOMAIN funding' = Funds!Faucets /\ funding' = [f \in Funds!Faucets |-> funding'[f]]
    BY <1>1
  <2>2. QED
    BY <1>5, <2>1, Zenon
<1>7. FundTypes'
  <2>1. fundingAt' \in FundPlaces /\ rich' \subseteq Funds!Accounts /\ vouched' \subseteq Funds!Accounts
    BY <1>2, <1>3 DEF FundPlaces, FundTypes
  <2>2. QED
    BY <1>2, <1>3, <1>4, <1>6, <2>1, Zenon DEF FundTypes
<1>8. Passed'
  <2>1. Funds!Traffic # Funds!None
    BY FundKinds
  <2>2. QED
    BY <1>2, <1>3, <1>5, <2>1 DEF Passed
<1>9. Budget' /\ Rounds' /\ Vouched'
  BY <1>2 DEF Budget, Rounds, Vouched
<1>10. Strays' /\ Aligned'
  <2>1. fundingAt' \notin Early \cup FundRounds
    BY <1>2 DEF Early, FundRounds
  <2>2. QED
    BY <1>2, <1>3, <2>1, IdleStrays
<1>11. QED
  BY <1>7, <1>8, <1>9, <1>10 DEF FundsInv

LEMMA RecycleFunds ==
  ASSUME FundsInv, NEW back, Funds!RecycleFunds(back), Lists', Enough'
  PROVE  FundsInv'
<1>1. /\ UNCHANGED <<counter, funding, funded, late, made, fundingAt, mode, list, at, start, waited,
                     vouched, intruder, fundRuns>>
      /\ rich' = rich \ back /\ recycled' = recycled \cup back
  BY DEF Funds!RecycleFunds, Funds!round
<1>2. FundTypes /\ Passed /\ Strays /\ Aligned /\ Vouched /\ Budget /\ Rounds
  BY DEF FundsInv
<1>3. FundTypes'
  <2>1. rich' \subseteq Funds!Accounts
    BY <1>1, <1>2 DEF FundTypes
  <2>2. QED
    BY <1>1, <1>2, <2>1, Zenon DEF FundTypes
<1>4. Passed' /\ Budget' /\ Strays' /\ Aligned' /\ Vouched'
  BY <1>1, <1>2 DEF Passed, Budget, Rest, Funds!Share, Strays, Aligned, Vouched
<1>5. ASSUME NEW f, PaidOnce(f), LateOnce(f), PaidIsRich(f)
      PROVE  PaidOnce(f)' /\ LateOnce(f)' /\ PaidIsRich(f)'
  <2>1. Window(f)' = Window(f) /\ Ours(f)' = Ours(f) /\ \A a : Turn(f, a) => Turn(f, a)'
    BY <1>1 DEF Window, Ours, Turn, Funds!Share
  <2>2. rich \cup recycled \subseteq rich' \cup recycled'
    BY <1>1
  <2>3. PaidOnce(f)'
    BY <1>1, <1>5, <2>1 DEF PaidOnce
  <2>4. LateOnce(f)'
    BY <1>1, <1>5, <2>1 DEF LateOnce
  <2>5. PaidIsRich(f)'
    BY <1>1, <1>5, <2>1, <2>2 DEF PaidIsRich
  <2>6. QED
    BY <2>3, <2>4, <2>5
<1>6. Rounds'
  BY <1>1, <1>2, <1>5 DEF Rounds
<1>7. QED
  BY <1>3, <1>4, <1>6 DEF FundsInv

LEMMA FundsBegin ==
  ASSUME Funds!Init PROVE FundsInv
<1>1. Lists /\ Enough
  BY ListsBegin
<1>2. /\ counter = [f \in Funds!Faucets |-> 0] /\ funded = [f \in Funds!Faucets |-> 0]
      /\ funding = [f \in Funds!Faucets |-> [n \in 0..FaucetNonces |-> Funds!None]]
      /\ rich = {} /\ late = {} /\ made = 0 /\ fundingAt = "idle" /\ mode = "cold"
      /\ at = [f \in Funds!Faucets |-> 1] /\ start = [f \in Funds!Faucets |-> 0]
      /\ waited = [f \in Funds!Faucets |-> ""] /\ vouched = {} /\ fundRuns = 0
  BY DEF Funds!Init
<1>3. 0 \in 0..FaucetNonces /\ 0 <= MaxAccounts /\ Funds!None \in Values
  BY FundKinds DEF Values
<1>4. /\ fundingAt \in FundPlaces /\ mode \in {"refund", "new", "cold"}
      /\ waited \in [Funds!Faucets -> {"", "confirmed", "gave up"}]
  BY <1>2 DEF FundPlaces
<1>5. /\ counter \in [Funds!Faucets -> 0..FaucetNonces] /\ funded \in [Funds!Faucets -> 0..FaucetNonces]
      /\ start \in [Funds!Faucets -> 0..FaucetNonces] /\ at \in [Funds!Faucets -> Nat]
      /\ funding \in [Funds!Faucets -> [0..FaucetNonces -> Values]]
  BY <1>2, <1>3
<1>6. /\ late \subseteq OnTheWay /\ rich \subseteq Funds!Accounts /\ vouched \subseteq Funds!Accounts
      /\ made <= MaxAccounts /\ fundRuns \in Nat
  BY <1>2, <1>3
<1>7. FundTypes
  BY <1>4, <1>5, <1>6, Zenon DEF FundTypes
<1>8. Passed
  <2>1. \A n \in 0..FaucetNonces : ~(n < 0)
    BY FundKinds
  <2>2. QED
    BY <1>2, <2>1 DEF Passed
<1>9. Budget /\ Strays /\ Aligned /\ Rounds /\ Vouched
  BY <1>2 DEF Budget, Strays, Aligned, Rounds, Vouched
<1>10. QED
  BY <1>1, <1>7, <1>8, <1>9 DEF FundsInv

LEMMA FundsStep ==
  ASSUME FundsInv, Funds!Next
  PROVE  FundsInv'
<1>0. Lists' /\ Enough'
  BY ListsStep DEF FundsInv
<1>1. CASE \E f \in Funds!Faucets : Funds!Mine(f)
  BY <1>1, MineFunds
<1>2. CASE \E s \in late : Funds!Arrive(s)
  BY <1>2, ArriveFunds
<1>3. CASE \E n \in Needs : Funds!StartRun(n)
  BY <1>3, StartRunFunds
<1>4. CASE \E seen \in SUBSET (rich \cap Funds!ToSet(cachedAccounts)), ok \in BOOLEAN :
             Funds!tryWarmStart(seen, ok)
  BY <1>4, WarmFunds
<1>5. CASE \E ok \in BOOLEAN : Funds!Cold(ok)
  BY <1>5, ColdFunds
<1>6. CASE Funds!Gasless \/ Funds!Sync \/ Funds!SyncFailed
  BY <1>6, GaslessFunds, SyncFunds, SyncFailedFunds
<1>7. CASE \E f \in Funds!Faucets, o \in {"accepted", "lost", "refused", "late"} :
             Funds!fundAccountFast(f, o)
  BY <1>7, SendFunds
<1>8. CASE Funds!AllSent \/ Funds!Waited \/ \E f \in Funds!Faucets : Funds!GaveUp(f)
  BY <1>8, WaitFunds
<1>9. CASE \E f \in Funds!Faucets : Funds!Confirmed(f)
  BY <1>9, ConfirmedFunds
<1>10. CASE Funds!AfterRefund
  BY <1>10, AfterRefundFunds
<1>11. CASE Funds!LoadFailed \/ Funds!AfterNew \/ Funds!AfterCold \/ Funds!Set \/ Funds!Fail
  BY <1>11, EndingsFunds
<1>12. CASE \E spent \in SUBSET (Funds!ToSet(dynAccounts) \cap rich), busy \in SUBSET Funds!Faucets :
              Funds!Run(spent, busy)
  BY <1>0, <1>12, RunFunds
<1>13. CASE \E back \in SUBSET (Funds!ToSet(dynAccounts) \cap rich) : Funds!RecycleFunds(back)
  BY <1>0, <1>13, RecycleFunds
<1>14. QED
  BY <1>1, <1>2, <1>3, <1>4, <1>5, <1>6, <1>7, <1>8, <1>9, <1>10, <1>11, <1>12, <1>13, Zenon
     DEF Funds!Next

LEMMA FundsStutter ==
  ASSUME FundsInv, UNCHANGED fundVars
  PROVE  FundsInv'
<1>1. UNCHANGED <<counter, funding, funded, rich, late, cachedAccounts, dynAccounts, made, fundingAt,
                  mode, need, kept, list, at, start, waited, vouched, intruder, recycled, fundRuns>>
  BY DEF fundVars
<1>2. Lists' /\ Enough'
  BY <1>1 DEF FundsInv, Lists, Enough
<1>3. FundTypes' /\ Passed' /\ Strays' /\ Aligned' /\ Vouched' /\ Budget'
  BY <1>1 DEF FundsInv, FundTypes, Passed, Strays, Aligned, Vouched, Budget, Rest, Funds!Share
<1>4. Rounds'
  BY <1>1 DEF FundsInv, Rounds, PaidOnce, LateOnce, PaidIsRich, Window, Ours, Turn, Funds!Share
<1>5. QED
  BY <1>2, <1>3, <1>4 DEF FundsInv

LEMMA FundsTypes ==
  ASSUME FundsInv PROVE Funds!TypeOK
<1>1. FundTypes /\ Lists
  BY DEF FundsInv
<1>2. made \in Nat /\ made <= MaxAccounts /\ MaxAccounts \in Nat
  BY <1>1, FundKinds DEF FundTypes, Lists
<1>3. /\ Named(cachedAccounts, made) /\ Named(dynAccounts, made)
      /\ Named(kept, made) /\ Named(list, made)
  BY <1>1 DEF Lists
<1>4. Funds!ToSet(cachedAccounts) \cup Funds!ToSet(dynAccounts) \cup Funds!ToSet(kept)
        \cup Funds!ToSet(list) \subseteq Funds!Accounts
  BY <1>2, <1>3, ToSetNamed
<1>5. made \in 0..MaxAccounts
  BY <1>2
<1>6. \A f \in Funds!Faucets : funding[f] \in [0..FaucetNonces -> {Funds!None, Funds!Traffic} \cup Funds!Accounts]
  BY <1>1, Zenon DEF FundTypes, Values
<1>7. fundingAt \in {"idle", "warm", "cold", "gasless", "sync", "not funded", "send", "wait",
                     "funded", "set", "done", "failed"}
  BY <1>1, Zenon DEF FundTypes, FundPlaces
<1>8. QED
  BY <1>1, <1>4, <1>5, <1>6, <1>7, Zenon DEF FundTypes, Funds!TypeOK

LEMMA FundsSuffice ==
  ASSUME FundsInv PROVE Funds!ConfirmedMeansFunded
<1>1. vouched \ recycled \subseteq rich
  BY DEF FundsInv, Vouched
<1>2. fundingAt = "done" => Len(dynAccounts) = need
  BY DEF FundsInv, Enough
<1>3. Funds!IsInjective(dynAccounts)
  BY DEF FundsInv, Lists, Named, Distinct, Funds!IsInjective
<1>4. QED
  BY <1>1, <1>2, <1>3 DEF Funds!ConfirmedMeansFunded

-----------------------------------------------------------------------------
(* Deployment.  Its state.                                                   *)
Known    == Addresses \cup {Nowhere}
PoolTxs  == {"createPool", "initialize", "liquidity"}
SentTxs  == [what : Contracts \cup PoolTxs, on : Known, dud : BOOLEAN]
PoolSteps == {"none", "created", "ready", "liquid"}
DeployPlaces == {"idle", "restore", "cached accounts", "cached nonces", "begin", "step", "sent",
                 "accounts", "nonces", "save", "running"}

DeployTypes ==
  /\ mined \in 0..MaxNonce /\ nonce \in 0..MaxNonce /\ startNonce \in 0..MaxNonce
  /\ slot \in [Addresses -> SentTxs \cup {None}] /\ pools \in [Addresses -> PoolSteps]
  /\ \A a \in DOMAIN swapper : swapper[a] \in Known
  /\ baseOK \in BOOLEAN /\ uniOK \in BOOLEAN
  /\ base \in [ToSet(Base) -> Known] /\ uni \in [ToSet(Uniswap) -> Known]
  /\ cache \in [Names -> Known] /\ older \subseteq Cached(Names)
  /\ ready \subseteq rows /\ rows \subseteq Dynamic /\ dyn \subseteq Dynamic
  /\ pc \in DeployPlaces /\ prog \in {"base", "uni"} /\ step \in Nat /\ got \in Seq(Addresses)

(* The chain skips no nonce, and a pool whose last transaction succeeded has *)
(* liquidity.                                                                *)
ChainOK ==
  /\ \A n \in Addresses : n < mined => slot[n] # None
  /\ \A n \in Addresses : slot[n].what \in PoolTxs => slot[n].on \in Addresses
  /\ \A n \in Addresses : n < mined /\ slot[n].what = "liquidity" /\ ~slot[n].dud =>
       pools[slot[n].on] = "liquid"

(* What memory and cache say is there.                                       *)
Trusty == ~stale /\ ~foreign

Standing(where, S) == \A c \in S : Code(where[c]) = c
Funded(a) == blind \/ pools[a] = "liquid"

BaseOK == baseOK /\ Trusty => Standing(base, ToSet(Base))
UniOK  == uniOK /\ Trusty => Standing(uni, ToSet(Uniswap)) /\ Funded(uni["Factory"])
NewRows == {c \in Contracts \ older : cache[c] # Nowhere}
RowsOK == Trusty => /\ Standing(cache, NewRows)
                    /\ "Factory" \in NewRows => Funded(cache["Factory"])

(* Where ensureContractsDeployed is, and what it relies on there.            *)
WayOK ==
  /\ pc = "running" => (kind # "transfer" => baseOK) /\ (kind = "swap" => uniOK)
  /\ pc \in {"cached accounts", "cached nonces"} => baseOK /\ uniOK
  /\ pc \in {"accounts", "nonces"} => uniOK
  /\ pc \in {"begin", "step", "sent", "save"} /\ prog = "base" => (kind = "swap" => uniOK)
  /\ pc \in {"begin", "step", "sent"} /\ prog = "uni" => ~uniOK
  /\ pc = "save" => prog = "base"

(* A deployment that began where nothing was taken: nobody else sends, so    *)
(* nothing is beyond its own transactions, and each contract it has is the   *)
(* one of that step.                                                         *)
ContractsOf(p) == IF p = "base" THEN Base ELSE Uniswap
Least2(m, n)   == IF m <= n THEN m ELSE n

GotOK ==
  /\ pc \in {"step", "sent"} => /\ step \in 1..Len(Steps)
                                /\ Len(got) = Least2(step - 1, Len(ContractsOf(prog)))
  /\ pc = "save" => Len(got) = Len(Base)
  /\ pc \in {"step", "sent", "save"} /\ ~stale => \A i \in 1..Len(got) : Code(got[i]) = ContractsOf(prog)[i]

PoolOK ==
  pc \in {"step", "sent"} /\ prog = "uni" /\ step > Len(Uniswap) =>
    /\ \A c \in ToSet(Uniswap) : uni[c] \in Addresses
    /\ ~stale => Standing(uni, ToSet(Uniswap))

SentOK ==
  pc = "sent" => /\ nonce \in Addresses /\ slot[nonce].what = Item
                 /\ Item \notin Contracts => slot[nonce].on = uni["Factory"]

AheadOK ==
  /\ pc = "step" /\ ~stale /\ step <= Len(ContractsOf(prog)) =>
       \A m \in Addresses : m >= startNonce + step - 1 => slot[m] = None
  /\ pc = "sent" /\ ~stale /\ step <= Len(ContractsOf(prog)) =>
       \A m \in Addresses : m >= startNonce + step => slot[m] = None

DeployInv ==
  /\ DeployTypes /\ ChainOK /\ BaseOK /\ UniOK /\ RowsOK
  /\ WayOK /\ GotOK /\ PoolOK /\ SentOK /\ AheadOK

LEMMA DeployConstants ==
  /\ Base \in Seq(ToSet(Base)) /\ Len(Base) \in Nat /\ Len(Base) >= 1 /\ ToSet(Base) \subseteq Contracts
  /\ Uniswap \in Seq(ToSet(Uniswap)) /\ Len(Uniswap) \in Nat /\ ToSet(Uniswap) \subseteq Contracts
  /\ "WETH9" \in ToSet(Uniswap) /\ "Factory" \in ToSet(Uniswap)
  /\ Contracts \cap (PoolTxs \cup {"none"}) = {} /\ Contracts \subseteq Names /\ "Pool" \notin Contracts
  /\ "Factory" \notin ToSet(Base) /\ MaxNonce \in Nat
<1>1. Base \in Seq(ToSet(Base)) /\ Uniswap \in Seq(ToSet(Uniswap)) /\ Base # <<>>
  BY DeploymentAssumption
<1>2. Len(Base) \in Nat /\ Len(Base) >= 1 /\ Len(Uniswap) \in Nat
  BY <1>1
<1>3. ToSet(Base) \subseteq Contracts /\ ToSet(Uniswap) \subseteq Contracts /\ Contracts \subseteq Names
  BY DEF Contracts, Names
<1>4. "WETH9" \in ToSet(Uniswap) /\ "Factory" \in ToSet(Uniswap)
  BY DeploymentAssumption, Zenon
<1>5. Contracts \cap (PoolTxs \cup {"none"}) = {}
  BY DeploymentAssumption, Zenon DEF PoolTxs
<1>6. MaxNonce \in Nat
  BY DeploymentAssumption, Zenon
<1>7. "Pool" \notin Contracts
  BY DeploymentAssumption, Zenon
<1>8. ToSet(Base) \cap ToSet(Uniswap) = {}
  BY DeploymentAssumption, Zenon
<1>9. "Factory" \notin ToSet(Base)
  BY <1>4, <1>8
<1>10. QED
  BY <1>1, <1>2, <1>3, <1>4, <1>5, <1>6, <1>7, <1>9

LEMMA DeployRanges ==
  /\ Addresses \subseteq Nat /\ Addresses \subseteq 0..MaxNonce /\ 0..MaxNonce \subseteq Nat
  /\ Nowhere \notin Addresses /\ \A n \in Nat : n < MaxNonce <=> n \in Addresses
BY DeployConstants DEF Addresses, Nowhere

(* The steps: the contracts, and for Uniswap three transactions more.        *)
LEMMA StepsShape ==
  ASSUME prog \in {"base", "uni"}
  PROVE  LET s == ContractsOf(prog) IN
         /\ s \in Seq(Contracts) /\ Len(s) \in Nat /\ Len(Steps) \in Nat
         /\ \A i \in 1..Len(s) : Steps[i] = s[i] /\ Steps[i] \in Contracts
         /\ \A i \in 1..Len(Steps) : i > Len(s) => prog = "uni" /\ Steps[i] \in PoolTxs
         /\ prog = "base" => Len(Steps) = Len(Base)
         /\ prog = "uni" => /\ Len(Steps) = Len(Uniswap) + 3
                            /\ Steps[Len(Uniswap) + 1] = "createPool"
                            /\ Steps[Len(Uniswap) + 2] = "initialize"
                            /\ Steps[Len(Uniswap) + 3] = "liquidity"
<1>1. /\ Base \in Seq(Contracts) /\ Uniswap \in Seq(Contracts)
      /\ Len(Base) \in Nat /\ Len(Uniswap) \in Nat
  BY DeployConstants
<1>2. CASE prog = "base"
  <2>1. Steps = Base /\ ContractsOf(prog) = Base
    BY <1>2 DEF Steps, ContractsOf
  <2>2. \A i \in 1..Len(Base) : Base[i] \in Contracts
    BY <1>1
  <2>3. prog # "uni"
    BY <1>2
  <2>4. QED
    BY <1>1, <2>1, <2>2, <2>3
<1>3. CASE prog = "uni"
  <2> DEFINE t == <<"createPool", "initialize", "liquidity">>
  <2>1. Steps = Uniswap \o t /\ ContractsOf(prog) = Uniswap
    BY <1>3 DEF Steps, ContractsOf
  <2>2. t \in Seq(PoolTxs) /\ Len(t) = 3 /\ t[1] = "createPool" /\ t[2] = "initialize" /\ t[3] = "liquidity"
    BY DEF PoolTxs
  <2> HIDE DEF t
  <2>3. Uniswap \in Seq(Contracts \cup PoolTxs) /\ t \in Seq(Contracts \cup PoolTxs)
    BY <1>1, <2>2
  <2>4. /\ Len(Uniswap \o t) = Len(Uniswap) + 3
        /\ \A i \in 1..Len(Uniswap) + 3 :
             (Uniswap \o t)[i] = IF i <= Len(Uniswap) THEN Uniswap[i] ELSE t[i - Len(Uniswap)]
    <3>1. /\ Len(Uniswap \o t) = Len(Uniswap) + Len(t)
          /\ \A i \in 1..Len(Uniswap) + Len(t) :
               (Uniswap \o t)[i] = IF i <= Len(Uniswap) THEN Uniswap[i] ELSE t[i - Len(Uniswap)]
      BY <2>3, ConcatProperties
    <3>2. QED
      BY <2>2, <3>1
  <2>5. Len(Steps) = Len(Uniswap) + 3
    BY <2>1, <2>4
  <2>6. \A i \in 1..Len(Uniswap) : Steps[i] = Uniswap[i] /\ Steps[i] \in Contracts
    <3>1. \A i \in 1..Len(Uniswap) : i \in 1..Len(Uniswap) + 3 /\ i <= Len(Uniswap) /\ Uniswap[i] \in Contracts
      BY <1>1
    <3>2. QED
      BY <2>1, <2>4, <3>1
  <2>7. \A j \in 1..3 : Steps[Len(Uniswap) + j] = t[j]
    <3>1. \A j \in 1..3 : /\ Len(Uniswap) + j \in 1..Len(Uniswap) + 3 /\ ~(Len(Uniswap) + j <= Len(Uniswap))
                          /\ Len(Uniswap) + j - Len(Uniswap) = j
      BY <1>1
    <3>2. QED
      BY <2>1, <2>4, <3>1
  <2>8. \A i \in 1..Len(Steps) : i > Len(Uniswap) => Steps[i] \in PoolTxs
    <3>1. ASSUME NEW i \in 1..Len(Steps), i > Len(Uniswap) PROVE Steps[i] \in PoolTxs
      <4>1. i - Len(Uniswap) \in 1..3 /\ i = Len(Uniswap) + (i - Len(Uniswap))
        BY <1>1, <2>5, <3>1
      <4>2. Steps[i] = t[i - Len(Uniswap)]
        BY <2>7, <4>1
      <4>3. \A j \in 1..3 : t[j] \in PoolTxs
        BY <2>2
      <4>4. QED
        BY <4>1, <4>2, <4>3
    <3>2. QED
      BY <3>1
  <2>9. prog # "base"
    BY <1>3
  <2>10. QED
    BY <1>1, <1>3, <2>1, <2>2, <2>5, <2>6, <2>7, <2>8, <2>9
<1>4. QED
  BY <1>2, <1>3

(* Code that is there stays, and so does a pool with liquidity.              *)
Grows ==
  /\ \A n \in Addresses : n < mined => n < mined' /\ slot'[n] = slot[n]
  /\ \A n \in Addresses : pools[n] = "liquid" => pools'[n] = "liquid"
  /\ (blind => blind') /\ (stale => stale') /\ (foreign => foreign')

LEMMA CodeStays ==
  ASSUME Grows, NEW a, NEW c \in Contracts, Code(a) = c
  PROVE  Code(a)' = c /\ a \in Addresses /\ (Funded(a) => Funded(a)')
<1>1. c # "none"
  BY DeployConstants
<1>2. a \in Addresses /\ a < mined /\ ~slot[a].dud /\ slot[a].what = c
  BY <1>1 DEF Code
<1>3. a < mined' /\ slot'[a] = slot[a] /\ (Funded(a) => Funded(a)')
  BY <1>2 DEF Grows, Funded
<1>4. QED
  BY <1>2, <1>3 DEF Code

LEMMA StandingStays ==
  ASSUME Grows, NEW w, NEW v, v = w, NEW S, S \subseteq Contracts, Standing(w, S)
  PROVE  Standing(v, S)'
<1>1. \A c \in S : Code(w[c])' = c
  BY CodeStays DEF Standing
<1>2. QED
  BY <1>1 DEF Standing

LEMMA BaseStays ==
  ASSUME BaseOK, Grows, UNCHANGED <<base, baseOK>>
  PROVE  BaseOK'
<1> SUFFICES ASSUME baseOK, Trusty', NEW c \in ToSet(Base) PROVE Code(base[c])' = c
  BY DEF BaseOK, Standing
<1>1. Trusty
  BY DEF Trusty, Grows
<1>2. PICK a : a = base[c]
  OBVIOUS
<1>3. Code(a) = c /\ c \in Contracts
  BY <1>1, <1>2, DeployConstants DEF BaseOK, Standing
<1>4. Code(a)' = c
  BY <1>3, CodeStays
<1>5. QED
  BY <1>2, <1>4 DEF Code

LEMMA UniStays ==
  ASSUME UniOK, Grows, UNCHANGED <<uni, uniOK>>
  PROVE  UniOK'
<1> SUFFICES ASSUME uniOK, Trusty'
             PROVE  /\ \A c \in ToSet(Uniswap) : Code(uni[c])' = c
                    /\ Funded(uni["Factory"])'
  BY DEF UniOK, Standing
<1>1. Trusty
  BY DEF Trusty, Grows
<1>2. ASSUME NEW c \in ToSet(Uniswap), NEW a, a = uni[c]
      PROVE  Code(a)' = c /\ a \in Addresses /\ (Funded(a) => Funded(a)')
  BY <1>1, <1>2, CodeStays, DeployConstants DEF UniOK, Standing
<1>3. \A c \in ToSet(Uniswap) : Code(uni[c])' = c
  BY <1>2 DEF Code
<1>4. Funded(uni["Factory"])'
  <2>1. PICK a : a = uni["Factory"]
    OBVIOUS
  <2>2. Funded(a)
    BY <1>1, <2>1 DEF UniOK
  <2>3. Funded(a)'
    BY <1>2, <2>1, <2>2, DeployConstants
  <2>4. QED
    BY <2>1, <2>3 DEF Funded
<1>5. QED
  BY <1>3, <1>4

(* Rows stay, or new ones are what is there.                                 *)
LEMMA RowsStay ==
  ASSUME RowsOK, Grows,
         Trusty' => \A c \in NewRows' : (c \in NewRows /\ cache'[c] = cache[c]) \/
                      (Code(cache[c])' = c /\ (c = "Factory" => Funded(cache[c])'))
  PROVE  RowsOK'
<1> SUFFICES ASSUME Trusty', NEW c \in NewRows'
             PROVE  Code(cache[c])' = c /\ (c = "Factory" => Funded(cache[c])')
  BY DEF RowsOK, Standing
<1>1. Trusty
  BY DEF Trusty, Grows
<1>2. CASE c \in NewRows /\ cache'[c] = cache[c]
  <2>1. PICK a : a = cache[c]
    OBVIOUS
  <2>2. Code(a) = c /\ c \in Contracts /\ (c = "Factory" => Funded(a))
    BY <1>1, <1>2, <2>1 DEF RowsOK, Standing, NewRows
  <2>3. Code(a)' = c /\ (c = "Factory" => Funded(a)')
    BY <2>2, CodeStays
  <2>4. QED
    BY <1>2, <2>1, <2>3 DEF Code, Funded
<1>3. QED
  BY <1>2

(* A cache that may have been wiped.                                         *)
LEMMA WipedRows ==
  ASSUME DeployInv, Grows, DeleteCachedContracts
  PROVE  cache' \in [Names -> Known] /\ older' \subseteq Cached(Names)' /\ RowsOK'
<1>1. DeployTypes /\ RowsOK
  BY DEF DeployInv
<1>2. CASE cache' = NoAddress(Names) /\ older' = {}
  <2>1. \A c \in Names : cache'[c] = Nowhere
    BY <1>2 DEF NoAddress
  <2>2. NewRows' = {}
    BY <2>1, DeployConstants DEF NewRows
  <2>3. RowsOK'
    BY <2>2 DEF RowsOK, Standing
  <2>4. QED
    BY <1>2, <2>3 DEF NoAddress, Known
<1>3. CASE UNCHANGED <<cache, older>>
  <2>1. NewRows' = NewRows /\ Cached(Names)' = Cached(Names)
    BY <1>3 DEF NewRows, Cached
  <2>2. RowsOK'
    BY <1>1, <1>3, <2>1, RowsStay
  <2>3. QED
    BY <1>1, <1>3, <2>1, <2>2 DEF DeployTypes
<1>4. QED
  BY <1>2, <1>3 DEF DeleteCachedContracts

(* A step that leaves chain and memory alone, and deploys nothing.           *)
LEMMA QuietStep ==
  ASSUME DeployInv, UNCHANGED <<slot, mined, pools, base, baseOK, uni, uniOK>>, DeleteCachedContracts,
         UNCHANGED <<stale, blind, foreign, step, startNonce, nonce, got>>,
         \A a \in DOMAIN swapper' : swapper'[a] \in Known,
         ready' \subseteq rows', rows' \subseteq Dynamic, dyn' \subseteq Dynamic,
         pc' \in DeployPlaces, pc' \notin {"step", "sent", "save"}, prog' \in {"base", "uni"},
         WayOK'
  PROVE  DeployInv'
<1>1. Grows
  <2>1. \A m \in Addresses : m < mined => m < mined' /\ slot'[m] = slot[m]
    OBVIOUS
  <2>2. QED
    BY <2>1 DEF Grows
<1>2. cache' \in [Names -> Known] /\ older' \subseteq Cached(Names)' /\ RowsOK'
  BY <1>1, WipedRows
<1>3. DeployTypes /\ ChainOK /\ BaseOK /\ UniOK
  BY DEF DeployInv
<1>4. DeployTypes'
  BY <1>2, <1>3 DEF DeployTypes
<1>5. ChainOK' /\ BaseOK' /\ UniOK'
  BY <1>1, <1>3, BaseStays, UniStays DEF ChainOK
<1>6. GotOK' /\ PoolOK' /\ SentOK' /\ AheadOK'
  BY DEF GotOK, PoolOK, SentOK, AheadOK
<1>7. QED
  BY <1>2, <1>4, <1>5, <1>6 DEF DeployInv

(* The accounts that are prepared remember where.                            *)
LEMMA SetupTypes ==
  ASSUME DeployTypes, NEW A, NEW D, SetupAccounts(A, D)
  PROVE  \A a \in DOMAIN swapper' : swapper'[a] \in Known
<1>1. uni["WETH9"] \in Known
  BY DeployConstants DEF DeployTypes
<1>2. \A a \in DOMAIN swapper : swapper[a] \in Known
  BY DEF DeployTypes
<1>3. swapper' = [a \in DOMAIN swapper |-> IF a \in A \cap D THEN uni["WETH9"] ELSE swapper[a]]
  BY DEF SetupAccounts
<1>4. QED
  BY <1>1, <1>2, <1>3

LEMMA StartRunKeeps ==
  ASSUME DeployInv, NEW k \in {"transfer", "token", "swap"}, NEW d \in SUBSET Dynamic,
         NEW saved \in BOOLEAN, NEW gone \in SUBSET rows, StartRun(k, d, saved, gone)
  PROVE  DeployInv'
<1>1. /\ UNCHANGED <<slot, mined, pools, base, baseOK, uni, uniOK>>
      /\ UNCHANGED <<stale, blind, foreign, step, startNonce, nonce, got>>
      /\ kind' = k /\ dyn' = d /\ DeleteCachedContracts
  BY DEF StartRun, memory, flaws, DeleteCachedContracts
<1>2. DeployTypes /\ WayOK
  BY DEF DeployInv
<1>3. ready' \subseteq rows' /\ rows' \subseteq Dynamic /\ dyn' \subseteq Dynamic
  <2> DEFINE written == IF saved THEN d ELSE {}
  <2>1. written \subseteq Dynamic /\ ready \subseteq rows /\ rows \subseteq Dynamic
    BY <1>2 DEF DeployTypes
  <2>2. rows' = (rows \ gone) \cup written /\ ready' = ready \ (gone \cup written)
    BY DEF StartRun
  <2> HIDE DEF written
  <2>3. QED
    BY <1>1, <2>1, <2>2
<1>4. \A a \in DOMAIN swapper' : swapper'[a] \in Known
  <2>1. \A a \in DOMAIN swapper : swapper[a] \in Known
    BY <1>2 DEF DeployTypes
  <2>2. swapper' = [a \in DOMAIN swapper |-> IF a \in d \ (rows \ gone) THEN Nowhere ELSE swapper[a]]
    BY DEF StartRun
  <2>3. QED
    BY <2>1, <2>2 DEF Known
<1>5. /\ pc' \in DeployPlaces /\ pc' \notin {"step", "sent", "save"} /\ prog' \in {"base", "uni"}
      /\ WayOK'
  <2>1. CASE (k = "transfer" \/ (baseOK /\ ~Needed(k))) /\ pc' = "running" /\ UNCHANGED prog
    BY <1>1, <1>2, <2>1 DEF DeployTypes, DeployPlaces, WayOK, Needed
  <2>2. CASE pc' = "restore" /\ UNCHANGED prog
    BY <1>1, <1>2, <2>2 DEF DeployTypes, DeployPlaces, WayOK
  <2>3. CASE Fresh
    BY <1>1, <1>2, <2>3 DEF DeployPlaces, WayOK, Fresh, Needed
  <2>4. QED
    BY <2>1, <2>2, <2>3 DEF StartRun
<1>6. QED
  BY <1>1, <1>3, <1>4, <1>5, QuietStep

LEMMA EndRunKeeps ==
  ASSUME DeployInv, EndRun \/ Fail
  PROVE  DeployInv'
<1>1. /\ UNCHANGED <<slot, mined, pools, base, baseOK, uni, uniOK>> /\ DeleteCachedContracts
      /\ UNCHANGED <<stale, blind, foreign, step, startNonce, nonce, got>>
      /\ UNCHANGED <<swapper, ready, rows, dyn, prog>> /\ pc' = "idle"
  BY DEF DeleteCachedContracts, EndRun, Fail, chain, memory, store, deploy, flaws
<1>2. DeployTypes
  BY DEF DeployInv
<1>3. \A a \in DOMAIN swapper' : swapper'[a] \in Known
  BY <1>1, <1>2 DEF DeployTypes
<1>4. ready' \subseteq rows' /\ rows' \subseteq Dynamic /\ dyn' \subseteq Dynamic
  BY <1>1, <1>2 DEF DeployTypes
<1>5. /\ pc' \in DeployPlaces /\ pc' \notin {"step", "sent", "save"} /\ prog' \in {"base", "uni"}
      /\ WayOK'
  BY <1>1, <1>2 DEF DeployTypes, DeployPlaces, WayOK
<1>6. QED
  BY <1>1, <1>3, <1>4, <1>5, QuietStep

LEMMA RestoreNothingKeeps ==
  ASSUME DeployInv, RestoreNothing
  PROVE  DeployInv'
<1>1. /\ UNCHANGED <<slot, mined, pools, base, baseOK, uni, uniOK>> /\ DeleteCachedContracts
      /\ UNCHANGED <<stale, blind, foreign, step, startNonce, nonce, got>>
      /\ UNCHANGED <<swapper, ready, rows, dyn, kind>> /\ Fresh
  BY DEF DeleteCachedContracts, RestoreNothing, chain, memory, store, flaws
<1>2. DeployTypes
  BY DEF DeployInv
<1>3. \A a \in DOMAIN swapper' : swapper'[a] \in Known
  BY <1>1, <1>2 DEF DeployTypes
<1>4. ready' \subseteq rows' /\ rows' \subseteq Dynamic /\ dyn' \subseteq Dynamic
  BY <1>1, <1>2 DEF DeployTypes
<1>5. /\ pc' \in DeployPlaces /\ pc' \notin {"step", "sent", "save"} /\ prog' \in {"base", "uni"}
      /\ WayOK'
  BY <1>1, <1>2 DEF DeployPlaces, WayOK, Fresh, Needed
<1>6. QED
  BY <1>1, <1>3, <1>4, <1>5, QuietStep

LEMMA CachedAccountsKeeps ==
  ASSUME DeployInv, NEW done, CachedAccounts(done)
  PROVE  DeployInv'
<1>1. /\ UNCHANGED <<slot, mined, pools, base, baseOK, uni, uniOK>> /\ DeleteCachedContracts
      /\ UNCHANGED <<stale, blind, foreign, step, startNonce, nonce, got>>
      /\ UNCHANGED <<ready, rows, dyn, kind, prog>> /\ pc = "cached accounts"
      /\ pc' = "running" \/ pc' = "cached nonces"
  BY DEF DeleteCachedContracts, CachedAccounts, memory, store, deploy, flaws
<1>2. DeployTypes /\ WayOK
  BY DEF DeployInv
<1>3. \A a \in DOMAIN swapper' : swapper'[a] \in Known
  BY <1>2, SetupTypes DEF CachedAccounts
<1>4. ready' \subseteq rows' /\ rows' \subseteq Dynamic /\ dyn' \subseteq Dynamic
  BY <1>1, <1>2 DEF DeployTypes
<1>5. /\ pc' \in DeployPlaces /\ pc' \notin {"step", "sent", "save"} /\ prog' \in {"base", "uni"}
      /\ WayOK'
  BY <1>1, <1>2 DEF DeployTypes, DeployPlaces, WayOK
<1>6. QED
  BY <1>1, <1>3, <1>4, <1>5, QuietStep

LEMMA CachedNoncesKeeps ==
  ASSUME DeployInv, CachedNonces
  PROVE  DeployInv'
<1>1. /\ UNCHANGED <<slot, mined, pools, base, baseOK, uni, uniOK>> /\ DeleteCachedContracts
      /\ UNCHANGED <<stale, blind, foreign, step, startNonce, nonce, got>>
      /\ UNCHANGED <<swapper, rows, dyn, kind, prog>> /\ pc = "cached nonces" /\ pc' = "running"
  BY DEF DeleteCachedContracts, CachedNonces, chain, memory, deploy, flaws
<1>2. DeployTypes /\ WayOK
  BY DEF DeployInv
<1>3. \A a \in DOMAIN swapper' : swapper'[a] \in Known
  BY <1>1, <1>2 DEF DeployTypes
<1>4. ready' \subseteq rows' /\ rows' \subseteq Dynamic /\ dyn' \subseteq Dynamic
  BY <1>1, <1>2 DEF DeployTypes, CachedNonces, Mark
<1>5. /\ pc' \in DeployPlaces /\ pc' \notin {"step", "sent", "save"} /\ prog' \in {"base", "uni"}
      /\ WayOK'
  BY <1>1, <1>2 DEF DeployTypes, DeployPlaces, WayOK
<1>6. QED
  BY <1>1, <1>3, <1>4, <1>5, QuietStep

LEMMA AccountsKeeps ==
  ASSUME DeployInv, NEW done, Accounts(done)
  PROVE  DeployInv'
<1>1. /\ UNCHANGED <<slot, mined, pools, base, baseOK, uni, uniOK>> /\ DeleteCachedContracts
      /\ UNCHANGED <<stale, blind, foreign, step, startNonce, nonce, got>>
      /\ UNCHANGED <<ready, rows, dyn, kind, prog>> /\ pc = "accounts"
      /\ pc' = "idle" \/ pc' = "nonces"
  BY DEF DeleteCachedContracts, Accounts, memory, store, deploy, flaws
<1>2. DeployTypes /\ WayOK
  BY DEF DeployInv
<1>3. \A a \in DOMAIN swapper' : swapper'[a] \in Known
  BY <1>2, SetupTypes DEF Accounts
<1>4. ready' \subseteq rows' /\ rows' \subseteq Dynamic /\ dyn' \subseteq Dynamic
  BY <1>1, <1>2 DEF DeployTypes
<1>5. /\ pc' \in DeployPlaces /\ pc' \notin {"step", "sent", "save"} /\ prog' \in {"base", "uni"}
      /\ WayOK'
  BY <1>1, <1>2 DEF DeployTypes, DeployPlaces, WayOK
<1>6. QED
  BY <1>1, <1>3, <1>4, <1>5, QuietStep

LEMMA TxKinds ==
  /\ \A x \in Contracts : x \notin PoolTxs /\ x # "none"
  /\ \A x \in PoolTxs : x \notin Contracts /\ x # "none"
<1>1. Contracts \cap (PoolTxs \cup {"none"}) = {}
  BY DeployConstants
<1>2. "none" \notin PoolTxs
  BY DEF PoolTxs
<1>3. QED
  BY <1>1, <1>2

LEMMA NotNone ==
  ASSUME NEW tx \in SentTxs PROVE tx # None /\ tx.what \in Contracts \cup PoolTxs /\ tx.dud \in BOOLEAN
<1>1. tx.what \in Contracts \cup PoolTxs /\ tx.dud \in BOOLEAN
  BY DEF SentTxs
<1>2. tx.what # "none"
  BY <1>1, TxKinds
<1>3. None.what = "none"
  BY DEF None
<1>4. QED
  BY <1>1, <1>2, <1>3

(* What a deployment has so far is not more than there are contracts.        *)
LEMMA GotShort ==
  ASSUME DeployInv, pc \in {"step", "sent", "save"}
  PROVE  /\ Len(got) \in Nat /\ Len(got) <= Len(ContractsOf(prog))
         /\ \A i \in 1..Len(got) : ContractsOf(prog)[i] \in Contracts
<1>1. DeployTypes /\ GotOK /\ WayOK
  BY DEF DeployInv
<1>2. prog \in {"base", "uni"} /\ step \in Nat /\ got \in Seq(Addresses)
  BY <1>1 DEF DeployTypes
<1>3. Len(got) \in Nat
  BY <1>2
<1>4. ContractsOf(prog) \in Seq(Contracts) /\ Len(ContractsOf(prog)) \in Nat
  BY <1>2, StepsShape
<1>5. Len(got) <= Len(ContractsOf(prog))
  <2>1. CASE pc = "save"
    <3>1. Len(got) = Len(Base) /\ prog = "base"
      BY <1>1, <2>1 DEF GotOK, WayOK
    <3>2. ContractsOf(prog) = Base
      BY <3>1 DEF ContractsOf
    <3>3. QED
      BY <1>3, <3>1, <3>2
  <2>2. CASE pc \in {"step", "sent"}
    <3>1. Len(got) = Least2(step - 1, Len(ContractsOf(prog)))
      BY <1>1, <2>2 DEF GotOK
    <3>2. QED
      BY <1>2, <1>4, <3>1 DEF Least2
  <2>3. QED
    BY <2>1, <2>2
<1>6. \A i \in 1..Len(got) : ContractsOf(prog)[i] \in Contracts
  <2> DEFINE s == ContractsOf(prog)
             m == Len(got)
  <2>1. s \in Seq(Contracts) /\ m \in Nat /\ m <= Len(s)
    BY <1>3, <1>4, <1>5
  <2> HIDE DEF s, m
  <2>2. \A i \in 1..m : s[i] \in Contracts
    BY <2>1
  <2>3. QED
    BY <2>2 DEF s, m
<1>7. QED
  BY <1>3, <1>5, <1>6

LEMMA CodesStay ==
  ASSUME Grows, NEW g, NEW s, \A i \in 1..Len(g) : s[i] \in Contracts,
         \A i \in 1..Len(g) : Code(g[i]) = s[i]
  PROVE  \A i \in 1..Len(g) : Code(g[i])' = s[i]
<1>1. SUFFICES ASSUME NEW i \in 1..Len(g) PROVE Code(g[i])' = s[i]
  OBVIOUS
<1>2. s[i] \in Contracts /\ Code(g[i]) = s[i]
  BY <1>1
<1>3. PICK a : a = g[i]
  OBVIOUS
<1>4. PICK c : c = s[i]
  OBVIOUS
<1>5. c \in Contracts /\ Code(a) = c
  BY <1>2, <1>3, <1>4
<1>6. Code(a)' = c
  BY <1>5, CodeStays
<1>7. QED
  BY <1>3, <1>4, <1>6 DEF Code

(* A deployment whose contracts stay where they are has what it had.         *)
LEMMA HandsStay ==
  ASSUME DeployInv, Grows, UNCHANGED <<got, prog, step, uni>>,
         pc' = pc \/ (pc = "step" /\ pc' \in {"sent", "idle"})
  PROVE  GotOK' /\ PoolOK'
<1>1. GotOK /\ PoolOK
  BY DEF DeployInv
<1>2. Steps' = Steps /\ ContractsOf(prog)' = ContractsOf(prog)
  BY DEF Steps, ContractsOf
<1>3. stale => stale'
  BY DEF Grows
<1>4. GotOK'
  <2>1. ASSUME pc' \in {"step", "sent"}
        PROVE  (step \in 1..Len(Steps))' /\ (Len(got) = Least2(step - 1, Len(ContractsOf(prog))))'
    <3>1. pc \in {"step", "sent"}
      BY <2>1
    <3>2. step \in 1..Len(Steps) /\ Len(got) = Least2(step - 1, Len(ContractsOf(prog)))
      BY <1>1, <3>1 DEF GotOK
    <3>3. QED
      BY <1>2, <3>2 DEF Least2
  <2>2. ASSUME pc' = "save" PROVE (Len(got) = Len(Base))'
    BY <1>1, <2>2 DEF GotOK
  <2>3. ASSUME pc' \in {"step", "sent", "save"}, ~stale'
        PROVE  (\A i \in 1..Len(got) : Code(got[i]) = ContractsOf(prog)[i])'
    <3>1. pc \in {"step", "sent", "save"} /\ ~stale
      BY <1>3, <2>3
    <3>2. \A i \in 1..Len(got) : Code(got[i]) = ContractsOf(prog)[i]
      BY <1>1, <3>1 DEF GotOK
    <3>3. \A i \in 1..Len(got) : ContractsOf(prog)[i] \in Contracts
      BY <3>1, GotShort
    <3>4. PICK g : g = got
      OBVIOUS
    <3>5. PICK s : s = ContractsOf(prog)
      OBVIOUS
    <3>6. (\A i \in 1..Len(g) : s[i] \in Contracts) /\ (\A i \in 1..Len(g) : Code(g[i]) = s[i])
      BY <3>2, <3>3, <3>4, <3>5
    <3>7. \A i \in 1..Len(g) : Code(g[i])' = s[i]
      BY <3>6, CodesStay, Zenon
    <3>8. g = got' /\ s = ContractsOf(prog)'
      BY <1>2, <3>4, <3>5
    <3>9. QED
      BY <3>7, <3>8 DEF Code
  <2>4. QED
    BY <2>1, <2>2, <2>3 DEF GotOK
<1>5. PoolOK'
  <2>1. SUFFICES ASSUME pc' \in {"step", "sent"}, prog' = "uni", step' > Len(Uniswap)
                 PROVE  /\ \A c \in ToSet(Uniswap) : uni'[c] \in Addresses
                        /\ ~stale' => Standing(uni, ToSet(Uniswap))'
    BY DEF PoolOK
  <2>2. pc \in {"step", "sent"} /\ prog = "uni" /\ step > Len(Uniswap)
    BY <2>1
  <2>3. /\ \A c \in ToSet(Uniswap) : uni[c] \in Addresses
        /\ ~stale => Standing(uni, ToSet(Uniswap))
    BY <1>1, <2>2 DEF PoolOK
  <2>4. ASSUME ~stale' PROVE Standing(uni, ToSet(Uniswap))'
    <3>1. Standing(uni, ToSet(Uniswap))
      BY <1>3, <2>3, <2>4
    <3>2. PICK w : w = uni
      OBVIOUS
    <3>3. Standing(w, ToSet(Uniswap)) /\ ToSet(Uniswap) \subseteq Contracts
      BY <3>1, <3>2, DeployConstants
    <3>4. Standing(w, ToSet(Uniswap))'
      BY <3>3, StandingStays
    <3>5. QED
      BY <3>2, <3>4 DEF Standing, Code
  <2>5. QED
    BY <2>3, <2>4
<1>6. QED
  BY <1>4, <1>5

-----------------------------------------------------------------------------
(* Memory and cache while the chain grows and nothing is read or written.    *)
LEMMA ClaimsStay ==
  ASSUME DeployInv, Grows, UNCHANGED <<base, baseOK, uni, uniOK, cache, older>>
  PROVE  BaseOK' /\ UniOK' /\ RowsOK'
<1>1. BaseOK /\ UniOK /\ RowsOK
  BY DEF DeployInv
<1>2. BaseOK'
  BY <1>1, BaseStays
<1>3. UniOK'
  BY <1>1, UniStays
<1>4. NewRows' = NewRows
  BY DEF NewRows
<1>5. RowsOK'
  BY <1>1, <1>4, RowsStay
<1>6. QED
  BY <1>2, <1>3, <1>5

LEMMA PoolGrows ==
  ASSUME NEW tx \in SentTxs, NEW v \in PoolSteps
  PROVE  /\ PoolAfter(tx, v) \in PoolSteps
         /\ v = "liquid" => PoolAfter(tx, v) = "liquid"
         /\ tx.what = "liquidity" /\ PoolAfter(tx, v) # v => PoolAfter(tx, v) = "liquid"
         /\ v # "none" => PoolAfter(tx, v) # "none"
<1>1. CASE tx.what = "createPool" /\ v = "none"
  BY <1>1 DEF PoolAfter, PoolSteps
<1>2. CASE tx.what = "initialize" /\ v = "created"
  BY <1>2 DEF PoolAfter, PoolSteps
<1>3. CASE tx.what = "liquidity" /\ v = "ready"
  BY <1>3 DEF PoolAfter, PoolSteps
<1>4. CASE /\ ~(tx.what = "createPool" /\ v = "none")
           /\ ~(tx.what = "initialize" /\ v = "created")
           /\ ~(tx.what = "liquidity" /\ v = "ready")
  <2>1. PoolAfter(tx, v) = v
    BY <1>4 DEF PoolAfter
  <2>2. QED
    BY <2>1
<1>5. QED
  BY <1>1, <1>2, <1>3, <1>4

(* The chain takes the next transaction.                                     *)
LEMMA ChainGoesOn ==
  ASSUME DeployInv, Mine
  PROVE  DeployInv'
<1> DEFINE tx   == slot[mined]
           fail == tx.dud \/ (tx.on # Nowhere /\ Reverts(tx))
<1>1. /\ UNCHANGED <<base, baseOK, uni, uniOK, cache, older, stale, blind, foreign>>
      /\ UNCHANGED <<swapper, rows, ready, pc, kind, dyn, prog, step, startNonce, nonce, got>>
  BY DEF Mine, memory, store, deploy, flaws
<1>2. DeployTypes /\ ChainOK /\ WayOK /\ SentOK /\ AheadOK
  BY DEF DeployInv
<1>3. /\ mined \in Nat /\ mined < MaxNonce /\ mined \in Addresses /\ mined' = mined + 1
      /\ mined' \in 0..MaxNonce
  BY <1>2, DeployRanges, DeployConstants DEF Mine, DeployTypes
<1>4. slot \in [Addresses -> SentTxs \cup {None}] /\ pools \in [Addresses -> PoolSteps]
  BY <1>2 DEF DeployTypes
<1>5. tx \in SentTxs /\ tx # None
  BY <1>3, <1>4 DEF Mine
<1>6. tx.what \in Contracts \cup PoolTxs /\ tx.dud \in BOOLEAN /\ tx.on \in Known
  BY <1>5 DEF SentTxs
<1>7. slot' = [slot EXCEPT ![mined] = [tx EXCEPT !.dud = fail]]
  BY DEF Mine
<1>8. fail \in BOOLEAN
  BY <1>6, Zenon
<1>9. /\ slot'[mined] \in SentTxs /\ slot'[mined].what = tx.what /\ slot'[mined].on = tx.on
      /\ slot'[mined].dud = fail
  <2> HIDE DEF fail
  <2>1. slot'[mined] = [tx EXCEPT !.dud = fail]
    BY <1>3, <1>4, <1>7
  <2>2. QED
    BY <1>5, <1>8, <2>1 DEF SentTxs
<1>10. \A n \in Addresses : n # mined => slot'[n] = slot[n]
  BY <1>3, <1>4, <1>7
<1>11. slot' \in [Addresses -> SentTxs \cup {None}]
  BY <1>3, <1>4, <1>7, <1>9, <1>10
<1>12. tx.what \in PoolTxs => tx.on \in Addresses
  BY <1>2, <1>3 DEF ChainOK
<1>13. /\ pools' \in [Addresses -> PoolSteps]
       /\ \A n \in Addresses : pools[n] = "liquid" => pools'[n] = "liquid"
       /\ tx.what = "liquidity" /\ ~fail => pools'[tx.on] = "liquid"
  <2>1. CASE tx.dud \/ tx.on = Nowhere
    <3>1. pools' = pools
      BY <2>1 DEF Mine
    <3>2. tx.what = "liquidity" => fail
      BY <1>12, <2>1, DeployRanges DEF PoolTxs
    <3>3. QED
      BY <1>4, <3>1, <3>2
  <2>2. CASE ~tx.dud /\ tx.on # Nowhere
    <3>1. tx.on \in Addresses
      BY <1>6, <2>2 DEF Known
    <3>2. pools' = [pools EXCEPT ![tx.on] = PoolAfter(tx, pools[tx.on])]
      BY <2>2 DEF Mine
    <3>3. pools[tx.on] \in PoolSteps
      BY <1>4, <3>1
    <3>4. /\ PoolAfter(tx, pools[tx.on]) \in PoolSteps
          /\ pools[tx.on] = "liquid" => PoolAfter(tx, pools[tx.on]) = "liquid"
          /\ tx.what = "liquidity" /\ PoolAfter(tx, pools[tx.on]) # pools[tx.on] =>
               PoolAfter(tx, pools[tx.on]) = "liquid"
      BY <1>5, <3>3, PoolGrows
    <3>5. tx.what = "liquidity" /\ ~fail => PoolAfter(tx, pools[tx.on]) # pools[tx.on]
      <4>1. "liquidity" \notin Contracts
        BY TxKinds DEF PoolTxs
      <4>2. QED
        BY <2>2, <4>1 DEF Reverts
    <3>6. pools'[tx.on] = PoolAfter(tx, pools[tx.on])
      BY <1>4, <3>1, <3>2
    <3> HIDE DEF fail
    <3>7. QED
      BY <1>4, <3>1, <3>2, <3>4, <3>5, <3>6
  <2>3. QED
    BY <2>1, <2>2
<1> HIDE DEF fail, tx
<1>14. Grows
  <2>1. \A n \in Addresses : n < mined => n < mined' /\ slot'[n] = slot[n]
    <3>1. mined \in Nat /\ mined' = mined + 1 /\ \A n \in Addresses : n \in Nat
      BY <1>3, DeployRanges
    <3>2. \A n \in Addresses : n < mined => n < mined' /\ n # mined
      BY <3>1
    <3>3. QED
      BY <1>10, <3>2
  <2>2. QED
    BY <1>1, <1>13, <2>1 DEF Grows
<1>15. DeployTypes'
  <2>1. Cached(Names)' = Cached(Names)
    BY <1>1 DEF Cached
  <2>2. QED
    BY <1>1, <1>2, <1>3, <1>11, <1>13, <2>1 DEF DeployTypes
<1>16. ChainOK'
  <2>1. ASSUME NEW n \in Addresses, n < mined' PROVE slot'[n] # None
    BY <1>2, <1>3, <1>9, <1>10, <2>1, DeployRanges, NotNone DEF ChainOK
  <2>2. ASSUME NEW n \in Addresses, slot'[n].what \in PoolTxs PROVE slot'[n].on \in Addresses
    BY <1>2, <1>9, <1>10, <1>12, <2>2 DEF ChainOK
  <2>3. ASSUME NEW n \in Addresses, n < mined', slot'[n].what = "liquidity", ~slot'[n].dud
        PROVE  pools'[slot'[n].on] = "liquid"
    <3>1. CASE n = mined
      BY <1>9, <1>13, <2>3, <3>1
    <3>2. CASE n # mined
      <4>1. slot'[n] = slot[n] /\ n < mined
        BY <1>3, <1>10, <2>3, <3>2, DeployRanges
      <4>2. pools[slot[n].on] = "liquid" /\ slot[n].on \in Addresses
        BY <1>2, <2>3, <4>1 DEF ChainOK, PoolTxs
      <4>3. QED
        BY <1>13, <4>1, <4>2
    <3>3. QED
      BY <3>1, <3>2
  <2>4. QED
    BY <2>1, <2>2, <2>3 DEF ChainOK
<1>17. BaseOK' /\ UniOK' /\ RowsOK'
  BY <1>1, <1>14, ClaimsStay
<1>18. WayOK'
  BY <1>1, <1>2 DEF WayOK
<1>19. GotOK' /\ PoolOK'
  BY <1>1, <1>14, HandsStay
<1>20. SentOK'
  <2>1. ASSUME pc = "sent"
        PROVE  /\ nonce \in Addresses /\ slot'[nonce].what = Item
               /\ Item \notin Contracts => slot'[nonce].on = uni["Factory"]
    <3>1. /\ nonce \in Addresses /\ slot[nonce].what = Item
          /\ Item \notin Contracts => slot[nonce].on = uni["Factory"]
      BY <1>2, <2>1 DEF SentOK
    <3>2. slot'[nonce].what = slot[nonce].what /\ slot'[nonce].on = slot[nonce].on
      BY <1>9, <1>10, <3>1 DEF tx
    <3>3. QED
      BY <3>1, <3>2
  <2>2. Item' = Item
    BY <1>1 DEF Item, Steps
  <2>3. QED
    BY <1>1, <2>1, <2>2 DEF SentOK
<1>21. AheadOK'
  <2>1. \A m \in Addresses : slot[m] = None => slot'[m] = None
    BY <1>5, <1>10 DEF tx
  <2>2. ContractsOf(prog)' = ContractsOf(prog)
    BY <1>1 DEF ContractsOf
  <2>3. QED
    BY <1>1, <1>2, <2>1, <2>2 DEF AheadOK
<1>22. QED
  BY <1>15, <1>16, <1>17, <1>18, <1>19, <1>20, <1>21 DEF DeployInv

-----------------------------------------------------------------------------
(* A deployment begins.                                                      *)
LEMMA NextFreeIs ==
  ASSUME DeployTypes
  PROVE  /\ NextFree \in 0..MaxNonce
         /\ \A t \in Addresses : t >= mined /\ slot[t] = None => NextFree <= t
<1> DEFINE F == {n \in 0..MaxNonce : n = MaxNonce \/ (n >= mined /\ slot[n] = None)}
<1>1. MaxNonce \in F
  BY DeployConstants
<1>2. F \in SUBSET Nat /\ F # {} /\ F \subseteq 0..MaxNonce
  BY <1>1, DeployRanges
<1>3. NextFree = Min(F)
  BY DEF NextFree
<1>4. \A t \in Addresses : t >= mined /\ slot[t] = None => t \in F
  BY DeployRanges
<1> HIDE DEF F
<1>5. \E x \in F : \A y \in F : x <= y
  BY <1>2, Least
<1>6. Min(F) \in F /\ \A y \in F : Min(F) <= y
  BY <1>5 DEF Min
<1>7. QED
  BY <1>2, <1>3, <1>4, <1>6

LEMMA DeploymentBegins ==
  ASSUME DeployInv, Begin
  PROVE  DeployInv'
<1>1. /\ UNCHANGED <<slot, mined, pools, base, baseOK, uni, uniOK, cache, older, blind, foreign>>
      /\ UNCHANGED <<swapper, rows, ready, kind, dyn, prog, nonce>>
      /\ pc = "begin" /\ pc' = "step" /\ step' = 1 /\ got' = <<>>
  BY DEF Begin, chain, memory, store
<1>2. DeployTypes /\ ChainOK /\ WayOK
  BY DEF DeployInv
<1>3. PICK n \in GetNonce : startNonce' = n /\ stale' = (stale \/ \E m \in n..MaxNonce - 1 : slot[m] # None)
  BY DEF Begin
<1>4. n \in 0..MaxNonce
  BY <1>2, <1>3, NextFreeIs DEF GetNonce, DeployTypes
<1>5. Grows
  <2>1. \A m \in Addresses : m < mined => m < mined' /\ slot'[m] = slot[m]
    BY <1>1
  <2>2. stale => stale'
    BY <1>3
  <2>3. QED
    BY <1>1, <2>1, <2>2 DEF Grows
<1>6. prog \in {"base", "uni"}
  BY <1>2 DEF DeployTypes
<1>7. DeployTypes'
  <2>1. Cached(Names)' = Cached(Names)
    BY <1>1 DEF Cached
  <2>2. got' \in Seq(Addresses) /\ step' \in Nat /\ startNonce' \in 0..MaxNonce
    BY <1>1, <1>3, <1>4
  <2>3. pc' \in DeployPlaces
    BY <1>1 DEF DeployPlaces
  <2>4. QED
    BY <1>1, <1>2, <2>1, <2>2, <2>3 DEF DeployTypes
<1>8. ChainOK'
  BY <1>1, <1>2 DEF ChainOK
<1>9. BaseOK' /\ UniOK' /\ RowsOK'
  BY <1>1, <1>5, ClaimsStay
<1>10. WayOK'
  BY <1>1, <1>2 DEF WayOK
<1>11. /\ Steps' = Steps /\ ContractsOf(prog)' = ContractsOf(prog)
       /\ Len(Steps) \in Nat /\ Len(ContractsOf(prog)) \in Nat
       /\ Len(Steps) >= 1 /\ Len(Uniswap) \in Nat /\ Len(Uniswap) >= 1
  <2>1. Steps' = Steps /\ ContractsOf(prog)' = ContractsOf(prog)
    BY <1>1 DEF Steps, ContractsOf
  <2>2. Uniswap \in Seq(ToSet(Uniswap)) /\ Len(Uniswap) \in Nat /\ Len(Base) \in Nat /\ Len(Base) >= 1
    BY DeployConstants
  <2>3. Len(Uniswap) # 0
    <3>1. SUFFICES ASSUME Len(Uniswap) = 0 PROVE FALSE
      OBVIOUS
    <3>2. Uniswap = <<>>
      BY <2>2, <3>1
    <3>3. ToSet(Uniswap) = {}
      BY <3>2 DEF ToSet
    <3>4. QED
      BY <3>3, DeployConstants
  <2>4. /\ Len(Steps) \in Nat /\ Len(ContractsOf(prog)) \in Nat
        /\ prog = "base" => Len(Steps) = Len(Base)
        /\ prog = "uni" => Len(Steps) = Len(Uniswap) + 3
    BY <1>6, StepsShape
  <2>5. QED
    BY <1>6, <2>1, <2>2, <2>3, <2>4
<1>12. GotOK'
  <2>1. Len(got') = 0
    BY <1>1
  <2>2. (step \in 1..Len(Steps))' /\ (Len(got) = Least2(step - 1, Len(ContractsOf(prog))))'
    BY <1>1, <1>11, <2>1 DEF Least2
  <2>3. \A i \in 1..Len(got') : FALSE
    BY <2>1
  <2>4. QED
    BY <1>1, <2>2, <2>3 DEF GotOK
<1>13. PoolOK'
  <2>1. ~(step' > Len(Uniswap))
    BY <1>1, <1>11
  <2>2. QED
    BY <2>1 DEF PoolOK
<1>14. SentOK'
  BY <1>1 DEF SentOK
<1>15. AheadOK'
  <2>1. ASSUME ~stale', NEW m \in Addresses, m >= startNonce' + step' - 1
        PROVE  slot'[m] = None
    <3>1. m >= n
      BY <1>1, <1>3, <1>4, <2>1, DeployRanges
    <3>2. m \in n..MaxNonce - 1
      BY <1>4, <2>1, <3>1, DeployConstants DEF Addresses
    <3>3. QED
      BY <1>1, <1>3, <2>1, <3>2
  <2>2. QED
    BY <1>1, <2>1 DEF AheadOK
<1>16. QED
  BY <1>7, <1>8, <1>9, <1>10, <1>12, <1>13, <1>14, <1>15 DEF DeployInv

-----------------------------------------------------------------------------
(* Where the step is: at a contract, or at the pool of Uniswap.              *)
LEMMA StepPlace ==
  ASSUME DeployInv, pc \in {"step", "sent"}
  PROVE  LET n == Len(ContractsOf(prog)) IN
         /\ n \in Nat /\ Len(Steps) \in Nat /\ step \in 1..Len(Steps)
         /\ Item \in Contracts => step <= n /\ Item = ContractsOf(prog)[step]
         /\ Item \notin Contracts => step > n /\ prog = "uni" /\ Item \in PoolTxs
         /\ Item \notin Contracts => (Item = "createPool" <=> step = n + 1)
         /\ Item \notin Contracts => (Item = "liquidity" <=> step = n + 3)
         /\ prog = "uni" => n = Len(Uniswap) /\ Len(Steps) = n + 3
         /\ prog = "base" => n = Len(Base) /\ Len(Steps) = n
<1> DEFINE n == Len(ContractsOf(prog))
<1>1. DeployTypes /\ GotOK
  BY DEF DeployInv
<1>2. prog \in {"base", "uni"}
  BY <1>1 DEF DeployTypes
<1>3. step \in 1..Len(Steps)
  BY <1>1 DEF GotOK
<1>4. /\ n \in Nat /\ Len(Steps) \in Nat
      /\ \A i \in 1..n : Steps[i] = ContractsOf(prog)[i] /\ Steps[i] \in Contracts
      /\ \A i \in 1..Len(Steps) : i > n => prog = "uni" /\ Steps[i] \in PoolTxs
      /\ prog = "base" => Len(Steps) = Len(Base)
      /\ prog = "uni" => /\ Len(Steps) = Len(Uniswap) + 3
                         /\ Steps[Len(Uniswap) + 1] = "createPool"
                         /\ Steps[Len(Uniswap) + 2] = "initialize"
                         /\ Steps[Len(Uniswap) + 3] = "liquidity"
  BY <1>2, StepsShape
<1>5. /\ prog = "uni" => ContractsOf(prog) = Uniswap
      /\ prog = "base" => ContractsOf(prog) = Base
  BY DEF ContractsOf
<1> HIDE DEF n
<1>6. step \in Nat /\ step >= 1 /\ step <= Len(Steps)
  BY <1>3, <1>4
<1>7. (prog = "uni" => n = Len(Uniswap) /\ Len(Steps) = n + 3) /\ (prog = "base" => n = Len(Base) /\ Len(Steps) = n)
  BY <1>4, <1>5 DEF n
<1>8. CASE step <= n
  <2>1. step \in 1..n
    BY <1>4, <1>6, <1>8
  <2>2. Item = ContractsOf(prog)[step] /\ Item \in Contracts
    BY <1>4, <2>1 DEF Item
  <2>3. QED
    BY <1>3, <1>4, <1>7, <1>8, <2>2 DEF n
<1>9. CASE step > n
  <2>1. Item \in PoolTxs /\ prog = "uni"
    BY <1>3, <1>4, <1>9 DEF Item
  <2>2. Item \notin Contracts
    BY <2>1, TxKinds
  <2>3. /\ Steps[n + 1] = "createPool" /\ Steps[n + 2] = "initialize" /\ Steps[n + 3] = "liquidity"
        /\ Len(Steps) = n + 3
    BY <1>4, <1>7, <2>1
  <2>4. step = n + 1 \/ step = n + 2 \/ step = n + 3
    BY <1>4, <1>6, <1>9, <2>3
  <2>5. (Item = "createPool" <=> step = n + 1) /\ (Item = "liquidity" <=> step = n + 3)
    <3>1. step = n + 1 => Item = "createPool"
      BY <2>3 DEF Item
    <3>2. step = n + 2 => Item = "initialize"
      BY <2>3 DEF Item
    <3>3. step = n + 3 => Item = "liquidity"
      BY <2>3 DEF Item
    <3>4. n + 1 # n + 2 /\ n + 1 # n + 3 /\ n + 2 # n + 3
      BY <1>4
    <3>5. QED
      BY <2>4, <3>1, <3>2, <3>3, <3>4
  <2>6. QED
    BY <1>3, <1>4, <1>7, <1>9, <2>1, <2>2, <2>5 DEF n
<1>10. QED
  BY <1>4, <1>6, <1>8, <1>9

(* What changes when a step is over.                                         *)
LEMMA OnwardTypes ==
  ASSUME DeployInv, pc \in {"step", "sent"}, NEW addr \in Addresses, Onward(addr)
  PROVE  /\ step' = step + 1 /\ step' \in Nat
         /\ got' = IF Item \in Contracts THEN Append(got, addr) ELSE got
         /\ got' \in Seq(Addresses)
         /\ Len(got') = Least2(step, Len(ContractsOf(prog)))
         /\ \A i \in 1..Len(got') : (i <= Len(got) /\ got'[i] = got[i]) \/
                                    (i = step /\ Item \in Contracts /\ got'[i] = addr)
<1> DEFINE n == Len(ContractsOf(prog))
<1>1. DeployTypes /\ GotOK
  BY DEF DeployInv
<1>2. /\ n \in Nat /\ Len(Steps) \in Nat /\ step \in 1..Len(Steps)
      /\ Item \in Contracts => step <= n
      /\ Item \notin Contracts => step > n
  BY StepPlace
<1>3. step' = step + 1 /\ got' = IF Item \in Contracts THEN Append(got, addr) ELSE got
  BY DEF Onward
<1>4. got \in Seq(Addresses) /\ Len(got) = Least2(step - 1, n)
  BY <1>1 DEF DeployTypes, GotOK
<1> HIDE DEF n
<1>5. step \in Nat
  BY <1>2
<1>6. CASE Item \in Contracts
  <2>1. step <= n
    BY <1>2, <1>6
  <2>2. Len(got) = step - 1 /\ Least2(step, n) = step
    BY <1>2, <1>4, <1>5, <2>1 DEF Least2
  <2>3. got' = Append(got, addr)
    BY <1>3, <1>6
  <2>4. /\ got' \in Seq(Addresses) /\ Len(got') = Len(got) + 1
        /\ \A i \in 1..Len(got) : got'[i] = got[i]
        /\ got'[Len(got) + 1] = addr
    BY <1>4, <2>3, AppendProperties
  <2>5. \A i \in 1..Len(got') : i = step \/ i \in 1..Len(got)
    BY <1>5, <2>2, <2>4
  <2>6. \A i \in 1..Len(got) : i <= Len(got)
    OBVIOUS
  <2>7. got'[step] = addr
    BY <1>5, <2>2, <2>4
  <2>8. QED
    BY <1>3, <1>5, <1>6, <2>2, <2>4, <2>5, <2>6, <2>7 DEF n
<1>7. CASE Item \notin Contracts
  <2>1. step > n
    BY <1>2, <1>7
  <2>2. Len(got) = n /\ Least2(step, n) = n
    BY <1>2, <1>4, <1>5, <2>1 DEF Least2
  <2>3. got' = got
    BY <1>3, <1>7
  <2>4. \A i \in 1..Len(got) : i <= Len(got)
    OBVIOUS
  <2>5. QED
    BY <1>3, <1>4, <1>5, <2>2, <2>3, <2>4 DEF n
<1>8. QED
  BY <1>6, <1>7

(* The addresses of the builder, once the last contract is there.            *)
LEMMA OnwardUni ==
  ASSUME DeployInv, pc \in {"step", "sent"}, NEW addr \in Addresses, Onward(addr),
         UNCHANGED <<slot, mined, prog, stale>>,
         ~stale /\ Item \in Contracts => Code(addr) = Item
  PROVE  /\ ~stale => \A i \in 1..Len(got') : Code(got'[i]) = ContractsOf(prog)[i]
         /\ prog = "uni" /\ step = Len(Uniswap) =>
              /\ uni' \in [ToSet(Uniswap) -> Addresses]
              /\ ~stale => \A c \in ToSet(Uniswap) : Code(uni'[c]) = c
         /\ ~(prog = "uni" /\ step = Len(Uniswap)) => uni' = uni
<1> DEFINE n == Len(ContractsOf(prog))
<1>1. /\ n \in Nat /\ step \in 1..Len(Steps) /\ Len(Steps) \in Nat
      /\ Item \in Contracts => step <= n /\ Item = ContractsOf(prog)[step]
      /\ Item \notin Contracts => step > n
      /\ prog = "uni" => n = Len(Uniswap)
  BY StepPlace
<1>2. /\ got' = IF Item \in Contracts THEN Append(got, addr) ELSE got
      /\ got' \in Seq(Addresses) /\ Len(got') = Least2(step, n)
      /\ \A i \in 1..Len(got') : (i <= Len(got) /\ got'[i] = got[i]) \/
                                 (i = step /\ Item \in Contracts /\ got'[i] = addr)
  BY OnwardTypes
<1>3. GotOK /\ Len(got) \in Nat
  BY GotShort DEF DeployInv
<1>4. ASSUME ~stale, NEW i \in 1..Len(got') PROVE Code(got'[i]) = ContractsOf(prog)[i]
  <2>1. CASE i <= Len(got) /\ got'[i] = got[i]
    <3>1. Len(got') \in Nat
      BY <1>2
    <3>2. i \in 1..Len(got)
      BY <1>3, <2>1, <3>1
    <3>3. QED
      BY <1>3, <1>4, <2>1, <3>2 DEF GotOK
  <2>2. CASE i = step /\ Item \in Contracts /\ got'[i] = addr
    BY <1>1, <1>4, <2>2
  <2>3. QED
    BY <1>2, <2>1, <2>2
<1>5. ASSUME prog = "uni", step = Len(Uniswap)
      PROVE  /\ uni' \in [ToSet(Uniswap) -> Addresses]
             /\ ~stale => \A c \in ToSet(Uniswap) : Code(uni'[c]) = c
  <2>1. n = Len(Uniswap) /\ ContractsOf(prog) = Uniswap
    BY <1>1, <1>5 DEF ContractsOf
  <2>2. Len(got') = Len(Uniswap)
    BY <1>1, <1>2, <1>5, <2>1 DEF Least2
  <2>3. uni' = [c \in ToSet(Uniswap) |-> got'[CHOOSE i \in 1..Len(Uniswap) : Uniswap[i] = c]]
    <3>1. uni' = [c \in ToSet(Uniswap) |->
             (IF Item \in Contracts THEN Append(got, addr) ELSE got)[CHOOSE i \in 1..Len(Uniswap) : Uniswap[i] = c]]
      BY <1>5 DEF Onward
    <3>2. QED
      BY <1>2, <3>1
  <2>4. ASSUME NEW c \in ToSet(Uniswap)
        PROVE  \E i \in 1..Len(Uniswap) : uni'[c] = got'[i] /\ Uniswap[i] = c
    <3>1. \E i \in 1..Len(Uniswap) : Uniswap[i] = c
      BY <2>4, DeployConstants DEF ToSet
    <3>2. PICK j : j = CHOOSE i \in 1..Len(Uniswap) : Uniswap[i] = c
      OBVIOUS
    <3>3. j \in 1..Len(Uniswap) /\ Uniswap[j] = c
      BY <3>1, <3>2
    <3>4. uni'[c] = got'[j]
      BY <2>3, <2>4, <3>2
    <3>5. QED
      BY <3>3, <3>4
  <2>5. \A i \in 1..Len(Uniswap) : got'[i] \in Addresses
    BY <1>2, <2>2
  <2>6. \A c \in ToSet(Uniswap) : uni'[c] \in Addresses
    BY <2>4, <2>5
  <2>7. uni' \in [ToSet(Uniswap) -> Addresses]
    BY <2>3, <2>6
  <2>8. ASSUME ~stale, NEW c \in ToSet(Uniswap) PROVE Code(uni'[c]) = c
    <3>1. PICK i \in 1..Len(Uniswap) : uni'[c] = got'[i] /\ Uniswap[i] = c
      BY <2>4, <2>8
    <3>2. Code(got'[i]) = Uniswap[i]
      BY <1>4, <2>1, <2>2, <2>8, <3>1
    <3>3. QED
      BY <3>1, <3>2
  <2>9. QED
    BY <2>7, <2>8
<1>6. ASSUME ~(prog = "uni" /\ step = Len(Uniswap)) PROVE uni' = uni
  BY <1>6 DEF Onward
<1>7. QED
  BY <1>4, <1>5, <1>6

LEMMA OnwardKeeps ==
  ASSUME DeployInv, pc \in {"step", "sent"}, NEW addr \in Addresses, Onward(addr),
         UNCHANGED <<slot, mined, pools, swapper, cache, older, rows, ready, kind, dyn, prog>>,
         UNCHANGED <<startNonce, nonce, stale, foreign>>, blind => blind',
         ~stale /\ Item \in Contracts => Code(addr) = Item,
         ~stale /\ Item \in Contracts => \A m \in Addresses : m >= startNonce + step => slot[m] = None,
         ~stale /\ Item = "liquidity" => blind' \/ pools[uni["Factory"]] = "liquid"
  PROVE  DeployInv'
<1> DEFINE n    == Len(ContractsOf(prog))
           last == step = Len(Steps)
<1>1. /\ UNCHANGED <<base, baseOK>> /\ uniOK' = (uniOK \/ (prog = "uni" /\ last))
      /\ pc' = (CASE ~last -> "step" [] last /\ prog = "uni" -> "accounts" [] OTHER -> "save")
  BY DEF Onward
<1>2. DeployTypes /\ ChainOK /\ BaseOK /\ UniOK /\ RowsOK /\ WayOK /\ PoolOK
  BY DEF DeployInv
<1>3. /\ n \in Nat /\ Len(Steps) \in Nat /\ step \in 1..Len(Steps)
      /\ Item \in Contracts => step <= n
      /\ Item \notin Contracts => step > n /\ prog = "uni"
      /\ Item \notin Contracts => (Item = "liquidity" <=> step = n + 3)
      /\ prog = "uni" => n = Len(Uniswap) /\ Len(Steps) = n + 3
      /\ prog = "base" => n = Len(Base) /\ Len(Steps) = n
  BY StepPlace
<1>4. /\ step' = step + 1 /\ step' \in Nat /\ got' \in Seq(Addresses) /\ Len(got') = Least2(step, n)
  BY OnwardTypes
<1>5. /\ ~stale => \A i \in 1..Len(got') : Code(got'[i]) = ContractsOf(prog)[i]
      /\ prog = "uni" /\ step = Len(Uniswap) =>
           /\ uni' \in [ToSet(Uniswap) -> Addresses]
           /\ ~stale => \A c \in ToSet(Uniswap) : Code(uni'[c]) = c
      /\ ~(prog = "uni" /\ step = Len(Uniswap)) => uni' = uni
  BY OnwardUni
<1>6. prog \in {"base", "uni"} /\ step \in Nat /\ step >= 1 /\ step <= Len(Steps)
  <2>1. prog \in {"base", "uni"}
    BY <1>2 DEF DeployTypes
  <2>2. QED
    BY <1>3, <2>1
<1>7. Steps' = Steps /\ ContractsOf(prog)' = ContractsOf(prog)
  BY DEF Steps, ContractsOf
<1> HIDE DEF n, last
<1>8. /\ pc' \in {"step", "accounts", "save"}
      /\ pc' = "step" => ~last
      /\ pc' = "save" => last /\ prog = "base"
      /\ pc' = "accounts" => last /\ prog = "uni"
  BY <1>1, <1>6
<1>9. Grows
  <2>1. \A m \in Addresses : m < mined => m < mined' /\ slot'[m] = slot[m]
    OBVIOUS
  <2>2. QED
    BY <2>1 DEF Grows
<1>10. DeployTypes'
  <2>1. Cached(Names)' = Cached(Names)
    BY DEF Cached
  <2>2. uni' \in [ToSet(Uniswap) -> Known]
    BY <1>2, <1>5 DEF DeployTypes, Known
  <2>3. pc' \in DeployPlaces
    BY <1>8 DEF DeployPlaces
  <2>4. QED
    BY <1>1, <1>2, <1>4, <2>1, <2>2, <2>3 DEF DeployTypes
<1>11. ChainOK'
  BY <1>2 DEF ChainOK
<1>12. BaseOK'
  BY <1>1, <1>2, <1>9, BaseStays
<1>13. RowsOK'
  <2>1. NewRows' = NewRows
    BY DEF NewRows
  <2>2. QED
    BY <1>2, <1>9, <2>1, RowsStay
<1>14. UniOK'
  <2>1. CASE prog = "base"
    <3>1. prog # "uni"
      BY <2>1
    <3>2. uni' = uni /\ uniOK' = uniOK
      BY <1>1, <1>2, <1>5, <3>1, Zenon DEF DeployTypes
    <3>3. QED
      BY <1>2, <1>9, <3>2, UniStays
  <2>2. CASE prog = "uni" /\ ~last
    <3>1. ~uniOK'
      BY <1>1, <1>2, <2>2 DEF WayOK
    <3>2. QED
      BY <3>1 DEF UniOK
  <2>3. CASE prog = "uni" /\ last
    <3>1. step = n + 3 /\ step > n /\ step # Len(Uniswap) /\ n = Len(Uniswap)
      BY <1>3, <1>6, <2>3 DEF last, n
    <3>2. Item \notin Contracts /\ Item = "liquidity"
      BY <1>3, <1>6, <3>1 DEF n
    <3>3. uni' = uni
      BY <1>5, <3>1
    <3>4. ~stale => Standing(uni, ToSet(Uniswap))
      BY <1>2, <2>3, <3>1 DEF PoolOK
    <3>5. ~stale => blind' \/ pools[uni["Factory"]] = "liquid"
      BY <3>2
    <3>6. Trusty' => ~stale
      BY DEF Trusty
    <3>7. QED
      BY <3>3, <3>4, <3>5, <3>6 DEF UniOK, Standing, Funded, Code
  <2>4. QED
    BY <1>6, <2>1, <2>2, <2>3
<1>15. WayOK'
  <2>1. CASE pc' = "step"
    <3>1. ~last
      BY <1>8, <2>1
    <3>2. uniOK' <=> uniOK
      BY <1>1, <3>1, Zenon
    <3>3. QED
      BY <1>2, <2>1, <3>2 DEF WayOK
  <2>2. CASE pc' = "accounts"
    <3>1. uniOK'
      BY <1>1, <1>8, <2>2
    <3>2. QED
      BY <2>2, <3>1 DEF WayOK
  <2>3. CASE pc' = "save"
    <3>1. prog = "base" /\ prog # "uni" /\ pc' = "save"
      BY <1>8, <2>3
    <3>2. uniOK' <=> uniOK
      BY <1>1, <3>1, Zenon
    <3>3. kind = "swap" => uniOK
      BY <1>2, <3>1 DEF WayOK
    <3>4. QED
      BY <3>1, <3>2, <3>3 DEF WayOK
  <2>4. QED
    BY <1>8, <2>1, <2>2, <2>3
<1>16. GotOK'
  <2>1. ASSUME pc' \in {"step", "sent"}
        PROVE  (step \in 1..Len(Steps))' /\ (Len(got) = Least2(step - 1, Len(ContractsOf(prog))))'
    <3>1. step # Len(Steps)
      BY <1>8, <2>1 DEF last
    <3>2. step' \in 1..Len(Steps)
      BY <1>3, <1>4, <1>6, <3>1
    <3>3. step' - 1 = step
      BY <1>4, <1>6
    <3>4. Len(got') = Least2(step' - 1, n)
      BY <1>4, <3>3
    <3>5. QED
      BY <1>7, <3>2, <3>4 DEF Least2, n
  <2>2. ASSUME pc' = "save" PROVE (Len(got) = Len(Base))'
    <3>1. step = n /\ n = Len(Base)
      BY <1>3, <1>8, <2>2 DEF last, n
    <3>2. QED
      BY <1>3, <1>4, <3>1 DEF Least2, n
  <2>3. ASSUME ~stale'
        PROVE  (\A i \in 1..Len(got) : Code(got[i]) = ContractsOf(prog)[i])'
    <3>1. \A i \in 1..Len(got') : Code(got'[i]) = ContractsOf(prog)[i]
      BY <1>5, <2>3
    <3>2. QED
      BY <1>7, <3>1 DEF Code
  <2>4. QED
    BY <2>1, <2>2, <2>3 DEF GotOK
<1>17. PoolOK'
  <2>1. SUFFICES ASSUME pc' = "step", prog = "uni", step' > Len(Uniswap)
                 PROVE  /\ \A c \in ToSet(Uniswap) : uni'[c] \in Addresses
                        /\ ~stale => \A c \in ToSet(Uniswap) : Code(uni'[c]) = c
    BY <1>8 DEF PoolOK, Standing, Code
  <2>2. CASE step = Len(Uniswap)
    BY <1>5, <2>1, <2>2
  <2>3. CASE step # Len(Uniswap)
    <3>1. step > Len(Uniswap)
      <4>1. Len(Uniswap) \in Nat
        BY DeployConstants
      <4>2. QED
        BY <1>4, <1>6, <2>1, <2>3, <4>1
    <3>2. uni' = uni
      BY <1>5, <2>3
    <3>3. /\ \A c \in ToSet(Uniswap) : uni[c] \in Addresses
          /\ ~stale => Standing(uni, ToSet(Uniswap))
      BY <1>2, <2>1, <3>1 DEF PoolOK
    <3>4. QED
      BY <3>2, <3>3 DEF Standing
  <2>4. QED
    BY <2>2, <2>3
<1>18. SentOK'
  BY <1>8 DEF SentOK
<1>19. AheadOK'
  <2>1. ASSUME pc' = "step", ~stale, step' <= n, NEW m \in Addresses, m >= startNonce + step' - 1
        PROVE  slot[m] = None
    <3>1. Item \in Contracts
      BY <1>3, <1>4, <1>6, <2>1 DEF n
    <3>2. startNonce \in Nat /\ m \in Nat
      BY <1>2, DeployRanges DEF DeployTypes
    <3>3. m >= startNonce + step
      BY <1>4, <1>6, <2>1, <3>2
    <3>4. QED
      BY <2>1, <3>1, <3>3
  <2>2. QED
    BY <1>7, <1>8, <2>1 DEF AheadOK, n
<1>20. QED
  BY <1>10, <1>11, <1>12, <1>13, <1>14, <1>15, <1>16, <1>17, <1>18, <1>19 DEF DeployInv

LEMMA SkipKeeps ==
  ASSUME DeployInv, Skip
  PROVE  DeployInv'
<1>1. /\ UNCHANGED <<slot, mined, pools, swapper, cache, older, rows, ready, kind, dyn, prog>>
      /\ UNCHANGED <<startNonce, nonce, stale, blind, foreign>> /\ pc = "step"
  BY DEF Skip, chain, store, flaws
<1>2. DeployTypes /\ WayOK /\ AheadOK /\ GotOK /\ PoolOK /\ ChainOK
  BY DEF DeployInv
<1> DEFINE n == Len(ContractsOf(prog))
<1>3. /\ n \in Nat /\ Len(Steps) \in Nat /\ step \in 1..Len(Steps)
      /\ Item \in Contracts => step <= n
      /\ Item \notin Contracts => step > n /\ prog = "uni"
      /\ Item \notin Contracts => (Item = "createPool" <=> step = n + 1)
      /\ prog = "uni" => n = Len(Uniswap) /\ Len(Steps) = n + 3
  BY <1>1, StepPlace
<1>4. CASE AlreadyDeployed
  <2> DEFINE addr == startNonce + step - 1
  <2>1. Item \in Contracts /\ Exists(addr) /\ Onward(addr)
    BY <1>4 DEF AlreadyDeployed
  <2>2. addr \in Addresses /\ slot[addr] # None
    <3>1. Code(addr) \in Contracts
      BY <2>1 DEF Exists
    <3>2. Code(addr) # "none"
      BY <3>1, TxKinds
    <3> HIDE DEF addr
    <3>3. addr \in Addresses /\ addr < mined
      BY <3>2 DEF Code
    <3>4. QED
      BY <1>2, <3>3 DEF ChainOK
  <2>3. addr >= startNonce + step - 1
    <3>1. startNonce \in Nat /\ step \in Nat
      BY <1>2, DeployRanges DEF DeployTypes
    <3>2. QED
      BY <3>1
  <2>4. stale
    BY <1>1, <1>2, <1>3, <2>1, <2>2, <2>3 DEF AheadOK
  <2>5. Item # "liquidity"
    BY <2>1, TxKinds DEF PoolTxs
  <2> HIDE DEF addr
  <2>6. QED
    BY <1>1, <2>1, <2>2, <2>4, OnwardKeeps
<1>5. CASE PoolIsThere
  <2>1. /\ Item = "createPool" /\ step' = step + 2 /\ got' = got /\ pc' = "step"
        /\ UNCHANGED <<base, baseOK, uni, uniOK>>
    BY <1>1, <1>5 DEF PoolIsThere, memory
  <2>2. Item \notin Contracts
    BY <2>1, TxKinds DEF PoolTxs
  <2>3. step = n + 1 /\ prog = "uni" /\ n = Len(Uniswap) /\ Len(Steps) = n + 3
    BY <1>3, <2>1, <2>2
  <2>4. Grows
    <3>1. \A m \in Addresses : m < mined => m < mined' /\ slot'[m] = slot[m]
      BY <1>1
    <3>2. QED
      BY <1>1, <3>1 DEF Grows
  <2>5. Steps' = Steps /\ ContractsOf(prog)' = ContractsOf(prog)
    BY <1>1 DEF Steps, ContractsOf
  <2>6. step' = n + 3 /\ step' \in Nat
    BY <1>3, <2>1, <2>3
  <2>7. DeployTypes'
    <3>1. Cached(Names)' = Cached(Names)
      BY <1>1 DEF Cached
    <3>2. QED
      BY <1>1, <1>2, <2>1, <2>6, <3>1 DEF DeployTypes
  <2>8. ChainOK'
    BY <1>1, <1>2 DEF ChainOK
  <2>9. BaseOK' /\ UniOK' /\ RowsOK'
    BY <1>1, <2>1, <2>4, ClaimsStay
  <2>10. WayOK'
    BY <1>1, <1>2, <2>1 DEF WayOK
  <2>11. GotOK'
    <3>1. Len(got) = Least2(step - 1, n)
      BY <1>1, <1>2 DEF GotOK
    <3>2. Len(got) = n /\ Least2(step' - 1, n) = n
      BY <1>3, <2>3, <2>6, <3>1 DEF Least2
    <3>3. step' \in 1..Len(Steps)
      BY <1>3, <2>3, <2>6
    <3>4. (step \in 1..Len(Steps))' /\ (Len(got) = Least2(step - 1, Len(ContractsOf(prog))))'
      BY <2>1, <2>5, <3>2, <3>3 DEF Least2
    <3>5. ~stale => \A i \in 1..Len(got) : Code(got[i]) = ContractsOf(prog)[i]
      BY <1>1, <1>2 DEF GotOK
    <3>6. ~stale' => (\A i \in 1..Len(got) : Code(got[i]) = ContractsOf(prog)[i])'
      BY <1>1, <2>1, <2>5, <3>5 DEF Code
    <3>7. QED
      BY <2>1, <3>4, <3>6 DEF GotOK
  <2>12. PoolOK'
    <3>1. step > Len(Uniswap)
      BY <1>3, <2>3
    <3>2. /\ \A c \in ToSet(Uniswap) : uni[c] \in Addresses
          /\ ~stale => Standing(uni, ToSet(Uniswap))
      BY <1>1, <1>2, <2>3, <3>1 DEF PoolOK
    <3>3. QED
      BY <1>1, <2>1, <3>2 DEF PoolOK, Standing, Code
  <2>13. SentOK'
    BY <2>1 DEF SentOK
  <2>14. AheadOK'
    <3>1. ~(step' <= n)
      BY <1>3, <2>6
    <3>2. QED
      BY <2>1, <2>5, <3>1 DEF AheadOK
  <2>15. QED
    BY <2>7, <2>8, <2>9, <2>10, <2>11, <2>12, <2>13, <2>14 DEF DeployInv
<1>6. QED
  BY <1>4, <1>5 DEF Skip

LEMMA ConfirmedKeeps ==
  ASSUME DeployInv, Confirmed
  PROVE  DeployInv'
<1>1. /\ UNCHANGED <<slot, mined, pools, swapper, cache, older, rows, ready, kind, dyn, prog>>
      /\ UNCHANGED <<startNonce, nonce, stale, foreign>> /\ pc = "sent" /\ mined > nonce
      /\ Onward(nonce)
  BY DEF Confirmed, chain, store
<1>2. DeployTypes /\ AheadOK /\ SentOK /\ ChainOK
  BY DEF DeployInv
<1>3. /\ nonce \in Addresses /\ slot[nonce].what = Item
      /\ Item \notin Contracts => slot[nonce].on = uni["Factory"]
  BY <1>1, <1>2 DEF SentOK
<1>4. nonce < mined
  <2>1. nonce \in Nat /\ mined \in Nat
    BY <1>2, DeployRanges DEF DeployTypes
  <2>2. QED
    BY <1>1, <2>1
<1>5. CASE waitForDeployment
  <2>1. Item \in Contracts /\ Code(nonce) \in Contracts /\ blind' = blind
    BY <1>5 DEF waitForDeployment, Exists
  <2>2. Code(nonce) # "none"
    BY <2>1, TxKinds
  <2>3. Code(nonce) = Item
    BY <1>3, <2>2 DEF Code
  <2>4. step <= Len(ContractsOf(prog))
    BY <1>1, <2>1, StepPlace
  <2>5. ~stale => \A m \in Addresses : m >= startNonce + step => slot[m] = None
    BY <1>1, <1>2, <2>4 DEF AheadOK
  <2>6. Item # "liquidity"
    BY <2>1, TxKinds DEF PoolTxs
  <2>7. QED
    BY <1>1, <1>3, <2>1, <2>3, <2>5, <2>6, OnwardKeeps
<1>6. CASE sendTxAndWaitForReceipt
  <2>1. Item \notin Contracts /\ blind' = (blind \/ slot[nonce].dud)
    BY <1>6 DEF sendTxAndWaitForReceipt
  <2>2. blind => blind'
    BY <2>1
  <2>3. Item = "liquidity" => blind' \/ pools[uni["Factory"]] = "liquid"
    <3>1. SUFFICES ASSUME Item = "liquidity", ~slot[nonce].dud PROVE pools[uni["Factory"]] = "liquid"
      BY <2>1
    <3>2. pools[slot[nonce].on] = "liquid"
      BY <1>2, <1>3, <1>4, <3>1 DEF ChainOK
    <3>3. QED
      BY <1>3, <2>1, <3>2
  <2>4. QED
    BY <1>1, <1>3, <2>1, <2>2, <2>3, OnwardKeeps
<1>7. QED
  BY <1>5, <1>6 DEF Confirmed

(* A transaction is sent.                                                    *)
LEMMA SendKeeps ==
  ASSUME DeployInv, NEW n \in Addresses, NEW dud \in BOOLEAN, NEW told \in BOOLEAN,
         Send(n, dud, told)
  PROVE  DeployInv'
<1> DEFINE tx == IF Item \in Contracts THEN deployContract(dud) ELSE callUniswap(dud)
<1>1. /\ UNCHANGED <<mined, pools, swapper, base, baseOK, uni, uniOK, cache, older, rows, ready>>
      /\ UNCHANGED <<kind, dyn, prog, step, startNonce, got, stale, blind, foreign>>
      /\ pc = "step" /\ pc' \in {"sent", "idle"} /\ nonce' = n
      /\ slot[n] = None /\ n >= mined /\ slot' = [slot EXCEPT ![n] = tx] /\ n \in NonceFor(Item)
  BY DEF Send, signAndSend, memory, store, flaws
<1>2. DeployTypes /\ ChainOK /\ WayOK /\ AheadOK /\ PoolOK
  BY DEF DeployInv
<1>3. slot \in [Addresses -> SentTxs \cup {None}]
  BY <1>2 DEF DeployTypes
<1>4. /\ step \in Nat
      /\ Item \in Contracts => step <= Len(ContractsOf(prog))
      /\ Item \notin Contracts => Item \in PoolTxs /\ prog = "uni" /\ step > Len(Uniswap)
  <2>1. step \in Nat
    BY <1>2 DEF DeployTypes
  <2>2. QED
    BY <1>1, <2>1, StepPlace
<1>5. /\ tx \in SentTxs /\ tx.what = Item
      /\ Item \notin Contracts => tx.on = uni["Factory"] /\ uni["Factory"] \in Addresses
  <2>1. CASE Item \in Contracts
    <3>1. tx = [what |-> Item, on |-> Nowhere, dud |-> dud]
      BY <2>1 DEF deployContract
    <3>2. QED
      BY <2>1, <3>1 DEF SentTxs, Known
  <2>2. CASE Item \notin Contracts
    <3>1. tx = [what |-> Item, on |-> uni["Factory"], dud |-> dud]
      BY <2>2 DEF callUniswap
    <3>2. uni["Factory"] \in Addresses
      BY <1>1, <1>2, <1>4, <2>2, DeployConstants DEF PoolOK
    <3>3. QED
      BY <1>4, <2>2, <3>1, <3>2 DEF SentTxs, Known
  <2>3. QED
    BY <2>1, <2>2
<1> HIDE DEF tx
<1>6. /\ slot' \in [Addresses -> SentTxs \cup {None}] /\ slot'[n] = tx
      /\ \A m \in Addresses : m # n => slot'[m] = slot[m]
  BY <1>1, <1>3, <1>5
<1>7. mined \in Nat /\ n \in Nat /\ ~(n < mined)
  <2>1. mined \in Nat /\ n \in Nat
    BY <1>2, DeployRanges DEF DeployTypes
  <2>2. QED
    BY <1>1, <2>1
<1>8. Grows
  <2>1. \A m \in Addresses : m < mined => m < mined' /\ slot'[m] = slot[m]
    BY <1>1, <1>6, <1>7
  <2>2. QED
    BY <1>1, <2>1 DEF Grows
<1>9. DeployTypes'
  <2>1. Cached(Names)' = Cached(Names)
    BY <1>1 DEF Cached
  <2>2. nonce' \in 0..MaxNonce
    BY <1>1, DeployRanges
  <2>3. pc' \in DeployPlaces
    BY <1>1 DEF DeployPlaces
  <2>4. QED
    BY <1>1, <1>2, <1>6, <2>1, <2>2, <2>3 DEF DeployTypes
<1>10. ChainOK'
  <2>1. ASSUME NEW m \in Addresses, slot'[m].what \in PoolTxs PROVE slot'[m].on \in Addresses
    BY <1>2, <1>5, <1>6, <2>1, TxKinds DEF ChainOK
  <2>2. \A m \in Addresses : m < mined => slot'[m] = slot[m]
    BY <1>6, <1>7
  <2>3. QED
    BY <1>1, <1>2, <2>1, <2>2 DEF ChainOK
<1>11. BaseOK' /\ UniOK' /\ RowsOK'
  BY <1>1, <1>8, ClaimsStay
<1>12. WayOK'
  BY <1>1, <1>2 DEF WayOK
<1>13. GotOK' /\ PoolOK'
  BY <1>1, <1>8, HandsStay
<1>14. Item' = Item /\ ContractsOf(prog)' = ContractsOf(prog)
  BY <1>1 DEF Item, Steps, ContractsOf
<1>15. SentOK'
  BY <1>1, <1>5, <1>6, <1>14 DEF SentOK
<1>16. AheadOK'
  <2>1. ASSUME ~stale, step <= Len(ContractsOf(prog)), NEW m \in Addresses, m >= startNonce + step
        PROVE  slot'[m] = None
    <3> DEFINE t == startNonce + step - 1
    <3>1. startNonce \in Nat /\ m \in Nat /\ step >= 1
      <4>1. startNonce \in Nat /\ m \in Nat
        BY <1>2, DeployRanges DEF DeployTypes
      <4>2. step \in 1..Len(Steps) /\ Len(Steps) \in Nat
        BY <1>1, StepPlace
      <4>3. QED
        BY <4>1, <4>2
    <3>2. t \in Nat /\ m > t
      BY <1>4, <2>1, <3>1
    <3>3. \A k \in Addresses : k >= t => slot[k] = None
      BY <1>1, <1>2, <2>1 DEF AheadOK
    <3> HIDE DEF t
    <3>4. n <= t
      <4>1. CASE t \notin Addresses
        <5>1. ~(t < MaxNonce) /\ n < MaxNonce
          BY <1>7, <3>2, <4>1, DeployRanges
        <5>2. QED
          BY <1>7, <3>2, <5>1, DeployConstants
      <4>2. CASE t \in Addresses
        <5>1. slot[t] = None
          <6>1. t >= t
            BY <3>2
          <6>2. QED
            BY <3>3, <4>2, <6>1
        <5>2. t >= mined
          <6>1. ~(t < mined)
            BY <1>2, <4>2, <5>1 DEF ChainOK
          <6>2. QED
            BY <1>7, <3>2, <6>1
        <5>3. n \in GetNonce
          <6>1. Item # "initialize"
            <7>1. /\ Len(ContractsOf(prog)) \in Nat
                  /\ Item \notin Contracts => step > Len(ContractsOf(prog))
              BY <1>1, StepPlace
            <7>2. Item \in Contracts
              BY <1>4, <2>1, <7>1
            <7>3. QED
              BY <7>2, TxKinds DEF PoolTxs
          <6>2. QED
            BY <1>1, <6>1 DEF NonceFor
        <5>4. NextFree <= t
          BY <1>2, <4>2, <5>1, <5>2, NextFreeIs
        <5>5. QED
          BY <5>2, <5>3, <5>4 DEF GetNonce
      <4>3. QED
        BY <4>1, <4>2
    <3>5. m # n /\ m >= t
      BY <1>7, <3>1, <3>2, <3>4
    <3>6. QED
      BY <1>6, <3>3, <3>5
  <2>2. QED
    BY <1>1, <1>14, <2>1 DEF AheadOK
<1>17. QED
  BY <1>9, <1>10, <1>11, <1>12, <1>13, <1>15, <1>16 DEF DeployInv

-----------------------------------------------------------------------------
(* The cache is read: what is restored is there, as far as it is of this     *)
(* chain.                                                                    *)
LEMMA RestoreKeeps ==
  ASSUME DeployInv, NEW told, Restore(told)
  PROVE  DeployInv'
<1> DEFINE valid == ValidateCachedContracts(told)
           Basic == /\ ~Needed(kind) /\ Trusted /\ baseOK' = TRUE /\ pc' = "running"
                    /\ UNCHANGED <<uni, uniOK, cache, older, kind, prog>>
           Lost  == baseOK' = FALSE /\ Wiped /\ UNCHANGED <<uni, uniOK, foreign>>
           Whole == /\ valid = Names /\ Trusted /\ baseOK' = TRUE /\ uniOK' = TRUE
                    /\ uni' = [c \in ToSet(Uniswap) |-> cache[c]]
                    /\ pc' = "cached accounts" /\ UNCHANGED <<cache, older, kind, prog>>
<1>1. /\ UNCHANGED <<slot, mined, pools, swapper, rows, ready, dyn>>
      /\ UNCHANGED <<step, startNonce, nonce, got, stale, blind>>
  BY DEF Restore, chain
<1>2. DeployTypes /\ ChainOK /\ BaseOK /\ UniOK /\ RowsOK /\ WayOK
  BY DEF DeployInv
<1>3. foreign => foreign'
  BY DEF Restore, Trusted
<1>4. Grows
  <2>1. \A m \in Addresses : m < mined => m < mined' /\ slot'[m] = slot[m]
    BY <1>1
  <2>2. QED
    BY <1>1, <1>3, <2>1 DEF Grows
<1>5. cache' \in [Names -> Known] /\ older' \subseteq Cached(Names)' /\ RowsOK'
  <2>1. DeleteCachedContracts
    BY DEF Restore, Wiped, DeleteCachedContracts
  <2>2. QED
    BY <1>4, <2>1, WipedRows
<1>6. ChainOK'
  BY <1>1, <1>2 DEF ChainOK
<1>7. /\ BaseOK' /\ UniOK' /\ WayOK' /\ pc' \in {"begin", "running", "cached accounts"}
      /\ prog' \in {"base", "uni"} /\ baseOK' \in BOOLEAN /\ uniOK' \in BOOLEAN
      /\ base' \in [ToSet(Base) -> Known] /\ uni' \in [ToSet(Uniswap) -> Known]
  <2>1. ASSUME Fresh, kind' = kind, UNCHANGED <<uni, uniOK>>
        PROVE  UniOK' /\ WayOK' /\ pc' = "begin" /\ prog' \in {"base", "uni"}
    <3>1. UniOK'
      BY <1>2, <1>4, <2>1, UniStays
    <3>2. pc' = "begin" /\ prog' \in {"base", "uni"}
      BY <2>1 DEF Fresh
    <3>3. WayOK'
      BY <2>1 DEF WayOK, Fresh, Needed
    <3>4. QED
      BY <3>1, <3>2, <3>3
  <2>2. CASE Wiped /\ UNCHANGED <<memory, foreign>>
    <3>1. UNCHANGED <<base, baseOK, uni, uniOK>> /\ Fresh /\ kind' = kind
      BY <2>2 DEF Wiped, memory
    <3>2. BaseOK'
      BY <1>2, <1>4, <3>1, BaseStays
    <3>3. QED
      BY <1>2, <2>1, <3>1, <3>2 DEF DeployTypes
  <2>3. CASE /\ valid = Cached(Names) /\ ToSet(Base) \subseteq valid
             /\ base' = [c \in ToSet(Base) |-> cache[c]] /\ (Basic \/ Lost \/ Whole)
    <3>1. cache \in [Names -> Known] /\ older \subseteq Cached(Names)
      BY <1>2 DEF DeployTypes
    <3>2. ToSet(Base) \subseteq Names /\ ToSet(Uniswap) \subseteq Names
      BY DeployConstants
    <3>3. base' \in [ToSet(Base) -> Known]
      BY <2>3, <3>1, <3>2
    <3>4. ASSUME Trusted, Trusty', NEW c \in Contracts, c \in valid
          PROVE  Code(cache[c]) = c /\ (c = "Factory" => Funded(cache[c]))
      <4>1. \A d \in older : checkContractExists(d)
        BY <2>3, <3>1 DEF ValidateCachedContracts
      <4>2. older = {}
        BY <3>4, <4>1 DEF Trusted, Trusty
      <4>3. c \in NewRows
        BY <2>3, <3>4, <4>2 DEF NewRows, Cached
      <4>4. Trusty
        BY <1>1, <1>3, <3>4 DEF Trusty
      <4>5. QED
        BY <1>2, <4>3, <4>4 DEF RowsOK, Standing
    <3>5. ASSUME Trusted, UNCHANGED <<cache, older>> PROVE BaseOK'
      <4>1. ASSUME Trusty', NEW c \in ToSet(Base) PROVE Code(base'[c]) = c
        BY <2>3, <3>4, <3>5, <4>1, DeployConstants
      <4>2. QED
        BY <1>1, <4>1 DEF BaseOK, Standing, Code
    <3>6. CASE Basic
      <4>1. UniOK'
        BY <1>2, <1>4, <3>6, UniStays
      <4>2. WayOK'
        BY <3>6 DEF WayOK, Needed
      <4>3. BaseOK'
        BY <3>5, <3>6
      <4>4. QED
        BY <1>2, <3>3, <3>6, <4>1, <4>2, <4>3 DEF DeployTypes
    <3>7. CASE Lost
      <4>1. BaseOK'
        BY <3>7 DEF BaseOK
      <4>2. Fresh /\ kind' = kind
        BY <3>7 DEF Wiped
      <4>3. QED
        BY <1>2, <2>1, <3>3, <3>7, <4>1, <4>2 DEF DeployTypes
    <3>8. CASE Whole
      <4>1. uni' \in [ToSet(Uniswap) -> Known]
        BY <3>1, <3>2, <3>8
      <4>2. BaseOK'
        BY <3>5, <3>8
      <4>3. UniOK'
        <5>1. ASSUME Trusty', NEW c \in ToSet(Uniswap)
              PROVE  Code(uni'[c]) = c /\ (c = "Factory" => Funded(uni'[c]))
          BY <3>2, <3>4, <3>8, <5>1, DeployConstants
        <5>2. "Factory" \in ToSet(Uniswap)
          BY DeployConstants
        <5>3. QED
          BY <1>1, <5>1, <5>2 DEF UniOK, Standing, Code, Funded
      <4>4. WayOK'
        BY <3>8 DEF WayOK
      <4>5. QED
        BY <1>2, <3>3, <3>8, <4>1, <4>2, <4>3, <4>4 DEF DeployTypes
    <3>9. QED
      BY <2>3, <3>6, <3>7, <3>8
  <2>4. QED
    BY <2>2, <2>3 DEF Restore
<1>8. DeployTypes'
  <2>1. pc' \in DeployPlaces
    BY <1>7 DEF DeployPlaces
  <2>2. QED
    BY <1>1, <1>2, <1>5, <1>7, <2>1 DEF DeployTypes
<1>9. GotOK' /\ PoolOK' /\ SentOK' /\ AheadOK'
  BY <1>7 DEF GotOK, PoolOK, SentOK, AheadOK
<1>10. QED
  BY <1>5, <1>6, <1>7, <1>8, <1>9 DEF DeployInv

(* Addresses are written to the cache.                                       *)
LEMMA SaveKeepsRows ==
  ASSUME DeployInv, Grows, NEW S \in SUBSET Names, NEW where \in [Names -> Known], NEW saved,
         Save(S, where, saved),
         Trusty' => \A c \in S \cap Contracts :
                      Code(where[c]) = c /\ (c = "Factory" => Funded(where[c])),
         UNCHANGED <<slot, mined, pools>>
  PROVE  RowsOK' /\ cache' \in [Names -> Known] /\ older' \subseteq Cached(Names)'
<1>1. DeployTypes /\ RowsOK
  BY DEF DeployInv
<1>2. /\ cache' = [c \in Names |-> IF c \in S \cap saved THEN where[c] ELSE cache[c]]
      /\ older' = older \ (S \cap saved)
  BY DEF Save
<1>3. cache \in [Names -> Known] /\ older \subseteq Cached(Names)
  BY <1>1 DEF DeployTypes
<1>4. cache' \in [Names -> Known]
  BY <1>2, <1>3
<1>5. older' \subseteq Cached(Names)'
  BY <1>2, <1>3 DEF Cached
<1>6. ASSUME Trusty', NEW c \in NewRows'
      PROVE  (c \in NewRows /\ cache'[c] = cache[c]) \/
               (Code(cache[c])' = c /\ (c = "Factory" => Funded(cache[c])'))
  <2>1. c \in Contracts /\ c \in Names /\ c \notin older' /\ cache'[c] # Nowhere
    BY <1>6, DeployConstants DEF NewRows
  <2>2. CASE c \in S \cap saved
    <3>1. cache'[c] = where[c]
      BY <1>2, <2>1, <2>2
    <3>2. Code(where[c]) = c /\ (c = "Factory" => Funded(where[c]))
      BY <1>6, <2>1, <2>2
    <3>3. PICK a : a = where[c]
      OBVIOUS
    <3>4. Code(a)' = c
      BY <3>2, <3>3 DEF Code
    <3>5. c = "Factory" => Funded(a)'
      BY <3>2, <3>3 DEF Funded, Grows
    <3>6. cache'[c] = a
      BY <3>1, <3>3
    <3>7. QED
      BY <3>4, <3>5, <3>6 DEF Code, Funded
  <2>3. CASE c \notin S \cap saved
    <3>1. cache'[c] = cache[c] /\ c \notin older
      BY <1>2, <2>1, <2>3
    <3>2. QED
      BY <2>1, <3>1 DEF NewRows
  <2>4. QED
    BY <2>2, <2>3
<1>7. RowsOK'
  <2>1. Trusty' => \A c \in NewRows' : (c \in NewRows /\ cache'[c] = cache[c]) \/
                      (Code(cache[c])' = c /\ (c = "Factory" => Funded(cache[c])'))
    BY <1>6
  <2>2. QED
    BY <1>1, <2>1, RowsStay
<1>8. QED
  BY <1>4, <1>5, <1>7

LEMMA NoncesKeeps ==
  ASSUME DeployInv, NEW saved \in SUBSET Names, Nonces(saved)
  PROVE  DeployInv'
<1> DEFINE S     == ToSet(Uniswap) \cup {"Pool"}
           where == [c \in Names |-> IF c \in ToSet(Uniswap) THEN uni[c] ELSE uni["Factory"]]
<1>1. /\ UNCHANGED <<slot, mined, pools, swapper, base, baseOK, uni, uniOK, rows, kind, dyn>>
      /\ UNCHANGED <<step, startNonce, nonce, got, stale, blind, foreign>>
      /\ pc = "nonces" /\ Save(S, where, saved) /\ Mark(dyn)
      /\ \/ baseOK /\ pc' = "running" /\ prog' = prog
         \/ ~baseOK /\ pc' = "begin" /\ prog' = "base"
  BY DEF Nonces, chain, memory, flaws
<1>2. DeployTypes /\ ChainOK /\ BaseOK /\ UniOK /\ WayOK
  BY DEF DeployInv
<1>3. uniOK
  BY <1>1, <1>2 DEF WayOK
<1>4. Grows
  <2>1. \A m \in Addresses : m < mined => m < mined' /\ slot'[m] = slot[m]
    BY <1>1
  <2>2. QED
    BY <1>1, <2>1 DEF Grows
<1>5. RowsOK' /\ cache' \in [Names -> Known] /\ older' \subseteq Cached(Names)'
  <2>1. S \in SUBSET Names
    BY DeployConstants DEF Names
  <2>2. where \in [Names -> Known]
    <3>1. uni \in [ToSet(Uniswap) -> Known] /\ "Factory" \in ToSet(Uniswap)
      BY <1>2, DeployConstants DEF DeployTypes
    <3>2. QED
      BY <3>1
  <2>3. ASSUME Trusty', NEW c \in S \cap Contracts
        PROVE  Code(where[c]) = c /\ (c = "Factory" => Funded(where[c]))
    <3>1. c \in ToSet(Uniswap) /\ c \in Names
      BY <2>3, DeployConstants
    <3>2. where[c] = uni[c]
      BY <3>1
    <3>3. Trusty
      BY <1>1, <2>3 DEF Trusty
    <3>4. Code(uni[c]) = c /\ Funded(uni["Factory"])
      BY <1>2, <1>3, <3>1, <3>3 DEF UniOK, Standing
    <3>5. QED
      BY <3>2, <3>4
  <2> HIDE DEF S, where
  <2>4. QED
    BY <1>1, <1>4, <2>1, <2>2, <2>3, SaveKeepsRows
<1>6. DeployTypes'
  <2>1. ready' \subseteq rows'
    BY <1>1, <1>2 DEF DeployTypes, Mark
  <2>2. pc' \in DeployPlaces /\ prog' \in {"base", "uni"}
    BY <1>1, <1>2 DEF DeployTypes, DeployPlaces
  <2> HIDE DEF S, where
  <2>3. QED
    BY <1>1, <1>2, <1>5, <2>1, <2>2 DEF DeployTypes
<1> HIDE DEF S, where
<1>7. ChainOK'
  BY <1>1, <1>2 DEF ChainOK
<1>8. BaseOK' /\ UniOK'
  BY <1>1, <1>2, <1>4, BaseStays, UniStays
<1>9. WayOK'
  BY <1>1, <1>3 DEF WayOK
<1>10. GotOK' /\ PoolOK' /\ SentOK' /\ AheadOK'
  BY <1>1 DEF GotOK, PoolOK, SentOK, AheadOK
<1>11. QED
  BY <1>5, <1>6, <1>7, <1>8, <1>9, <1>10 DEF DeployInv

LEMMA SaveBaseKeeps ==
  ASSUME DeployInv, NEW saved \in SUBSET Names, SaveBase(saved)
  PROVE  DeployInv'
<1> DEFINE where == [c \in Names |-> IF c \in ToSet(Base) THEN base'[c] ELSE Nowhere]
<1>1. /\ UNCHANGED <<slot, mined, pools, swapper, uni, uniOK, rows, ready, kind, dyn>>
      /\ UNCHANGED <<prog, step, startNonce, nonce, got, stale, blind, foreign>>
      /\ pc = "save" /\ pc' = "running" /\ baseOK' = TRUE /\ Save(ToSet(Base), where, saved)
      /\ base' = [c \in ToSet(Base) |-> got[CHOOSE i \in 1..Len(Base) : Base[i] = c]]
  BY DEF SaveBase, chain, deploy, flaws
<1>2. DeployTypes /\ ChainOK /\ UniOK /\ WayOK /\ GotOK
  BY DEF DeployInv
<1>3. /\ got \in Seq(Addresses) /\ Len(got) = Len(Base)
      /\ ~stale => \A i \in 1..Len(Base) : Code(got[i]) = Base[i]
  <2>1. prog = "base"
    BY <1>1, <1>2 DEF WayOK
  <2>2. ContractsOf(prog) = Base
    BY <2>1 DEF ContractsOf
  <2>3. QED
    BY <1>1, <1>2, <2>2 DEF GotOK, DeployTypes
<1>4. Grows
  <2>1. \A m \in Addresses : m < mined => m < mined' /\ slot'[m] = slot[m]
    BY <1>1
  <2>2. QED
    BY <1>1, <2>1 DEF Grows
<1>5. ASSUME NEW c \in ToSet(Base)
      PROVE  base'[c] \in Addresses /\ (~stale => Code(base'[c]) = c)
  <2>1. \E i \in 1..Len(Base) : Base[i] = c
    BY <1>5, DeployConstants DEF ToSet
  <2>2. PICK j : j = CHOOSE i \in 1..Len(Base) : Base[i] = c
    OBVIOUS
  <2>3. j \in 1..Len(Base) /\ Base[j] = c
    BY <2>1, <2>2
  <2>4. base'[c] = got[j]
    BY <1>1, <1>5, <2>2
  <2>5. got[j] \in Addresses
    BY <1>3, <2>3
  <2>6. QED
    BY <1>3, <2>3, <2>4, <2>5
<1>6. base' \in [ToSet(Base) -> Known]
  BY <1>1, <1>5 DEF Known
<1>7. BaseOK'
  <2>1. Trusty' => ~stale
    BY <1>1 DEF Trusty
  <2>2. QED
    BY <1>1, <1>5, <2>1 DEF BaseOK, Standing, Code
<1>8. RowsOK' /\ cache' \in [Names -> Known] /\ older' \subseteq Cached(Names)'
  <2>1. ToSet(Base) \in SUBSET Names
    BY DeployConstants
  <2>2. where \in [Names -> Known]
    BY <1>6 DEF Known
  <2>3. ASSUME Trusty', NEW c \in ToSet(Base) \cap Contracts
        PROVE  Code(where[c]) = c /\ (c = "Factory" => Funded(where[c]))
    <3>1. where[c] = base'[c]
      BY <2>1, <2>3
    <3>2. ~stale
      BY <1>1, <2>3 DEF Trusty
    <3>3. c # "Factory"
      BY <2>3, DeployConstants
    <3>4. QED
      BY <1>5, <2>3, <3>1, <3>2, <3>3
  <2> HIDE DEF where
  <2>4. QED
    BY <1>1, <1>4, <2>1, <2>2, <2>3, SaveKeepsRows
<1> HIDE DEF where
<1>9. DeployTypes'
  <2>1. pc' \in DeployPlaces
    BY <1>1 DEF DeployPlaces
  <2>2. QED
    BY <1>1, <1>2, <1>6, <1>8, <2>1 DEF DeployTypes
<1>10. ChainOK'
  BY <1>1, <1>2 DEF ChainOK
<1>11. UniOK'
  BY <1>1, <1>2, <1>4, UniStays
<1>12. WayOK'
  <2>1. kind = "swap" => uniOK
    BY <1>1, <1>2 DEF WayOK
  <2>2. QED
    BY <1>1, <2>1 DEF WayOK
<1>13. GotOK' /\ PoolOK' /\ SentOK' /\ AheadOK'
  BY <1>1 DEF GotOK, PoolOK, SentOK, AheadOK
<1>14. QED
  BY <1>7, <1>8, <1>9, <1>10, <1>11, <1>12, <1>13 DEF DeployInv

(* A restart forgets memory; on a new chain all rows are of an earlier one.  *)
LEMMA RestartKeeps ==
  ASSUME DeployInv, NEW genesis \in BOOLEAN, Restart(genesis)
  PROVE  DeployInv'
<1>1. /\ UNCHANGED <<cache, rows, ready, kind, dyn, prog, step, startNonce, nonce, got>>
      /\ UNCHANGED <<stale, blind, foreign>>
      /\ pc' = "idle" /\ baseOK' = FALSE /\ uniOK' = FALSE
      /\ base' = NoAddress(ToSet(Base)) /\ uni' = NoAddress(ToSet(Uniswap))
  BY DEF Restart, deploy, flaws
<1>2. DeployTypes /\ ChainOK /\ RowsOK
  BY DEF DeployInv
<1>3. base' \in [ToSet(Base) -> Known] /\ uni' \in [ToSet(Uniswap) -> Known]
  BY <1>1 DEF NoAddress, Known
<1>4. Cached(Names)' = Cached(Names)
  BY <1>1 DEF Cached
<1>5. /\ older' \subseteq Cached(Names)' /\ \A a \in DOMAIN swapper' : swapper'[a] \in Known
      /\ slot' \in [Addresses -> SentTxs \cup {None}] /\ mined' \in 0..MaxNonce
      /\ pools' \in [Addresses -> PoolSteps] /\ ChainOK' /\ RowsOK'
  <2>1. CASE genesis
    <3>1. /\ older' = Cached(Names) /\ mined' = 0 /\ slot' = [n \in Addresses |-> None]
          /\ pools' = [n \in Addresses |-> "none"]
          /\ swapper' = [a \in DOMAIN swapper |-> Nowhere]
      BY <2>1 DEF Restart
    <3>2. \A n \in Addresses : slot'[n] = None /\ None.what \notin PoolTxs
      BY <3>1, TxKinds DEF None
    <3>3. ChainOK'
      <4>1. \A n \in Addresses : ~(n < mined')
        BY <3>1, DeployConstants DEF Addresses
      <4>2. QED
        BY <3>2, <4>1 DEF ChainOK
    <3>4. NewRows' = {}
      BY <1>1, <3>1, DeployConstants DEF NewRows, Cached
    <3>5. RowsOK'
      BY <3>4 DEF RowsOK, Standing
    <3>6. mined' \in 0..MaxNonce /\ older' \subseteq Cached(Names)'
      BY <1>4, <3>1, DeployConstants
    <3>7. /\ slot' \in [Addresses -> SentTxs \cup {None}]
          /\ pools' \in [Addresses -> PoolSteps]
          /\ \A a \in DOMAIN swapper' : swapper'[a] \in Known
      BY <3>1 DEF PoolSteps, Known
    <3>8. QED
      BY <3>3, <3>5, <3>6, <3>7
  <2>2. CASE ~genesis
    <3>1. UNCHANGED <<older, slot, mined, pools, swapper>>
      BY <2>2 DEF Restart, chain
    <3>2. ChainOK'
      BY <1>2, <3>1 DEF ChainOK
    <3>3. RowsOK'
      BY <1>1, <1>2, <3>1 DEF RowsOK, Trusty, NewRows, Standing, Code, Funded
    <3>4. QED
      BY <1>2, <1>4, <3>1, <3>2, <3>3 DEF DeployTypes
  <2>3. QED
    BY <2>1, <2>2
<1>6. DeployTypes'
  <2>1. pc' \in DeployPlaces
    BY <1>1 DEF DeployPlaces
  <2>2. QED
    BY <1>1, <1>2, <1>3, <1>5, <2>1 DEF DeployTypes
<1>7. BaseOK' /\ UniOK'
  BY <1>1 DEF BaseOK, UniOK
<1>8. WayOK' /\ GotOK' /\ PoolOK' /\ SentOK' /\ AheadOK'
  BY <1>1 DEF WayOK, GotOK, PoolOK, SentOK, AheadOK
<1>9. QED
  BY <1>5, <1>6, <1>7, <1>8 DEF DeployInv

-----------------------------------------------------------------------------
LEMMA DeployBegins ==
  ASSUME Init PROVE DeployInv
<1>1. /\ slot = [n \in Addresses |-> None] /\ mined = 0 /\ pools = [n \in Addresses |-> "none"]
      /\ swapper = [a \in BuiltIn \cup Dynamic |-> Nowhere]
      /\ base = NoAddress(ToSet(Base)) /\ baseOK = FALSE
      /\ uni = NoAddress(ToSet(Uniswap)) /\ uniOK = FALSE
      /\ cache = NoAddress(Names) /\ older = {} /\ rows = {} /\ ready = {}
      /\ pc = "idle" /\ dyn = {} /\ prog = "base" /\ step = 1 /\ startNonce = 0 /\ nonce = 0
      /\ got = <<>>
  BY DEF Init
<1>2. DeployTypes
  <2>1. base \in [ToSet(Base) -> Known] /\ uni \in [ToSet(Uniswap) -> Known] /\ cache \in [Names -> Known]
    BY <1>1 DEF NoAddress, Known
  <2>2. mined \in 0..MaxNonce /\ nonce \in 0..MaxNonce /\ startNonce \in 0..MaxNonce
    BY <1>1, DeployConstants
  <2>3. /\ slot \in [Addresses -> SentTxs \cup {None}] /\ pools \in [Addresses -> PoolSteps]
        /\ \A a \in DOMAIN swapper : swapper[a] \in Known
    BY <1>1 DEF PoolSteps, Known
  <2>4. pc \in DeployPlaces /\ prog \in {"base", "uni"} /\ step \in Nat /\ got \in Seq(Addresses)
    BY <1>1 DEF DeployPlaces
  <2>5. QED
    BY <1>1, <2>1, <2>2, <2>3, <2>4 DEF DeployTypes
<1>3. ChainOK
  <2>1. \A n \in Addresses : ~(n < mined)
    BY <1>1, DeployConstants DEF Addresses
  <2>2. \A n \in Addresses : slot[n].what \notin PoolTxs
    BY <1>1, TxKinds DEF None
  <2>3. QED
    BY <2>1, <2>2 DEF ChainOK
<1>4. RowsOK
  <2>1. NewRows = {}
    BY <1>1, DeployConstants DEF NewRows, NoAddress
  <2>2. QED
    BY <2>1 DEF RowsOK, Standing
<1>5. BaseOK /\ UniOK
  BY <1>1 DEF BaseOK, UniOK
<1>6. WayOK /\ GotOK /\ PoolOK /\ SentOK /\ AheadOK
  BY <1>1 DEF WayOK, GotOK, PoolOK, SentOK, AheadOK
<1>7. QED
  BY <1>2, <1>3, <1>4, <1>5, <1>6 DEF DeployInv

LEMMA DeployStep ==
  ASSUME DeployInv, Next PROVE DeployInv'
<1>1. CASE Mine
  BY <1>1, ChainGoesOn
<1>2. CASE \E k \in {"transfer", "token", "swap"}, d \in SUBSET Dynamic, saved \in BOOLEAN,
             gone \in SUBSET rows : StartRun(k, d, saved, gone)
  BY <1>2, StartRunKeeps
<1>3. CASE EndRun \/ Fail
  BY <1>3, EndRunKeeps
<1>4. CASE RestoreNothing
  BY <1>4, RestoreNothingKeeps
<1>5. CASE \E told \in SUBSET Names : Restore(told)
  BY <1>5, RestoreKeeps
<1>6. CASE \E done \in SUBSET (BuiltIn \cup dyn) : CachedAccounts(done)
  BY <1>6, CachedAccountsKeeps
<1>7. CASE CachedNonces
  BY <1>7, CachedNoncesKeeps
<1>8. CASE Begin
  BY <1>8, DeploymentBegins
<1>9. CASE Skip
  BY <1>9, SkipKeeps
<1>10. CASE \E n \in Addresses, dud \in BOOLEAN, told \in BOOLEAN : Send(n, dud, told)
  BY <1>10, SendKeeps
<1>11. CASE Confirmed
  BY <1>11, ConfirmedKeeps
<1>12. CASE \E done \in SUBSET (BuiltIn \cup dyn) : Accounts(done)
  BY <1>12, AccountsKeeps
<1>13. CASE \E saved \in SUBSET Names : Nonces(saved)
  BY <1>13, NoncesKeeps
<1>14. CASE \E saved \in SUBSET Names : SaveBase(saved)
  BY <1>14, SaveBaseKeeps
<1>15. CASE \E genesis \in BOOLEAN : Restart(genesis)
  BY <1>15, RestartKeeps
<1>16. QED
  BY <1>1, <1>2, <1>3, <1>4, <1>5, <1>6, <1>7, <1>8, <1>9, <1>10, <1>11, <1>12, <1>13, <1>14, <1>15
     DEF Next

LEMMA DeployStutter ==
  ASSUME DeployInv, UNCHANGED vars PROVE DeployInv'
<1>1. /\ UNCHANGED <<slot, mined, pools, swapper, base, baseOK, uni, uniOK, cache, older, rows, ready>>
      /\ UNCHANGED <<pc, kind, dyn, prog, step, startNonce, nonce, got, stale, blind, foreign>>
  BY DEF vars, chain, memory, store, deploy, flaws
<1>2. DeployTypes /\ ChainOK /\ BaseOK /\ UniOK /\ RowsOK /\ WayOK /\ GotOK /\ PoolOK /\ SentOK /\ AheadOK
  BY DEF DeployInv
<1>3. Grows
  <2>1. \A m \in Addresses : m < mined => m < mined' /\ slot'[m] = slot[m]
    BY <1>1
  <2>2. QED
    BY <1>1, <2>1 DEF Grows
<1>4. DeployTypes'
  <2>1. Cached(Names)' = Cached(Names)
    BY <1>1 DEF Cached
  <2>2. QED
    BY <1>1, <1>2, <2>1 DEF DeployTypes
<1>5. ChainOK' /\ WayOK'
  BY <1>1, <1>2 DEF ChainOK, WayOK
<1>6. BaseOK' /\ UniOK' /\ RowsOK'
  BY <1>1, <1>3, ClaimsStay
<1>7. GotOK' /\ PoolOK'
  BY <1>1, <1>3, HandsStay
<1>8. SentOK' /\ AheadOK'
  <2>1. Item' = Item /\ ContractsOf(prog)' = ContractsOf(prog)
    BY <1>1 DEF Item, Steps, ContractsOf
  <2>2. QED
    BY <1>1, <1>2, <2>1 DEF SentOK, AheadOK
<1>9. QED
  BY <1>4, <1>5, <1>6, <1>7, <1>8 DEF DeployInv

LEMMA ContractsAreUsable ==
  ASSUME DeployInv PROVE Usable /\ TypeOK
<1>1. DeployTypes /\ BaseOK /\ UniOK /\ WayOK
  BY DEF DeployInv
<1>2. Usable
  <2>1. SUFFICES ASSUME pc = "running", Trusty
                 PROVE  /\ kind # "transfer" => \A c \in ToSet(Base) : Code(base[c]) = c
                        /\ kind = "swap" => /\ \A c \in ToSet(Uniswap) : Code(uni[c]) = c
                                            /\ blind \/ pools[uni["Factory"]] = "liquid"
    BY DEF Usable, Trusty
  <2>2. kind # "transfer" => baseOK
    BY <1>1, <2>1 DEF WayOK
  <2>3. kind = "swap" => uniOK
    BY <1>1, <2>1 DEF WayOK
  <2>4. QED
    BY <1>1, <2>1, <2>2, <2>3 DEF BaseOK, UniOK, Standing, Funded
<1>3. TypeOK
  <2>1. \A a \in DOMAIN swapper : swapper[a] \in Addresses \cup {Nowhere}
    BY <1>1 DEF DeployTypes, Known
  <2>2. \A c \in Names : cache[c] \in Addresses \cup {Nowhere}
    BY <1>1 DEF DeployTypes, Known
  <2>3. pools \in [Addresses -> {"none", "created", "ready", "liquid"}]
    BY <1>1 DEF DeployTypes, PoolSteps
  <2>4. pc \in {"idle", "restore", "cached accounts", "cached nonces", "begin", "step", "sent",
                "accounts", "nonces", "save", "running"}
    BY <1>1 DEF DeployTypes, DeployPlaces
  <2>5. QED
    BY <1>1, <2>1, <2>2, <2>3, <2>4 DEF DeployTypes, TypeOK
<1>4. QED
  BY <1>2, <1>3

-----------------------------------------------------------------------------
(* The parts.  A part that a behaviour is not one of stays as it began.      *)
PartInv ==
  /\ part = "rpc" => ClientInv
  /\ part = "funds" => FundsInv
  /\ part = "reads" => ReadsInv
  /\ DeployInv

LEMMA PartsBegin ==
  ASSUME PartInit PROVE PartInv
<1>1. DeployInv
  BY DeployBegins DEF PartInit
<1>2. CASE part = "rpc" /\ Client!Init
  BY <1>1, <1>2, ClientBegins DEF PartInv
<1>3. CASE part = "reads" /\ Reads!Init
  BY <1>1, <1>3, ReadsBegin DEF PartInv
<1>4. CASE part = "funds" /\ Funds!Init
  BY <1>1, <1>4, FundsBegin DEF PartInv
<1>5. CASE part = "contracts"
  BY <1>1, <1>5 DEF PartInv
<1>6. QED
  BY <1>2, <1>3, <1>4, <1>5 DEF PartInit

LEMMA PartsStep ==
  ASSUME PartInv, [PartNext]_<<part, vars, rpcVars, fundVars, readVars>>
  PROVE  PartInv'
<1>1. part' = part
  BY DEF PartNext
<1>2. (part = "rpc" => ClientInv) /\ (part = "funds" => FundsInv) /\ (part = "reads" => ReadsInv)
  BY DEF PartInv
<1>3. ASSUME part = "rpc" PROVE ClientInv'
  <2>1. Client!Next \/ UNCHANGED rpcVars
    BY <1>3 DEF PartNext
  <2>2. QED
    BY <1>2, <1>3, <2>1, ClientStep, ClientStutter
<1>4. ASSUME part = "reads" PROVE ReadsInv'
  <2>1. Reads!Next \/ UNCHANGED readVars
    BY <1>4 DEF PartNext
  <2>2. QED
    BY <1>2, <1>4, <2>1, ReadsStep, ReadsStutter
<1>5. ASSUME part = "funds" PROVE FundsInv'
  <2>1. Funds!Next \/ UNCHANGED fundVars
    BY <1>5 DEF PartNext
  <2>2. QED
    BY <1>2, <1>5, <2>1, FundsStep, FundsStutter
<1>6. DeployInv'
  <2>1. Next \/ UNCHANGED vars
    BY DEF PartNext
  <2>2. DeployInv
    BY DEF PartInv
  <2>3. QED
    BY <2>1, <2>2, DeployStep, DeployStutter
<1>7. QED
  BY <1>1, <1>3, <1>4, <1>5, <1>6 DEF PartInv

LEMMA PartInvAlways == PartSpec => []PartInv
BY PartsBegin, PartsStep, PTL DEF PartSpec

(* Whatever the client gives up, retries or batches, and in whatever order   *)
(* the node answers what it got, late or twice: every result that names an   *)
(* item is the node's answer to that item, made after the call began.        *)
THEOREM AnswersAreOwnAlways == PartSpec => []AnswersAreOwn
<1>1. PartInv => AnswersAreOwn
  BY ResultsAreTheirOwn DEF PartInv, AnswersAreOwn
<1>2. QED
  BY <1>1, PartInvAlways, PTL

(* However the sends of a round end, and however late they arrive: a faucet  *)
(* whose chain nonce has reached the start of the round plus its share, and  *)
(* of which no older transaction held a nonce, has paid every account of the *)
(* share, since no two of its nonces pay the same account and the reserved   *)
(* nonce of a failed send is taken again.  And the accounts that a run       *)
(* begins with are as many as it needs, all different.                       *)
THEOREM ConfirmedMeansFundedAlways == PartSpec => []ConfirmedMeansFunded
<1>1. PartInv => ConfirmedMeansFunded
  BY FundsSuffice DEF PartInv, ConfirmedMeansFunded
<1>2. QED
  BY <1>1, PartInvAlways, PTL

(* A stop that waits for every worker of the read load leaves a row in which *)
(* each read that was answered or failed is counted once, per method and in  *)
(* total, however many workers there are and wherever it caught them.        *)
THEOREM ReadsAddUpAlways == PartSpec => []ReadsAddUp
<1>1. PartInv => ReadsAddUp
  BY ReadsAreCounted DEF PartInv, ReadsAddUp
<1>2. QED
  BY <1>1, PartInvAlways, PTL

(* For every configuration that Validate lets pass, with its defaults, and   *)
(* for every head: archiveOldestBlock, blockTag and logRange stay within the *)
(* chain as the worker saw it, the span, and the window or the history.      *)
THEOREM RangesWithinAlways == PartSpec => []RangesWithin
<1>1. PartInv => RangesWithin
  BY ReadsAreInRange DEF PartInv, RangesWithin
<1>2. QED
  BY <1>1, PartInvAlways, PTL

(* Attempts that failed, restarts, new chains and a cache that was wiped or  *)
(* half written: a run that goes on has each contract it sends to at the     *)
(* address ensureContractsDeployed gave it, and liquidity in the pool, unless *)
(* a deployment began below a nonce that was taken, or the cache held rows   *)
(* of a former chain that pass for contracts of this one.                    *)
THEOREM UsableAlways == PartSpec => []Usable
<1>1. PartInv => Usable
  BY ContractsAreUsable DEF PartInv
<1>2. QED
  BY <1>1, PartInvAlways, PTL

(* The variables of all four parts keep their types.                         *)
THEOREM TypesOKAlways == PartSpec => []TypesOK
<1>1. PartInv => TypesOK
  <2>1. SUFFICES ASSUME PartInv PROVE TypesOK
    OBVIOUS
  <2>2. ASSUME part = "rpc" PROVE Client!TypeOK
    BY <2>1, <2>2 DEF PartInv, ClientInv
  <2>3. ASSUME part = "funds" PROVE Funds!TypeOK
    BY <2>1, <2>3, FundsTypes DEF PartInv
  <2>4. TypeOK
    BY <2>1, ContractsAreUsable DEF PartInv
  <2>5. ASSUME part = "reads" PROVE Reads!TypeOK
    BY <2>1, <2>5 DEF PartInv, ReadsInv, ReadInv, ReadTypes
  <2>6. QED
    BY <2>2, <2>3, <2>4, <2>5 DEF TypesOK
<1>2. QED
  BY <1>1, PartInvAlways, PTL
=============================================================================
