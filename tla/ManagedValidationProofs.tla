----------------------- MODULE ManagedValidationProofs -----------------------
(***************************************************************************)
(* What holds of validations under quota, rate limit, audit chain, alerts  *)
(* and intelligence, for every number of requests, keys, plans, servers,   *)
(* webhooks and losses, in each of the five deployments.                   *)
(***************************************************************************)
EXTENDS ManagedValidation, CountingProofs

-----------------------------------------------------------------------------
(* The rate limit.                                                         *)

Counter == [started : Nat, count : 0..RateLimit]
Since(admissions, t) == {i \in admissions : t <= admitted[i]}
Before(admissions, t, start) == {i \in admissions : t <= admitted[i] /\ admitted[i] < start}
Within(admissions, t) == {i \in admissions : admitted[i] \in t..(t + Window - 1)}

LEMMA RequestsAreFinite ==
  ASSUME RateTypeOK, NEW admissions \in SUBSET (DOMAIN admitted)
  PROVE  /\ IsFiniteSet(admissions) /\ Cardinality(admissions) \in Nat
         /\ \A i \in admissions : i \in Nat /\ i <= Len(admitted) /\ admitted[i] \in Nat
<1>1. admitted \in Seq(Nat) /\ Len(admitted) \in Nat /\ DOMAIN admitted = 1..Len(admitted)
  BY DEF RateTypeOK
<1>2. IsFiniteSet(DOMAIN admitted)
  BY <1>1, FS_Interval
<1>3. IsFiniteSet(admissions)
  BY <1>2, FS_Subset
<1> QED
  BY <1>1, <1>3, FS_CardinalityType

(* What was let through stays let through while the clock runs on and      *)
(* other counters let others through.                                      *)
LEMMA LetThroughKept ==
  ASSUME RateTypeOK, NEW w \in Counter, NEW admissions \in SUBSET (DOMAIN admitted),
         LetThrough(w, admissions),
         \A i \in admissions : admitted'[i] = admitted[i],
         tick' \in {tick, tick + 1}
  PROVE  LetThrough(w, admissions)'
<1> DEFINE b == w.started
<1>1. tick \in Nat /\ Window \in Nat /\ Window > 0 /\ RateLimit \in Nat /\ b \in Nat
  BY RateAssumption DEF RateTypeOK, Counter
<1>2. \A i \in admissions : admitted[i] \in Nat /\ admitted[i] <= tick /\ admitted[i] < b + Window
  BY RequestsAreFinite DEF LetThrough
<1>3. /\ Since(admissions, b)' = Since(admissions, b)
      /\ \A t : Before(admissions, t, b)' = Before(admissions, t, b)
      /\ \A t : Within(admissions, t)' = Within(admissions, t)
  BY DEF Since, Before, Within
<1>4. \A t \in 0..tick :
        /\ b < t + Window => Cardinality(Before(admissions, t, b)) <= RateLimit
        /\ Cardinality(Within(admissions, t)) <= 2 * RateLimit
  BY DEF LetThrough, Before, Within
<1>5. \A t \in 0..tick' :
        /\ b < t + Window => Cardinality(Before(admissions, t, b)) <= RateLimit
        /\ Cardinality(Within(admissions, t)) <= 2 * RateLimit
  <2> SUFFICES ASSUME NEW t \in 0..tick', t \notin 0..tick
               PROVE  /\ Cardinality(Before(admissions, t, b)) <= RateLimit
                      /\ Cardinality(Within(admissions, t)) <= 2 * RateLimit
    BY <1>4
  <2>1. t \in Nat /\ t = tick + 1
    BY <1>1
  <2>2. Before(admissions, t, b) = {} /\ Within(admissions, t) = {}
    BY <1>1, <1>2, <2>1 DEF Before, Within
  <2> QED
    BY <1>1, <2>2, FS_EmptySet
<1>6. b <= tick /\ Cardinality(Since(admissions, b)) <= w.count
  BY DEF LetThrough, Since
<1>7. b <= tick' /\ \A i \in admissions : admitted'[i] <= tick' /\ admitted'[i] < b + Window
  BY <1>1, <1>2, <1>6
<1>8. Cardinality(Since(admissions, b)') <= w.count
  BY <1>3, <1>6
<1>9. \A t \in 0..tick' :
        /\ b < t + Window => Cardinality(Before(admissions, t, b)') <= RateLimit
        /\ Cardinality(Within(admissions, t)') <= 2 * RateLimit
  BY <1>3, <1>5
<1> QED
  BY <1>7, <1>8, <1>9 DEF LetThrough, Since, Before, Within

(* The counter that lets one more request through.                         *)
LEMMA OneMoreLetThrough ==
  ASSUME RateTypeOK, NEW w \in Counter, NEW admissions \in SUBSET (DOMAIN admitted),
         LetThrough(w, admissions), Admits(w),
         admitted' = Append(admitted, tick), tick' = tick,
         NEW v, v = Counted(w), NEW n, n = Len(admitted) + 1
  PROVE  /\ v \in Counter
         /\ LetThrough(v, admissions \cup {n})'
<1> DEFINE more == admissions \cup {n}
           b == w.started
<1>1. /\ tick \in Nat /\ Window \in Nat /\ Window > 0 /\ RateLimit \in Nat /\ RateLimit > 0
      /\ b \in Nat /\ w.count \in Nat /\ w.count <= RateLimit
  BY RateAssumption DEF RateTypeOK, Counter
<1>2. \A i \in admissions : /\ admitted[i] \in Nat /\ admitted[i] <= tick
                          /\ admitted[i] < b + Window /\ i # n
  <2>1. Len(admitted) \in Nat
    BY DEF RateTypeOK
  <2>2. \A i \in admissions : i \in Nat /\ i <= Len(admitted) /\ admitted[i] \in Nat
    BY RequestsAreFinite
  <2>3. \A i \in admissions : admitted[i] <= tick /\ admitted[i] < b + Window
    BY DEF LetThrough
  <2> QED
    BY <2>1, <2>2, <2>3
<1>3. admitted'[n] = tick /\ \A i \in admissions : admitted'[i] = admitted[i]
  <2>1. admitted \in Seq(Nat) /\ DOMAIN admitted = 1..Len(admitted)
    BY DEF RateTypeOK
  <2> QED
    BY <1>1, <2>1, AppendProperties
<1>4. \A t : /\ IsFiniteSet(Since(admissions, t)) /\ Cardinality(Since(admissions, t)) \in Nat
             /\ IsFiniteSet(Within(admissions, t)) /\ Cardinality(Within(admissions, t)) \in Nat
             /\ \A s : /\ IsFiniteSet(Before(admissions, t, s))
                       /\ Cardinality(Before(admissions, t, s)) \in Nat
  BY RequestsAreFinite DEF Since, Within, Before
<1>5. /\ b <= tick /\ Cardinality(Since(admissions, b)) <= w.count
      /\ \A t \in 0..tick :
           /\ b < t + Window => Cardinality(Before(admissions, t, b)) <= RateLimit
           /\ Cardinality(Within(admissions, t)) <= 2 * RateLimit
  BY DEF LetThrough, Since, Before, Within
<1>6. ASSUME NEW t \in 0..tick, t + Window <= tick
      PROVE  Within(more, t)' = Within(admissions, t)
  <2>1. ~(tick \in t..(t + Window - 1))
    BY <1>1, <1>6
  <2> QED
    BY <1>3, <2>1 DEF Within
<1>7. CASE ~Starts(w)
  <2>1. v.started = b /\ v.count = w.count + 1 /\ v \in Counter /\ v.count <= RateLimit
    <3>1. v = [w EXCEPT !.count = @ + 1] /\ w.count < RateLimit
      BY <1>7 DEF Counted, Admits
    <3> QED
      BY <1>1, <3>1 DEF Counter
  <2>2. tick < b + Window
    BY <1>1, <1>7 DEF Starts
  <2>3. \A i \in more : admitted'[i] <= tick /\ admitted'[i] < b + Window
    BY <1>1, <1>2, <1>3, <2>2
  <2>4. Since(more, b)' = Since(admissions, b) \cup {n} /\ n \notin Since(admissions, b)
    BY <1>2, <1>3, <1>5 DEF Since
  <2>5. Cardinality(Since(more, b)') = Cardinality(Since(admissions, b)) + 1
    BY <1>4, <2>4, FS_AddElement
  <2>6. ASSUME NEW t \in 0..tick, b < t + Window
        PROVE  Cardinality(Before(more, t, b)') <= RateLimit
    <3>1. Before(more, t, b)' = Before(admissions, t, b)
      BY <1>1, <1>3, <1>5 DEF Before
    <3> QED
      BY <1>5, <2>6, <3>1
  <2>7. ASSUME NEW t \in 0..tick PROVE Cardinality(Within(more, t)') <= 2 * RateLimit
    <3>1. CASE t + Window <= tick
      BY <1>5, <1>6, <3>1
    <3>2. CASE ~(t + Window <= tick)
      <4>1. Within(more, t)' \subseteq (Since(admissions, b) \cup {n}) \cup Before(admissions, t, b)
        BY <1>1, <1>2, <1>3 DEF Within, Since, Before
      <4>2. /\ IsFiniteSet(Since(admissions, b) \cup {n})
            /\ Cardinality(Since(admissions, b) \cup {n}) <= RateLimit
        <5>1. Cardinality(Since(admissions, b) \cup {n}) = Cardinality(Since(admissions, b)) + 1
          BY <2>4, <2>5
        <5>2. IsFiniteSet(Since(admissions, b) \cup {n})
          BY <1>4, FS_AddElement
        <5> QED
          BY <1>1, <1>4, <1>5, <2>1, <5>1, <5>2
      <4>3. Cardinality(Before(admissions, t, b)) <= RateLimit
        <5>1. b < t + Window
          BY <1>1, <1>5, <3>2
        <5> QED
          BY <1>5, <5>1
      <4>4. /\ Cardinality(Within(more, t)') <=
                 Cardinality(Since(admissions, b) \cup {n}) + Cardinality(Before(admissions, t, b))
            /\ Cardinality(Within(more, t)') \in Nat
            /\ Cardinality(Since(admissions, b) \cup {n}) \in Nat
            /\ Cardinality(Before(admissions, t, b)) \in Nat
        <5> HIDE DEF more
        <5> QED
          BY <1>4, <4>1, <4>2, UnionBound
      <4> QED
        BY <1>1, <4>2, <4>3, <4>4
    <3> QED
      BY <3>1, <3>2
  <2>8. Cardinality(Since(more, b)') <= v.count
    BY <1>1, <1>4, <1>5, <2>1, <2>5
  <2> HIDE DEF more
  <2>9. LetThrough(v, more)'
    BY <1>5, <2>1, <2>3, <2>6, <2>7, <2>8 DEF LetThrough, Since, Before, Within
  <2> QED
    BY <2>1, <2>9 DEF more
<1>8. CASE Starts(w)
  <2>1. v.started = tick /\ v.count = 1 /\ v \in Counter
    BY <1>1, <1>8 DEF Counted, Counter
  <2>2. b + Window <= tick
    BY <1>1, <1>8 DEF Starts
  <2>3. \A i \in more : admitted'[i] <= tick /\ admitted'[i] < tick + Window
    BY <1>1, <1>2, <1>3
  <2>4. Since(more, tick)' = {n}
    BY <1>1, <1>2, <1>3, <2>2 DEF Since
  <2>5. ASSUME NEW t \in 0..tick, tick < t + Window
        PROVE  /\ Before(more, t, tick)' \subseteq Since(admissions, b)
               /\ Within(more, t)' \subseteq Since(admissions, b) \cup {n}
    <3>1. b <= t
      BY <1>1, <2>2, <2>5
    <3> QED
      <4>1. ASSUME NEW i \in more, t <= admitted'[i], admitted'[i] < tick
            PROVE  i \in admissions /\ admitted[i] \in Nat /\ b <= admitted[i]
        <5>1. i # n /\ i \in admissions
          BY <1>1, <1>3, <4>1
        <5>2. admitted'[i] = admitted[i] /\ admitted[i] \in Nat /\ t \in Nat
          BY <1>1, <1>2, <1>3, <5>1
        <5> HIDE DEF more
        <5> QED
          BY <1>1, <3>1, <4>1, <5>1, <5>2
      <4>2. Before(more, t, tick)' \subseteq Since(admissions, b)
        BY <4>1 DEF Before, Since
      <4>3. ASSUME NEW i \in admissions, admitted'[i] \in t..(t + Window - 1)
            PROVE  b <= admitted[i]
        <5>1. admitted'[i] = admitted[i] /\ admitted[i] \in Nat
          BY <1>2, <1>3
        <5>2. t \in Nat /\ t <= admitted[i]
          BY <1>1, <4>3, <5>1
        <5> HIDE DEF more
        <5> QED
          BY <1>1, <3>1, <5>1, <5>2
      <4>4. Within(more, t)' \subseteq Since(admissions, b) \cup {n}
        BY <4>3 DEF Within, Since
      <4> QED
        BY <4>2, <4>4
  <2>6. ASSUME NEW t \in 0..tick, tick < t + Window
        PROVE  Cardinality(Before(more, t, tick)') <= RateLimit
    <3>1. /\ Cardinality(Before(more, t, tick)') <= Cardinality(Since(admissions, b))
          /\ Cardinality(Before(more, t, tick)') \in Nat
      BY <1>4, <2>5, <2>6, FS_Subset, FS_CardinalityType
    <3>2. /\ Cardinality(Since(admissions, b)) <= w.count
          /\ Cardinality(Since(admissions, b)) \in Nat
      BY <1>4, <1>5
    <3> HIDE DEF more, b
    <3> QED
      BY <1>1, <3>1, <3>2
  <2>7. ASSUME NEW t \in 0..tick PROVE Cardinality(Within(more, t)') <= 2 * RateLimit
    <3>1. CASE t + Window <= tick
      BY <1>5, <1>6, <3>1
    <3>2. CASE ~(t + Window <= tick)
      <4>1. Within(more, t)' \subseteq Since(admissions, b) \cup {n}
        <5>1. tick < t + Window
          BY <1>1, <3>2
        <5> QED
          BY <2>5, <5>1
      <4>2. /\ Cardinality(Within(more, t)') <= Cardinality(Since(admissions, b)) + Cardinality({n})
            /\ Cardinality(Within(more, t)') \in Nat
        <5>1. IsFiniteSet({n})
          BY FS_Singleton
        <5> HIDE DEF more
        <5> QED
          BY <1>4, <4>1, <5>1, UnionBound
      <4>3. Cardinality({n}) = 1
        BY FS_Singleton
      <4> QED
        BY <1>1, <1>4, <1>5, <4>2, <4>3
    <3> QED
      BY <3>1, <3>2
  <2>8. Cardinality(Since(more, tick)') <= v.count
    <3>1. Cardinality({n}) = 1
      BY FS_Singleton
    <3>2. Cardinality(Since(more, tick)') = 1
      BY <2>4, <3>1
    <3> QED
      BY <2>1, <3>2
  <2> HIDE DEF more
  <2>9. LetThrough(v, more)'
    <3>1. Cardinality({i \in more : v.started <= admitted[i]}') <= v.count
      BY <2>1, <2>8 DEF Since
    <3>2. \A t \in 0..tick' : v.started < t + Window =>
            Cardinality({i \in more : t <= admitted[i] /\ admitted[i] < v.started}') <= RateLimit
      BY <2>1, <2>6 DEF Before
    <3>3. \A t \in 0..tick' :
            Cardinality({i \in more : admitted[i] \in t..(t + Window - 1)}') <= 2 * RateLimit
      BY <2>7 DEF Within
    <3>4. v.started <= tick'
      BY <1>1, <2>1
    <3>5. \A i \in more : admitted'[i] <= tick' /\ admitted'[i] < v.started + Window
      BY <2>1, <2>3
    <3> QED
      BY <3>1, <3>2, <3>3, <3>4, <3>5 DEF LetThrough
  <2> QED
    BY <2>1, <2>9 DEF more
<1> QED
  BY <1>7, <1>8

LEMMA AppendedTick ==
  ASSUME RateTypeOK, admitted' = Append(admitted, tick), NEW n, n = Len(admitted) + 1
  PROVE  /\ admitted' \in Seq(Nat) /\ DOMAIN admitted' = DOMAIN admitted \cup {n}
         /\ n \notin DOMAIN admitted /\ \A i \in DOMAIN admitted : admitted'[i] = admitted[i]
<1>1. admitted \in Seq(Nat) /\ Len(admitted) \in Nat /\ DOMAIN admitted = 1..Len(admitted)
      /\ tick \in Nat
  BY DEF RateTypeOK
<1>2. /\ admitted' \in Seq(Nat) /\ Len(admitted') = Len(admitted) + 1
      /\ \A i \in 1..Len(admitted) : admitted'[i] = admitted[i]
  BY <1>1, AppendProperties
<1>3. DOMAIN admitted' = 1..(Len(admitted) + 1)
  BY <1>2
<1> QED
  BY <1>1, <1>2, <1>3

LEMMA ConsumeRateLimitInv ==
  ASSUME NEW shared \in BOOLEAN, NEW server \in Servers,
         RateInv(shared), ConsumeRateLimit(shared, server)
  PROVE  RateInv(shared)'
<1> DEFINE n == Len(admitted) + 1
<1>1. /\ RateTypeOK /\ Admits(windows[server]) /\ admitted' = Append(admitted, tick)
      /\ tick' = tick
      /\ windows' = [s \in Servers |-> IF s \in CountedAt(shared, server)
                                       THEN Counted(windows[s]) ELSE windows[s]]
  BY DEF RateInv, ConsumeRateLimit
<1>2. windows \in [Servers -> Counter] /\ tick \in Nat
  BY <1>1 DEF RateTypeOK, Counter
<1>3. PICK m : m = n
  OBVIOUS
<1>4. /\ admitted' \in Seq(Nat) /\ DOMAIN admitted' = DOMAIN admitted \cup {m}
      /\ m \notin DOMAIN admitted /\ \A i \in DOMAIN admitted : admitted'[i] = admitted[i]
  BY <1>1, <1>3, AppendedTick
<1> HIDE DEF n
<1>5. CASE shared
  <2>1. \A r, s \in Servers :
          windows[r] = windows[s] /\ LetThrough(windows[s], DOMAIN admitted)
    BY <1>5 DEF RateInv
  <2>2. ASSUME NEW s \in Servers
        PROVE  windows'[s] \in Counter /\ LetThrough(windows[s], DOMAIN admitted)'
    <3>1. PICK v : v = Counted(windows[s])
      OBVIOUS
    <3>2. windows'[s] = v
      BY <1>1, <1>5, <3>1 DEF CountedAt
    <3>3. Admits(windows[s]) /\ windows[s] \in Counter /\ LetThrough(windows[s], DOMAIN admitted)
      BY <1>1, <1>2, <2>1
    <3>4. PICK R : R = DOMAIN admitted
      OBVIOUS
    <3>5. PICK w : w = windows[s]
      OBVIOUS
    <3>6. v \in Counter /\ LetThrough(v, R \cup {m})'
      BY <1>1, <1>3, <3>1, <3>3, <3>4, <3>5, OneMoreLetThrough DEF n
    <3>7. (R \cup {m}) = DOMAIN admitted'
      BY <1>4, <3>4
    <3> QED
      BY <3>2, <3>6, <3>7 DEF LetThrough
  <2>3. \A r, s \in Servers : windows'[r] = windows'[s]
    BY <1>1, <1>5, <2>1 DEF CountedAt
  <2>4. RateTypeOK'
    BY <1>1, <1>2, <1>4, <2>2 DEF RateTypeOK, Counter
  <2> QED
    BY <1>5, <2>2, <2>3, <2>4 DEF RateInv
<1>6. CASE ~shared
  <2> DEFINE Of1(f, s) == {i \in DOMAIN admitted : f[i] = s}
  <2>1. PICK f \in [DOMAIN admitted -> Servers] : \A s \in Servers :
          LetThrough(windows[s], Of1(f, s))
    BY <1>6 DEF RateInv
  <2>2. PICK g : g = [i \in DOMAIN admitted' |-> IF i = m THEN server ELSE f[i]]
    OBVIOUS
  <2>3. g \in [DOMAIN admitted' -> Servers]
    BY <1>4, <2>2
  <2>4. ASSUME NEW s \in Servers
        PROVE  windows'[s] \in Counter /\ LetThrough(windows[s], Of1(g, s))'
    <3>1. PICK w : w = windows[s]
      OBVIOUS
    <3>2. PICK R : R = Of1(f, s)
      OBVIOUS
    <3>3. w \in Counter /\ R \in SUBSET (DOMAIN admitted) /\ LetThrough(w, R)
      BY <1>2, <2>1, <3>1, <3>2
    <3>4. CASE s = server
      <4>1. PICK v : v = Counted(w)
        OBVIOUS
      <4>2. windows'[s] = v
        BY <1>1, <1>6, <3>1, <3>4, <4>1 DEF CountedAt
      <4>3. v \in Counter /\ LetThrough(v, R \cup {m})'
        BY <1>1, <1>3, <3>1, <3>3, <3>4, <4>1, OneMoreLetThrough DEF n
      <4>4. Of1(g, s)' = R \cup {m}
        BY <1>4, <2>2, <3>2, <3>4
      <4> QED
        BY <4>2, <4>3, <4>4 DEF LetThrough
    <3>5. CASE s # server
      <4>1. windows'[s] = w
        BY <1>1, <1>6, <3>1, <3>5 DEF CountedAt
      <4>2. LetThrough(w, R)'
        <5>1. \A i \in R : admitted'[i] = admitted[i]
          BY <1>4, <3>3
        <5> QED
          BY <1>1, <3>3, <5>1, LetThroughKept
      <4>3. Of1(g, s)' = R
        BY <1>4, <2>2, <3>2, <3>5
      <4> QED
        BY <1>2, <3>1, <4>1, <4>2, <4>3 DEF LetThrough
    <3> QED
      BY <3>4, <3>5
  <2>5. RateTypeOK'
    BY <1>1, <1>2, <1>4, <2>4 DEF RateTypeOK, Counter
  <2> QED
    BY <1>6, <2>3, <2>4, <2>5 DEF RateInv
<1> QED
  BY <1>5, <1>6

LEMMA TickInv ==
  ASSUME NEW shared \in BOOLEAN, RateInv(shared), UNCHANGED <<windows, admitted>>,
         tick' \in {tick, tick + 1}
  PROVE  RateInv(shared)'
<1>1. RateTypeOK /\ RateTypeOK'
  BY DEF RateInv, RateTypeOK
<1>2. \A s \in Servers : windows[s] \in Counter
  BY <1>1 DEF RateTypeOK, Counter
<1>3. ASSUME NEW s \in Servers, NEW R \in SUBSET (DOMAIN admitted), LetThrough(windows[s], R)
      PROVE  LetThrough(windows[s], R)'
  <2>1. PICK w : w = windows[s]
    OBVIOUS
  <2>2. LetThrough(w, R)'
    BY <1>1, <1>2, <1>3, <2>1, LetThroughKept
  <2> QED
    BY <2>1, <2>2
<1>4. CASE shared
  <2>1. \A r, s \in Servers :
          windows'[r] = windows'[s] /\ LetThrough(windows[s], DOMAIN admitted)'
    BY <1>3, <1>4 DEF RateInv
  <2> QED
    BY <1>1, <1>4, <2>1 DEF RateInv
<1>5. CASE ~shared
  <2>1. PICK f \in [DOMAIN admitted -> Servers] : \A s \in Servers :
          LetThrough(windows[s], {i \in DOMAIN admitted : f[i] = s})
    BY <1>5 DEF RateInv
  <2>2. \A s \in Servers : LetThrough(windows[s], {i \in DOMAIN admitted : f[i] = s})'
    BY <1>3, <2>1
  <2>3. f \in [DOMAIN admitted' -> Servers]
    OBVIOUS
  <2> QED
    BY <1>1, <1>5, <2>2, <2>3 DEF RateInv
<1> QED
  BY <1>4, <1>5

LEMMA RateIsKept ==
  ASSUME NEW shared \in BOOLEAN, RateInv(shared) PROVE AdmittedPerWindow(shared)
<1>1. RateTypeOK
  BY DEF RateInv
<1>2. /\ IsFiniteSet(DOMAIN admitted) /\ IsFiniteSet(Servers) /\ Servers # {}
      /\ RateLimit \in Nat /\ 2 * RateLimit \in Nat /\ tick \in Nat
  BY <1>1, RequestsAreFinite, RateAssumption DEF RateTypeOK
<1> SUFFICES ASSUME NEW t \in 0..tick
             PROVE  Cardinality(Within(DOMAIN admitted, t)) <=
                      2 * RateLimit * (IF shared THEN 1 ELSE Cardinality(Servers))
  BY DEF AdmittedPerWindow, Within
<1>3. CASE shared
  <2>1. PICK s \in Servers : LetThrough(windows[s], DOMAIN admitted)
    BY <1>2, <1>3 DEF RateInv
  <2>2. Cardinality(Within(DOMAIN admitted, t)) <= 2 * RateLimit
    BY <2>1 DEF LetThrough, Within
  <2> QED
    BY <1>2, <1>3, <2>2
<1>4. CASE ~shared
  <2>1. PICK f \in [DOMAIN admitted -> Servers] : \A s \in Servers :
          LetThrough(windows[s], {i \in DOMAIN admitted : f[i] = s})
    BY <1>4 DEF RateInv
  <2> DEFINE X == Within(DOMAIN admitted, t)
             g == [i \in X |-> f[i]]
  <2>2. X \subseteq DOMAIN admitted /\ IsFiniteSet(X) /\ g \in [X -> Servers]
    BY <1>2, FS_Subset DEF Within
  <2>3. ASSUME NEW s \in Servers
        PROVE  Cardinality({i \in X : g[i] = s}) <= 2 * RateLimit
    <3>1. {i \in X : g[i] = s} = Within({i \in DOMAIN admitted : f[i] = s}, t)
      BY DEF Within
    <3>2. LetThrough(windows[s], {i \in DOMAIN admitted : f[i] = s})
      BY <2>1
    <3>3. Cardinality(Within({i \in DOMAIN admitted : f[i] = s}, t)) <= 2 * RateLimit
      BY <3>2 DEF LetThrough, Within
    <3> QED
      BY <3>1, <3>3
  <2> HIDE DEF X, g
  <2>4. Cardinality(X) <= (2 * RateLimit) * Cardinality(Servers)
    BY <1>2, <2>2, <2>3, CountByFibres
  <2> QED
    BY <1>4, <2>4 DEF X
<1> QED
  BY <1>3, <1>4

-----------------------------------------------------------------------------
(* The intelligence.                                                       *)

HistoryRow == [id : Sources, previous_hash : Seq(Sources), record_hash : Seq(Sources)]

LEMMA ChainInv ==
  ASSUME IntelligenceInv(Sources), NEW kind \in Kinds, NEW id \in Sources, Chain(kind, id)
  PROVE  /\ IntelligenceInv(Sources)' /\ intelligence_lost' = intelligence_lost
         /\ Kept(kind) \cup {id} \subseteq Kept(kind)'
         /\ \A k \in Kinds : k # kind => Kept(k)' = Kept(k)
<1> DEFINE tip == intelligence_manifest[kind].tip
           old == histories[kind]
           row == [id |-> id, previous_hash |-> tip, record_hash |-> Append(tip, id)]
           new == Append(old, row)
<1>1. /\ histories \in [Kinds -> Seq(HistoryRow)]
      /\ intelligence_manifest \in [Kinds -> [count : Nat, tip : Seq(Sources)]]
      /\ intelligence_lost \in BOOLEAN
  BY DEF IntelligenceInv, IntelligenceTypeOK, HistoryRow
<1>2. /\ histories' = [histories EXCEPT ![kind] = new]
      /\ intelligence_manifest' = [intelligence_manifest EXCEPT ![kind] =
           [count |-> intelligence_manifest[kind].count + 1, tip |-> Append(tip, id)]]
      /\ intelligence_lost' = intelligence_lost
  BY DEF Chain, Row
<1>3. tip \in Seq(Sources) /\ Append(tip, id) \in Seq(Sources) /\ old \in Seq(HistoryRow)
  BY <1>1
<1>4. row \in HistoryRow /\ row.id = id /\ row.previous_hash = tip
      /\ row.record_hash = Append(tip, id)
  BY <1>3 DEF HistoryRow
<1> HIDE DEF row
<1>5. /\ new \in Seq(HistoryRow) /\ Len(old) \in Nat /\ Len(new) = Len(old) + 1
      /\ DOMAIN old = 1..Len(old) /\ DOMAIN new = 1..(Len(old) + 1)
      /\ \A i \in 1..Len(old) : new[i] = old[i]
      /\ new[Len(old) + 1] = row
  <2>1. new \in Seq(HistoryRow) /\ Len(new) = Len(old) + 1
        /\ (\A i \in 1..Len(old) : new[i] = old[i]) /\ new[Len(old) + 1] = row
    BY <1>3, <1>4, AppendProperties
  <2> QED
    BY <1>3, <2>1
<1> HIDE DEF new
<1>6. /\ histories'[kind] = new /\ intelligence_manifest'[kind].tip = Append(tip, id)
      /\ intelligence_manifest'[kind].count = intelligence_manifest[kind].count + 1
      /\ \A k \in Kinds : k # kind => /\ histories'[k] = histories[k]
                                      /\ intelligence_manifest'[k] = intelligence_manifest[k]
  BY <1>1, <1>2
<1>7. IntelligenceTypeOK(Sources)'
  <2>1. histories' \in [Kinds -> Seq(HistoryRow)]
    BY <1>1, <1>2, <1>5
  <2>2. intelligence_manifest' \in [Kinds -> [count : Nat, tip : Seq(Sources)]]
    <3>1. intelligence_manifest[kind].count + 1 \in Nat
      BY <1>1
    <3> QED
      BY <1>1, <1>2, <1>3, <3>1
  <2> QED
    BY <1>1, <1>2, <2>1, <2>2 DEF IntelligenceTypeOK, HistoryRow
<1>8. ASSUME NEW k \in Kinds
      PROVE  /\ Len(histories[k]) \in Nat /\ intelligence_manifest[k].count \in Nat
             /\ \/ /\ Len(histories'[k]) = Len(histories[k])
                   /\ intelligence_manifest'[k].count = intelligence_manifest[k].count
                \/ /\ Len(histories'[k]) = Len(histories[k]) + 1
                   /\ intelligence_manifest'[k].count = intelligence_manifest[k].count + 1
  <2>1. histories[k] \in Seq(HistoryRow) /\ intelligence_manifest[k].count \in Nat
    BY <1>1
  <2>2. Len(histories[k]) \in Nat
    BY <2>1
  <2>3. CASE k = kind
    <3>1. Len(histories'[k]) = Len(histories[k]) + 1
      BY <1>5, <1>6, <2>3
    <3>2. intelligence_manifest'[k].count = intelligence_manifest[k].count + 1
      BY <1>6, <2>3
    <3> QED
      BY <2>1, <2>2, <3>1, <3>2
  <2>4. CASE k # kind
    BY <1>6, <2>1, <2>2, <2>4
  <2> QED
    BY <2>3, <2>4
<1>9. \A k \in Kinds : Len(histories[k]) <= intelligence_manifest[k].count
  BY DEF IntelligenceInv
<1>10. ASSUME NEW k \in Kinds
       PROVE  /\ intelligence_manifest'[k].count \in Nat
              /\ Len(histories'[k]) <= intelligence_manifest'[k].count
  <2>1. intelligence_manifest'[k].count \in Nat
    BY <1>7 DEF IntelligenceTypeOK
  <2>2. Len(histories[k]) <= intelligence_manifest[k].count
    BY <1>9
  <2>3. CASE Len(histories'[k]) = Len(histories[k])
    BY <1>8, <2>2, <2>3
  <2>4. CASE Len(histories'[k]) = Len(histories[k]) + 1
    BY <1>8, <2>2, <2>4
  <2> QED
    BY <1>8, <2>1, <2>3, <2>4
<1>11. ASSUME intelligence_lost PROVE IntelligenceInv(Sources)'
  <2>1. PICK k \in Kinds : Len(histories[k]) < intelligence_manifest[k].count
    BY <1>11 DEF IntelligenceInv
  <2>2. Len(histories'[k]) < intelligence_manifest'[k].count
    BY <1>8, <1>10, <2>1
  <2> QED
    BY <1>2, <1>7, <1>10, <1>11, <2>2 DEF IntelligenceInv
<1>12. ASSUME ~intelligence_lost PROVE IntelligenceInv(Sources)'
  <2>1. \A k \in Kinds : HistoryIntact(k)
    BY <1>12 DEF IntelligenceInv, IntelligenceVerifies
  <2>2. ASSUME NEW k \in Kinds, k # kind PROVE HistoryIntact(k)'
    <3>1. /\ histories'[k] = histories[k]
          /\ intelligence_manifest'[k] = intelligence_manifest[k]
      BY <1>6, <2>2
    <3>2. HistoryIntact(k)
      BY <2>1
    <3> QED
      BY <3>1, <3>2 DEF HistoryIntact
  <2>3. HistoryIntact(kind)'
    <3> DEFINE previous(s, i) == IF i = 1 THEN <<>> ELSE s[i - 1].record_hash
    <3>1. /\ Len(old) = intelligence_manifest[kind].count
          /\ \A i \in 1..Len(old) : old[i].previous_hash = previous(old, i)
          /\ previous(old, Len(old) + 1) = tip
      BY <1>5, <2>1 DEF HistoryIntact
    <3>2. \A i \in 1..(Len(old) + 1) : previous(new, i) = previous(old, i)
      <4>1. ASSUME NEW i \in 1..(Len(old) + 1), i # 1 PROVE new[i - 1] = old[i - 1]
        <5>1. i - 1 \in 1..Len(old)
          BY <1>5, <4>1
        <5> QED
          BY <1>5, <5>1
      <4>2. ASSUME NEW i \in 1..(Len(old) + 1) PROVE previous(new, i) = previous(old, i)
        BY <4>1
      <4> HIDE DEF previous
      <4> QED
        BY <4>2
    <3>3. \A i \in 1..(Len(old) + 1) : new[i].previous_hash = previous(new, i)
      <4> SUFFICES ASSUME NEW i \in 1..(Len(old) + 1)
                   PROVE  new[i].previous_hash = previous(new, i)
        OBVIOUS
      <4>1. previous(new, i) = previous(old, i)
        BY <3>2
      <4> HIDE DEF previous
      <4>2. CASE i = Len(old) + 1
        BY <1>4, <1>5, <3>1, <4>1, <4>2
      <4>3. CASE i # Len(old) + 1
        <5>1. i \in 1..Len(old)
          BY <1>5, <4>3
        <5> QED
          BY <1>5, <3>1, <4>1, <5>1
      <4> QED
        BY <4>2, <4>3
    <3>4. previous(new, Len(old) + 2) = Append(tip, id)
      <4>1. Len(old) + 2 # 1 /\ Len(old) + 2 - 1 = Len(old) + 1
        BY <1>5
      <4> QED
        BY <1>4, <1>5, <4>1
    <3> HIDE DEF previous
    <3>5. /\ Len(new) = intelligence_manifest'[kind].count
          /\ \A i \in DOMAIN new : new[i].previous_hash = previous(new, i)
          /\ previous(new, Len(new) + 1) = intelligence_manifest'[kind].tip
      <4>1. Len(new) + 1 = Len(old) + 2
        BY <1>5
      <4> QED
        BY <1>5, <1>6, <3>1, <3>3, <3>4, <4>1
    <3> QED
      BY <1>6, <3>5 DEF HistoryIntact, previous
  <2>4. IntelligenceVerifies'
    BY <2>2, <2>3 DEF IntelligenceVerifies
  <2> QED
    BY <1>2, <1>7, <1>10, <1>12, <2>4 DEF IntelligenceInv
<1>13. Kept(kind) \cup {id} \subseteq Kept(kind)'
  <2>1. \A i \in DOMAIN old : i \in DOMAIN new /\ new[i].id = old[i].id
    BY <1>5
  <2>2. Len(old) + 1 \in DOMAIN new /\ new[Len(old) + 1].id = id
    BY <1>4, <1>5
  <2> QED
    BY <1>6, <2>1, <2>2 DEF Kept
<1>14. \A k \in Kinds : k # kind => Kept(k)' = Kept(k)
  BY <1>6 DEF Kept
<1> QED
  BY <1>2, <1>11, <1>12, <1>13, <1>14

LEMMA LoseIntelligenceInv ==
  ASSUME IntelligenceInv(Sources), LoseIntelligence
  PROVE  IntelligenceInv(Sources)' /\ intelligence_lost' = TRUE
<1>1. /\ histories \in [Kinds -> Seq(HistoryRow)]
      /\ intelligence_manifest \in [Kinds -> [count : Nat, tip : Seq(Sources)]]
  BY DEF IntelligenceInv, IntelligenceTypeOK, HistoryRow
<1>2. PICK kind \in Kinds : \E i \in DOMAIN histories[kind] :
        histories' = [histories EXCEPT ![kind] = RemoveAt(histories[kind], i)]
  BY DEF LoseIntelligence
<1>10. PICK i \in DOMAIN histories[kind] :
        histories' = [histories EXCEPT ![kind] = RemoveAt(histories[kind], i)]
  BY <1>2
<1>3. intelligence_lost' = TRUE /\ intelligence_manifest' = intelligence_manifest
  BY DEF LoseIntelligence
<1> DEFINE old == histories[kind]  new == RemoveAt(old, i)
<1>4. new \in Seq(HistoryRow) /\ Len(new) = Len(old) - 1 /\ Len(old) \in Nat
  <2>1. old \in Seq(HistoryRow) /\ i \in DOMAIN old
    BY <1>1
  <2>2. PICK s \in Seq(HistoryRow) : s = old
    BY <2>1
  <2>3. new = SubSeq(s, 1, i - 1) \o SubSeq(s, i + 1, Len(s)) /\ i \in DOMAIN s
    BY <2>1, <2>2 DEF RemoveAt
  <2> HIDE DEF old, new
  <2>4. new \in Seq(HistoryRow) /\ Len(new) = Len(s) - 1
    BY <2>3, Deleted
  <2> QED
    BY <2>2, <2>4
<1> HIDE DEF new
<1>5. /\ histories'[kind] = new
      /\ \A k \in Kinds : k # kind => histories'[k] = histories[k]
      /\ histories' \in [Kinds -> Seq(HistoryRow)]
  BY <1>1, <1>10, <1>4 DEF new
<1>6. \A k \in Kinds : Len(histories[k]) <= intelligence_manifest[k].count
                         /\ intelligence_manifest[k].count \in Nat
  BY <1>1 DEF IntelligenceInv
<1>7. \A k \in Kinds : Len(histories'[k]) <= intelligence_manifest'[k].count
  BY <1>3, <1>4, <1>5, <1>6
<1>8. Len(histories'[kind]) < intelligence_manifest'[kind].count
  BY <1>3, <1>4, <1>5, <1>6
<1>9. IntelligenceTypeOK(Sources)'
  BY <1>1, <1>3, <1>5 DEF IntelligenceTypeOK, HistoryRow
<1> QED
  BY <1>3, <1>7, <1>8, <1>9 DEF IntelligenceInv

LEMMA IntelligenceIsKept ==
  ASSUME IntelligenceInv(Sources), NEW shared PROVE IntelligenceLossIsNoticed(shared)
<1>1. ASSUME intelligence_lost PROVE ~IntelligenceVerifies
  <2>1. PICK k \in Kinds : Len(histories[k]) < intelligence_manifest[k].count
    BY <1>1 DEF IntelligenceInv
  <2>2. Len(histories[k]) \in Nat /\ intelligence_manifest[k].count \in Nat
    BY DEF IntelligenceInv, IntelligenceTypeOK
  <2> QED
    BY <2>1, <2>2 DEF IntelligenceVerifies, HistoryIntact
<1> QED
  BY <1>1 DEF IntelligenceLossIsNoticed, IntelligenceInv

-----------------------------------------------------------------------------
(* The alerts.                                                             *)

LEMMA AlertsTypes ==
  ASSUME AlertsTypeOK
  PROVE  /\ alerts \in Seq(Alert) /\ Len(alerts) \in Nat /\ DOMAIN alerts = 1..Len(alerts)
         /\ \A i \in DOMAIN alerts : alerts[i] \in Alert /\ alerts[i].expected \in Nat
         /\ alert_manifest.count \in Nat /\ alert_manifest.tip \in Seq(Sources)
         /\ \A d \in deliveries : d \in Delivery /\ d.source \in Sources /\ d.webhook \in Webhooks
<1>1. alerts \in Seq(Alert) /\ Len(alerts) \in Nat /\ DOMAIN alerts = 1..Len(alerts)
  BY DEF AlertsTypeOK
<1>2. \A i \in DOMAIN alerts : alerts[i] \in Alert
  BY <1>1
<1> QED
  BY <1>1, <1>2 DEF AlertsTypeOK, Alert, Delivery

LEMMA OfIsFinite ==
  ASSUME IsFiniteSet(deliveries), NEW s
  PROVE  IsFiniteSet(Of(s)) /\ Cardinality(Of(s)) \in Nat
BY FS_Subset, FS_CardinalityType DEF Of

LEMMA VerifiedHasNoLoss ==
  ASSUME AlertsTypeOK, OutboxInv, AlertsVerify(TRUE) PROVE ~rows_lost
<1> SUFFICES ASSUME rows_lost PROVE FALSE
  OBVIOUS
<1>1. /\ Len(alerts) = alert_manifest.count
      /\ \A i \in DOMAIN alerts : alerts[i].expected = Cardinality(Of(alerts[i].source))
  BY DEF AlertsVerify, Of
<1>2. Len(alerts) < alert_manifest.count
        \/ \E i \in DOMAIN alerts : Cardinality(Of(alerts[i].source)) < alerts[i].expected
  BY DEF OutboxInv
<1> QED
  BY <1>1, <1>2, AlertsTypes

LEMMA AlertsAreKept ==
  ASSUME NEW shared \in BOOLEAN, AlertsInv(shared) PROVE AlertLossIsNoticed(shared)
<1>1. CASE shared
  <2>1. AlertsVerify(TRUE) => ~rows_lost
    BY <1>1, VerifiedHasNoLoss DEF AlertsInv
  <2>2. ~rows_lost => AlertsVerify(TRUE)
    BY <1>1 DEF AlertsInv, OutboxInv
  <2> QED
    BY <1>1, <2>1, <2>2 DEF AlertLossIsNoticed
<1>2. CASE ~shared
  BY <1>2 DEF AlertLossIsNoticed
<1> QED
  BY <1>1, <1>2

(* Whatever happens to the status of deliveries, the counts stay the same. *)
LEMMA DeliveriesReplaced ==
  ASSUME OutboxInv, AlertsTypeOK, NEW f, f = [d \in deliveries |-> f[d]],
         \A d \in deliveries : f[d].source = d.source /\ f[d].webhook = d.webhook,
         deliveries' = {f[d] : d \in deliveries},
         UNCHANGED <<alerts, alert_manifest, rows_lost>>
  PROVE  OutboxInv'
<1>1. \A d \in deliveries' : \E e \in deliveries :
        d = f[e] /\ d.source = e.source /\ d.webhook = e.webhook
  OBVIOUS
<1>2. \A d, e \in deliveries : f[d] = f[e] => d = e
  BY DEF OutboxInv
<1>3. IsFiniteSet(deliveries) /\ IsFiniteSet(deliveries')
  BY ImageIsFinite DEF OutboxInv
<1>4. \A d, e \in deliveries' : d.source = e.source /\ d.webhook = e.webhook => d = e
  BY <1>1 DEF OutboxInv
<1>5. ASSUME NEW s PROVE Cardinality(Of(s)') = Cardinality(Of(s))
  <2> DEFINE S == Of(s)
             T == Of(s)'
             g == [d \in S |-> f[d]]
  <2>1. \A d \in S : d \in deliveries /\ f[d] \in T
    BY DEF Of
  <2>2. \A t \in T : \E d \in S : f[d] = t
    BY <1>1 DEF Of
  <2>3. IsFiniteSet(S)
    BY <1>3, OfIsFinite
  <2>4. \A d, e \in S : f[d] = f[e] => d = e
    BY <1>2, <2>1
  <2> HIDE DEF S, T
  <2>5. g \in [S -> T] /\ \A d \in S : g[d] = f[d]
    BY <2>1
  <2> HIDE DEF g
  <2>7. (\A d, e \in S : g[d] = g[e] => d = e) /\ \A t \in T : \E d \in S : g[d] = t
    BY <2>2, <2>4, <2>5
  <2>6. Cardinality(T) = Cardinality(S)
    BY <2>3, <2>5, <2>7, ImageCounts
  <2> QED
    BY <2>6 DEF S, T
<1>6. Len(alerts') <= alert_manifest'.count
  BY DEF OutboxInv
<1>7. CASE rows_lost
  <2>1. Len(alerts') < alert_manifest'.count
          \/ \E i \in DOMAIN alerts' : Cardinality(Of(alerts[i].source)') < alerts'[i].expected
    BY <1>5, <1>7 DEF OutboxInv
  <2> QED
    BY <1>3, <1>4, <1>6, <1>7, <2>1 DEF OutboxInv
<1>8. CASE ~rows_lost
  <2>1. AlertsVerify(TRUE) /\ \A d \in deliveries : Recorded(d.source)
    BY <1>8 DEF OutboxInv
  <2>2. \A i \in DOMAIN alerts' : alerts'[i].expected = Cardinality(Of(alerts[i].source)')
    <3> SUFFICES ASSUME NEW i \in DOMAIN alerts
                 PROVE  alerts[i].expected = Cardinality(Of(alerts[i].source)')
      OBVIOUS
    <3>1. alerts[i].expected = Cardinality(Of(alerts[i].source))
      BY <2>1 DEF AlertsVerify, Of
    <3> QED
      BY <1>5, <3>1
  <2>3. AlertsVerify(TRUE)'
    BY <2>1, <2>2 DEF AlertsVerify, Of
  <2>4. \A d \in deliveries' : Recorded(d.source)'
    BY <1>1, <2>1 DEF Recorded
  <2> QED
    BY <1>3, <1>4, <1>6, <1>8, <2>3, <2>4 DEF OutboxInv
<1> QED
  BY <1>7, <1>8

LEMMA OneReplaced ==
  ASSUME OutboxInv, AlertsTypeOK, NEW d \in deliveries, NEW new, Update(d, new),
         new.source = d.source, new.webhook = d.webhook,
         UNCHANGED <<alerts, alert_manifest, rows_lost>>
  PROVE  OutboxInv'
<1> DEFINE f == [x \in deliveries |-> IF x = d THEN new ELSE x]
<1>1. f = [x \in deliveries |-> f[x]]
  OBVIOUS
<1>2. \A x \in deliveries : f[x].source = x.source /\ f[x].webhook = x.webhook
  OBVIOUS
<1>3. deliveries' = {f[x] : x \in deliveries}
  BY DEF Update
<1> HIDE DEF f
<1> QED
  BY <1>1, <1>2, <1>3, DeliveriesReplaced

Replaces(g, held) ==
  /\ held \subseteq deliveries
  /\ \A d \in held : g[d].source = d.source /\ g[d].webhook = d.webhook
  /\ deliveries' = (deliveries \ held) \cup {g[d] : d \in held}

LEMMA SomeReplaced ==
  ASSUME OutboxInv, AlertsTypeOK, NEW held, NEW g, Replaces(g, held),
         UNCHANGED <<alerts, alert_manifest, rows_lost>>
  PROVE  OutboxInv'
<1> USE DEF Replaces
<1> DEFINE f == [x \in deliveries |-> IF x \in held THEN g[x] ELSE x]
<1>1. f = [x \in deliveries |-> f[x]]
  OBVIOUS
<1>2. \A x \in deliveries : f[x].source = x.source /\ f[x].webhook = x.webhook
  OBVIOUS
<1>3. deliveries' = {f[x] : x \in deliveries}
  OBVIOUS
<1> HIDE DEF f
<1> QED
  BY <1>1, <1>2, <1>3, DeliveriesReplaced

LEMMA OutboxUntouched ==
  ASSUME OutboxInv, UNCHANGED <<alerts, deliveries, alert_manifest, rows_lost>>
  PROVE  OutboxInv'
<1>1. AlertsVerify(TRUE)' = AlertsVerify(TRUE)
  BY DEF AlertsVerify
<1>2. (\A d : Recorded(d.source)' = Recorded(d.source)) /\ \A x : Of(x)' = Of(x)
  BY DEF Of, Recorded
<1> QED
  BY <1>1, <1>2 DEF OutboxInv

LEMMA FreshLeaseIsFree ==
  ASSUME AlertsTypeOK, IsFiniteSet(dispatches), NEW d
  PROVE  FreshLease(d) \in Nat /\ FreshLease(d) \notin Leases(d)
<1> DEFINE mine == {y \in dispatches : y.source = d.source /\ y.webhook = d.webhook}
           lease == [x \in mine |-> x.lease]
           n == Cardinality(dispatches) + 1
<1>1. IsFiniteSet(mine) /\ Cardinality(mine) <= Cardinality(dispatches)
  BY FS_Subset
<1>2. Leases(d) = {lease[x] : x \in mine}
  BY DEF Leases
<1> HIDE DEF mine
<1>3. DOMAIN lease = mine /\ lease = [x \in mine |-> lease[x]]
  OBVIOUS
<1> HIDE DEF lease
<1>4. IsFiniteSet(Leases(d)) /\ Cardinality(Leases(d)) <= Cardinality(mine)
  BY <1>1, <1>2, <1>3, ImageIsFinite
<1>5. /\ Cardinality(Leases(d)) \in Nat /\ Cardinality(mine) \in Nat
      /\ Cardinality(dispatches) \in Nat
  BY <1>1, <1>4, FS_CardinalityType
<1>6. \E k \in 1..n : k \notin Leases(d)
  <2> SUFFICES ASSUME 1..n \subseteq Leases(d) PROVE FALSE
    OBVIOUS
  <2>1. Cardinality(1..n) <= Cardinality(Leases(d))
    BY <1>4, FS_Subset
  <2>2. Cardinality(1..n) = n
    BY <1>5, FS_Interval
  <2> QED
    BY <1>1, <1>4, <1>5, <2>1, <2>2
<1>7. FreshLease(d) \in 1..n /\ FreshLease(d) \notin Leases(d)
  BY <1>6 DEF FreshLease
<1> QED
  BY <1>5, <1>7

LEMMA CreateWebhookInv ==
  ASSUME NEW shared \in BOOLEAN, AlertsInv(shared), NEW w \in Webhooks, CreateWebhook(shared, w)
  PROVE  AlertsInv(shared)' /\ UNCHANGED <<alerts, rows_lost>>
<1>1. /\ webhooks[w] = "absent" /\ webhooks' = [webhooks EXCEPT ![w] = "enabled"]
      /\ UNCHANGED <<alerts, deliveries, alert_manifest, dispatches, rows_lost, stalls>>
  BY DEF CreateWebhook
<1>2. webhooks \in [Webhooks -> {"absent", "enabled", "disabled"}]
  BY DEF AlertsInv, AlertsTypeOK
<1>3. AlertsTypeOK' /\ (rows_lost \in BOOLEAN)'
  BY <1>1, <1>2 DEF AlertsInv, AlertsTypeOK
<1>4. Enabled' = Enabled \cup {w}
  BY <1>1, <1>2 DEF Enabled
<1>5. IsFiniteSet(Enabled') /\ IsFiniteSet(dispatches')
  BY <1>1, <1>4, FS_AddElement DEF AlertsInv
<1>6. DisabledIsSilent'
  <2>1. \A v \in Webhooks : webhooks'[v] = "disabled" => webhooks[v] = "disabled"
    BY <1>1, <1>2
  <2>2. \A d \in deliveries : d.webhook \in Webhooks
    BY AlertsTypes DEF AlertsInv
  <2> QED
    BY <1>1, <2>1, <2>2 DEF AlertsInv, DisabledIsSilent
<1>7. shared => OutboxInv'
  BY <1>1, OutboxUntouched DEF AlertsInv
<1> QED
  BY <1>1, <1>3, <1>5, <1>6, <1>7 DEF AlertsInv

LEMMA DisableWebhookInv ==
  ASSUME NEW shared \in BOOLEAN, AlertsInv(shared), NEW w \in Webhooks,
         DisableWebhook(shared, w)
  PROVE  AlertsInv(shared)' /\ UNCHANGED <<alerts, rows_lost>>
<1> DEFINE open == {d \in deliveries : d.webhook = w /\ d.status \in Unfinished}
           ended == [d \in open |-> [d EXCEPT !.status = "dead", !.lease = 0]]
<1>1. /\ webhooks' = [webhooks EXCEPT ![w] = "disabled"]
      /\ deliveries' = (deliveries \ open) \cup
           {[d EXCEPT !.status = "dead", !.lease = 0] : d \in open}
      /\ UNCHANGED <<alerts, alert_manifest, dispatches, rows_lost, stalls>>
  BY DEF DisableWebhook
<1>2. /\ webhooks \in [Webhooks -> {"absent", "enabled", "disabled"}]
      /\ deliveries \subseteq Delivery /\ AlertsTypeOK
  BY DEF AlertsInv, AlertsTypeOK
<1>3. \A d \in open : /\ ended[d] \in Delivery /\ ended[d].status = "dead"
                      /\ ended[d].source = d.source /\ ended[d].webhook = d.webhook
  <2> TAKE d \in open
  <2>1. d \in Delivery
    BY <1>2
  <2>2. ended[d] = [source |-> d.source, webhook |-> d.webhook, status |-> "dead",
                    attempts |-> d.attempts, lease |-> 0]
    BY <2>1 DEF Delivery
  <2> HIDE DEF ended
  <2> QED
    BY <2>1, <2>2 DEF Delivery
<1>4. deliveries' = (deliveries \ open) \cup {ended[d] : d \in open}
  BY <1>1
<1>5. open \in SUBSET deliveries
  OBVIOUS
<1> HIDE DEF ended
<1>6. \A d \in deliveries' : d \in Delivery /\ \/ d \in deliveries /\ d \notin open
                                               \/ d.status = "dead"
  BY <1>2, <1>3, <1>4
<1>7. AlertsTypeOK' /\ (rows_lost \in BOOLEAN)'
  <2>1. deliveries' \subseteq Delivery
    BY <1>6
  <2>2. webhooks' \in [Webhooks -> {"absent", "enabled", "disabled"}]
    BY <1>1, <1>2
  <2> QED
    BY <1>1, <2>1, <2>2 DEF AlertsInv, AlertsTypeOK
<1>8. IsFiniteSet(Enabled') /\ IsFiniteSet(dispatches')
  <2>1. Enabled' \subseteq Enabled
    BY <1>1, <1>2 DEF Enabled
  <2> QED
    BY <1>1, <2>1, FS_Subset DEF AlertsInv
<1>9. DisabledIsSilent'
  <2> SUFFICES ASSUME NEW d \in deliveries', webhooks'[d.webhook] = "disabled"
               PROVE  d.status \notin Unfinished
    BY DEF DisabledIsSilent, Unfinished
  <2>1. CASE d.status = "dead"
    BY <2>1 DEF Unfinished
  <2>2. CASE d \in deliveries /\ d \notin open
    <3>1. d.webhook \in Webhooks
      BY <2>2, <1>2, AlertsTypes
    <3>2. CASE d.webhook = w
      BY <2>2, <3>2
    <3>3. CASE d.webhook # w
      BY <1>1, <1>2, <2>2, <3>1, <3>3 DEF AlertsInv, DisabledIsSilent
    <3> QED
      BY <3>2, <3>3
  <2> QED
    BY <1>6, <2>1, <2>2
<1> HIDE DEF open
<1>10. shared => OutboxInv'
  <2>1. shared => OutboxInv
    BY DEF AlertsInv
  <2>2. Replaces(ended, open)
    BY <1>3, <1>4, <1>5 DEF Replaces
  <2> QED
    BY <1>1, <1>2, <2>1, <2>2, SomeReplaced
<1> QED
  BY <1>1, <1>7, <1>8, <1>9, <1>10 DEF AlertsInv

LEMMA FinishDeliveryInv ==
  ASSUME NEW shared \in BOOLEAN, AlertsInv(shared), NEW x,
         NEW result, FinishDelivery(x, result)
  PROVE  AlertsInv(shared)' /\ UNCHANGED <<alerts, rows_lost>>
<1> DEFINE held == {d \in deliveries : /\ d.source = x.source /\ d.webhook = x.webhook
                                       /\ d.status = "processing" /\ d.lease = x.lease}
           ended == [d \in held |-> [d EXCEPT !.status = Outcome(d, result), !.lease = 0]]
<1>1. /\ dispatches' = dispatches \ {x}
      /\ deliveries' = (deliveries \ held) \cup
           {[d EXCEPT !.status = Outcome(d, result), !.lease = 0] : d \in held}
      /\ UNCHANGED <<alerts, webhooks, alert_manifest, rows_lost, stalls>>
  BY DEF FinishDelivery
<1>2. deliveries \subseteq Delivery /\ AlertsTypeOK
  BY DEF AlertsInv, AlertsTypeOK
<1>3. \A d : Outcome(d, result) \in {"delivered", "pending", "dead"}
  BY DEF Outcome
<1>4. \A d \in held : /\ ended[d] \in Delivery
                      /\ ended[d].source = d.source /\ ended[d].webhook = d.webhook
  <2> TAKE d \in held
  <2>1. d \in Delivery
    BY <1>2
  <2>2. ended[d] = [source |-> d.source, webhook |-> d.webhook, status |-> Outcome(d, result),
                    attempts |-> d.attempts, lease |-> 0]
    BY <2>1 DEF Delivery
  <2> HIDE DEF ended
  <2> QED
    BY <1>3, <2>1, <2>2 DEF Delivery
<1>5. deliveries' = (deliveries \ held) \cup {ended[d] : d \in held}
  BY <1>1
<1>6. held \in SUBSET deliveries /\ \A d \in held : d.status = "processing"
  OBVIOUS
<1> HIDE DEF ended, held
<1>7. AlertsTypeOK' /\ (rows_lost \in BOOLEAN)'
  <2>1. deliveries' \subseteq Delivery
    BY <1>2, <1>4, <1>5
  <2> QED
    BY <1>1, <2>1 DEF AlertsInv, AlertsTypeOK
<1>8. IsFiniteSet(Enabled') /\ IsFiniteSet(dispatches')
  <2>1. Enabled' = Enabled /\ dispatches' \subseteq dispatches
    BY <1>1 DEF Enabled
  <2> QED
    BY <2>1, FS_Subset DEF AlertsInv
<1>9. DisabledIsSilent'
  <2> SUFFICES ASSUME NEW d \in deliveries', webhooks[d.webhook] = "disabled"
               PROVE  d.status \notin Unfinished
    BY <1>1 DEF DisabledIsSilent, Unfinished
  <2>1. d \in deliveries
    <3> SUFFICES ASSUME NEW e \in held, d = ended[e] PROVE FALSE
      BY <1>5
    <3> QED
      BY <1>4, <1>6 DEF AlertsInv, DisabledIsSilent, Unfinished
  <2> QED
    BY <2>1 DEF AlertsInv, DisabledIsSilent
<1>10. shared => OutboxInv'
  <2>1. shared => OutboxInv
    BY DEF AlertsInv
  <2>2. Replaces(ended, held)
    BY <1>4, <1>5, <1>6 DEF Replaces
  <2> QED
    BY <1>1, <1>2, <2>1, <2>2, SomeReplaced
<1> QED
  BY <1>1, <1>7, <1>8, <1>9, <1>10 DEF AlertsInv

LEMMA DispatchDiesInv ==
  ASSUME NEW shared \in BOOLEAN, AlertsInv(shared), NEW x, DispatchDies(x)
  PROVE  AlertsInv(shared)' /\ UNCHANGED <<alerts, rows_lost>>
<1>1. /\ dispatches' \subseteq dispatches /\ stalls > 0 /\ stalls' = stalls - 1
      /\ UNCHANGED <<alerts, webhooks, deliveries, alert_manifest, rows_lost>>
  BY DEF DispatchDies
<1>2. stalls \in Nat /\ stalls' \in Nat
  BY <1>1 DEF AlertsInv, AlertsTypeOK
<1>3. AlertsTypeOK' /\ (rows_lost \in BOOLEAN)'
  BY <1>1, <1>2 DEF AlertsInv, AlertsTypeOK
<1>4. IsFiniteSet(Enabled') /\ IsFiniteSet(dispatches')
  <2>1. Enabled' = Enabled
    BY <1>1 DEF Enabled
  <2> QED
    BY <1>1, <2>1, FS_Subset DEF AlertsInv
<1>5. DisabledIsSilent' /\ (shared => OutboxInv')
  BY <1>1, OutboxUntouched DEF AlertsInv, DisabledIsSilent
<1> QED
  BY <1>1, <1>3, <1>4, <1>5 DEF AlertsInv

LEMMA RedriveDeliveryInv ==
  ASSUME NEW shared \in BOOLEAN, AlertsInv(shared), NEW d \in deliveries,
         RedriveDelivery(shared, d)
  PROVE  AlertsInv(shared)' /\ UNCHANGED <<alerts, rows_lost>>
<1> DEFINE new == [d EXCEPT !.status = "pending", !.attempts = 0]
<1>1. /\ Update(d, new) /\ webhooks[d.webhook] = "enabled"
      /\ UNCHANGED <<alerts, webhooks, alert_manifest, dispatches, rows_lost, stalls>>
  BY DEF RedriveDelivery
<1>2. deliveries \subseteq Delivery /\ AlertsTypeOK /\ MaxAttempts \in Nat
  BY AlertAssumption DEF AlertsInv, AlertsTypeOK
<1>3. new \in Delivery /\ new.source = d.source /\ new.webhook = d.webhook
  <2>1. d \in Delivery /\ 0 \in 0..MaxAttempts
    BY <1>2
  <2> QED
    BY <2>1 DEF Delivery
<1> HIDE DEF new
<1>4. deliveries' = (deliveries \ {d}) \cup {new}
  BY <1>1 DEF Update
<1>5. AlertsTypeOK' /\ (rows_lost \in BOOLEAN)'
  BY <1>1, <1>2, <1>3, <1>4 DEF AlertsInv, AlertsTypeOK
<1>6. IsFiniteSet(Enabled') /\ IsFiniteSet(dispatches')
  BY <1>1 DEF AlertsInv, Enabled
<1>7. DisabledIsSilent'
  BY <1>1, <1>3, <1>4 DEF AlertsInv, DisabledIsSilent
<1>8. shared => OutboxInv'
  BY <1>1, <1>2, <1>3, OneReplaced DEF AlertsInv
<1> QED
  BY <1>1, <1>5, <1>6, <1>7, <1>8 DEF AlertsInv

LEMMA ClaimDeliveryInv ==
  ASSUME NEW shared \in BOOLEAN, AlertsInv(shared), NEW d \in deliveries, ClaimDelivery(d)
  PROVE  AlertsInv(shared)' /\ UNCHANGED <<alerts, rows_lost>>
<1> DEFINE new == [d EXCEPT !.status = "processing", !.lease = FreshLease(d),
                            !.attempts = IF @ = MaxAttempts THEN @ ELSE @ + 1]
           claim == [source |-> d.source, webhook |-> d.webhook, lease |-> FreshLease(d)]
<1>1. /\ Update(d, new) /\ webhooks[d.webhook] = "enabled"
      /\ dispatches' = dispatches \cup {claim}
      /\ stalls' = (IF Held(d) THEN stalls - 1 ELSE stalls) /\ (Held(d) => stalls > 0)
      /\ UNCHANGED <<alerts, webhooks, alert_manifest, rows_lost>>
  BY DEF ClaimDelivery
<1>2. deliveries \subseteq Delivery /\ AlertsTypeOK /\ MaxAttempts \in Nat
  BY AlertAssumption DEF AlertsInv, AlertsTypeOK
<1>3. FreshLease(d) \in Nat
  BY FreshLeaseIsFree DEF AlertsInv
<1>4. new \in Delivery /\ new.source = d.source /\ new.webhook = d.webhook
  <2>1. d \in Delivery /\ (d.attempts # MaxAttempts => d.attempts + 1 \in 0..MaxAttempts)
    BY <1>2 DEF Delivery
  <2> QED
    BY <1>3, <2>1 DEF Delivery
<1>5. claim \in [source : Sources, webhook : Webhooks, lease : Nat]
  BY <1>2, <1>3 DEF Delivery
<1> HIDE DEF new, claim
<1>6. deliveries' = (deliveries \ {d}) \cup {new}
  BY <1>1 DEF Update
<1>7. AlertsTypeOK' /\ (rows_lost \in BOOLEAN)'
  <2>1. stalls' \in Nat
    BY <1>1, <1>2 DEF AlertsTypeOK
  <2>2. dispatches' \subseteq [source : Sources, webhook : Webhooks, lease : Nat]
    BY <1>1, <1>2, <1>5 DEF AlertsTypeOK
  <2> QED
    BY <1>1, <1>2, <1>4, <1>6, <2>1, <2>2 DEF AlertsInv, AlertsTypeOK
<1>8. IsFiniteSet(Enabled') /\ IsFiniteSet(dispatches')
  BY <1>1, FS_AddElement DEF AlertsInv, Enabled
<1>9. DisabledIsSilent'
  BY <1>1, <1>4, <1>6 DEF AlertsInv, DisabledIsSilent
<1>10. shared => OutboxInv'
  BY <1>1, <1>2, <1>4, OneReplaced DEF AlertsInv
<1> QED
  BY <1>1, <1>7, <1>8, <1>9, <1>10 DEF AlertsInv

LEMMA EnqueuedIsFinite ==
  ASSUME AlertsTypeOK, IsFiniteSet(Enabled), NEW source \in Sources
  PROVE  /\ IsFiniteSet(Enqueued(source)) /\ Cardinality(Enqueued(source)) \in Nat
         /\ Enqueued(source) \subseteq Delivery
         /\ \A d \in Enqueued(source) : d.source = source /\ webhooks[d.webhook] = "enabled"
         /\ \A d, e \in Enqueued(source) : d.webhook = e.webhook => d = e
<1> DEFINE row(w) == [source |-> source, webhook |-> w, status |-> "pending",
                      attempts |-> 0, lease |-> 0]
           f == [w \in Enabled |-> row(w)]
<1>1. Enqueued(source) = {f[w] : w \in Enabled}
  BY DEF Enqueued
<1>2. \A w \in Enabled : /\ f[w] \in Delivery /\ f[w].source = source /\ f[w].webhook = w
                         /\ webhooks[w] = "enabled"
  <2>1. 0 \in 0..MaxAttempts
    BY AlertAssumption
  <2> QED
    BY <2>1 DEF Enabled, Delivery
<1>3. DOMAIN f = Enabled /\ f = [w \in Enabled |-> f[w]]
  OBVIOUS
<1> HIDE DEF f
<1>4. IsFiniteSet(Enqueued(source)) /\ Cardinality(Enqueued(source)) \in Nat
  BY <1>1, <1>3, ImageIsFinite
<1> QED
  BY <1>1, <1>2, <1>4

LEMMA RecordAlertInv ==
  ASSUME NEW shared \in BOOLEAN, AlertsInv(shared), NEW source \in Sources,
         RecordAlert(shared, source)
  PROVE  /\ AlertsInv(shared)' /\ rows_lost' = rows_lost /\ Recorded(source)'
         /\ \A s : Recorded(s) => Recorded(s)'
<1>1. CASE Recorded(source)
  <2>1. UNCHANGED <<alerts, webhooks, deliveries, alert_manifest, dispatches, rows_lost, stalls>>
    BY <1>1 DEF RecordAlert, alertVars
  <2>2. AlertsTypeOK' /\ DisabledIsSilent' /\ Enabled' = Enabled
    BY <2>1 DEF AlertsInv, AlertsTypeOK, DisabledIsSilent, Enabled
  <2>3. shared => OutboxInv'
    BY <2>1, OutboxUntouched DEF AlertsInv
  <2> QED
    BY <1>1, <2>1, <2>2, <2>3 DEF AlertsInv, Recorded
<1>2. CASE ~Recorded(source)
  <2> DEFINE tip == alert_manifest.tip
             n == Len(alerts)
             a == [source |-> source, previous_hash |-> tip,
                   record_hash |-> Append(tip, source),
                   expected |-> Cardinality(Enqueued(source))]
  <2>1. /\ AlertsVerify(shared) /\ alerts' = Append(alerts, a)
        /\ deliveries' = deliveries \cup Enqueued(source)
        /\ alert_manifest' = [count |-> alert_manifest.count + 1,
                              tip |-> Append(tip, source)]
        /\ UNCHANGED <<webhooks, dispatches, rows_lost, stalls>>
    BY <1>2 DEF RecordAlert
  <2>2. /\ alerts \in Seq(Alert) /\ n \in Nat /\ DOMAIN alerts = 1..n
        /\ tip \in Seq(Sources) /\ alert_manifest.count \in Nat
        /\ AlertsTypeOK /\ IsFiniteSet(Enabled)
    BY AlertsTypes DEF AlertsInv
  <2>3. /\ IsFiniteSet(Enqueued(source)) /\ Cardinality(Enqueued(source)) \in Nat
        /\ Enqueued(source) \subseteq Delivery
        /\ \A d \in Enqueued(source) : d.source = source /\ webhooks[d.webhook] = "enabled"
        /\ \A d, e \in Enqueued(source) : d.webhook = e.webhook => d = e
    BY <2>2, EnqueuedIsFinite
  <2>4. Append(tip, source) \in Seq(Sources)
    BY <2>2
  <2>5. /\ a \in Alert /\ a.source = source /\ a.previous_hash = tip
        /\ a.record_hash = Append(tip, source) /\ a.expected = Cardinality(Enqueued(source))
    BY <2>2, <2>3, <2>4 DEF Alert
  <2> HIDE DEF a
  <2>6. /\ alerts' \in Seq(Alert) /\ Len(alerts') = n + 1 /\ DOMAIN alerts' = 1..(n + 1)
        /\ (\A i \in 1..n : alerts'[i] = alerts[i]) /\ alerts'[n + 1] = a
        /\ alerts' # <<>>
    <3>1. alerts' \in Seq(Alert) /\ Len(alerts') = n + 1
          /\ (\A i \in 1..n : alerts'[i] = alerts[i]) /\ alerts'[n + 1] = a /\ alerts' # <<>>
      BY <2>1, <2>2, <2>5, AppendProperties
    <3> QED
      BY <2>2, <3>1
  <2> HIDE DEF n
  <2>7. AlertsTypeOK'
    <3>1. alert_manifest' \in [count : Nat, tip : Seq(Sources)]
      BY <2>1, <2>2, <2>4
    <3> QED
      BY <2>1, <2>2, <2>3, <2>6, <3>1 DEF AlertsTypeOK
  <2>8. IsFiniteSet(Enabled') /\ IsFiniteSet(dispatches') /\ (rows_lost \in BOOLEAN)'
    BY <2>1 DEF AlertsInv, Enabled
  <2>9. DisabledIsSilent'
    BY <2>1, <2>3 DEF AlertsInv, DisabledIsSilent
  <2>10. Recorded(source)' /\ \A s : Recorded(s) => Recorded(s)'
    <3>1. n + 1 \in DOMAIN alerts' /\ \A i \in 1..n : i \in DOMAIN alerts'
      BY <2>2, <2>6
    <3> QED
      BY <2>2, <2>5, <2>6, <3>1 DEF Recorded
  <2>11. ASSUME shared PROVE OutboxInv'
    <3>1. OutboxInv /\ AlertsVerify(TRUE)
      BY <2>1, <2>11 DEF AlertsInv
    <3>2. ~rows_lost
      BY <2>2, <3>1, VerifiedHasNoLoss
    <3>3. \A d \in deliveries : Recorded(d.source)
      BY <3>1, <3>2 DEF OutboxInv
    <3>4. IsFiniteSet(deliveries')
      BY <2>1, <2>3, <3>1, FS_Union DEF OutboxInv
    <3>5. \A d, e \in deliveries' : d.source = e.source /\ d.webhook = e.webhook => d = e
      <4>1. \A d, e \in deliveries : d.source = e.source /\ d.webhook = e.webhook => d = e
        BY <3>1 DEF OutboxInv
      <4>2. \A d \in deliveries : d.source # source
        BY <1>2, <3>3
      <4> QED
        BY <2>1, <2>3, <4>1, <4>2
    <3>6. \A d \in deliveries' : Recorded(d.source)'
      BY <2>1, <2>3, <2>10, <3>3
    <3>7. n = alert_manifest.count
      BY <3>1 DEF AlertsVerify, n
    <3>8. \A i \in 1..n : alerts[i].source # source
      BY <1>2, <2>2 DEF Recorded
    <3>9. Of(source)' = Enqueued(source) /\ \A s : s # source => Of(s)' = Of(s)
      <4>1. \A d \in deliveries : d.source # source
        BY <1>2, <3>3
      <4> QED
        BY <2>1, <2>3, <4>1 DEF Of
    <3>10. \A i \in 1..(n + 1) : alerts'[i].expected = Cardinality(Of(alerts[i].source)')
      <4> SUFFICES ASSUME NEW i \in 1..(n + 1)
                   PROVE  alerts'[i].expected = Cardinality(Of(alerts[i].source)')
        OBVIOUS
      <4>1. CASE i = n + 1
        BY <2>5, <2>6, <3>9, <4>1 DEF Of
      <4>2. CASE i # n + 1
        <5>1. i \in 1..n
          BY <2>2, <4>2
        <5>2. alerts'[i] = alerts[i] /\ alerts[i].source # source
          BY <2>6, <3>8, <5>1
        <5>3. alerts[i].expected = Cardinality(Of(alerts[i].source))
          BY <2>2, <3>1, <5>1 DEF AlertsVerify, Of
        <5>4. Of(alerts[i].source)' = Of(alerts[i].source)
          BY <3>9, <5>2 DEF Of
        <5> QED
          BY <5>2, <5>3, <5>4
      <4> QED
        BY <4>1, <4>2
    <3>11. \A i \in 1..n : alerts[i].previous_hash =
             IF i = 1 THEN <<>> ELSE alerts[i - 1].record_hash
      BY <2>2, <3>1 DEF AlertsVerify
    <3>12. tip = IF n = 0 THEN <<>> ELSE alerts[n].record_hash
      <4>1. n = 0 <=> alerts = <<>>
        BY <2>2 DEF n
      <4> QED
        BY <3>1, <4>1 DEF AlertsVerify, n
    <3>13. ASSUME NEW i \in 1..(n + 1)
           PROVE  alerts'[i].previous_hash =
                    IF i = 1 THEN <<>> ELSE alerts'[i - 1].record_hash
      <4>1. CASE i = n + 1
        <5>1. alerts'[i].previous_hash = tip
          BY <2>5, <2>6, <4>1
        <5>2. CASE n = 0
          BY <3>12, <4>1, <5>1, <5>2
        <5>3. CASE n # 0
          <6>1. i # 1 /\ i - 1 = n /\ n \in 1..n
            BY <2>2, <4>1, <5>3
          <6> QED
            BY <2>6, <3>12, <5>1, <5>3, <6>1
        <5> QED
          BY <5>2, <5>3
      <4>2. CASE i # n + 1
        <5>1. i \in 1..n /\ (i # 1 => i - 1 \in 1..n)
          BY <2>2, <4>2
        <5> QED
          BY <2>6, <3>11, <5>1
      <4> QED
        BY <4>1, <4>2
    <3>14. /\ Len(alerts') = alert_manifest'.count
           /\ alert_manifest'.tip = alerts'[Len(alerts')].record_hash
      BY <2>1, <2>5, <2>6, <3>7
    <3>15. AlertsVerify(TRUE)'
      BY <2>6, <3>10, <3>13, <3>14 DEF AlertsVerify, Of
    <3>16. Len(alerts') <= alert_manifest'.count
      BY <2>1, <2>2, <2>6, <3>7
    <3> QED
      BY <2>1, <3>2, <3>4, <3>5, <3>6, <3>15, <3>16 DEF OutboxInv
  <2> QED
    BY <2>1, <2>7, <2>8, <2>9, <2>10, <2>11 DEF AlertsInv
<1> QED
  BY <1>1, <1>2

LEMMA LoseAlertInv ==
  ASSUME NEW shared \in BOOLEAN, AlertsInv(shared), LoseAlert
  PROVE  AlertsInv(shared)' /\ rows_lost' = TRUE
<1>1. rows_lost' = TRUE /\ UNCHANGED <<webhooks, alert_manifest, dispatches, stalls>>
  BY DEF LoseAlert
<1>2. AlertsTypeOK
  BY DEF AlertsInv
<1>3. IsFiniteSet(Enabled') /\ IsFiniteSet(dispatches')
  BY <1>1 DEF AlertsInv, Enabled
<1>4. ASSUME NEW i \in DOMAIN alerts,
             alerts' = SubSeq(alerts, 1, i - 1) \o SubSeq(alerts, i + 1, Len(alerts)),
             UNCHANGED deliveries
      PROVE  AlertsInv(shared)'
  <2>1. alerts' \in Seq(Alert) /\ Len(alerts') = Len(alerts) - 1 /\ Len(alerts) \in Nat
    BY <1>2, <1>4, AlertsTypes, Deleted
  <2>2. AlertsTypeOK'
    BY <1>1, <1>2, <1>4, <2>1 DEF AlertsTypeOK
  <2>3. DisabledIsSilent'
    BY <1>1, <1>4 DEF AlertsInv, DisabledIsSilent
  <2>4. ASSUME shared PROVE OutboxInv'
    <3>1. Len(alerts) <= alert_manifest.count /\ alert_manifest.count \in Nat
      BY <1>2, <2>4, AlertsTypes DEF AlertsInv, OutboxInv
    <3>2. Len(alerts') < alert_manifest'.count /\ Len(alerts') <= alert_manifest'.count
      BY <1>1, <2>1, <3>1
    <3> QED
      BY <1>1, <1>4, <2>4, <3>2 DEF AlertsInv, OutboxInv
  <2> QED
    BY <1>1, <1>3, <2>2, <2>3, <2>4 DEF AlertsInv
<1>5. ASSUME NEW d \in deliveries, deliveries' = deliveries \ {d}, UNCHANGED alerts
      PROVE  AlertsInv(shared)'
  <2>1. AlertsTypeOK' /\ DisabledIsSilent'
    BY <1>1, <1>2, <1>5 DEF AlertsInv, AlertsTypeOK, DisabledIsSilent
  <2>2. ASSUME shared PROVE OutboxInv'
    <3>1. OutboxInv
      BY <2>2 DEF AlertsInv
    <3>2. IsFiniteSet(deliveries) /\ IsFiniteSet(deliveries')
      BY <1>5, <3>1, FS_Subset DEF OutboxInv
    <3>3. \A s : /\ Cardinality(Of(s)) \in Nat /\ Cardinality(Of(s)') \in Nat
                 /\ Cardinality(Of(s)') <= Cardinality(Of(s))
                 /\ s = d.source => Cardinality(Of(s)') = Cardinality(Of(s)) - 1
      <4> SUFFICES ASSUME NEW s
                   PROVE  /\ Cardinality(Of(s)) \in Nat /\ Cardinality(Of(s)') \in Nat
                          /\ Cardinality(Of(s)') <= Cardinality(Of(s))
                          /\ s = d.source => Cardinality(Of(s)') = Cardinality(Of(s)) - 1
        OBVIOUS
      <4>1. IsFiniteSet(Of(s)) /\ Cardinality(Of(s)) \in Nat
        BY <3>2, OfIsFinite
      <4>2. Of(s)' = Of(s) \ {d} /\ (s = d.source => d \in Of(s))
        BY <1>5 DEF Of
      <4>3. /\ IsFiniteSet(Of(s)')
            /\ Cardinality(Of(s)') =
                 IF d \in Of(s) THEN Cardinality(Of(s)) - 1 ELSE Cardinality(Of(s))
        BY <4>1, <4>2, FS_RemoveElement
      <4>4. Cardinality(Of(s)') \in Nat
        BY <4>3, FS_CardinalityType
      <4> QED
        BY <4>1, <4>2, <4>3, <4>4
    <3>4. Len(alerts') < alert_manifest'.count
            \/ \E i \in DOMAIN alerts' : Cardinality(Of(alerts[i].source)') < alerts'[i].expected
      <4>1. CASE rows_lost
        <5>1. CASE Len(alerts) < alert_manifest.count
          BY <1>1, <1>5, <5>1
        <5>2. CASE \E i \in DOMAIN alerts :
                     Cardinality(Of(alerts[i].source)) < alerts[i].expected
          <6>1. PICK i \in DOMAIN alerts :
                  Cardinality(Of(alerts[i].source)) < alerts[i].expected
            BY <5>2
          <6>2. Cardinality(Of(alerts[i].source)') <= Cardinality(Of(alerts[i].source))
            BY <1>5, <3>3 DEF Of
          <6>3. alerts[i].expected \in Nat /\ Cardinality(Of(alerts[i].source)) \in Nat
                /\ Cardinality(Of(alerts[i].source)') \in Nat
            BY <1>2, <1>5, <3>3, AlertsTypes DEF Of
          <6>4. Cardinality(Of(alerts[i].source)') < alerts[i].expected
            BY <6>1, <6>2, <6>3
          <6> QED
            BY <1>5, <6>4
        <5> QED
          BY <3>1, <4>1, <5>1, <5>2 DEF OutboxInv
      <4>2. CASE ~rows_lost
        <5>1. PICK i \in DOMAIN alerts : alerts[i].source = d.source
          BY <3>1, <4>2 DEF OutboxInv, Recorded
        <5>2. alerts[i].expected = Cardinality(Of(alerts[i].source))
          BY <3>1, <4>2 DEF OutboxInv, AlertsVerify, Of
        <5>3. /\ Cardinality(Of(alerts[i].source)') = Cardinality(Of(alerts[i].source)) - 1
              /\ Cardinality(Of(alerts[i].source)) \in Nat
          BY <1>5, <3>3, <5>1 DEF Of
        <5>4. Cardinality(Of(alerts[i].source)') < alerts[i].expected
          BY <5>2, <5>3
        <5> QED
          BY <1>5, <5>4
      <4> QED
        BY <4>1, <4>2
    <3>5. Len(alerts') <= alert_manifest'.count
      BY <1>1, <1>5, <3>1 DEF OutboxInv
    <3>6. \A x, y \in deliveries' : x.source = y.source /\ x.webhook = y.webhook => x = y
      BY <1>5, <3>1 DEF OutboxInv
    <3> QED
      BY <1>1, <3>2, <3>4, <3>5, <3>6 DEF OutboxInv
  <2> QED
    BY <1>1, <1>3, <2>1, <2>2 DEF AlertsInv
<1> QED
  BY <1>1, <1>4, <1>5 DEF LoseAlert

-----------------------------------------------------------------------------
(* The control state.                                                      *)

Made(m) == {r \in recorded : r.month = m}
MadeAs(m, d) == {r \in recorded : r.month = m /\ r.decision = d}

LEMMA ControlTypes ==
  ASSUME ControlTypeOK
  PROVE  /\ events \in Seq(Event) /\ Len(events) \in Nat /\ DOMAIN events = 1..Len(events)
         /\ \A i \in DOMAIN events :
              /\ events[i] \in Event /\ events[i].audit_id \in AuditIds
              /\ events[i].event_hash \in Seq(AuditIds)
         /\ anchor.hash \in Seq(AuditIds) /\ anchor.deleted \in Nat
         /\ manifest.retained \in Nat /\ manifest.total \in Nat
         /\ manifest.tip \in Seq(AuditIds) /\ Tip \in Seq(AuditIds)
         /\ tenant.plan \in Plans /\ tenant.usage \in Usage /\ tenant.usage.month \in Nat
         /\ PlanLimit[tenant.plan] \in Nat
<1>1. events \in Seq(Event) /\ Len(events) \in Nat /\ DOMAIN events = 1..Len(events)
  BY DEF ControlTypeOK
<1>2. \A i \in DOMAIN events : events[i] \in Event
  BY <1>1
<1>3. \A i \in DOMAIN events : /\ events[i].audit_id \in AuditIds
                               /\ events[i].event_hash \in Seq(AuditIds)
  BY <1>2 DEF Event
<1>4. /\ anchor.hash \in Seq(AuditIds) /\ anchor.deleted \in Nat
      /\ manifest.retained \in Nat /\ manifest.total \in Nat /\ manifest.tip \in Seq(AuditIds)
  BY DEF ControlTypeOK
<1>5. Tip \in Seq(AuditIds)
  <2>1. events # <<>> => Len(events) \in DOMAIN events
    BY <1>1
  <2> QED
    BY <1>3, <1>4, <2>1 DEF Tip
<1>6. /\ tenant.plan \in Plans /\ tenant.usage \in Usage /\ tenant.usage.month \in Nat
      /\ PlanLimit[tenant.plan] \in Nat
  BY ControlAssumption DEF ControlTypeOK, Usage
<1> QED
  BY <1>1, <1>2, <1>3, <1>4, <1>5, <1>6

LEMMA MadeIsFinite ==
  ASSUME IsFiniteSet(recorded), NEW m
  PROVE  /\ IsFiniteSet(Made(m)) /\ Cardinality(Made(m)) \in Nat
         /\ \A d : IsFiniteSet(MadeAs(m, d)) /\ Cardinality(MadeAs(m, d)) \in Nat
BY FS_Subset, FS_CardinalityType DEF Made, MadeAs

(* What the counters of this month say.                                    *)
LEMMA UsageIsCurrent ==
  ASSUME ControlTypeOK, MeterInv
  PROVE  /\ UsageNow \in Usage /\ UsageNow.month = month
         /\ UsageNow.validations = Cardinality(Made(month))
         /\ UsageNow.repairs = Cardinality(MadeAs(month, "valid_with_repair"))
         /\ UsageNow.rejections = Cardinality(MadeAs(month, "rejected"))
         /\ \A r \in recorded : r.month <= month
<1>1. /\ tenant.usage \in Usage /\ tenant.usage.month \in Nat /\ month \in Nat
      /\ tenant.usage.month <= month
  BY ControlTypes DEF ControlTypeOK, MeterInv
<1>2. \A r \in recorded : r.month \in Nat /\ r.month <= tenant.usage.month
  BY DEF ControlTypeOK, MeterInv
<1>3. \A r \in recorded : r.month <= month
  BY <1>1, <1>2
<1>4. CASE tenant.usage.month = month
  <2>1. UsageNow = tenant.usage
    BY <1>4 DEF UsageNow
  <2>2. \A d : MadeAs(month, d) = {r \in {x \in recorded : x.month = month} : r.decision = d}
    BY DEF MadeAs
  <2>3. /\ tenant.usage.validations = Cardinality(Made(month))
        /\ tenant.usage.repairs = Cardinality(MadeAs(month, "valid_with_repair"))
        /\ tenant.usage.rejections = Cardinality(MadeAs(month, "rejected"))
    BY <1>4, <2>2 DEF MeterInv, Made
  <2> QED
    BY <1>1, <1>3, <1>4, <2>1, <2>3
<1>5. CASE tenant.usage.month # month
  <2>1. UsageNow = [month |-> month, validations |-> 0, repairs |-> 0, rejections |-> 0,
                    drifts |-> 0]
    BY <1>5 DEF UsageNow
  <2>2. Made(month) = {} /\ \A d : MadeAs(month, d) = {}
    BY <1>1, <1>2, <1>5 DEF Made, MadeAs
  <2>3. Cardinality({}) = 0
    BY FS_EmptySet
  <2>4. UsageNow \in Usage /\ UsageNow.month = month
    BY <1>1, <2>1 DEF Usage
  <2> QED
    BY <1>3, <2>1, <2>2, <2>3, <2>4
<1> QED
  BY <1>4, <1>5

(* The converse, for a usage that a step has brought to its month.         *)
LEMMA MeterIs ==
  ASSUME IsFiniteSet(recorded'), tenant'.usage.month = month', month' \in Nat,
         \A r \in recorded' : r.month <= month',
         tenant'.usage.validations = Cardinality(Made(month)'),
         tenant'.usage.repairs = Cardinality(MadeAs(month, "valid_with_repair")'),
         tenant'.usage.rejections = Cardinality(MadeAs(month, "rejected")'),
         Cardinality(Made(month)') <= highest', PlanLimit[tenant'.plan] <= highest'
  PROVE  MeterInv'
<1> DEFINE now == tenant'.usage.month
<1>1. Made(month)' = {r \in recorded' : r.month = now}
  BY DEF Made
<1>2. \A d : MadeAs(month, d)' = {r \in {x \in recorded' : x.month = now} : r.decision = d}
  BY DEF MadeAs
<1>3. /\ now <= month' /\ \A r \in recorded' : r.month <= now
      /\ Cardinality({r \in recorded' : r.month = month'}) <= highest'
  BY DEF Made
<1>4. /\ tenant'.usage.validations = Cardinality({r \in recorded' : r.month = now})
      /\ tenant'.usage.repairs =
           Cardinality({r \in {x \in recorded' : x.month = now} : r.decision = "valid_with_repair"})
      /\ tenant'.usage.rejections =
           Cardinality({r \in {x \in recorded' : x.month = now} : r.decision = "rejected"})
  BY <1>1, <1>2
<1> QED
  BY <1>3, <1>4 DEF MeterInv

LEMMA MeteringIsRight == ASSUME ControlInv PROVE MeteredIsRecorded
<1>1. /\ UsageNow.validations = Cardinality(Made(month))
      /\ UsageNow.repairs = Cardinality(MadeAs(month, "valid_with_repair"))
      /\ UsageNow.rejections = Cardinality(MadeAs(month, "rejected"))
  BY UsageIsCurrent DEF ControlInv
<1>2. \A d : MadeAs(month, d) = {r \in {x \in recorded : x.month = month} : r.decision = d}
  BY DEF MadeAs
<1>3. Cardinality(Made(month)) <= highest
  BY DEF ControlInv, MeterInv, Made
<1> QED
  BY <1>1, <1>2, <1>3 DEF MeteredIsRecorded, Made

LEMMA AuditIsKept ==
  ASSUME NEW shared \in BOOLEAN, ControlInv PROVE AuditLossIsNoticed(shared)
<1> USE DEF ControlInv
<1>1. CASE shared
  <2>1. ASSUME unchained # {} PROVE ~AuditVerifies(TRUE)
    <3>1. Len(events) < manifest.retained
            \/ manifest.retained + anchor.deleted < manifest.total
      BY <2>1 DEF CountsInv
    <3>2. Len(events) \in Nat /\ manifest.retained + anchor.deleted \in Nat /\ manifest.total \in Nat
      BY ControlTypes
    <3> QED
      BY <3>1, <3>2, ControlTypes DEF AuditVerifies, ManifestAgrees
  <2>2. unchained = {} => AuditVerifies(TRUE)
    BY DEF CountsInv
  <2>3. shared = TRUE
    BY <1>1
  <2> QED
    BY <2>1, <2>2, <2>3 DEF AuditLossIsNoticed
<1>2. CASE ~shared
  <2>1. unchained = {} => AuditVerifies(shared)
    BY <1>2 DEF CountsInv, AuditVerifies
  <2>2. ASSUME NEW i \in DOMAIN events, events[i].previous_hash \in unchained, ChainIntact
        PROVE  FALSE
    <3>1. CASE i = 1
      BY <2>2, <3>1 DEF ChainIntact, HashesInv
    <3>2. CASE i # 1
      <4>1. i - 1 \in DOMAIN events
        BY <3>2, ControlTypes
      <4>2. events[i].previous_hash = events[i - 1].event_hash
        BY <2>2, <3>2 DEF ChainIntact
      <4> QED
        BY <2>2, <4>1, <4>2 DEF HashesInv
    <3> QED
      BY <3>1, <3>2
  <2> QED
    BY <1>2, <2>1, <2>2 DEF AuditLossIsNoticed, AuditVerifies
<1> QED
  BY <1>1, <1>2

LEMMA MeterUntouched ==
  ASSUME MeterInv, UNCHANGED <<tenant, month, recorded, highest>> PROVE MeterInv'
BY DEF MeterInv

LEMMA AuditUntouched ==
  ASSUME CountsInv, HashesInv, UNCHANGED <<events, anchor, manifest, unchained, recorded>>
  PROVE  CountsInv' /\ HashesInv'
BY DEF CountsInv, HashesInv, AuditVerifies, ChainIntact, ManifestAgrees, Tip, Used, EndsIn

LEMMA MaxOfTwo ==
  ASSUME NEW m \in Nat, NEW n \in Nat
  PROVE  Max({m, n}) \in Nat /\ m <= Max({m, n}) /\ n <= Max({m, n})
<1>1. CASE m <= n
  <2>1. Max({m, n}) = n
    BY <1>1, MaxIs
  <2> QED
    BY <1>1, <2>1
<1>2. CASE ~(m <= n)
  <2>1. Max({m, n}) = m
    BY <1>2, MaxIs
  <2> QED
    BY <1>2, <2>1
<1> QED
  BY <1>1, <1>2

LEMMA SetKeyInv ==
  ASSUME ControlInv, NEW k \in ApiKeys, NEW state \in {"absent", "active", "revoked"},
         SetKey(k, state)
  PROVE  ControlInv'
<1>1. UNCHANGED <<tenant, events, anchor, manifest, month, recorded, highest, unchained>>
  BY DEF SetKey
<1>2. api_keys' \in [ApiKeys -> {"absent", "active", "revoked"}]
  BY DEF SetKey, ControlInv, ControlTypeOK
<1>3. ControlTypeOK'
  BY <1>1, <1>2 DEF ControlInv, ControlTypeOK
<1> QED
  BY <1>1, <1>3, MeterUntouched, AuditUntouched DEF ControlInv

LEMMA UpdatePlanInv ==
  ASSUME ControlInv, NEW plan \in Plans, UpdatePlan(plan)
  PROVE  ControlInv' /\ highest <= highest'
<1>1. /\ tenant' = [tenant EXCEPT !.plan = plan]
      /\ highest' = Max({highest, PlanLimit[plan]})
      /\ UNCHANGED <<api_keys, events, anchor, manifest, month, recorded, unchained>>
  BY DEF UpdatePlan
<1>2. /\ tenant \in [plan : Plans, usage : Usage] /\ highest \in Nat
      /\ PlanLimit[plan] \in Nat
  BY ControlAssumption DEF ControlInv, ControlTypeOK
<1>3. highest' \in Nat /\ highest <= highest' /\ PlanLimit[plan] <= highest'
  BY <1>1, <1>2, MaxOfTwo
<1>4. /\ tenant' \in [plan : Plans, usage : Usage]
      /\ tenant'.plan = plan /\ tenant'.usage = tenant.usage
  BY <1>1, <1>2
<1>5. ControlTypeOK'
  BY <1>1, <1>3, <1>4 DEF ControlInv, ControlTypeOK
<1>6. MeterInv'
  <2>1. /\ IsFiniteSet(recorded) /\ month \in Nat
        /\ Cardinality({r \in recorded : r.month = month}) <= highest
    BY DEF ControlInv, MeterInv, ControlTypeOK
  <2>2. Cardinality({r \in recorded : r.month = month}) \in Nat
    BY <2>1, MadeIsFinite DEF Made
  <2>3. Cardinality({r \in recorded : r.month = month}) <= highest'
    BY <1>2, <1>3, <2>1, <2>2
  <2> QED
    BY <1>1, <1>3, <1>4, <2>3 DEF ControlInv, MeterInv
<1> QED
  BY <1>1, <1>3, <1>5, <1>6, AuditUntouched DEF ControlInv

LEMMA RecordDriftInv == ASSUME ControlInv, RecordDrift PROVE ControlInv'
<1>1. /\ tenant' = [tenant EXCEPT !.usage = [UsageNow EXCEPT !.drifts = @ + 1]]
      /\ UNCHANGED <<api_keys, events, anchor, manifest, month, recorded, highest, unchained>>
  BY DEF RecordDrift
<1>2. /\ UsageNow \in Usage /\ UsageNow.month = month
      /\ UsageNow.validations = Cardinality(Made(month))
      /\ UsageNow.repairs = Cardinality(MadeAs(month, "valid_with_repair"))
      /\ UsageNow.rejections = Cardinality(MadeAs(month, "rejected"))
      /\ \A r \in recorded : r.month <= month
  BY UsageIsCurrent DEF ControlInv
<1>3. tenant \in [plan : Plans, usage : Usage] /\ month \in Nat
  BY DEF ControlInv, ControlTypeOK
<1>4. /\ [UsageNow EXCEPT !.drifts = @ + 1] \in Usage
      /\ [UsageNow EXCEPT !.drifts = @ + 1].month = month
      /\ [UsageNow EXCEPT !.drifts = @ + 1].validations = UsageNow.validations
      /\ [UsageNow EXCEPT !.drifts = @ + 1].repairs = UsageNow.repairs
      /\ [UsageNow EXCEPT !.drifts = @ + 1].rejections = UsageNow.rejections
  BY <1>2 DEF Usage
<1>5. /\ tenant' \in [plan : Plans, usage : Usage] /\ tenant'.plan = tenant.plan
      /\ tenant'.usage = [UsageNow EXCEPT !.drifts = @ + 1]
  BY <1>1, <1>3, <1>4
<1>6. ControlTypeOK'
  BY <1>1, <1>5 DEF ControlInv, ControlTypeOK
<1>7. Made(month)' = Made(month) /\ \A d : MadeAs(month, d)' = MadeAs(month, d)
  BY <1>1 DEF Made, MadeAs
<1>8. /\ IsFiniteSet(recorded) /\ Cardinality(Made(month)) <= highest
      /\ PlanLimit[tenant.plan] <= highest
  BY DEF ControlInv, MeterInv, Made
<1>9. MeterInv'
  BY <1>1, <1>2, <1>3, <1>4, <1>5, <1>7, <1>8, MeterIs
<1> QED
  BY <1>1, <1>6, <1>9, AuditUntouched DEF ControlInv

(* A new month admits what its plan does, and what principals under way    *)
(* were told the last one did.                                             *)
LEMMA MonthPassesInv ==
  ASSUME ControlInv, NEW carried \in SUBSET Nat, IsFiniteSet(carried), MonthPasses(carried)
  PROVE  ControlInv' /\ \A l \in carried : l <= highest'
<1>1. /\ month' = month + 1
      /\ highest' = Max({PlanLimit[tenant.plan]} \cup carried)
      /\ UNCHANGED <<tenant, api_keys, events, anchor, manifest, recorded, unchained>>
  BY DEF MonthPasses
<1>2. PlanLimit[tenant.plan] \in Nat /\ month \in Nat
  BY ControlTypes DEF ControlInv, ControlTypeOK
<1>3. highest' \in Nat /\ \A l \in {PlanLimit[tenant.plan]} \cup carried : l <= highest'
  <2> DEFINE limits == {PlanLimit[tenant.plan]} \cup carried
  <2>1. limits \in SUBSET Nat /\ limits # {}
    BY <1>2
  <2>2. IsFiniteSet(limits)
    BY FS_Singleton, FS_Union
  <2>3. PICK n \in Nat : \A l \in limits : l <= n
    BY <2>1, <2>2, FiniteIsBounded
  <2> HIDE DEF limits
  <2>4. Max(limits) \in limits /\ \A l \in limits : l <= Max(limits)
    BY <2>1, <2>3, MaxIsGreatest
  <2> QED
    BY <1>1, <2>1, <2>4 DEF limits
<1>4. ControlTypeOK'
  BY <1>1, <1>2, <1>3 DEF ControlInv, ControlTypeOK
<1>5. MeterInv'
  <2>1. \A r \in recorded : r.month # month + 1
    <3>1. /\ \A r \in recorded : r.month \in Nat /\ r.month <= tenant.usage.month
          /\ tenant.usage.month <= month /\ tenant.usage.month \in Nat
      BY ControlTypes DEF ControlInv, ControlTypeOK, MeterInv
    <3> QED
      BY <1>2, <3>1
  <2>2. {r \in recorded : r.month = month + 1} = {}
    BY <2>1
  <2>3. tenant.usage.month <= month + 1
    BY <1>2, ControlTypes DEF ControlInv, MeterInv
  <2>4. Cardinality({r \in recorded : r.month = month + 1}) <= highest'
    BY <1>3, <2>2, FS_EmptySet
  <2> QED
    BY <1>1, <1>3, <2>3, <2>4 DEF ControlInv, MeterInv
<1> QED
  BY <1>1, <1>3, <1>4, <1>5, AuditUntouched DEF ControlInv

(* A validation: chained to what the store takes for the last hash, and    *)
(* the counts go on together, also when they no longer agree.              *)
LEMMA HashIsOwn ==
  ASSUME NEW previous \in Seq(AuditIds), NEW id \in AuditIds
  PROVE  /\ Append(previous, id) \in Seq(AuditIds) /\ Append(previous, id) # GENESIS
         /\ Append(previous, id)[Len(Append(previous, id))] = id
<1>1. /\ Append(previous, id) \in Seq(AuditIds)
      /\ Len(Append(previous, id)) = Len(previous) + 1 /\ Len(previous) \in Nat
      /\ Append(previous, id)[Len(previous) + 1] = id
  BY AppendProperties
<1>2. Len(Append(previous, id)) # 0 /\ Len(<<>>) = 0
  BY <1>1
<1> QED
  BY <1>1, <1>2 DEF GENESIS

LEMMA RecordedChains ==
  ASSUME NEW shared \in BOOLEAN, ControlInv, NEW n \in Nat, n = Len(events),
         NEW id, NEW previous \in Seq(AuditIds), previous = PreviousHash(shared),
         shared => AuditVerifies(shared),
         DOMAIN events = 1..n, DOMAIN events' = 1..(n + 1), Len(events') = n + 1,
         \A i \in 1..n : events'[i] = events[i],
         events'[n + 1].previous_hash = previous,
         events'[n + 1].event_hash = Append(previous, id),
         manifest' = [retained |-> manifest.retained + 1, total |-> manifest.total + 1,
                      tip |-> Append(previous, id)],
         UNCHANGED <<anchor, unchained>>
  PROVE  CountsInv'
<1>1. /\ manifest.retained \in Nat /\ manifest.total \in Nat /\ anchor.deleted \in Nat
      /\ Len(events) = n
  BY ControlTypes DEF ControlInv
<1>2. /\ manifest'.retained = manifest.retained + 1 /\ manifest'.total = manifest.total + 1
      /\ manifest'.tip = Append(previous, id)
  OBVIOUS
<1>3. /\ Len(events) <= manifest.retained
      /\ manifest.retained + anchor.deleted <= manifest.total
  BY DEF ControlInv, CountsInv
<1>4. /\ Len(events') <= manifest'.retained
      /\ manifest'.retained + anchor'.deleted <= manifest'.total
  <2>1. /\ n + 1 <= manifest.retained + 1
        /\ (manifest.retained + 1) + anchor.deleted <= manifest.total + 1
    BY <1>1, <1>3
  <2>2. Len(events') = n + 1 /\ anchor' = anchor
    OBVIOUS
  <2> QED
    BY <1>2, <2>1, <2>2
<1>5. CASE unchained = {}
  <2>1. ChainIntact /\ ManifestAgrees
    BY <1>5 DEF ControlInv, CountsInv, AuditVerifies
  <2>2. previous = Tip
    BY <2>1 DEF PreviousHash, ManifestAgrees
  <2>3. events = <<>> <=> n = 0
    BY ControlTypes DEF ControlInv
  <2>4. ASSUME NEW i \in 1..(n + 1)
        PROVE  events'[i].previous_hash =
                 IF i = 1 THEN anchor'.hash ELSE events'[i - 1].event_hash
    <3>1. CASE i = n + 1
      <4>1. CASE n = 0
        BY <2>2, <2>3, <3>1, <4>1 DEF Tip
      <4>2. CASE n # 0
        <5>1. i # 1 /\ i - 1 = n /\ n \in 1..n
          BY <3>1, <4>2
        <5>2. previous = events[n].event_hash
          BY <1>1, <2>2, <2>3, <4>2 DEF Tip
        <5> QED
          BY <3>1, <5>1, <5>2
      <4> QED
        BY <4>1, <4>2
    <3>2. CASE i # n + 1
      <4>1. i \in 1..n /\ (i # 1 => i - 1 \in 1..n)
        BY <3>2
      <4>2. events[i].previous_hash = IF i = 1 THEN anchor.hash ELSE events[i - 1].event_hash
        BY <2>1, <4>1 DEF ChainIntact
      <4> QED
        BY <4>1, <4>2
    <3> QED
      BY <3>1, <3>2
  <2>5. ChainIntact'
    BY <2>4 DEF ChainIntact
  <2>6. Tip' = manifest'.tip
    <3>1. events' # <<>> /\ events'[Len(events')].event_hash = Append(previous, id)
      OBVIOUS
    <3> QED
      BY <1>2, <3>1 DEF Tip
  <2>7. Len(events') = manifest'.retained /\ manifest'.total = manifest'.retained + anchor'.deleted
    <3>1. n = manifest.retained /\ manifest.total = manifest.retained + anchor.deleted
      BY <1>1, <2>1 DEF ManifestAgrees
    <3>2. (manifest.retained + 1) + anchor.deleted = manifest.total + 1
      BY <1>1, <3>1
    <3>3. Len(events') = n + 1 /\ anchor' = anchor
      OBVIOUS
    <3> QED
      BY <1>2, <3>1, <3>2, <3>3
  <2>8. AuditVerifies(TRUE)'
    BY <2>5, <2>6, <2>7 DEF AuditVerifies, ManifestAgrees
  <2> QED
    BY <1>4, <1>5, <2>8 DEF CountsInv
<1>6. CASE unchained # {}
  <2>1. Len(events) < manifest.retained
          \/ manifest.retained + anchor.deleted < manifest.total
    BY <1>6 DEF ControlInv, CountsInv
  <2>2. Len(events') < manifest'.retained
          \/ manifest'.retained + anchor'.deleted < manifest'.total
    <3>1. \/ n + 1 < manifest.retained + 1
          \/ (manifest.retained + 1) + anchor.deleted < manifest.total + 1
      BY <1>1, <2>1
    <3>2. Len(events') = n + 1 /\ anchor' = anchor
      OBVIOUS
    <3> QED
      BY <1>2, <3>1, <3>2
  <2> QED
    BY <1>4, <1>6, <2>2 DEF CountsInv
<1> QED
  BY <1>5, <1>6

LEMMA RecordedHashes ==
  ASSUME ControlInv, NEW n \in Nat, NEW id \in AuditIds, id \notin Used, NEW previous,
         DOMAIN events = 1..n, DOMAIN events' = 1..(n + 1),
         \A i \in 1..n : events'[i] = events[i],
         events'[n + 1].audit_id = id,
         events'[n + 1].event_hash = Append(previous, id),
         Append(previous, id) # GENESIS,
         Append(previous, id)[Len(Append(previous, id))] = id,
         Used' = Used \cup {id}, UNCHANGED <<anchor, unchained>>
  PROVE  HashesInv'
<1> DEFINE hash == Append(previous, id)
<1>1. EndsIn(hash, {id})
  BY DEF EndsIn
<1>2. hash \notin unchained \cup {anchor.hash}
  <2>1. ~EndsIn(hash, Used) /\ hash # GENESIS
    BY DEF EndsIn
  <2> QED
    BY <2>1 DEF ControlInv, HashesInv
<1> HIDE DEF hash
<1>3. \A i \in 1..n :
        /\ EndsIn(events[i].event_hash, {events[i].audit_id})
        /\ events[i].audit_id \in Used
        /\ events[i].event_hash \notin unchained \cup {anchor.hash}
        /\ \A j \in 1..n : events[i].audit_id = events[j].audit_id => i = j
  BY DEF ControlInv, HashesInv
<1>4. \A i \in 1..(n + 1) : i = n + 1 \/ i \in 1..n
  OBVIOUS
<1>5. \A i \in 1..(n + 1) :
        /\ EndsIn(events'[i].event_hash, {events'[i].audit_id})
        /\ events'[i].audit_id \in Used'
        /\ events'[i].event_hash \notin unchained \cup {anchor.hash}
  BY <1>1, <1>2, <1>3, <1>4 DEF hash
<1>6. ASSUME NEW i \in 1..(n + 1), NEW j \in 1..(n + 1),
             events'[i].audit_id = events'[j].audit_id
      PROVE  i = j
  <2>1. CASE i \in 1..n /\ j \in 1..n
    BY <1>3, <1>6, <2>1
  <2>2. CASE i = n + 1 /\ j \in 1..n
    BY <1>3, <1>6, <2>2
  <2>3. CASE i \in 1..n /\ j = n + 1
    BY <1>3, <1>6, <2>3
  <2> QED
    BY <1>4, <2>1, <2>2, <2>3
<1>7. /\ \A h \in unchained : EndsIn(h, Used')
      /\ anchor.hash \notin unchained
      /\ anchor.hash # GENESIS => EndsIn(anchor.hash, Used')
      /\ anchor.deleted > 0 => anchor.hash # GENESIS
  BY DEF ControlInv, HashesInv, EndsIn
<1> QED
  BY <1>5, <1>6, <1>7 DEF HashesInv, EndsIn

LEMMA RecordedCounts ==
  ASSUME ControlInv, NEW id \in AuditIds \ Used, NEW decision \in Decisions, NEW limit \in Nat,
         limit <= highest, UsageNow.validations < limit,
         tenant' = [tenant EXCEPT !.usage = Metered(UsageNow, decision)],
         recorded' = recorded \cup {[audit_id |-> id, decision |-> decision, month |-> month]},
         UNCHANGED <<month, highest>>
  PROVE  /\ MeterInv' /\ tenant' \in [plan : Plans, usage : Usage]
         /\ recorded' \subseteq [audit_id : AuditIds, decision : Decisions, month : Nat]
         /\ Used' = Used \cup {id}
<1> DEFINE r0 == [audit_id |-> id, decision |-> decision, month |-> month]
           repair == "valid_with_repair"
<1>1. /\ UsageNow \in Usage /\ UsageNow.month = month
      /\ UsageNow.validations = Cardinality(Made(month))
      /\ UsageNow.repairs = Cardinality(MadeAs(month, repair))
      /\ UsageNow.rejections = Cardinality(MadeAs(month, "rejected"))
      /\ \A r \in recorded : r.month <= month
  BY UsageIsCurrent DEF ControlInv
<1>2. /\ tenant \in [plan : Plans, usage : Usage] /\ month \in Nat /\ highest \in Nat
      /\ IsFiniteSet(recorded) /\ PlanLimit[tenant.plan] <= highest
  BY DEF ControlInv, ControlTypeOK, MeterInv
<1>3. PICK u : u = Metered(UsageNow, decision)
  OBVIOUS
<1>4. /\ u \in Usage /\ u.month = month /\ u.validations = UsageNow.validations + 1
      /\ u.repairs = UsageNow.repairs + One(decision = repair)
      /\ u.rejections = UsageNow.rejections + One(decision = "rejected")
  <2>1. PICK now : now = UsageNow
    OBVIOUS
  <2>2. PICK p, q : p = One(decision = repair) /\ q = One(decision = "rejected")
    OBVIOUS
  <2>3. p \in Nat /\ q \in Nat
    BY <2>2 DEF One
  <2>4. u = [now EXCEPT !.validations = @ + 1, !.repairs = @ + p, !.rejections = @ + q]
    BY <1>3, <2>1, <2>2 DEF Metered
  <2>5. now \in Usage /\ now.month = month
    BY <1>1, <2>1
  <2>7. /\ DOMAIN now = {"month", "validations", "repairs", "rejections", "drifts"}
        /\ now.month \in Nat /\ now.validations \in Nat /\ now.repairs \in Nat
        /\ now.rejections \in Nat /\ now.drifts \in Nat
    BY <2>5 DEF Usage
  <2>8. u = [month |-> now.month, validations |-> now.validations + 1,
             repairs |-> now.repairs + p, rejections |-> now.rejections + q,
             drifts |-> now.drifts]
    BY <2>4, <2>5, <2>7 DEF Usage
  <2>6. /\ u \in Usage /\ u.month = month /\ u.validations = now.validations + 1
        /\ u.repairs = now.repairs + p /\ u.rejections = now.rejections + q
    BY <2>3, <2>5, <2>7, <2>8 DEF Usage
  <2> QED
    BY <2>1, <2>2, <2>6
<1>5. tenant' \in [plan : Plans, usage : Usage] /\ tenant'.usage = u /\ tenant'.plan = tenant.plan
  BY <1>2, <1>3, <1>4
<1>6. r0 \notin recorded
  BY DEF Used
<1>7. /\ Made(month)' = Made(month) \cup {r0} /\ r0 \notin Made(month)
      /\ \A d : MadeAs(month, d)' =
           IF decision = d THEN MadeAs(month, d) \cup {r0} ELSE MadeAs(month, d)
      /\ \A d : r0 \notin MadeAs(month, d)
  BY <1>6 DEF Made, MadeAs
<1>8. /\ IsFiniteSet(Made(month)) /\ Cardinality(Made(month)) \in Nat
      /\ \A d : IsFiniteSet(MadeAs(month, d)) /\ Cardinality(MadeAs(month, d)) \in Nat
  BY <1>2, MadeIsFinite
<1> HIDE DEF r0
<1>9. Cardinality(Made(month)') = Cardinality(Made(month)) + 1
  BY <1>7, <1>8, FS_AddElement
<1>10. \A d : Cardinality(MadeAs(month, d)') = Cardinality(MadeAs(month, d)) + One(decision = d)
  <2> TAKE d
  <2>1. CASE decision = d
    BY <1>7, <1>8, <2>1, FS_AddElement DEF One
  <2>2. CASE decision # d
    BY <1>7, <1>8, <2>2 DEF One
  <2> QED
    BY <2>1, <2>2
<1>11. /\ u.validations = Cardinality(Made(month)')
       /\ u.repairs = Cardinality(MadeAs(month, repair)')
       /\ u.rejections = Cardinality(MadeAs(month, "rejected")')
  BY <1>1, <1>4, <1>9, <1>10
<1>12. Cardinality(Made(month)') <= highest'
  BY <1>1, <1>2, <1>8, <1>9
<1>13. IsFiniteSet(recorded')
  BY <1>2, FS_AddElement DEF r0
<1>14. \A r \in recorded' : r.month <= month
  BY <1>1, <1>2 DEF r0
<1>15. MeterInv'
  BY <1>2, <1>4, <1>5, <1>11, <1>12, <1>13, <1>14, MeterIs
<1>16. recorded' \subseteq [audit_id : AuditIds, decision : Decisions, month : Nat]
  BY <1>2 DEF ControlInv, ControlTypeOK
<1>17. Used' = Used \cup {id}
  <2>1. recorded' = recorded \cup {r0} /\ r0.audit_id = id
    BY DEF r0
  <2> QED
    BY <2>1 DEF Used
<1> QED
  BY <1>5, <1>15, <1>16, <1>17

LEMMA RecordValidationInv ==
  ASSUME NEW shared \in BOOLEAN, ControlInv, NEW id \in AuditIds \ Used, NEW at \in Nat,
         NEW decision \in Decisions, NEW limit \in Nat, ~shared => limit <= highest,
         RecordValidation(shared, id, at, decision, limit)
  PROVE  /\ ControlInv' /\ Used' = Used \cup {id} /\ highest' = highest
         /\ recorded' = recorded \cup
              {[audit_id |-> id, decision |-> decision, month |-> month]}
<1> DEFINE lim == IF shared THEN PlanLimit[tenant.plan] ELSE limit
           e(p) == [audit_id |-> id, occurred_at |-> at, decision |-> decision,
                    previous_hash |-> p, event_hash |-> Append(p, id)]
<1>1. PICK previous : previous = PreviousHash(shared)
  OBVIOUS
<1>2. /\ shared => AuditVerifies(shared)
      /\ UsageNow.validations < lim
      /\ events' = Append(events, e(previous))
      /\ manifest' = [retained |-> manifest.retained + 1, total |-> manifest.total + 1,
                      tip |-> Append(previous, id)]
      /\ tenant' = [tenant EXCEPT !.usage = Metered(UsageNow, decision)]
      /\ recorded' = recorded \cup
           {[audit_id |-> id, decision |-> decision, month |-> month]}
      /\ UNCHANGED <<api_keys, anchor, month, highest, unchained>>
  BY <1>1 DEF RecordValidation
<1>3. previous \in Seq(AuditIds) /\ PlanLimit[tenant.plan] \in Nat
      /\ PlanLimit[tenant.plan] <= highest
  BY <1>1, ControlTypes DEF ControlInv, PreviousHash, MeterInv
<1>4. lim \in Nat /\ lim <= highest
  BY <1>3
<1> HIDE DEF lim
<1>5. /\ MeterInv' /\ tenant' \in [plan : Plans, usage : Usage]
      /\ recorded' \subseteq [audit_id : AuditIds, decision : Decisions, month : Nat]
      /\ Used' = Used \cup {id}
  BY <1>2, <1>4, RecordedCounts
<1>6. PICK x : x = e(previous)
  OBVIOUS
<1>7. PICK n : n = Len(events)
  OBVIOUS
<1>8. /\ n \in Nat /\ events' \in Seq(Event)
      /\ DOMAIN events = 1..n /\ DOMAIN events' = 1..(n + 1) /\ Len(events') = n + 1
      /\ events'[n + 1] = x /\ \A i \in 1..n : events'[i] = events[i]
  <2>1. events' = Append(events, x) /\ x \in Event
    BY <1>2, <1>3, <1>6, HashIsOwn DEF Event
  <2>2. events \in Seq(Event) /\ n \in Nat /\ DOMAIN events = 1..n
    BY <1>7, ControlTypes DEF ControlInv
  <2>3. /\ events' \in Seq(Event) /\ Len(events') = n + 1
        /\ events'[n + 1] = x /\ \A i \in 1..n : events'[i] = events[i]
    <3>1. n = Len(events) /\ events \in Seq(Event) /\ x \in Event
      BY <1>7, <2>1, <2>2
    <3> HIDE DEF e
    <3> QED
      BY <2>1, <3>1, AppendProperties
  <2> QED
    BY <2>2, <2>3
<1>13. manifest' \in [retained : Nat, total : Nat, tip : Seq(AuditIds)]
  <2>1. manifest.retained \in Nat /\ manifest.total \in Nat
    BY ControlTypes DEF ControlInv
  <2>2. Append(previous, id) \in Seq(AuditIds)
    BY <1>3, HashIsOwn
  <2>3. manifest' = [retained |-> manifest.retained + 1, total |-> manifest.total + 1,
                     tip |-> Append(previous, id)]
    BY <1>2
  <2> QED
    BY <2>1, <2>2, <2>3
<1>14. /\ Append(previous, id) # GENESIS
       /\ Append(previous, id)[Len(Append(previous, id))] = id
  BY <1>3, HashIsOwn
<1>9. /\ events'[n + 1].audit_id = id /\ events'[n + 1].previous_hash = previous
      /\ events'[n + 1].event_hash = Append(previous, id)
  BY <1>6, <1>8
<1>10. CountsInv'
  BY <1>1, <1>2, <1>3, <1>7, <1>8, <1>9, RecordedChains
<1>11. HashesInv'
  BY <1>2, <1>5, <1>8, <1>9, <1>14, RecordedHashes
<1>12. ControlTypeOK'
  BY <1>2, <1>5, <1>8, <1>13 DEF ControlInv, ControlTypeOK
<1> QED
  BY <1>2, <1>5, <1>10, <1>11, <1>12 DEF ControlInv

(* Retention: the anchor becomes the hash of the last event that goes, so  *)
(* that the first one that stays is chained to it.                         *)
LEMMA PurgedAudits ==
  ASSUME NEW shared \in BOOLEAN, ControlInv, NEW cutoff \in Nat,
         PurgeExpiredAudits(shared, cutoff)
  PROVE  \E b \in DOMAIN events :
           /\ anchor' = [hash |-> events[b].event_hash, deleted |-> anchor.deleted + b]
           /\ events' \in Seq(Event) /\ Len(events') = Len(events) - b
           /\ DOMAIN events' = 1..(Len(events) - b)
           /\ \A i \in 1..(Len(events) - b) :
                i + b \in DOMAIN events /\ events'[i] = events[i + b]
           /\ manifest' = [manifest EXCEPT !.retained = @ - b]
           /\ AuditVerifies(shared)
           /\ UNCHANGED <<tenant, api_keys, month, recorded, highest, unchained>>
<1> DEFINE expired == {i \in DOMAIN events : events[i].occurred_at < cutoff}
<1>1. PICK b : b = Max(expired)
  OBVIOUS
<1>2. /\ AuditVerifies(shared) /\ expired # {}
      /\ anchor' = [hash |-> events[b].event_hash, deleted |-> anchor.deleted + b]
      /\ events' = SubSeq(events, b + 1, Len(events))
      /\ manifest' = [manifest EXCEPT !.retained = @ - b]
      /\ UNCHANGED <<tenant, api_keys, month, recorded, highest, unchained>>
  BY <1>1 DEF PurgeExpiredAudits, Advanced
<1>3. events \in Seq(Event) /\ Len(events) \in Nat /\ DOMAIN events = 1..Len(events)
  BY ControlTypes DEF ControlInv
<1>4. b \in DOMAIN events
  <2>1. expired \in SUBSET Nat /\ \A i \in expired : i <= Len(events)
    BY <1>3
  <2> HIDE DEF expired
  <2>2. b \in expired
    BY <1>1, <1>2, <1>3, <2>1, MaxIsGreatest
  <2> QED
    BY <2>2 DEF expired
<1>5. /\ events' \in Seq(Event) /\ Len(events') = Len(events) - b
      /\ \A i \in 1..(Len(events) - b) : events'[i] = events[i + b]
  BY <1>2, <1>3, <1>4
<1>6. \A i \in 1..(Len(events) - b) : i + b \in DOMAIN events
  BY <1>3, <1>4
<1>7. DOMAIN events' = 1..(Len(events) - b)
  BY <1>5
<1> QED
  BY <1>2, <1>4, <1>5, <1>6, <1>7

LEMMA PurgeExpiredAuditsInv ==
  ASSUME NEW shared \in BOOLEAN, ControlInv, NEW cutoff \in Nat,
         PurgeExpiredAudits(shared, cutoff)
  PROVE  ControlInv' /\ UNCHANGED <<recorded, highest>>
<1>1. PICK b \in DOMAIN events :
        /\ anchor' = [hash |-> events[b].event_hash, deleted |-> anchor.deleted + b]
        /\ events' \in Seq(Event) /\ Len(events') = Len(events) - b
        /\ DOMAIN events' = 1..(Len(events) - b)
        /\ \A i \in 1..(Len(events) - b) :
             i + b \in DOMAIN events /\ events'[i] = events[i + b]
        /\ manifest' = [manifest EXCEPT !.retained = @ - b]
        /\ AuditVerifies(shared)
        /\ UNCHANGED <<tenant, api_keys, month, recorded, highest, unchained>>
  BY PurgedAudits
<1>2. PICK n : n = Len(events)
  OBVIOUS
<1>3. /\ n \in Nat /\ DOMAIN events = 1..n /\ b \in 1..n /\ b \in Nat /\ b <= n /\ b > 0
      /\ manifest.retained \in Nat /\ manifest.total \in Nat /\ anchor.deleted \in Nat
      /\ manifest.tip \in Seq(AuditIds) /\ events[b].event_hash \in Seq(AuditIds)
  BY <1>2, ControlTypes DEF ControlInv
<1>4. /\ n <= manifest.retained /\ manifest.retained + anchor.deleted <= manifest.total
  BY <1>2 DEF ControlInv, CountsInv
<1>5. manifest' = [retained |-> manifest.retained - b, total |-> manifest.total,
                   tip |-> manifest.tip]
  <2>1. manifest \in [retained : Nat, total : Nat, tip : Seq(AuditIds)]
    BY DEF ControlInv, ControlTypeOK
  <2> QED
    BY <1>1, <2>1
<1>6. /\ manifest'.retained = manifest.retained - b /\ manifest'.retained \in Nat
      /\ manifest'.total = manifest.total /\ manifest'.tip = manifest.tip
      /\ anchor'.hash = events[b].event_hash /\ anchor'.deleted = anchor.deleted + b
      /\ anchor'.deleted \in Nat
  <2>1. manifest.retained - b \in Nat
    BY <1>3, <1>4
  <2>2. anchor' = [hash |-> events[b].event_hash, deleted |-> anchor.deleted + b]
    BY <1>1
  <2>3. anchor.deleted + b \in Nat
    BY <1>3
  <2> QED
    BY <1>5, <2>1, <2>2, <2>3
<1>7. ControlTypeOK'
  <2>1. /\ manifest' \in [retained : Nat, total : Nat, tip : Seq(AuditIds)]
        /\ anchor' \in [hash : Seq(AuditIds), deleted : Nat]
    BY <1>1, <1>3, <1>5, <1>6
  <2> QED
    BY <1>1, <2>1 DEF ControlInv, ControlTypeOK
<1>8. \A i \in 1..(n - b) : i + b \in 1..n /\ events'[i] = events[i + b]
  <2>1. \A i \in 1..(n - b) : i + b \in DOMAIN events /\ events'[i] = events[i + b]
    BY <1>1, <1>2
  <2> QED
    BY <1>3, <2>1
<1>9. /\ Len(events') <= manifest'.retained
      /\ manifest'.retained + anchor'.deleted <= manifest'.total
  <2>1. Len(events') = n - b
    BY <1>1, <1>2
  <2>2. n \in Nat /\ b \in Nat /\ manifest.retained \in Nat /\ manifest.total \in Nat
        /\ anchor.deleted \in Nat
    BY <1>3
  <2>3. /\ n - b <= manifest.retained - b
        /\ (manifest.retained - b) + (anchor.deleted + b) <= manifest.total
    BY <1>4, <2>2
  <2> QED
    BY <1>6, <2>1, <2>3
<1>length. Len(events') = n - b
  BY <1>1, <1>2
<1>10. CountsInv'
  <2>1. CASE unchained = {}
    <3>1. ChainIntact /\ ManifestAgrees
      BY <2>1 DEF ControlInv, CountsInv, AuditVerifies
    <3>2. ASSUME NEW i \in 1..(n - b)
          PROVE  events'[i].previous_hash =
                   IF i = 1 THEN anchor'.hash ELSE events'[i - 1].event_hash
      <4>1. /\ i + b \in 1..n /\ events'[i] = events[i + b] /\ i + b # 1
            /\ i # 1 => i - 1 \in 1..(n - b) /\ (i - 1) + b = (i + b) - 1
            /\ i = 1 => (i + b) - 1 = b
        <5>1. i + b \in 1..n /\ events'[i] = events[i + b]
          BY <1>8
        <5>2. n \in Nat /\ b \in Nat /\ b > 0 /\ i \in Nat /\ i >= 1 /\ i <= n - b
          BY <1>3
        <5>3. /\ i + b # 1
              /\ i # 1 => i - 1 \in 1..(n - b) /\ (i - 1) + b = (i + b) - 1
              /\ i = 1 => (i + b) - 1 = b
          BY <5>2
        <5> QED
          BY <5>1, <5>3
      <4>2. events[i + b].previous_hash = events[(i + b) - 1].event_hash
        BY <1>3, <3>1, <4>1 DEF ChainIntact
      <4> QED
        BY <1>6, <1>8, <4>1, <4>2
    <3>3. ChainIntact'
      BY <1>1, <1>2, <3>2 DEF ChainIntact
    <3>4. Tip' = manifest'.tip
      <4>1. events # <<>> /\ manifest.tip = events[n].event_hash
        BY <1>2, <1>3, <3>1 DEF ManifestAgrees, Tip
      <4>2. CASE b = n
        <5>1. events' = <<>>
          BY <1>1, <1>2, <1>3, <4>2
        <5> QED
          BY <1>6, <4>1, <4>2, <5>1 DEF Tip
      <4>3. CASE b # n
        <5>1. n - b \in 1..(n - b) /\ (n - b) + b = n
          BY <1>3, <4>3
        <5>2. events' # <<>> /\ events'[n - b] = events[n] /\ Len(events') = n - b
          BY <1>1, <1>2, <1>8, <5>1
        <5> QED
          BY <1>6, <4>1, <5>2 DEF Tip
      <4> QED
        BY <4>2, <4>3
    <3>5. Len(events') = manifest'.retained /\ manifest'.total = manifest'.retained + anchor'.deleted
      <4>1. n = manifest.retained /\ manifest.total = manifest.retained + anchor.deleted
        BY <1>2, <3>1 DEF ManifestAgrees
      <4>2. (manifest.retained - b) + (anchor.deleted + b) = manifest.total
        BY <1>3, <4>1
      <4> QED
        BY <1>6, <1>length, <4>1, <4>2
    <3>6. AuditVerifies(TRUE)'
      BY <3>3, <3>4, <3>5 DEF AuditVerifies, ManifestAgrees
    <3> QED
      BY <1>1, <1>9, <2>1, <3>6 DEF CountsInv
  <2>2. CASE unchained # {}
    <3>1. Len(events) < manifest.retained
            \/ manifest.retained + anchor.deleted < manifest.total
      BY <2>2 DEF ControlInv, CountsInv
    <3>2. Len(events') < manifest'.retained
            \/ manifest'.retained + anchor'.deleted < manifest'.total
      <4>1. \/ n - b < manifest.retained - b
            \/ (manifest.retained - b) + (anchor.deleted + b) < manifest.total
        BY <1>2, <1>3, <3>1
      <4> QED
        BY <1>6, <1>length, <4>1
    <3> QED
      BY <1>1, <1>9, <2>2, <3>2 DEF CountsInv
  <2> QED
    BY <2>1, <2>2
<1>11. HashesInv'
  <2>1. \A i \in 1..n :
          /\ EndsIn(events[i].event_hash, {events[i].audit_id})
          /\ events[i].audit_id \in Used
          /\ events[i].event_hash \notin unchained
          /\ \A j \in 1..n : events[i].audit_id = events[j].audit_id => i = j
    BY <1>3 DEF ControlInv, HashesInv
  <2>2. \A i, j \in 1..n : events[i].event_hash = events[j].event_hash => i = j
    BY <2>1 DEF EndsIn
  <2>3. Used' = Used
    BY <1>1 DEF Used
  <2>4. \A i \in 1..(n - b) :
          /\ EndsIn(events'[i].event_hash, {events'[i].audit_id})
          /\ events'[i].audit_id \in Used'
          /\ events'[i].event_hash \notin unchained'
          /\ events'[i].event_hash # anchor'.hash
    <3> TAKE i \in 1..(n - b)
    <3>1. i + b \in 1..n /\ events'[i] = events[i + b] /\ i + b # b
      BY <1>3, <1>8
    <3> QED
      BY <1>1, <1>3, <1>6, <2>1, <2>2, <2>3, <3>1
  <2>5. \A i, j \in 1..(n - b) : events'[i].audit_id = events'[j].audit_id => i = j
    <3> TAKE i, j \in 1..(n - b)
    <3>1. /\ i + b \in 1..n /\ events'[i] = events[i + b]
          /\ j + b \in 1..n /\ events'[j] = events[j + b]
      BY <1>8
    <3>2. i + b = j + b => i = j
      BY <1>3
    <3> QED
      BY <2>1, <3>1, <3>2
  <2>6. EndsIn(anchor'.hash, Used') /\ anchor'.hash \notin unchained' /\ anchor'.hash # GENESIS
    BY <1>1, <1>3, <1>6, <2>1, <2>3 DEF EndsIn
  <2>7. \A h \in unchained' : EndsIn(h, Used')
    BY <1>1, <2>3 DEF ControlInv, HashesInv
  <2> QED
    BY <1>1, <1>2, <2>4, <2>5, <2>6, <2>7 DEF HashesInv, EndsIn
<1> QED
  BY <1>1, <1>7, <1>10, <1>11, MeterUntouched DEF ControlInv

(* A loss: of an event, the later ones keep their order; of the anchor,    *)
(* what it stood for is missing from the total.                            *)
LEMMA LoseAuditInv ==
  ASSUME ControlInv, LoseAudit
  PROVE  ControlInv' /\ UNCHANGED <<recorded, highest>>
<1> DEFINE n == Len(events)
<1>1. UNCHANGED <<tenant, api_keys, manifest, month, recorded, highest>>
  BY DEF LoseAudit
<1>2. MeterInv' /\ UNCHANGED <<recorded, highest>> /\ Used' = Used
  BY <1>1, MeterUntouched DEF ControlInv, Used
<1>3. /\ events \in Seq(Event) /\ n \in Nat /\ DOMAIN events = 1..n
      /\ manifest.retained \in Nat /\ manifest.total \in Nat /\ anchor.deleted \in Nat
      /\ anchor.hash \in Seq(AuditIds) /\ \A i \in 1..n : events[i].event_hash \in Seq(AuditIds)
      /\ unchained \subseteq Seq(AuditIds)
  BY ControlTypes DEF ControlInv, ControlTypeOK
<1>4. n <= manifest.retained /\ manifest.retained + anchor.deleted <= manifest.total
  BY DEF ControlInv, CountsInv
<1>5. /\ \A i \in 1..n :
           /\ EndsIn(events[i].event_hash, {events[i].audit_id})
           /\ events[i].audit_id \in Used
           /\ events[i].event_hash \notin unchained \cup {anchor.hash}
           /\ \A j \in 1..n : events[i].audit_id = events[j].audit_id => i = j
      /\ \A h \in unchained : EndsIn(h, Used)
      /\ anchor.hash \notin unchained
      /\ anchor.hash # GENESIS => EndsIn(anchor.hash, Used)
      /\ anchor.deleted > 0 => anchor.hash # GENESIS
  BY <1>3 DEF ControlInv, HashesInv
<1>6. ASSUME NEW i \in DOMAIN events,
             events' = SubSeq(events, 1, i - 1) \o SubSeq(events, i + 1, Len(events)),
             unchained' = unchained \cup {events[i].event_hash}, UNCHANGED anchor
      PROVE  ControlInv'
  <2>1. /\ events' \in Seq(Event) /\ Len(events') = n - 1
        /\ \A j \in 1..(n - 1) : events'[j] = IF j < i THEN events[j] ELSE events[j + 1]
    BY <1>3, <1>6, Deleted
  <2>2. i \in 1..n /\ i \in Nat /\ DOMAIN events' = 1..(n - 1)
    BY <1>3, <2>1
  <2>3. PICK old : old = [j \in 1..(n - 1) |-> IF j < i THEN j ELSE j + 1]
    OBVIOUS
  <2> HIDE DEF n
  <2>4. \A j \in 1..(n - 1) : old[j] \in 1..n /\ old[j] # i /\ events'[j] = events[old[j]]
    BY <1>3, <2>1, <2>2, <2>3
  <2>5. \A j, k \in 1..(n - 1) : old[j] = old[k] => j = k
    BY <1>3, <2>2, <2>3
  <2>6. ControlTypeOK'
    BY <1>1, <1>3, <1>6, <2>1, <2>2 DEF ControlInv, ControlTypeOK
  <2>7. CountsInv'
    <3>1. Len(events') < manifest'.retained /\ Len(events') <= manifest'.retained
      BY <1>1, <1>3, <1>4, <2>1
    <3> QED
      BY <1>1, <1>4, <1>6, <3>1 DEF CountsInv
  <2>8. HashesInv'
    <3>1. \A j \in 1..(n - 1) :
            /\ EndsIn(events'[j].event_hash, {events'[j].audit_id})
            /\ events'[j].audit_id \in Used'
            /\ events'[j].event_hash \notin unchained' \cup {anchor'.hash}
      <4> TAKE j \in 1..(n - 1)
      <4>1. old[j] \in 1..n /\ old[j] # i /\ events'[j] = events[old[j]]
        BY <2>4
      <4>2. events[old[j]].event_hash # events[i].event_hash
        BY <1>5, <2>2, <4>1 DEF EndsIn
      <4> QED
        BY <1>2, <1>5, <1>6, <4>1, <4>2
    <3>2. \A j, k \in 1..(n - 1) : events'[j].audit_id = events'[k].audit_id => j = k
      <4> TAKE j, k \in 1..(n - 1)
      <4>1. /\ old[j] \in 1..n /\ events'[j] = events[old[j]]
            /\ old[k] \in 1..n /\ events'[k] = events[old[k]]
        BY <2>4
      <4>2. events[old[j]].audit_id = events[old[k]].audit_id => old[j] = old[k]
        BY <1>5, <4>1
      <4> QED
        BY <2>5, <4>1, <4>2
    <3>3. /\ \A h \in unchained' : EndsIn(h, Used')
          /\ anchor'.hash \notin unchained'
      BY <1>2, <1>5, <1>6, <2>2 DEF EndsIn
    <3> QED
      BY <1>2, <1>5, <1>6, <2>2, <3>1, <3>2, <3>3 DEF HashesInv, EndsIn
  <2> QED
    BY <1>2, <2>6, <2>7, <2>8 DEF ControlInv
<1>7. ASSUME anchor.deleted > 0, anchor' = [hash |-> GENESIS, deleted |-> 0],
             unchained' = unchained \cup {anchor.hash}, UNCHANGED events
      PROVE  ControlInv'
  <2>1. anchor'.hash = GENESIS /\ anchor'.deleted = 0 /\ GENESIS \in Seq(AuditIds)
    BY <1>7 DEF GENESIS
  <2>2. ControlTypeOK'
    BY <1>1, <1>3, <1>7, <2>1 DEF ControlInv, ControlTypeOK
  <2>3. CountsInv'
    <3>1. manifest'.retained + anchor'.deleted < manifest'.total
      BY <1>1, <1>3, <1>4, <1>7, <2>1
    <3>2. manifest'.retained + anchor'.deleted <= manifest'.total
      BY <1>1, <1>3, <2>1, <3>1
    <3> QED
      BY <1>1, <1>4, <1>7, <3>1, <3>2 DEF CountsInv
  <2>4. HashesInv'
    <3>1. anchor.hash # GENESIS /\ EndsIn(anchor.hash, Used)
      BY <1>5, <1>7
    <3>2. \A i \in 1..n :
            /\ EndsIn(events[i].event_hash, {events[i].audit_id})
            /\ events[i].audit_id \in Used
            /\ events[i].event_hash \notin unchained' \cup {GENESIS}
            /\ \A j \in 1..n : events[i].audit_id = events[j].audit_id => i = j
      BY <1>5, <1>7 DEF EndsIn
    <3>3. /\ \A h \in unchained' : EndsIn(h, Used)
          /\ GENESIS \notin unchained'
      BY <1>5, <1>7, <3>1 DEF EndsIn
    <3> HIDE DEF n
    <3> QED
      BY <1>2, <1>3, <1>7, <2>1, <3>2, <3>3 DEF HashesInv, EndsIn
  <2> QED
    BY <1>2, <2>2, <2>3, <2>4 DEF ControlInv
<1> QED
  BY <1>2, <1>6, <1>7 DEF LoseAudit

-----------------------------------------------------------------------------
(* The service.                                                            *)

LEMMA NowIsNatural ==
  ASSUME ServiceTypeOK, IsFiniteSet({requests[id].evaluated_at : id \in AuditIds})
  PROVE  Now \in Nat
<1> DEFINE stamps == {0} \cup {requests[x].evaluated_at : x \in AuditIds}
<1>1. stamps \in SUBSET Nat /\ stamps # {}
  BY DEF ServiceTypeOK, Request
<1>2. IsFiniteSet(stamps)
  BY FS_Singleton, FS_Union
<1>3. Now = Max(stamps)
  BY DEF Now
<1> HIDE DEF stamps
<1>4. PICK n \in Nat : \A s \in stamps : s <= n
  BY <1>1, <1>2, FiniteIsBounded
<1>5. Max(stamps) \in stamps
  BY <1>1, <1>4, MaxIsGreatest
<1> QED
  BY <1>1, <1>3, <1>5

LEMMA SpentIsBound ==
  ASSUME bounds \in Bounds,
         NEW what \in {"requests", "calls", "ticks", "keys", "plans", "months", "drifts",
                       "purges", "losses", "reports", "forgotten", "reconciliations"},
         Spend(what)
  PROVE  bounds' \in Bounds
<1>1. bounds[what] > 0 /\ bounds' = [bounds EXCEPT ![what] = @ - 1]
  BY DEF Spend
<1>2. bounds[what] \in Nat
  BY DEF Bounds
<1>3. bounds[what] - 1 \in Nat
  BY <1>1, <1>2
<1> QED
  BY <1>1, <1>3 DEF Bounds

LEMMA LimitsAreFinite ==
  /\ IsFiniteSet({PlanLimit[plan] : plan \in Plans})
  /\ {PlanLimit[plan] : plan \in Plans} \subseteq Nat
BY ControlAssumption, ImageIsFinite

(* Nothing that a request or a reconciliation left behind goes away, but   *)
(* by the loss of a row.                                                   *)
LEMMA ServiceKept ==
  ASSUME ServiceInv, UNCHANGED serviceVars, UNCHANGED <<deployment, recorded>>,
         bounds' \in Bounds,
         ~SharedControl => \A l \in CarriedLimits : l <= highest',
         ~rows_lost' => ~rows_lost /\ \A s : Recorded(s) => Recorded(s)',
         ~intelligence_lost' =>
           ~intelligence_lost /\ Kept("observation") \subseteq Kept("observation")'
  PROVE  ServiceInv'
<1>1. UNCHANGED <<requests, local_audits, accepted, reconciliation, deployment, recorded>>
  BY DEF serviceVars
<1>2. ServiceTypeOK'
  BY <1>1 DEF ServiceInv, ServiceTypeOK
<1>3. IsFiniteSet({requests'[id].evaluated_at : id \in AuditIds})
  BY <1>1 DEF ServiceInv
<1>4. ASSUME NEW id \in AuditIds PROVE HandlerInv(id)'
  <2>1. HandlerInv(id)
    BY DEF ServiceInv
  <2>2. ~SharedControl /\ requests[id].pc \in {"authentic", "evaluated"}
          => requests[id].limit <= highest'
    BY DEF CarriedLimits
  <2> QED
    BY <1>1, <2>1, <2>2 DEF HandlerInv, Used, At, SharedControl, AcceptsLater, Accepted
<1>5. ASSUME NEW r \in recorded' PROVE Complete(r)'
  <2>1. Complete(r)
    BY <1>1 DEF ServiceInv
  <2> QED
    BY <1>1, <2>1 DEF Complete
<1>6. ReconciliationInv'
  BY <1>1 DEF ServiceInv, ReconciliationInv, ReconcilesWithAlert
<1> QED
  BY <1>2, <1>3, <1>4, <1>5, <1>6 DEF ServiceInv

(* The components that a step leaves alone.                                *)
LEMMA ControlUntouched == ASSUME ControlInv, UNCHANGED controlVars PROVE ControlInv'
<1>1. UNCHANGED <<tenant, api_keys, events, anchor, manifest, month, recorded, highest,
                  unchained>>
  BY DEF controlVars
<1>2. ControlTypeOK'
  BY <1>1 DEF ControlInv, ControlTypeOK
<1> QED
  BY <1>1, <1>2, MeterUntouched, AuditUntouched DEF ControlInv

LEMMA RateUntouched ==
  ASSUME NEW sh \in BOOLEAN, RateInv(sh), UNCHANGED rateVars PROVE RateInv(sh)'
BY TickInv DEF rateVars

LEMMA AlertsUntouched ==
  ASSUME NEW sh \in BOOLEAN, AlertsInv(sh), UNCHANGED alertVars
  PROVE  /\ AlertsInv(sh)' /\ rows_lost' = rows_lost
         /\ \A s : Recorded(s)' <=> Recorded(s)
<1>1. UNCHANGED <<alerts, webhooks, deliveries, alert_manifest, dispatches, rows_lost, stalls>>
  BY DEF alertVars
<1>2. AlertsTypeOK' /\ DisabledIsSilent' /\ Enabled' = Enabled
  BY <1>1 DEF AlertsInv, AlertsTypeOK, DisabledIsSilent, Enabled
<1>3. sh => OutboxInv'
  BY <1>1, OutboxUntouched DEF AlertsInv
<1>4. \A s : Recorded(s)' <=> Recorded(s)
  BY <1>1 DEF Recorded
<1> QED
  BY <1>1, <1>2, <1>3, <1>4 DEF AlertsInv

LEMMA IntelligenceUntouched ==
  ASSUME IntelligenceInv(Sources), UNCHANGED intelligenceVars
  PROVE  /\ IntelligenceInv(Sources)' /\ intelligence_lost' = intelligence_lost
         /\ \A kind : Kept(kind)' = Kept(kind)
<1>1. UNCHANGED <<histories, intelligence_manifest, intelligence_lost>>
  BY DEF intelligenceVars
<1> QED
  BY <1>1 DEF IntelligenceInv, IntelligenceTypeOK, IntelligenceVerifies, HistoryIntact, Kept

(* The deployment never changes, so its constant value may stand for it.   *)
Parts(sh) ==
  /\ ControlInv /\ RateInv(sh) /\ AlertsInv(sh) /\ IntelligenceInv(Sources) /\ ServiceInv
  /\ SharedControl = sh

LEMMA HasParts == ASSUME IInv PROVE \E sh \in BOOLEAN : Parts(sh)
<1>1. PICK sh \in BOOLEAN : sh = SharedControl
  <2>1. SharedControl \in BOOLEAN
    BY DEF SharedControl
  <2> QED
    BY <2>1
<1>2. RateInv(sh) /\ AlertsInv(sh)
  BY <1>1 DEF IInv, RateInv, AlertsInv
<1> QED
  BY <1>1, <1>2 DEF IInv, Parts

LEMMA PartsMake == ASSUME NEW sh \in BOOLEAN, Parts(sh)' PROVE IInv'
<1>1. /\ ControlInv' /\ IntelligenceInv(Sources)' /\ ServiceInv'
      /\ RateInv(sh)' /\ AlertsInv(sh)' /\ SharedControl' = sh
  BY DEF Parts
<1>2. RateInv(SharedControl)' /\ AlertsInv(SharedControl)'
  BY <1>1 DEF RateInv, AlertsInv
<1> QED
  BY <1>1, <1>2 DEF IInv

-----------------------------------------------------------------------------
(* The steps, one by one.                                                  *)

LEMMA ConsumeAs ==
  ASSUME NEW sh \in BOOLEAN, SharedControl = sh, NEW server,
         ConsumeRateLimit(SharedControl, server)
  PROVE  ConsumeRateLimit(sh, server)
BY DEF ConsumeRateLimit, CountedAt

LEMMA RecordAlertAs ==
  ASSUME NEW sh \in BOOLEAN, SharedControl = sh, NEW source, RecordAlert(SharedControl, source)
  PROVE  RecordAlert(sh, source)
BY DEF RecordAlert, AlertsVerify

LEMMA OtherRequestKeeps ==
  ASSUME NEW sh \in BOOLEAN, Parts(sh), NEW server \in Servers, OtherRequest(server)
  PROVE  Parts(sh)'
<1>1. /\ Spend("calls") /\ ConsumeRateLimit(SharedControl, server)
      /\ UNCHANGED <<controlVars, alertVars, intelligenceVars, serviceVars>>
      /\ UNCHANGED deployment
  BY DEF OtherRequest
<1>2. RateInv(sh)'
  BY <1>1, ConsumeAs, ConsumeRateLimitInv DEF Parts
<1>3. /\ AlertsInv(sh)' /\ rows_lost' = rows_lost /\ \A s : Recorded(s)' <=> Recorded(s)
  BY <1>1, AlertsUntouched DEF Parts
<1>4. /\ IntelligenceInv(Sources)' /\ intelligence_lost' = intelligence_lost
      /\ \A kind : Kept(kind)' = Kept(kind)
  BY <1>1, IntelligenceUntouched DEF Parts
<1>5. ControlInv' /\ UNCHANGED <<recorded, highest>>
  BY <1>1, ControlUntouched DEF Parts, controlVars
<1>6. bounds' \in Bounds
  BY <1>1, SpentIsBound DEF Parts, ServiceInv, ServiceTypeOK
<1>7. ~SharedControl => \A l \in CarriedLimits : l <= highest'
  BY <1>5 DEF Parts, ServiceInv, HandlerInv, CarriedLimits
<1>8. ServiceInv'
  BY <1>1, <1>3, <1>4, <1>5, <1>6, <1>7, ServiceKept DEF Parts
<1> QED
  BY <1>1, <1>2, <1>3, <1>4, <1>5, <1>8 DEF Parts, SharedControl

(* What a step leaves behind that touches neither handlers nor limits.     *)
LEMMA LimitsHold ==
  ASSUME ServiceInv, highest \in Nat, highest' \in Nat, highest <= highest'
  PROVE  ~SharedControl => \A l \in CarriedLimits : l <= highest'
<1>1. ASSUME ~SharedControl, NEW id \in AuditIds,
             requests[id].pc \in {"authentic", "evaluated"}
      PROVE  requests[id].limit <= highest'
  <2>1. requests[id].limit \in Nat /\ requests[id].limit <= highest
    BY <1>1 DEF ServiceInv, ServiceTypeOK, Request, HandlerInv
  <2> QED
    BY <2>1
<1> QED
  BY <1>1 DEF CarriedLimits

LEMMA TickKeeps ==
  ASSUME NEW sh \in BOOLEAN, Parts(sh), Tick, Spend("ticks"),
         UNCHANGED <<controlVars, alertVars, intelligenceVars, serviceVars, deployment>>
  PROVE  Parts(sh)'
<1>1. RateInv(sh)'
  BY TickInv DEF Parts, Tick
<1>2. /\ AlertsInv(sh)' /\ rows_lost' = rows_lost /\ \A s : Recorded(s)' <=> Recorded(s)
  BY AlertsUntouched DEF Parts
<1>3. /\ IntelligenceInv(Sources)' /\ intelligence_lost' = intelligence_lost
      /\ \A kind : Kept(kind)' = Kept(kind)
  BY IntelligenceUntouched DEF Parts
<1>4. ControlInv' /\ UNCHANGED <<recorded, highest>>
  BY ControlUntouched DEF Parts, controlVars
<1>5. bounds' \in Bounds
  BY SpentIsBound DEF Parts, ServiceInv, ServiceTypeOK
<1>6. highest \in Nat
  BY DEF Parts, ControlInv, ControlTypeOK
<1>7. ServiceInv'
  BY <1>2, <1>3, <1>4, <1>5, <1>6, LimitsHold, ServiceKept DEF Parts
<1> QED
  BY <1>1, <1>2, <1>3, <1>4, <1>7 DEF Parts, SharedControl

LEMMA LoseAlertKeeps ==
  ASSUME NEW sh \in BOOLEAN, Parts(sh), LoseAlert, Spend("losses"),
         UNCHANGED <<controlVars, rateVars, intelligenceVars, serviceVars, deployment>>
  PROVE  Parts(sh)'
<1>1. RateInv(sh)'
  BY RateUntouched DEF Parts
<1>2. AlertsInv(sh)' /\ rows_lost' = TRUE
  BY LoseAlertInv DEF Parts
<1>3. /\ IntelligenceInv(Sources)' /\ intelligence_lost' = intelligence_lost
      /\ \A kind : Kept(kind)' = Kept(kind)
  BY IntelligenceUntouched DEF Parts
<1>4. ControlInv' /\ UNCHANGED <<recorded, highest>>
  BY ControlUntouched DEF Parts, controlVars
<1>5. bounds' \in Bounds
  BY SpentIsBound DEF Parts, ServiceInv, ServiceTypeOK
<1>6. highest \in Nat
  BY DEF Parts, ControlInv, ControlTypeOK
<1>7. ServiceInv'
  BY <1>2, <1>3, <1>4, <1>5, <1>6, LimitsHold, ServiceKept DEF Parts
<1> QED
  BY <1>1, <1>2, <1>3, <1>4, <1>7 DEF Parts, SharedControl

LEMMA IntelligenceKeeps ==
  ASSUME NEW sh \in BOOLEAN, Parts(sh), IntelligenceNext
  PROVE  Parts(sh)'
<1>1. UNCHANGED <<controlVars, rateVars, alertVars, serviceVars, deployment>>
  BY DEF IntelligenceNext
<1>2. RateInv(sh)'
  BY <1>1, RateUntouched DEF Parts
<1>3. /\ AlertsInv(sh)' /\ rows_lost' = rows_lost /\ \A s : Recorded(s)' <=> Recorded(s)
  BY <1>1, AlertsUntouched DEF Parts
<1>4. /\ IntelligenceInv(Sources)' /\ bounds' \in Bounds
      /\ ~intelligence_lost' =>
           ~intelligence_lost /\ Kept("observation") \subseteq Kept("observation")'
  <2>1. IntelligenceInv(Sources) /\ bounds \in Bounds
    BY DEF Parts, ServiceInv, ServiceTypeOK
  <2>2. CASE Spend("reports") /\ Unused("conformance") # {}
               /\ RecordConformanceRun(SharedControl, Another("conformance"))
    <3>1. PICK id : id = Another("conformance")
      OBVIOUS
    <3>2. id \in Sources /\ Chain("conformance", id)
      BY <2>2, <3>1 DEF Another, Unused, RecordConformanceRun
    <3>3. "conformance" \in Kinds /\ "observation" \in Kinds
      BY DEF Kinds
    <3>4. /\ IntelligenceInv(Sources)' /\ intelligence_lost' = intelligence_lost
          /\ Kept("observation")' = Kept("observation")
      BY <2>1, <3>2, <3>3, ChainInv
    <3> QED
      BY <2>1, <2>2, <3>4, SpentIsBound
  <2>3. CASE Spend("reports") /\ Unused("ruleset") # {}
               /\ PublishRuleset(SharedControl, Another("ruleset"))
    <3>1. PICK id : id = Another("ruleset")
      OBVIOUS
    <3>2. id \in Sources /\ Chain("ruleset", id)
      BY <2>3, <3>1 DEF Another, Unused, PublishRuleset
    <3>3. "ruleset" \in Kinds /\ "observation" \in Kinds
      BY DEF Kinds
    <3>4. /\ IntelligenceInv(Sources)' /\ intelligence_lost' = intelligence_lost
          /\ Kept("observation")' = Kept("observation")
      BY <2>1, <3>2, <3>3, ChainInv
    <3> QED
      BY <2>1, <2>3, <3>4, SpentIsBound
  <2>4. CASE Spend("forgotten") /\ LoseIntelligence
    BY <2>1, <2>4, LoseIntelligenceInv, SpentIsBound
  <2> QED
    BY <2>2, <2>3, <2>4 DEF IntelligenceNext
<1>5. ControlInv' /\ UNCHANGED <<recorded, highest>>
  BY <1>1, ControlUntouched DEF Parts, controlVars
<1>6. highest \in Nat
  BY DEF Parts, ControlInv, ControlTypeOK
<1>7. ServiceInv'
  BY <1>1, <1>3, <1>4, <1>5, <1>6, LimitsHold, ServiceKept DEF Parts
<1> QED
  BY <1>1, <1>2, <1>3, <1>4, <1>5, <1>7 DEF Parts, SharedControl

LEMMA AlertsKeep ==
  ASSUME NEW sh \in BOOLEAN, Parts(sh), AlertsNext
  PROVE  Parts(sh)'
<1>1. UNCHANGED <<controlVars, rateVars, intelligenceVars, serviceVars, deployment, bounds>>
  BY DEF AlertsNext
<1>2. RateInv(sh)'
  BY <1>1, RateUntouched DEF Parts
<1>3. AlertsInv(sh)' /\ UNCHANGED <<alerts, rows_lost>>
  <2>1. AlertsInv(sh) /\ SharedControl = sh
    BY DEF Parts
  <2>2. ASSUME NEW w \in Webhooks, CreateWebhook(SharedControl, w)
        PROVE  AlertsInv(sh)' /\ UNCHANGED <<alerts, rows_lost>>
    <3>1. CreateWebhook(sh, w)
      BY <2>1, <2>2 DEF CreateWebhook, AlertsVerify
    <3> QED
      BY <2>1, <3>1, CreateWebhookInv
  <2>3. ASSUME NEW w \in Webhooks, DisableWebhook(SharedControl, w)
        PROVE  AlertsInv(sh)' /\ UNCHANGED <<alerts, rows_lost>>
    <3>1. DisableWebhook(sh, w)
      BY <2>1, <2>3 DEF DisableWebhook, AlertsVerify
    <3> QED
      BY <2>1, <3>1, DisableWebhookInv
  <2>4. ASSUME NEW d \in deliveries, RedriveDelivery(SharedControl, d)
        PROVE  AlertsInv(sh)' /\ UNCHANGED <<alerts, rows_lost>>
    <3>1. RedriveDelivery(sh, d)
      BY <2>1, <2>4 DEF RedriveDelivery, AlertsVerify
    <3> QED
      BY <2>1, <3>1, RedriveDeliveryInv
  <2>5. ASSUME NEW d \in deliveries, ClaimDelivery(d)
        PROVE  AlertsInv(sh)' /\ UNCHANGED <<alerts, rows_lost>>
    BY <2>1, <2>5, ClaimDeliveryInv
  <2>6. ASSUME NEW x, NEW result, FinishDelivery(x, result)
        PROVE  AlertsInv(sh)' /\ UNCHANGED <<alerts, rows_lost>>
    BY <2>1, <2>6, FinishDeliveryInv
  <2>7. ASSUME NEW x, DispatchDies(x)
        PROVE  AlertsInv(sh)' /\ UNCHANGED <<alerts, rows_lost>>
    BY <2>1, <2>7, DispatchDiesInv
  <2> QED
    BY <2>2, <2>3, <2>4, <2>5, <2>6, <2>7 DEF AlertsNext
<1>4. \A s : Recorded(s)' <=> Recorded(s)
  BY <1>3 DEF Recorded
<1>5. /\ IntelligenceInv(Sources)' /\ intelligence_lost' = intelligence_lost
      /\ \A kind : Kept(kind)' = Kept(kind)
  BY <1>1, IntelligenceUntouched DEF Parts
<1>6. ControlInv' /\ UNCHANGED <<recorded, highest>>
  BY <1>1, ControlUntouched DEF Parts, controlVars
<1>7. highest \in Nat /\ bounds' \in Bounds
  BY <1>1 DEF Parts, ControlInv, ControlTypeOK, ServiceInv, ServiceTypeOK
<1>8. ServiceInv'
  BY <1>1, <1>3, <1>4, <1>5, <1>6, <1>7, LimitsHold, ServiceKept DEF Parts
<1> QED
  BY <1>1, <1>2, <1>3, <1>5, <1>6, <1>8 DEF Parts, SharedControl

LEMMA AdministrationKeeps ==
  ASSUME NEW sh \in BOOLEAN, Parts(sh), Administration
  PROVE  Parts(sh)'
<1>1. UNCHANGED <<rateVars, alertVars, intelligenceVars, serviceVars, deployment>>
  BY DEF Administration
<1>2. RateInv(sh)'
  BY <1>1, RateUntouched DEF Parts
<1>3. /\ AlertsInv(sh)' /\ rows_lost' = rows_lost /\ \A s : Recorded(s)' <=> Recorded(s)
  BY <1>1, AlertsUntouched DEF Parts
<1>4. /\ IntelligenceInv(Sources)' /\ intelligence_lost' = intelligence_lost
      /\ \A kind : Kept(kind)' = Kept(kind)
  BY <1>1, IntelligenceUntouched DEF Parts
<1>5. /\ ControlInv /\ ServiceInv /\ SharedControl = sh /\ bounds \in Bounds
      /\ highest \in Nat
  BY DEF Parts, ServiceInv, ServiceTypeOK, ControlInv, ControlTypeOK
<1>6. ControlInv' /\ UNCHANGED recorded /\ bounds' \in Bounds
        /\ (~SharedControl => \A l \in CarriedLimits : l <= highest')
  <2> DEFINE Goal == ControlInv' /\ UNCHANGED recorded /\ bounds' \in Bounds
                       /\ (~SharedControl => \A l \in CarriedLimits : l <= highest')
  <2>1. ASSUME ControlInv', highest <= highest' PROVE ~SharedControl => \A l \in CarriedLimits : l <= highest'
    <3>1. highest' \in Nat
      BY <2>1 DEF ControlInv, ControlTypeOK
    <3> QED
      BY <1>5, <2>1, <3>1, LimitsHold
  <2>2. ASSUME Keys, Spend("keys") PROVE Goal
    <3>1. PICK k \in ApiKeys, state \in {"absent", "active", "revoked"} : SetKey(k, state)
      BY <2>2 DEF Keys, IssueApiKey, RevokeApiKey
    <3>2. ControlInv' /\ UNCHANGED <<recorded, highest>>
      BY <1>5, <3>1, SetKeyInv DEF SetKey
    <3> QED
      BY <1>5, <2>1, <2>2, <3>2, SpentIsBound
  <2>3. ASSUME NEW plan \in Plans, UpdatePlan(plan), Spend("plans") PROVE Goal
    <3>1. ControlInv' /\ highest <= highest' /\ UNCHANGED recorded
      BY <1>5, <2>3, UpdatePlanInv DEF UpdatePlan
    <3> QED
      BY <1>5, <2>1, <2>3, <3>1, SpentIsBound
  <2>4. ASSUME RecordDrift, Spend("drifts") PROVE Goal
    <3>1. ControlInv' /\ UNCHANGED <<recorded, highest>>
      BY <1>5, <2>4, RecordDriftInv DEF RecordDrift
    <3> QED
      BY <1>5, <2>1, <2>4, <3>1, SpentIsBound
  <2>5. ASSUME MonthPasses(IF SharedControl THEN {} ELSE CarriedLimits), Spend("months")
        PROVE  Goal
    <3>1. PICK carried : carried = IF SharedControl THEN {} ELSE CarriedLimits
      OBVIOUS
    <3>2. CarriedLimits \subseteq {PlanLimit[plan] : plan \in Plans}
      BY <1>5 DEF CarriedLimits, ServiceInv, HandlerInv
    <3>3. carried \subseteq {PlanLimit[plan] : plan \in Plans}
      BY <3>1, <3>2
    <3>4. carried \in SUBSET Nat /\ IsFiniteSet(carried)
      BY <3>3, LimitsAreFinite, FS_Subset
    <3>5. MonthPasses(carried)
      BY <2>5, <3>1 DEF MonthPasses
    <3>6. ControlInv' /\ (\A l \in carried : l <= highest') /\ UNCHANGED recorded
      BY <1>5, <3>4, <3>5, MonthPassesInv DEF MonthPasses
    <3> QED
      BY <1>5, <2>5, <3>1, <3>6, SpentIsBound
  <2>6. ASSUME LoseAudit, Spend("losses") PROVE Goal
    <3>1. ControlInv' /\ UNCHANGED <<recorded, highest>>
      BY <1>5, <2>6, LoseAuditInv
    <3> QED
      BY <1>5, <2>1, <2>6, <3>1, SpentIsBound
  <2>7. ASSUME NEW cutoff \in 1..Now + 1, PurgeExpiredAudits(SharedControl, cutoff),
               Spend("purges")
        PROVE  Goal
    <3>1. cutoff \in Nat
      BY <1>5, NowIsNatural DEF ServiceInv
    <3>2. PurgeExpiredAudits(sh, cutoff)
      BY <1>5, <2>7 DEF PurgeExpiredAudits, AuditVerifies
    <3>3. ControlInv' /\ UNCHANGED <<recorded, highest>>
      BY <1>5, <3>1, <3>2, PurgeExpiredAuditsInv
    <3> QED
      BY <1>5, <2>1, <2>7, <3>3, SpentIsBound
  <2> HIDE DEF Goal
  <2>8. Goal
    BY <2>2, <2>3, <2>4, <2>5, <2>6, <2>7 DEF Administration
  <2> QED
    BY <2>8 DEF Goal
<1>7. ServiceInv'
  BY <1>1, <1>3, <1>4, <1>5, <1>6, ServiceKept
<1> QED
  BY <1>1, <1>2, <1>3, <1>4, <1>5, <1>6, <1>7 DEF Parts, SharedControl

(* A step of one handler does not disturb the others ...                   *)
LEMMA OtherHandlers ==
  ASSUME ServiceInv, NEW id \in AuditIds, NEW x \in AuditIds, x # id,
         requests'[x] = requests[x], UNCHANGED <<deployment, highest>>,
         x \in Used' <=> x \in Used,
         \A r \in recorded' : r.audit_id = x => r \in recorded,
         local_audits \subseteq local_audits', accepted \subseteq accepted'
  PROVE  HandlerInv(x)'
<1>1. HandlerInv(x)
  BY DEF ServiceInv
<1> QED
  BY <1>1 DEF HandlerInv, At, SharedControl, AcceptsLater, Accepted

(* ... and what was complete stays so.                                     *)
LEMMA CompleteKept ==
  ASSUME NEW r, Complete(r), UNCHANGED deployment, accepted \subseteq accepted',
         rows_lost' = rows_lost, intelligence_lost' = intelligence_lost,
         \A s : Recorded(s) => Recorded(s)',
         Kept("observation") \subseteq Kept("observation")'
  PROVE  Complete(r)'
BY DEF Complete

LEMMA ReconciliationKept ==
  ASSUME ServiceInv, UNCHANGED <<deployment, reconciliation>>, rows_lost' = rows_lost,
         \A s : Recorded(s) => Recorded(s)'
  PROVE  ReconciliationInv'
BY DEF ServiceInv, ReconciliationInv, ReconcilesWithAlert

LEMMA AuthenticateKeeps ==
  ASSUME NEW sh \in BOOLEAN, Parts(sh), NEW id \in AuditIds, NEW k \in ApiKeys,
         Authenticate(id, k)
  PROVE  Parts(sh)'
<1>1. /\ requests[id].pc = "new"
      /\ requests' = [requests EXCEPT ![id].pc = "authentic", ![id].key = k,
                                      ![id].limit = PlanLimit[tenant.plan]]
      /\ Spend("requests")
      /\ UNCHANGED <<controlVars, rateVars, alertVars, intelligenceVars>>
      /\ UNCHANGED <<local_audits, accepted, reconciliation, deployment>>
  BY DEF Authenticate, At
<1>2. RateInv(sh)'
  BY <1>1, RateUntouched DEF Parts
<1>3. /\ AlertsInv(sh)' /\ rows_lost' = rows_lost /\ \A s : Recorded(s)' <=> Recorded(s)
  BY <1>1, AlertsUntouched DEF Parts
<1>4. /\ IntelligenceInv(Sources)' /\ intelligence_lost' = intelligence_lost
      /\ \A kind : Kept(kind)' = Kept(kind)
  BY <1>1, IntelligenceUntouched DEF Parts
<1>5. ControlInv' /\ UNCHANGED <<recorded, highest>>
  BY <1>1, ControlUntouched DEF Parts, controlVars
<1>6. /\ ServiceInv /\ bounds \in Bounds /\ requests \in [AuditIds -> Request]
      /\ tenant.plan \in Plans /\ PlanLimit[tenant.plan] \in Nat
      /\ PlanLimit[tenant.plan] <= highest
  BY ControlTypes DEF Parts, ServiceInv, ServiceTypeOK, ControlInv, MeterInv
<1>7. /\ requests' \in [AuditIds -> Request]
      /\ requests'[id].pc = "authentic" /\ requests'[id].limit = PlanLimit[tenant.plan]
      /\ requests'[id].evaluated_at = requests[id].evaluated_at
      /\ \A x \in AuditIds : x # id => requests'[x] = requests[x]
  <2> DEFINE r == [requests[id] EXCEPT !.pc = "authentic", !.key = k,
                                       !.limit = PlanLimit[tenant.plan]]
  <2>1. requests' = [requests EXCEPT ![id] = r]
    BY <1>1, <1>6
  <2>2. /\ r \in Request /\ r.pc = "authentic" /\ r.limit = PlanLimit[tenant.plan]
        /\ r.evaluated_at = requests[id].evaluated_at
    BY <1>6 DEF Request
  <2> HIDE DEF r
  <2> QED
    BY <1>6, <2>1, <2>2
<1>8. ServiceTypeOK'
  <2>1. bounds' \in Bounds
    BY <1>1, <1>6, SpentIsBound
  <2> QED
    BY <1>1, <1>6, <1>7, <2>1 DEF ServiceInv, ServiceTypeOK
<1>9. IsFiniteSet({requests'[x].evaluated_at : x \in AuditIds})
  <2>1. \A x \in AuditIds : requests'[x].evaluated_at = requests[x].evaluated_at
    BY <1>7
  <2> QED
    BY <1>6, <2>1 DEF ServiceInv
<1>10. ASSUME NEW x \in AuditIds PROVE HandlerInv(x)'
  <2>1. CASE x # id
    BY <1>1, <1>5, <1>6, <1>7, <2>1, OtherHandlers DEF Used
  <2>2. CASE x = id
    <3>1. id \notin Used
      BY <1>1, <1>6 DEF ServiceInv, HandlerInv
    <3>2. id \notin Used' /\ \A r \in recorded' : r.audit_id # id
      BY <1>5, <3>1 DEF Used
    <3> QED
      BY <1>5, <1>6, <1>7, <2>2, <3>2 DEF HandlerInv, At
  <2> QED
    BY <2>1, <2>2
<1>11. \A r \in recorded' : Complete(r)'
  BY <1>1, <1>3, <1>4, <1>5, <1>6, CompleteKept DEF ServiceInv
<1>12. ReconciliationInv'
  BY <1>1, <1>3, <1>6, ReconciliationKept
<1>13. ServiceInv'
  BY <1>8, <1>9, <1>10, <1>11, <1>12 DEF ServiceInv
<1> QED
  BY <1>1, <1>2, <1>3, <1>4, <1>5, <1>13 DEF Parts, SharedControl

LEMMA EvaluateKeeps ==
  ASSUME NEW sh \in BOOLEAN, Parts(sh), NEW id \in AuditIds, NEW server \in Servers,
         NEW decision \in Decisions, Evaluate(id, server, decision)
  PROVE  Parts(sh)'
<1>1. /\ requests[id].pc = "authentic"
      /\ ConsumeRateLimit(SharedControl, server)
      /\ requests' = [requests EXCEPT ![id].pc = "evaluated", ![id].decision = decision,
                                      ![id].evaluated_at = Now + 1]
      /\ UNCHANGED <<controlVars, alertVars, intelligenceVars>>
      /\ UNCHANGED <<local_audits, accepted, reconciliation, deployment, bounds>>
  BY DEF Evaluate, At
<1>2. RateInv(sh)'
  BY <1>1, ConsumeAs, ConsumeRateLimitInv DEF Parts
<1>3. /\ AlertsInv(sh)' /\ rows_lost' = rows_lost /\ \A s : Recorded(s)' <=> Recorded(s)
  BY <1>1, AlertsUntouched DEF Parts
<1>4. /\ IntelligenceInv(Sources)' /\ intelligence_lost' = intelligence_lost
      /\ \A kind : Kept(kind)' = Kept(kind)
  BY <1>1, IntelligenceUntouched DEF Parts
<1>5. ControlInv' /\ UNCHANGED <<recorded, highest>>
  BY <1>1, ControlUntouched DEF Parts, controlVars
<1>6. /\ ServiceInv /\ requests \in [AuditIds -> Request] /\ Now \in Nat
      /\ IsFiniteSet({requests[x].evaluated_at : x \in AuditIds})
  BY NowIsNatural DEF Parts, ServiceInv, ServiceTypeOK
<1>7. /\ requests' \in [AuditIds -> Request]
      /\ requests'[id].pc = "evaluated" /\ requests'[id].limit = requests[id].limit
      /\ requests'[id].evaluated_at = Now + 1
      /\ \A x \in AuditIds : x # id => requests'[x] = requests[x]
  <2>1. PICK t \in Nat : t = Now + 1
    BY <1>6
  <2>2. PICK q : q = [requests[id] EXCEPT !.pc = "evaluated", !.decision = decision,
                                          !.evaluated_at = t]
    OBVIOUS
  <2>3. requests' = [requests EXCEPT ![id] = q]
    BY <1>1, <1>6, <2>1, <2>2
  <2>4. requests[id] \in Request
    BY <1>6
  <2>5. /\ q \in Request /\ q.pc = "evaluated" /\ q.limit = requests[id].limit
        /\ q.evaluated_at = t
    BY <2>2, <2>4 DEF Request
  <2> QED
    BY <1>6, <2>1, <2>3, <2>5
<1>8. ServiceTypeOK'
  BY <1>1, <1>6, <1>7 DEF ServiceInv, ServiceTypeOK
<1>9. IsFiniteSet({requests'[x].evaluated_at : x \in AuditIds})
  <2>1. {requests'[x].evaluated_at : x \in AuditIds} \subseteq
          {requests[x].evaluated_at : x \in AuditIds} \cup {Now + 1}
    BY <1>7
  <2>2. IsFiniteSet({requests[x].evaluated_at : x \in AuditIds} \cup {Now + 1})
    BY <1>6, FS_Singleton, FS_Union
  <2> QED
    BY <2>1, <2>2, FS_Subset
<1>10. ASSUME NEW x \in AuditIds PROVE HandlerInv(x)'
  <2>1. CASE x # id
    BY <1>1, <1>5, <1>6, <1>7, <2>1, OtherHandlers DEF Used
  <2>2. CASE x = id
    <3>1. /\ id \notin Used
          /\ requests[id].limit \in {PlanLimit[plan] : plan \in Plans}
          /\ ~SharedControl => requests[id].limit <= highest
      BY <1>1, <1>6 DEF ServiceInv, HandlerInv
    <3>2. /\ id \notin Used' /\ \A r \in recorded' : r.audit_id # id
          /\ SharedControl' = SharedControl
      BY <1>1, <1>5, <3>1 DEF Used, SharedControl
    <3> QED
      BY <1>5, <1>7, <2>2, <3>1, <3>2 DEF HandlerInv, At
  <2> QED
    BY <2>1, <2>2
<1>11. \A r \in recorded' : Complete(r)'
  BY <1>1, <1>3, <1>4, <1>5, <1>6, CompleteKept DEF ServiceInv
<1>12. ReconciliationInv'
  BY <1>1, <1>3, <1>6, ReconciliationKept
<1>13. ServiceInv'
  BY <1>8, <1>9, <1>10, <1>11, <1>12 DEF ServiceInv
<1> QED
  BY <1>1, <1>2, <1>3, <1>4, <1>5, <1>13 DEF Parts, SharedControl

(* The steps that only write a decision down, and go on.                   *)
LEMMA GoOnKeeps ==
  ASSUME NEW sh \in BOOLEAN, Parts(sh), NEW id \in AuditIds,
         NEW pc \in {"mirrored", "answered"}, Goto(id, pc),
         requests[id].pc \in {"recorded", "mirrored"},
         UNCHANGED <<controlVars, rateVars, alertVars, intelligenceVars>>,
         UNCHANGED <<reconciliation, deployment, bounds>>,
         local_audits \subseteq local_audits', local_audits' \subseteq AuditIds,
         accepted \subseteq accepted', accepted' \subseteq AuditIds,
         id \in local_audits', pc = "answered" /\ AcceptsLater(id) => id \in accepted'
  PROVE  Parts(sh)'
<1>1. requests' = [requests EXCEPT ![id].pc = pc]
  BY DEF Goto
<1>2. RateInv(sh)'
  BY RateUntouched DEF Parts
<1>3. /\ AlertsInv(sh)' /\ rows_lost' = rows_lost /\ \A s : Recorded(s)' <=> Recorded(s)
  BY AlertsUntouched DEF Parts
<1>4. /\ IntelligenceInv(Sources)' /\ intelligence_lost' = intelligence_lost
      /\ \A kind : Kept(kind)' = Kept(kind)
  BY IntelligenceUntouched DEF Parts
<1>5. ControlInv' /\ UNCHANGED <<recorded, highest>>
  BY ControlUntouched DEF Parts, controlVars
<1>6. ServiceInv /\ requests \in [AuditIds -> Request]
  BY DEF Parts, ServiceInv, ServiceTypeOK
<1>7. /\ requests' \in [AuditIds -> Request]
      /\ requests'[id].pc = pc /\ requests'[id].decision = requests[id].decision
      /\ \A x \in AuditIds : x # id => requests'[x] = requests[x]
      /\ \A x \in AuditIds : requests'[x].evaluated_at = requests[x].evaluated_at
  <2>1. PICK q : q = [requests[id] EXCEPT !.pc = pc]
    OBVIOUS
  <2>2. requests' = [requests EXCEPT ![id] = q]
    BY <1>1, <1>6, <2>1
  <2>3. requests[id] \in Request
    BY <1>6
  <2>4. /\ q \in Request /\ q.pc = pc /\ q.decision = requests[id].decision
        /\ q.evaluated_at = requests[id].evaluated_at
    BY <2>1, <2>3 DEF Request
  <2> QED
    BY <1>6, <2>2, <2>4
<1>8. ServiceTypeOK'
  BY <1>6, <1>7 DEF ServiceInv, ServiceTypeOK
<1>9. IsFiniteSet({requests'[x].evaluated_at : x \in AuditIds})
  BY <1>6, <1>7 DEF ServiceInv
<1>10. ASSUME NEW x \in AuditIds PROVE HandlerInv(x)'
  <2>1. CASE x # id
    BY <1>5, <1>6, <1>7, <2>1, OtherHandlers DEF Used
  <2>2. CASE x = id
    <3>1. /\ id \in Used
          /\ \A r \in recorded : r.audit_id = id => r.decision = requests[id].decision
      BY <1>6 DEF ServiceInv, HandlerInv
    <3>2. id \in Used' /\ recorded' = recorded
      BY <1>5, <3>1 DEF Used
    <3>3. AcceptsLater(id)' <=> AcceptsLater(id)
      BY <1>7 DEF AcceptsLater, Accepted
    <3> QED
      BY <1>7, <2>2, <3>1, <3>2, <3>3 DEF HandlerInv, At
  <2> QED
    BY <2>1, <2>2
<1>11. \A r \in recorded' : Complete(r)'
  BY <1>3, <1>4, <1>5, <1>6, CompleteKept DEF ServiceInv
<1>12. ReconciliationInv'
  BY <1>3, <1>6, ReconciliationKept
<1>13. ServiceInv'
  BY <1>8, <1>9, <1>10, <1>11, <1>12 DEF ServiceInv
<1> QED
  BY <1>2, <1>3, <1>4, <1>5, <1>13 DEF Parts, SharedControl

LEMMA MirrorKeeps ==
  ASSUME NEW sh \in BOOLEAN, Parts(sh), NEW id \in AuditIds, Mirror(id)
  PROVE  Parts(sh)'
<1>1. /\ requests[id].pc = "recorded" /\ Goto(id, "mirrored")
      /\ local_audits' = IF SharedControl THEN local_audits \cup {id} ELSE local_audits
      /\ UNCHANGED <<controlVars, rateVars, alertVars, intelligenceVars>>
      /\ UNCHANGED <<accepted, reconciliation, deployment, bounds>>
  BY DEF Mirror, At
<1>2. HandlerInv(id) /\ local_audits \subseteq AuditIds /\ accepted \subseteq AuditIds
  BY DEF Parts, ServiceInv, ServiceTypeOK
<1>3. id \in local_audits' /\ local_audits \subseteq local_audits'
  BY <1>1, <1>2 DEF HandlerInv, At
<1>4. local_audits' \subseteq AuditIds
  BY <1>1, <1>2
<1> QED
  BY <1>1, <1>2, <1>3, <1>4, GoOnKeeps

LEMMA AnswerKeeps ==
  ASSUME NEW sh \in BOOLEAN, Parts(sh), NEW id \in AuditIds, Answer(id)
  PROVE  Parts(sh)'
<1>1. /\ requests[id].pc = "mirrored" /\ Goto(id, "answered")
      /\ accepted' = IF AcceptsLater(id) THEN accepted \cup {id} ELSE accepted
      /\ UNCHANGED <<controlVars, rateVars, alertVars, intelligenceVars>>
      /\ UNCHANGED <<local_audits, reconciliation, deployment, bounds>>
  BY DEF Answer, At
<1>2. HandlerInv(id) /\ local_audits \subseteq AuditIds /\ accepted \subseteq AuditIds
  BY DEF Parts, ServiceInv, ServiceTypeOK
<1>3. id \in local_audits
  BY <1>1, <1>2 DEF HandlerInv, At
<1>4. /\ accepted \subseteq accepted' /\ accepted' \subseteq AuditIds
      /\ AcceptsLater(id) => id \in accepted'
  BY <1>1, <1>2
<1> QED
  BY <1>1, <1>2, <1>3, <1>4, GoOnKeeps

(* What the audit's transaction writes, the alert and the decision.        *)
LEMMA RecordKeeps ==
  ASSUME NEW sh \in BOOLEAN, Parts(sh), NEW id \in AuditIds, Record(id)
  PROVE  Parts(sh)'
<1> DEFINE d == requests[id].decision
           r0 == [audit_id |-> id, decision |-> d, month |-> month]
<1>1. /\ requests[id].pc = "evaluated" /\ Goto(id, "recorded")
      /\ RecordValidation(SharedControl, id, requests[id].evaluated_at, d, requests[id].limit)
      /\ RecordObservation(SharedControl, id, d)
      /\ local_audits' = IF SharedControl THEN local_audits ELSE local_audits \cup {id}
      /\ accepted' = IF deployment = "joined" /\ Accepted(id) THEN accepted \cup {id}
                     ELSE accepted
      /\ IF d = "rejected" THEN RecordAlert(SharedControl, id) ELSE UNCHANGED alertVars
      /\ UNCHANGED <<rateVars, reconciliation, deployment, bounds>>
  BY DEF Record, At, RecordsAlert, Accepted
<1>2. /\ ControlInv /\ AlertsInv(sh) /\ IntelligenceInv(Sources) /\ ServiceInv
      /\ SharedControl = sh /\ requests \in [AuditIds -> Request] /\ id \in Sources
      /\ HandlerInv(id)
  BY ServiceAssumption DEF Parts, ServiceInv, ServiceTypeOK
<1>3. /\ requests[id].evaluated_at \in Nat /\ d \in Decisions /\ requests[id].limit \in Nat
      /\ id \in AuditIds \ Used /\ (~sh => requests[id].limit <= highest)
  BY <1>1, <1>2 DEF Request, HandlerInv
<1>4. /\ ControlInv' /\ Used' = Used \cup {id} /\ highest' = highest
      /\ recorded' = recorded \cup {r0}
  <2>1. RecordValidation(sh, id, requests[id].evaluated_at, d, requests[id].limit)
    BY <1>1, <1>2 DEF RecordValidation, AuditVerifies, PreviousHash
  <2> HIDE DEF d
  <2> QED
    BY <1>2, <1>3, <2>1, RecordValidationInv
<1>5. RateInv(sh)'
  BY <1>1, RateUntouched DEF Parts
<1>6. /\ AlertsInv(sh)' /\ rows_lost' = rows_lost /\ \A s : Recorded(s) => Recorded(s)'
      /\ d = "rejected" => Recorded(id)'
  <2>1. CASE d = "rejected"
    <3>1. RecordAlert(sh, id)
      BY <1>1, <1>2, <2>1, RecordAlertAs
    <3> QED
      BY <1>2, <3>1, RecordAlertInv
  <2>2. CASE d # "rejected"
    BY <1>1, <1>2, <2>2, AlertsUntouched
  <2> QED
    BY <2>1, <2>2
<1>7. /\ IntelligenceInv(Sources)' /\ intelligence_lost' = intelligence_lost
      /\ d # "valid" => id \in Kept("observation")'
      /\ Kept("observation") \subseteq Kept("observation")'
  <2>1. CASE d = "valid"
    <3>1. UNCHANGED intelligenceVars
      BY <1>1, <2>1 DEF RecordObservation
    <3> QED
      BY <1>2, <2>1, <3>1, IntelligenceUntouched
  <2>2. CASE d # "valid"
    <3>1. Chain("observation", id) /\ "observation" \in Kinds
      BY <1>1, <2>2 DEF RecordObservation, Kinds
    <3> QED
      BY <1>2, <3>1, ChainInv
  <2> QED
    BY <2>1, <2>2
<1>8. /\ requests' \in [AuditIds -> Request]
      /\ requests'[id].pc = "recorded" /\ requests'[id].decision = d
      /\ \A x \in AuditIds : x # id => requests'[x] = requests[x]
      /\ \A x \in AuditIds : requests'[x].evaluated_at = requests[x].evaluated_at
  BY <1>1, <1>2 DEF Goto, Request
<1>9. /\ local_audits \subseteq local_audits' /\ local_audits' \subseteq AuditIds
      /\ accepted \subseteq accepted' /\ accepted' \subseteq AuditIds
      /\ ~SharedControl => id \in local_audits'
      /\ deployment = "joined" /\ d # "rejected" => id \in accepted'
  BY <1>1, <1>2 DEF ServiceInv, ServiceTypeOK, Accepted
<1>10. ServiceTypeOK'
  BY <1>1, <1>2, <1>8, <1>9 DEF ServiceInv, ServiceTypeOK
<1>11. IsFiniteSet({requests'[x].evaluated_at : x \in AuditIds})
  BY <1>2, <1>8 DEF ServiceInv
<1> HIDE DEF d
<1>12. ASSUME NEW x \in AuditIds PROVE HandlerInv(x)'
  <2>1. CASE x # id
    <3>1. \A r \in recorded' : r.audit_id = x => r \in recorded
      BY <1>4, <2>1
    <3>2. x \in Used' <=> x \in Used
      BY <1>4, <2>1
    <3> QED
      BY <1>1, <1>2, <1>4, <1>8, <1>9, <2>1, <3>1, <3>2, OtherHandlers
  <2>2. CASE x = id
    <3>1. \A r \in recorded' : r.audit_id = id => r.decision = d
      BY <1>3, <1>4 DEF Used
    <3>2. id \in Used' /\ SharedControl' = SharedControl
      BY <1>1, <1>4 DEF SharedControl
    <3> QED
      BY <1>8, <1>9, <2>2, <3>1, <3>2 DEF HandlerInv, At
  <2> QED
    BY <2>1, <2>2
<1>13. ASSUME NEW r \in recorded' PROVE Complete(r)'
  <2>1. CASE r \in recorded
    BY <1>1, <1>2, <1>6, <1>7, <1>9, <2>1, CompleteKept DEF ServiceInv
  <2>2. CASE r = r0
    BY <1>1, <1>6, <1>7, <1>9, <2>2 DEF Complete
  <2> QED
    BY <1>4, <2>1, <2>2
<1>14. ReconciliationInv'
  BY <1>1, <1>2, <1>6, ReconciliationKept
<1>15. ServiceInv'
  BY <1>10, <1>11, <1>12, <1>13, <1>14 DEF ServiceInv
<1> QED
  BY <1>1, <1>2, <1>4, <1>5, <1>6, <1>7, <1>15 DEF Parts, SharedControl

(* A verdict that is written down does not change handlers or audits.      *)
LEMMA ReconcileKeeps ==
  ASSUME NEW sh \in BOOLEAN, Parts(sh), ReconcileNext
  PROVE  Parts(sh)'
<1>1. UNCHANGED <<controlVars, rateVars, intelligenceVars, requests, local_audits, accepted,
                  deployment>>
  BY DEF ReconcileNext, CommitReconciliation, AnswerReconciliation, RetryReconciliation
<1>2. RateInv(sh)'
  BY <1>1, RateUntouched DEF Parts
<1>3. /\ IntelligenceInv(Sources)' /\ intelligence_lost' = intelligence_lost
      /\ \A kind : Kept(kind)' = Kept(kind)
  BY <1>1, IntelligenceUntouched DEF Parts
<1>4. ControlInv' /\ UNCHANGED <<recorded, highest>>
  BY <1>1, ControlUntouched DEF Parts, controlVars
<1>5. /\ AlertsInv(sh) /\ ServiceInv /\ SharedControl = sh /\ bounds \in Bounds
      /\ Reservation \in Sources /\ ReconciliationInv /\ deployment \in Deployments
      /\ reconciliation \in [committed : BOOLEAN, pc : {"idle", "committed", "answered"}]
  BY ServiceAssumption DEF Parts, ServiceInv, ServiceTypeOK
<1>6. ASSUME NEW source \in {Reservation}, RecordAlert(SharedControl, source)
      PROVE  /\ AlertsInv(sh)' /\ rows_lost' = rows_lost /\ Recorded(Reservation)'
             /\ \A s : Recorded(s) => Recorded(s)'
  <2>1. RecordAlert(sh, Reservation)
    BY <1>5, <1>6, RecordAlertAs
  <2> QED
    BY <1>5, <2>1, RecordAlertInv
<1>7. ASSUME UNCHANGED alertVars
      PROVE  /\ AlertsInv(sh)' /\ rows_lost' = rows_lost
             /\ \A s : Recorded(s) => Recorded(s)'
  BY <1>5, <1>7, AlertsUntouched
<1>8. /\ AlertsInv(sh)' /\ rows_lost' = rows_lost /\ \A s : Recorded(s) => Recorded(s)'
      /\ bounds' \in Bounds /\ ReconciliationInv'
      /\ reconciliation' \in [committed : BOOLEAN, pc : {"idle", "committed", "answered"}]
  <2>1. CASE CommitReconciliation
    <3>1. /\ Spend("reconciliations")
          /\ reconciliation' = [committed |-> TRUE, pc |-> "committed"]
          /\ IF ReconcilesWithAlert /\ ~reconciliation.committed
             THEN RecordAlert(SharedControl, Reservation) ELSE UNCHANGED alertVars
      BY <2>1 DEF CommitReconciliation
    <3>2. /\ AlertsInv(sh)' /\ rows_lost' = rows_lost /\ \A s : Recorded(s) => Recorded(s)'
          /\ ReconcilesWithAlert /\ ~reconciliation.committed => Recorded(Reservation)'
      BY <1>6, <1>7, <3>1
    <3>3. ReconciliationInv'
      BY <1>1, <1>5, <3>1, <3>2 DEF ReconciliationInv, ReconcilesWithAlert
    <3> QED
      BY <1>5, <3>1, <3>2, <3>3, SpentIsBound
  <2>2. CASE AnswerReconciliation
    <3>1. /\ reconciliation.pc = "committed"
          /\ reconciliation' = [reconciliation EXCEPT !.pc = "answered"]
          /\ UNCHANGED bounds
          /\ IF deployment = "separate" THEN RecordAlert(TRUE, Reservation)
             ELSE UNCHANGED alertVars
      BY <2>2 DEF AnswerReconciliation
    <3>2. /\ AlertsInv(sh)' /\ rows_lost' = rows_lost /\ \A s : Recorded(s) => Recorded(s)'
          /\ deployment = "separate" => Recorded(Reservation)'
      <4>1. CASE deployment = "separate"
        <5>1. sh = TRUE
          BY <1>5, <4>1 DEF SharedControl
        <5> QED
          BY <1>5, <3>1, <4>1, <5>1, RecordAlertInv
      <4>2. CASE deployment # "separate"
        BY <1>7, <3>1, <4>2
      <4> QED
        BY <4>1, <4>2
    <3>3. /\ reconciliation'.committed = reconciliation.committed
          /\ reconciliation'.pc = "answered"
          /\ reconciliation' \in [committed : BOOLEAN, pc : {"idle", "committed", "answered"}]
      BY <1>5, <3>1
    <3>4. ReconciliationInv'
      BY <1>1, <1>5, <3>1, <3>2, <3>3 DEF ReconciliationInv, ReconcilesWithAlert
    <3> QED
      BY <1>5, <3>1, <3>2, <3>3, <3>4
  <2>3. CASE RetryReconciliation
    <3>1. /\ reconciliation' = [reconciliation EXCEPT !.pc = "idle"]
          /\ UNCHANGED <<alertVars, bounds>>
      BY <2>3 DEF RetryReconciliation
    <3>2. /\ AlertsInv(sh)' /\ rows_lost' = rows_lost /\ \A s : Recorded(s) => Recorded(s)'
      BY <1>7, <3>1
    <3>3. /\ reconciliation'.committed = reconciliation.committed
          /\ reconciliation'.pc = "idle"
          /\ reconciliation' \in [committed : BOOLEAN, pc : {"idle", "committed", "answered"}]
      BY <1>5, <3>1
    <3>4. ReconciliationInv'
      BY <1>1, <1>5, <3>1, <3>2, <3>3 DEF ReconciliationInv, ReconcilesWithAlert
    <3> QED
      BY <1>5, <3>1, <3>2, <3>3, <3>4
  <2> QED
    BY <2>1, <2>2, <2>3 DEF ReconcileNext
<1>9. ServiceTypeOK'
  BY <1>1, <1>5, <1>8 DEF ServiceInv, ServiceTypeOK
<1>10. ASSUME NEW id \in AuditIds PROVE HandlerInv(id)'
  <2>1. HandlerInv(id)
    BY <1>5 DEF ServiceInv
  <2> QED
    BY <1>1, <1>4, <2>1 DEF HandlerInv, Used, At, SharedControl, AcceptsLater, Accepted
<1>11. \A r \in recorded' : Complete(r)'
  BY <1>1, <1>3, <1>4, <1>5, <1>8, CompleteKept DEF ServiceInv
<1>12. ServiceInv'
  BY <1>1, <1>5, <1>8, <1>9, <1>10, <1>11 DEF ServiceInv
<1> QED
  BY <1>1, <1>2, <1>3, <1>4, <1>5, <1>8, <1>12 DEF Parts, SharedControl

LEMMA StutterKeeps ==
  ASSUME NEW sh \in BOOLEAN, Parts(sh), UNCHANGED vars
  PROVE  Parts(sh)'
<1>1. /\ UNCHANGED <<controlVars, rateVars, alertVars, intelligenceVars, serviceVars>>
      /\ UNCHANGED <<deployment, bounds>>
  BY DEF vars
<1>2. RateInv(sh)'
  BY <1>1, RateUntouched DEF Parts
<1>3. /\ AlertsInv(sh)' /\ rows_lost' = rows_lost /\ \A s : Recorded(s)' <=> Recorded(s)
  BY <1>1, AlertsUntouched DEF Parts
<1>4. /\ IntelligenceInv(Sources)' /\ intelligence_lost' = intelligence_lost
      /\ \A kind : Kept(kind)' = Kept(kind)
  BY <1>1, IntelligenceUntouched DEF Parts
<1>5. ControlInv' /\ UNCHANGED <<recorded, highest>>
  BY <1>1, ControlUntouched DEF Parts, controlVars
<1>6. bounds' \in Bounds /\ highest \in Nat
  BY <1>1 DEF Parts, ServiceInv, ServiceTypeOK, ControlInv, ControlTypeOK
<1>7. ServiceInv'
  BY <1>1, <1>3, <1>4, <1>5, <1>6, LimitsHold, ServiceKept DEF Parts
<1> QED
  BY <1>1, <1>2, <1>3, <1>4, <1>5, <1>7 DEF Parts, SharedControl

LEMMA NextIInv == IInv /\ [Next]_vars => IInv'
<1> SUFFICES ASSUME IInv, [Next]_vars PROVE IInv'
  OBVIOUS
<1>1. PICK sh \in BOOLEAN : Parts(sh)
  BY HasParts
<1> SUFFICES Parts(sh)'
  BY PartsMake
<1>2. ASSUME NEW id \in AuditIds, ValidateNext(id) PROVE Parts(sh)'
  <2>1. ASSUME NEW k \in ApiKeys, Authenticate(id, k) PROVE Parts(sh)'
    BY <1>1, <2>1, AuthenticateKeeps
  <2>2. ASSUME NEW server \in Servers, NEW decision \in bounds.decisions,
               Evaluate(id, server, decision)
        PROVE  Parts(sh)'
    <3>1. decision \in Decisions
      BY <1>1 DEF Parts, ServiceInv, ServiceTypeOK, Bounds
    <3> QED
      BY <1>1, <2>2, <3>1, EvaluateKeeps
  <2> QED
    BY <1>1, <1>2, <2>1, <2>2, RecordKeeps, MirrorKeeps, AnswerKeeps DEF ValidateNext
<1>3. CASE ReconcileNext
  BY <1>1, <1>3, ReconcileKeeps
<1>4. ASSUME NEW server \in Servers, OtherRequest(server) PROVE Parts(sh)'
  BY <1>1, <1>4, OtherRequestKeeps
<1>5. CASE Tick /\ Spend("ticks")
             /\ UNCHANGED <<controlVars, alertVars, intelligenceVars, serviceVars, deployment>>
  BY <1>1, <1>5, TickKeeps
<1>6. CASE Administration
  BY <1>1, <1>6, AdministrationKeeps
<1>7. CASE AlertsNext
  BY <1>1, <1>7, AlertsKeep
<1>8. CASE IntelligenceNext
  BY <1>1, <1>8, IntelligenceKeeps
<1>9. CASE LoseAlert /\ Spend("losses")
             /\ UNCHANGED <<controlVars, rateVars, intelligenceVars, serviceVars, deployment>>
  BY <1>1, <1>9, LoseAlertKeeps
<1>10. CASE UNCHANGED vars
  BY <1>1, <1>10, StutterKeeps
<1> QED
  BY <1>2, <1>3, <1>4, <1>5, <1>6, <1>7, <1>8, <1>9, <1>10 DEF Next

-----------------------------------------------------------------------------
(* The initial states.                                                     *)

LEMMA InitControl ==
  ASSUME NEW plan \in Plans, ControlInit(plan) PROVE ControlInv /\ recorded = {}
<1>1. /\ tenant = [plan |-> plan, usage |->
           [month |-> 0, validations |-> 0, repairs |-> 0, rejections |-> 0, drifts |-> 0]]
      /\ highest = PlanLimit[plan] /\ PlanLimit[plan] \in Nat
      /\ api_keys = [x \in ApiKeys |-> IF x = FirstKey THEN "active" ELSE "absent"]
      /\ events = <<>> /\ anchor = [hash |-> GENESIS, deleted |-> 0]
      /\ manifest = [retained |-> 0, total |-> 0, tip |-> GENESIS]
      /\ month = 0 /\ recorded = {} /\ unchained = {}
  BY ControlAssumption DEF ControlInit
<1>2. GENESIS \in Seq(AuditIds) /\ events \in Seq(Event) /\ Len(events) = 0
      /\ DOMAIN events = {}
  BY <1>1 DEF GENESIS
<1>3. ControlTypeOK
  BY <1>1, <1>2 DEF ControlTypeOK, Usage
<1>4. CountsInv
  BY <1>1, <1>2 DEF CountsInv, AuditVerifies, ChainIntact, ManifestAgrees, Tip
<1>5. HashesInv
  BY <1>1, <1>2 DEF HashesInv
<1>6. MeterInv
  <2>1. IsFiniteSet({}) /\ Cardinality({}) = 0
    BY FS_EmptySet
  <2>2. /\ {r \in recorded : r.month = tenant.usage.month} = {}
        /\ {r \in recorded : r.month = month} = {}
        /\ \A d : {r \in {x \in recorded : x.month = tenant.usage.month} : r.decision = d} = {}
    BY <1>1
  <2>3. tenant.usage.month = 0 /\ tenant.plan = plan /\ tenant.usage.validations = 0
        /\ tenant.usage.repairs = 0 /\ tenant.usage.rejections = 0
    BY <1>1
  <2> QED
    BY <1>1, <2>1, <2>2, <2>3 DEF MeterInv
<1> QED
  BY <1>1, <1>3, <1>4, <1>5, <1>6 DEF ControlInv

LEMMA InitRate == ASSUME RateInit, NEW sh \in BOOLEAN PROVE RateInv(sh)
<1>1. /\ windows = [s \in Servers |-> [started |-> 0, count |-> 0]]
      /\ tick = 0 /\ admitted = <<>> /\ DOMAIN admitted = {}
      /\ Window \in Nat /\ RateLimit \in Nat
  BY RateAssumption DEF RateInit
<1>2. RateTypeOK
  BY <1>1 DEF RateTypeOK
<1>3. \A s \in Servers : LetThrough(windows[s], {})
  <2> TAKE s \in Servers
  <2>1. windows[s].started = 0 /\ windows[s].count = 0
    BY <1>1
  <2>2. Cardinality({}) = 0
    BY FS_EmptySet
  <2>3. \A P : {i \in {} : i \in P} = {}
    OBVIOUS
  <2> QED
    BY <1>1, <2>1, <2>2 DEF LetThrough
<1>4. CASE sh
  BY <1>1, <1>2, <1>3, <1>4 DEF RateInv
<1>5. CASE ~sh
  <2>1. PICK counter \in [DOMAIN admitted -> Servers] : TRUE
    <3>1. PICK s \in Servers : TRUE
      BY RateAssumption
    <3>2. [i \in DOMAIN admitted |-> s] \in [DOMAIN admitted -> Servers]
      BY <3>1
    <3> QED
      BY <3>2
  <2>2. \A s \in Servers : {i \in DOMAIN admitted : counter[i] = s} = {}
    BY <1>1
  <2> QED
    BY <1>2, <1>3, <1>5, <2>1, <2>2 DEF RateInv
<1> QED
  BY <1>4, <1>5

LEMMA InitAlerts ==
  ASSUME NEW n \in Nat, AlertsInit(n), NEW sh \in BOOLEAN PROVE AlertsInv(sh) /\ ~rows_lost
<1>1. /\ alerts = <<>> /\ deliveries = {} /\ dispatches = {}
      /\ webhooks = [w \in Webhooks |-> "absent"]
      /\ alert_manifest = [count |-> 0, tip |-> <<>>]
      /\ rows_lost = FALSE /\ stalls = n /\ Len(alerts) = 0 /\ DOMAIN alerts = {}
  BY DEF AlertsInit
<1>2. AlertsTypeOK
  BY <1>1 DEF AlertsTypeOK
<1>3. Enabled = {} /\ IsFiniteSet({})
  BY <1>1, FS_EmptySet DEF Enabled
<1>4. OutboxInv
  BY <1>1, <1>3 DEF OutboxInv, AlertsVerify
<1> QED
  BY <1>1, <1>2, <1>3, <1>4 DEF AlertsInv, DisabledIsSilent

LEMMA InitIntelligence ==
  ASSUME IntelligenceInit PROVE IntelligenceInv(Sources) /\ ~intelligence_lost
<1>1. /\ histories = [kind \in Kinds |-> <<>>]
      /\ intelligence_manifest = [kind \in Kinds |-> [count |-> 0, tip |-> <<>>]]
      /\ intelligence_lost = FALSE
  BY DEF IntelligenceInit
<1>2. \A kind \in Kinds :
        /\ histories[kind] = <<>> /\ Len(histories[kind]) = 0 /\ DOMAIN histories[kind] = {}
        /\ intelligence_manifest[kind].count = 0 /\ intelligence_manifest[kind].tip = <<>>
  BY <1>1
<1>3. IntelligenceTypeOK(Sources)
  <2>1. \A S : <<>> \in Seq(S)
    OBVIOUS
  <2>2. histories \in
          [Kinds -> Seq([id : Sources, previous_hash : Seq(Sources), record_hash : Seq(Sources)])]
    BY <1>1, <2>1
  <2>3. intelligence_manifest \in [Kinds -> [count : Nat, tip : Seq(Sources)]]
    BY <1>1, <2>1
  <2> QED
    BY <1>1, <2>2, <2>3 DEF IntelligenceTypeOK
<1>4. IntelligenceVerifies
  BY <1>2 DEF IntelligenceVerifies, HistoryIntact
<1> QED
  BY <1>1, <1>2, <1>3, <1>4 DEF IntelligenceInv

LEMMA InitIInv == Init => IInv
<1> SUFFICES ASSUME Init PROVE IInv
  OBVIOUS
<1>1. /\ bounds \in Bounds /\ RateInit /\ deployment \in bounds.deployments
      /\ requests = [id \in AuditIds |->
           [pc |-> "new", key |-> CHOOSE k \in ApiKeys : TRUE, limit |-> 0,
            decision |-> "rejected", evaluated_at |-> 0]]
      /\ local_audits = {} /\ accepted = {} /\ IntelligenceInit
      /\ reconciliation = [committed |-> FALSE, pc |-> "idle"]
      /\ AlertsInit(bounds.stalls)
  BY ServiceAssumption DEF Init
<1>2. PICK plan \in bounds.starts : ControlInit(plan)
  BY DEF Init
<1>3. plan \in Plans /\ deployment \in Deployments /\ bounds.stalls \in Nat
  BY <1>1, <1>2 DEF Bounds
<1>4. ControlInv /\ recorded = {}
  BY <1>2, <1>3, InitControl
<1>5. SharedControl \in BOOLEAN
  BY DEF SharedControl
<1>6. /\ RateInv(SharedControl) /\ AlertsInv(SharedControl) /\ ~rows_lost
      /\ IntelligenceInv(Sources) /\ ~intelligence_lost
  BY <1>1, <1>3, <1>5, InitRate, InitAlerts, InitIntelligence
<1>7. (CHOOSE k \in ApiKeys : TRUE) \in ApiKeys
  BY ControlAssumption
<1>8. \A id \in AuditIds : /\ requests[id] \in Request /\ requests[id].pc = "new"
                           /\ requests[id].evaluated_at = 0
  BY <1>1, <1>7 DEF Request, Decisions
<1>9. ServiceTypeOK
  BY <1>1, <1>3, <1>8 DEF ServiceTypeOK
<1>10. IsFiniteSet({requests[id].evaluated_at : id \in AuditIds})
  <2>1. {requests[id].evaluated_at : id \in AuditIds} \subseteq {0}
    BY <1>8
  <2> QED
    BY <2>1, FS_Singleton, FS_Subset
<1>11. \A id \in AuditIds : HandlerInv(id)
  BY <1>4, <1>8 DEF HandlerInv, Used, At
<1>12. ServiceInv
  BY <1>1, <1>4, <1>9, <1>10, <1>11 DEF ServiceInv, ReconciliationInv
<1> QED
  BY <1>4, <1>6, <1>12 DEF IInv

-----------------------------------------------------------------------------
(* The theorems.                                                           *)

(* Every reachable state satisfies the inductive invariant.                *)
THEOREM ServiceInvariant == Spec => []IInv
<1> QED
  BY InitIInv, NextIInv, PTL DEF Spec

(* A lost row of the audits, of the alerts or of the intelligence shows in *)
(* every later verification, and no sequence of appends, purges,           *)
(* deliveries and crashes ever looks like a loss.                          *)
THEOREM LossesShow == Spec => []LossIsNoticed
<1>1. IInv => LossIsNoticed
  <2> SUFFICES ASSUME IInv PROVE LossIsNoticed
    OBVIOUS
  <2>1. SharedControl \in BOOLEAN
    BY DEF SharedControl
  <2> QED
    BY <2>1, AuditIsKept, AlertsAreKept, IntelligenceIsKept DEF IInv, LossIsNoticed
<1> QED
  BY <1>1, ServiceInvariant, PTL

(* The counters of the month are the validations recorded in it, and never *)
(* more than the highest plan it was under admits.                         *)
THEOREM QuotasHold == Spec => []MeteredIsRecorded
<1>1. IInv => MeteredIsRecorded
  BY MeteringIsRight DEF IInv
<1> QED
  BY <1>1, ServiceInvariant, PTL

(* An answer that was sent rests on the records that the deployment keeps, *)
(* wherever handlers died and however often they were asked again.         *)
THEOREM AnswersRestOnRecords == Spec => []AnswersAreRecorded
<1>1. IInv => AnswersAreRecorded
  <2> SUFFICES ASSUME IInv PROVE AnswersAreRecorded
    OBVIOUS
  <2>1. /\ \A id \in AuditIds : HandlerInv(id)
        /\ \A r \in recorded : Complete(r)
        /\ ReconciliationInv /\ deployment \in Deployments
    BY DEF IInv, ServiceInv, ServiceTypeOK
  <2>2. ASSUME NEW id \in AuditIds, At(id, "answered")
        PROVE  /\ \E r \in recorded : r.audit_id = id
               /\ Accepted(id) => id \in (IF SharedActions THEN accepted ELSE local_audits)
    <3>1. PICK r \in recorded : r.audit_id = id
      BY <2>1, <2>2 DEF HandlerInv, At, Used
    <3>2. r.decision = requests[id].decision /\ id \in local_audits
          /\ (AcceptsLater(id) => id \in accepted)
      BY <2>1, <2>2, <3>1 DEF HandlerInv
    <3>3. Accepted(id) /\ deployment = "joined" => id \in accepted
      BY <2>1, <3>1, <3>2 DEF Complete, Accepted
    <3> QED
      BY <3>1, <3>2, <3>3 DEF SharedActions, AcceptsLater
  <2>3. reconciliation.pc = "answered" /\ deployment \notin {"action", "control"}
          /\ ~rows_lost => Recorded(Reservation)
    BY <2>1 DEF ReconciliationInv, ReconcilesWithAlert, Deployments
  <2> QED
    BY <2>1, <2>2, <2>3 DEF AnswersAreRecorded
<1> QED
  BY <1>1, ServiceInvariant, PTL

(* No window of the clock, wherever it starts, lets through more than two  *)
(* limits of requests, of each server where the counters are not shared.   *)
THEOREM RateIsLimited == Spec => []AdmittedWithinRate
<1>1. IInv => AdmittedWithinRate
  <2> SUFFICES ASSUME IInv PROVE AdmittedWithinRate
    OBVIOUS
  <2>1. SharedControl \in BOOLEAN
    BY DEF SharedControl
  <2> QED
    BY <2>1, RateIsKept DEF IInv, AdmittedWithinRate
<1> QED
  BY <1>1, ServiceInvariant, PTL

(* A webhook that was disabled has no delivery under way or pending.       *)
THEOREM DisabledStaysSilent == Spec => []DisabledIsSilent
<1>1. IInv => DisabledIsSilent
  BY DEF IInv, AlertsInv
<1> QED
  BY <1>1, ServiceInvariant, PTL
=============================================================================
