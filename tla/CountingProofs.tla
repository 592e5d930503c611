--------------------------- MODULE CountingProofs ---------------------------
(***************************************************************************)
(* Facts about numbers, finite sets and sequences that several proofs rest *)
(* on: least and greatest elements, counting by fibres, a sequence without *)
(* one of its elements.  Induction is on the size of a set: a              *)
(* counterexample of least size is refuted.                                *)
(***************************************************************************)
EXTENDS Integers, FiniteSetsExt, FiniteSetTheorems, SequenceTheorems,
        WellFoundedInduction, TLAPS

LEMMA LeastElement ==
  ASSUME NEW S \in SUBSET Nat, S # {}
  PROVE  \E x \in S : \A y \in S : x <= y
<1>1. PICK x \in S : \A y \in S : ~(<<y, x>> \in OpToRel(<, Nat))
  BY WFMin, NatLessThanWellFounded
<1>2. \A y \in S : ~(y < x)
  BY <1>1 DEF OpToRel
<1> QED
  BY <1>2

LEMMA MaxIs ==
  ASSUME NEW S \in SUBSET Int, NEW m \in S, \A y \in S : y <= m
  PROVE  Max(S) = m
<1> DEFINE Top(x) == \A y \in S : x >= y
<1>1. Top(m)
  OBVIOUS
<1>2. \A x \in S : Top(x) => x = m
  OBVIOUS
<1> HIDE DEF Top
<1>3. (CHOOSE x \in S : Top(x)) = m
  BY <1>1, <1>2
<1> QED
  BY <1>3 DEF Top, Max

LEMMA MaxIsGreatest ==
  ASSUME NEW n \in Nat, NEW S \in SUBSET Nat, S # {}, \A x \in S : x <= n
  PROVE  Max(S) \in S /\ \A y \in S : y <= Max(S)
<1> DEFINE below == {n - x : x \in S}
<1>1. below \in SUBSET Nat /\ below # {}
  <2>1. \A x \in S : x \in Nat /\ n - x \in Nat
    OBVIOUS
  <2> QED
    BY <2>1
<1>2. PICK b \in below : \A c \in below : b <= c
  BY <1>1, LeastElement
<1>3. PICK m \in S : b = n - m
  OBVIOUS
<1>4. ASSUME NEW y \in S PROVE y <= m
  <2>1. n - y \in below
    OBVIOUS
  <2>2. n - m <= n - y
    BY <1>2, <1>3, <2>1
  <2> HIDE DEF below
  <2> QED
    BY <2>2
<1>5. Max(S) = m
  <2>1. S \in SUBSET Int
    OBVIOUS
  <2> QED
    BY <1>4, <2>1, MaxIs
<1> QED
  BY <1>4, <1>5

LEMMA FiniteIsBounded ==
  ASSUME NEW S \in SUBSET Nat, IsFiniteSet(S)
  PROVE  \E n \in Nat : \A x \in S : x <= n
<1> DEFINE Bounded(U) == \E n \in Nat : \A x \in U : x <= n
           unbounded == {U \in SUBSET S : ~Bounded(U)}
           sizes == {Cardinality(U) : U \in unbounded}
<1> SUFFICES ASSUME unbounded # {} PROVE FALSE
  OBVIOUS
<1>1. \A U \in SUBSET S : IsFiniteSet(U) /\ Cardinality(U) \in Nat
  BY FS_Subset, FS_CardinalityType
<1>2. sizes \in SUBSET Nat /\ sizes # {}
  BY <1>1
<1>3. PICK k \in sizes : \A j \in sizes : k <= j
  BY <1>2, LeastElement
<1>4. PICK U \in unbounded : k = Cardinality(U)
  OBVIOUS
<1>5. PICK x \in U : TRUE
  <2>1. Bounded({})
    OBVIOUS
  <2> QED
    BY <1>4, <2>1
<1>6. Cardinality(U \ {x}) = k - 1 /\ U \ {x} \in SUBSET S
  BY <1>1, <1>4, <1>5, FS_RemoveElement
<1>7. U \ {x} \notin unbounded
  <2>1. ~(k <= k - 1)
    BY <1>2
  <2> QED
    BY <1>3, <1>6, <2>1
<1>8. PICK n \in Nat : \A y \in U \ {x} : y <= n
  BY <1>6, <1>7
<1>9. x \in Nat /\ \A y \in U : y <= n + x
  BY <1>4, <1>5, <1>8
<1>10. Bounded(U)
  BY <1>9
<1> QED
  BY <1>4, <1>10

(* What has at most k elements above every point has k times as many.      *)
LEMMA CountByFibres ==
  ASSUME NEW D, IsFiniteSet(D), NEW S, IsFiniteSet(S), NEW f \in [D -> S],
         NEW k \in Nat,
         \A s \in S : Cardinality({i \in D : f[i] = s}) <= k
  PROVE  Cardinality(D) <= k * Cardinality(S)
<1> DEFINE Above(U) == {i \in D : f[i] \in U}
           Few(U) == Cardinality(Above(U)) <= k * Cardinality(U)
           many == {U \in SUBSET S : ~Few(U)}
           sizes == {Cardinality(U) : U \in many}
<1>1. \A U \in SUBSET S : /\ IsFiniteSet(U) /\ Cardinality(U) \in Nat
                          /\ IsFiniteSet(Above(U)) /\ Cardinality(Above(U)) \in Nat
  BY FS_Subset, FS_CardinalityType
<1>2. ASSUME many # {} PROVE FALSE
  <2>1. sizes \in SUBSET Nat /\ sizes # {}
    BY <1>1, <1>2
  <2>2. PICK n \in sizes : \A j \in sizes : n <= j
    BY <2>1, LeastElement
  <2>3. PICK U \in many : n = Cardinality(U)
    OBVIOUS
  <2>3a. n \in Nat
    BY <1>1, <2>3
  <2>4. PICK s \in U : TRUE
    <3>1. Above({}) = {} /\ Cardinality({}) = 0
      BY FS_EmptySet
    <3>2. Few({})
      BY <3>1
    <3> QED
      BY <2>3, <3>2
  <2> DEFINE V == U \ {s}
             fibre == {i \in D : f[i] = s}
  <2>5. Cardinality(V) = n - 1 /\ V \in SUBSET S /\ s \in S
    BY <1>1, <2>3, <2>4, FS_RemoveElement
  <2>6. Few(V)
    <3>1. ~(n <= n - 1)
      BY <2>3a
    <3>2. V \notin many
      BY <2>2, <2>5, <3>1
    <3> QED
      BY <2>5, <3>2
  <2>7. Above(U) = Above(V) \cup fibre /\ Above(V) \cap fibre = {}
    BY <2>4
  <2>8. /\ IsFiniteSet(fibre) /\ Cardinality(fibre) \in Nat /\ Cardinality(fibre) <= k
        /\ IsFiniteSet(Above(V)) /\ Cardinality(Above(V)) \in Nat
    BY <1>1, <2>5, FS_Subset, FS_CardinalityType
  <2>9. Cardinality(Above(U)) = Cardinality(Above(V)) + Cardinality(fibre)
    <3> DEFINE W == Above(V)
    <3>1. IsFiniteSet(W) /\ W \cap fibre = {} /\ Above(U) = W \cup fibre
      BY <2>7, <2>8
    <3>2. Cardinality(W) \in Nat /\ Cardinality(fibre) \in Nat /\ IsFiniteSet(fibre)
      BY <2>8
    <3> HIDE DEF W, fibre
    <3>3. Cardinality(W \cup fibre) = Cardinality(W) + Cardinality(fibre) - Cardinality(W \cap fibre)
      BY <3>1, <3>2, FS_Union
    <3>4. Cardinality(W \cap fibre) = 0
      BY <3>1, FS_EmptySet
    <3>5. Cardinality(W \cup fibre) = Cardinality(W) + Cardinality(fibre)
      BY <3>2, <3>3, <3>4
    <3> QED
      BY <3>1, <3>5 DEF W
  <2>10. Cardinality(Above(V)) <= k * (n - 1)
    BY <2>5, <2>6
  <2>11. k * n = k * (n - 1) + k /\ k * (n - 1) \in Int
    BY <2>3a
  <2>12. Cardinality(Above(U)) <= k * n
    <3> HIDE DEF Above, fibre, V, sizes
    <3> QED
      BY <2>8, <2>9, <2>10, <2>11, <2>3a
  <2> QED
    BY <2>3, <2>12
<1>3. Few(S)
  BY <1>2
<1>4. Above(S) = D
  OBVIOUS
<1> QED
  BY <1>3, <1>4

(* The elements after the one that is deleted move up.                     *)
LEMMA Deleted ==
  ASSUME NEW S, NEW s \in Seq(S), NEW i \in DOMAIN s
  PROVE  LET t == SubSeq(s, 1, i - 1) \o SubSeq(s, i + 1, Len(s))
         IN  /\ t \in Seq(S)
             /\ Len(t) = Len(s) - 1
             /\ \A j \in 1..(Len(s) - 1) : t[j] = IF j < i THEN s[j] ELSE s[j + 1]
<1> DEFINE u == SubSeq(s, 1, i - 1)
           v == SubSeq(s, i + 1, Len(s))
<1>1. Len(s) \in Nat /\ i \in 1..Len(s)
  OBVIOUS
<1>2. /\ u \in Seq(S) /\ Len(u) = i - 1
      /\ \A j \in 1..(i - 1) : u[j] = s[j]
  BY <1>1
<1>3. /\ v \in Seq(S) /\ Len(v) = Len(s) - i
      /\ \A j \in 1..(Len(s) - i) : v[j] = s[i + j]
  BY <1>1
<1> HIDE DEF u, v
<1>4. u \o v \in Seq(S) /\ Len(u \o v) = Len(s) - 1
  BY <1>1, <1>2, <1>3, ConcatProperties
<1>5. ASSUME NEW j \in 1..(Len(s) - 1)
      PROVE  (u \o v)[j] = IF j < i THEN s[j] ELSE s[j + 1]
  <2>1. j \in 1..(Len(u) + Len(v)) /\ Len(u) = i - 1
    BY <1>1, <1>2, <1>3
  <2>2. (u \o v)[j] = IF j <= Len(u) THEN u[j] ELSE v[j - Len(u)]
    BY <1>2, <1>3, <2>1, ConcatProperties
  <2>3. CASE j < i
    <3>1. j \in 1..(i - 1) /\ j <= Len(u)
      BY <1>1, <2>1, <2>3
    <3> QED
      BY <1>2, <2>2, <2>3, <3>1
  <2>4. CASE ~(j < i)
    <3> DEFINE k == j - (i - 1)
    <3>1. k \in 1..(Len(s) - i) /\ ~(j <= Len(u)) /\ i + k = j + 1
      BY <1>1, <2>1, <2>4
    <3>2. v[k] = s[i + k]
      BY <1>3, <3>1
    <3> QED
      BY <2>1, <2>2, <2>4, <3>1, <3>2
  <2> QED
    BY <2>3, <2>4
<1>6. u \o v = SubSeq(s, 1, i - 1) \o SubSeq(s, i + 1, Len(s))
  BY DEF u, v
<1> HIDE DEF u, v
<1> QED
  BY <1>4, <1>5, <1>6
LEMMA UnionBound ==
  ASSUME NEW S, IsFiniteSet(S), NEW T, IsFiniteSet(T), NEW X, X \subseteq S \cup T
  PROVE  /\ IsFiniteSet(X) /\ Cardinality(X) \in Nat
         /\ Cardinality(S) \in Nat /\ Cardinality(T) \in Nat
         /\ Cardinality(X) <= Cardinality(S) + Cardinality(T)
<1>1. /\ IsFiniteSet(S \cup T)
      /\ Cardinality(S \cup T) = Cardinality(S) + Cardinality(T) - Cardinality(S \cap T)
  BY FS_Union
<1>2. IsFiniteSet(X) /\ Cardinality(X) <= Cardinality(S \cup T)
  BY <1>1, FS_Subset
<1>3. IsFiniteSet(S \cap T)
  BY FS_Intersection
<1>4. /\ Cardinality(X) \in Nat /\ Cardinality(S) \in Nat /\ Cardinality(T) \in Nat
      /\ Cardinality(S \cap T) \in Nat /\ Cardinality(S \cup T) \in Nat
  BY <1>1, <1>2, <1>3, FS_CardinalityType
<1> QED
  BY <1>1, <1>2, <1>4

LEMMA ImageIsFinite ==
  ASSUME NEW S, IsFiniteSet(S), NEW f, DOMAIN f = S, f = [x \in S |-> f[x]]
  PROVE  /\ IsFiniteSet({f[x] : x \in S}) /\ Cardinality({f[x] : x \in S}) \in Nat
         /\ Cardinality({f[x] : x \in S}) <= Cardinality(S)
<1> DEFINE T == {f[x] : x \in S}
<1>1. f \in Surjection(S, T)
  BY DEF Surjection
<1> HIDE DEF T
<1>2. IsFiniteSet(T) /\ Cardinality(T) <= Cardinality(S)
  BY <1>1, FS_Surjection
<1>3. Cardinality(T) \in Nat
  BY <1>2, FS_CardinalityType
<1> QED
  BY <1>2, <1>3 DEF T

(* A map that is one to one does not change how many there are.            *)
LEMMA ImageCounts ==
  ASSUME NEW S, IsFiniteSet(S), NEW T, NEW f \in [S -> T],
         \A x, y \in S : f[x] = f[y] => x = y, \A t \in T : \E x \in S : f[x] = t
  PROVE  IsFiniteSet(T) /\ Cardinality(T) = Cardinality(S) /\ Cardinality(T) \in Nat
<1>1. f \in Surjection(S, T)
  BY DEF Surjection
<1>2. f \in Injection(S, T)
  BY DEF Injection, IsInjective
<1>3. f \in Bijection(S, T)
  BY <1>1, <1>2 DEF Bijection
<1>4. IsFiniteSet(T) /\ Cardinality(T) = Cardinality(S)
  BY <1>3, FS_Bijection DEF ExistsBijection
<1> QED
  BY <1>4, FS_CardinalityType
=============================================================================
