---------------------------- MODULE SequenceLemmas ----------------------------
(***************************************************************************)
(* What the proofs need of natural numbers, of functions given by          *)
(* recursion and of the sequences that FlattenSeq puts together.           *)
(*                                                                         *)
(* The induction theorems of the library have an operator as a parameter,  *)
(* which the provers cannot instantiate.  Here an induction is about a set *)
(* of numbers, and the step of a recursion a function.                     *)
(***************************************************************************)
EXTENDS Integers, SequencesExt, FiniteSetsExt, FiniteSetTheorems,
        SequenceTheorems, WellFoundedInduction, TLAPS

\* A set of natural numbers that is not empty has a least one.
LEMMA LeastNumber ==
  ASSUME NEW S \in SUBSET Nat, S # {}
  PROVE  \E m \in S : \A k \in S : m <= k
<1>. DEFINE less == {p \in Nat \X Nat : p[1] < p[2]}
<1>1. IsWellFoundedOn(less, Nat)
  BY NatLessThanWellFounded DEF OpToRel
<1>. HIDE DEF less
<1>2. PICK m \in S : \A k \in S : <<k, m>> \notin less
  BY <1>1, WFMin
<1>3. ASSUME NEW k \in S PROVE m <= k
  <2>1. k \in Nat /\ m \in Nat /\ <<k, m>> \notin less
    BY <1>2
  <2>2. ~(k < m)
    BY <2>1 DEF less
  <2>. QED
    BY <2>1, <2>2
<1>. QED
  BY <1>3

LEMMA MinOf ==
  ASSUME NEW S \in SUBSET Nat, S # {}
  PROVE  Min(S) \in S /\ \A k \in S : Min(S) <= k
<1>. PICK m \in S : \A k \in S : m <= k
  BY LeastNumber
<1>. QED
  BY DEF Min

\* Induction up to n.
Inductive(S, n) == 0 \in S /\ \A k \in 1 .. n : k - 1 \in S => k \in S

LEMMA SetInduction ==
  ASSUME NEW n \in Nat, NEW S, Inductive(S, n)
  PROVE  n \in S
<1>. DEFINE T == (0 .. n) \ S
<1>. SUFFICES ASSUME T # {} PROVE FALSE
  OBVIOUS
<1>0. T \in SUBSET Nat
  OBVIOUS
<1>1. PICK m \in T : \A k \in T : m <= k
  <2>. HIDE DEF T
  <2>. QED
    BY <1>0, LeastNumber
<1>2. m \in 1 .. n /\ m - 1 \notin T
  BY <1>1 DEF Inductive
<1>. QED
  BY <1>1, <1>2 DEF Inductive

\* f has the value v0 at 0, and up to n the step G(position, value before it).
Recursion(f, v0, G, n) ==
  f[0] = v0 /\ \A i \in 1 .. n : f[i] = G[<<i, f[i - 1]>>]

LEMMA FiniteRecursion ==
  ASSUME NEW n \in Nat, NEW V, NEW v0 \in V, NEW G \in [(1 .. n) \X V -> V]
  PROVE  \E f \in [0 .. n -> V] : Recursion(f, v0, G, n)
<1>. DEFINE S == {k \in 0 .. n : \E f \in [0 .. n -> V] : Recursion(f, v0, G, k)}
<1>1. 0 \in S
  <2>. DEFINE f == [i \in 0 .. n |-> v0]
  <2>1. f \in [0 .. n -> V] /\ Recursion(f, v0, G, 0)
    BY DEF Recursion
  <2>. HIDE DEF f
  <2>. QED
    BY <2>1
<1>2. ASSUME NEW k \in 1 .. n, k - 1 \in S PROVE k \in S
  <2>. PICK f \in [0 .. n -> V] : Recursion(f, v0, G, k - 1)
    BY <1>2
  <2>. DEFINE v == G[<<k, f[k - 1]>>]
              g == [i \in 0 .. n |-> IF i = k THEN v ELSE f[i]]
  <2>1. v \in V
    OBVIOUS
  <2>. HIDE DEF v
  <2>2. g \in [0 .. n -> V]
    BY <2>1
  <2>3. g[0] = v0 /\ g[k] = v /\ \A i \in 0 .. k - 1 : g[i] = f[i]
    BY DEF Recursion
  <2>. HIDE DEF g
  <2>4. ASSUME NEW i \in 1 .. k PROVE g[i] = G[<<i, g[i - 1]>>]
    <3>1. i - 1 \in 0 .. k - 1 /\ g[i - 1] = f[i - 1]
      BY <2>3
    <3>2. CASE i = k
      BY <2>3, <3>1, <3>2 DEF v
    <3>3. CASE i # k
      <4>1. i \in 1 .. k - 1 /\ i \in 0 .. k - 1
        BY <3>3
      <4>2. f[i] = G[<<i, f[i - 1]>>]
        BY <4>1 DEF Recursion
      <4>. QED
        BY <2>3, <3>1, <4>1, <4>2
    <3>. QED
      BY <3>2, <3>3
  <2>5. Recursion(g, v0, G, k)
    <3>1. f[0] = v0
      BY DEF Recursion
    <3>. QED
      BY <2>3, <2>4, <3>1 DEF Recursion
  <2>. QED
    BY <2>2, <2>5
<1>. HIDE DEF S
<1>3. Inductive(S, n)
  BY <1>1, <1>2 DEF Inductive
<1>4. n \in S
  BY <1>3, SetInduction
<1>. QED
  BY <1>4 DEF S

-------------------------------------------------------------------------------
(* Sequences put together                                                  *)

\* f[i]: what FlattenSeq(s) has put together after the first i of n members.
Flattening(f, s, n) ==
  f[0] = <<>> /\ \A i \in 1 .. n : f[i] = f[i - 1] \o s[i]

LEMMA FlattenPrefixes ==
  ASSUME NEW V, NEW n \in Nat, NEW s \in [1 .. n -> Seq(V)]
  PROVE  \E f \in [0 .. n -> Seq(V)] : Flattening(f, s, n) /\ f[n] = FlattenSeq(s)
<1>. DEFINE G == [p \in (1 .. n) \X Seq(V) |-> p[2] \o s[p[1]]]
<1>0. s \in Seq(Seq(V)) /\ Len(s) = n
  OBVIOUS
<1>1. G \in [(1 .. n) \X Seq(V) -> Seq(V)] /\ <<>> \in Seq(V)
  OBVIOUS
<1>2. PICK f \in [0 .. n -> Seq(V)] : Recursion(f, <<>>, G, n)
  <2>. HIDE DEF G
  <2>. QED
    BY <1>1, FiniteRecursion
<1>3. f[0] = <<>> /\ \A i \in 1 .. n : f[i] = f[i - 1] \o s[i]
  <2>1. ASSUME NEW i \in 1 .. n PROVE f[i] = f[i - 1] \o s[i]
    <3>1. <<i, f[i - 1]>> \in (1 .. n) \X Seq(V)
      OBVIOUS
    <3>. QED
      BY <1>2, <3>1 DEF Recursion
  <2>. QED
    BY <1>2, <2>1 DEF Recursion
<1>. HIDE DEF G
<1>4. ASSUME NEW i \in 1 .. n
      PROVE  f[i] = IF i = 1 THEN s[i] ELSE f[i - 1] \o s[i]
  <2>1. CASE i = 1
    <3>1. f[i - 1] = <<>> /\ s[i] \in Seq(V)
      BY <1>3, <2>1
    <3>. QED
      BY <1>3, <2>1, <3>1, ConcatEmptySeq
  <2>. QED
    BY <1>3, <2>1
<1>5. CASE n = 0
  <2>1. s = <<>> /\ FlattenSeq(s) = s
    BY <1>0, <1>5 DEF FlattenSeq
  <2>. QED
    BY <1>3, <1>5, <2>1 DEF Flattening
<1>6. CASE n # 0
  <2>. DEFINE Sat(g) == g = [i \in 1 .. Len(s) |-> IF i = 1 THEN s[i] ELSE g[i - 1] \o s[i]]
              h == [i \in 1 .. n |-> f[i]]
              flatten == CHOOSE g : Sat(g)
  <2>1. Sat(h)
    <3>1. ASSUME NEW i \in 1 .. n
          PROVE  h[i] = IF i = 1 THEN s[i] ELSE h[i - 1] \o s[i]
      <4>1. h[i] = f[i] /\ (i # 1 => h[i - 1] = f[i - 1])
        OBVIOUS
      <4>. HIDE DEF h
      <4>. QED
        BY <1>4, <4>1
    <3>2. h = [i \in 1 .. n |-> h[i]]
      OBVIOUS
    <3>. HIDE DEF h
    <3>. QED
      BY <1>0, <3>1, <3>2
  <2>2. Sat(flatten)
    <3>. HIDE DEF Sat
    <3>. QED
      BY <2>1
  <2>3. FlattenSeq(s) = flatten[n]
    BY <1>0, <1>6 DEF FlattenSeq
  <2>. HIDE DEF flatten
  <2>. DEFINE S == {i \in 0 .. n : i = 0 \/ flatten[i] = f[i]}
  <2>4. 0 \in S
    OBVIOUS
  <2>5. ASSUME NEW i \in 1 .. n, i - 1 \in S PROVE i \in S
    <3>1. flatten[i] = IF i = 1 THEN s[i] ELSE flatten[i - 1] \o s[i]
      BY <1>0, <2>2
    <3>. QED
      BY <1>4, <2>5, <3>1
  <2>. HIDE DEF S
  <2>6. Inductive(S, n)
    BY <2>4, <2>5 DEF Inductive
  <2>7. n \in S
    BY <2>6, SetInduction
  <2>8. flatten[n] = f[n]
    BY <1>6, <2>7 DEF S
  <2>. QED
    BY <1>3, <2>3, <2>8 DEF Flattening
<1>. QED
  BY <1>5, <1>6

\* FlattenSeq makes a sequence of the members of its members.
LEMMA FlattenRange ==
  ASSUME NEW V, NEW n \in Nat, NEW s \in [1 .. n -> Seq(V)]
  PROVE  /\ FlattenSeq(s) \in Seq(V)
         /\ \A v : v \in Range(FlattenSeq(s)) <=> \E i \in 1 .. n : v \in Range(s[i])
<1>1. PICK f \in [0 .. n -> Seq(V)] : Flattening(f, s, n) /\ f[n] = FlattenSeq(s)
  BY FlattenPrefixes
<1>. DEFINE S == {k \in 0 .. n :
                    \A v : v \in Range(f[k]) <=> \E i \in 1 .. k : v \in Range(s[i])}
<1>2. 0 \in S
  <2>1. f[0] = <<>> /\ Range(f[0]) = {}
    BY <1>1 DEF Range, Flattening
  <2>. QED
    BY <2>1
<1>3. ASSUME NEW k \in 1 .. n, k - 1 \in S PROVE k \in S
  <2>1. Range(f[k]) = Range(f[k - 1]) \cup Range(s[k])
    <3>1. f[k - 1] \in Seq(V) /\ s[k] \in Seq(V) /\ f[k] = f[k - 1] \o s[k]
      <4>1. k - 1 \in 0 .. n /\ k \in 0 .. n
        OBVIOUS
      <4>. QED
        BY <1>1, <4>1 DEF Flattening
    <3>. QED
      BY <3>1, RangeConcatenation
  <2>2. \A v : v \in Range(f[k - 1]) <=> \E i \in 1 .. k - 1 : v \in Range(s[i])
    BY <1>3
  <2>3. 1 .. k = (1 .. k - 1) \cup {k}
    OBVIOUS
  <2>. QED
    BY <2>1, <2>2, <2>3
<1>. HIDE DEF S
<1>4. Inductive(S, n)
  BY <1>2, <1>3 DEF Inductive
<1>5. n \in S
  BY <1>4, SetInduction
<1>6. f[n] \in Seq(V)
  OBVIOUS
<1>. QED
  BY <1>1, <1>5, <1>6 DEF S

-------------------------------------------------------------------------------
(* How often a value occurs                                                *)

\* The places of v in the sequence q.
Places(q, v) == {p \in DOMAIN q : q[p] = v}

LEMMA PlacesFinite ==
  ASSUME NEW V, NEW q \in Seq(V), NEW v
  PROVE  /\ IsFiniteSet(Places(q, v)) /\ Cardinality(Places(q, v)) \in Nat
         /\ Cardinality(Places(q, v)) = 0 <=> v \notin Range(q)
<1>1. IsFiniteSet(1 .. Len(q)) /\ DOMAIN q = 1 .. Len(q)
  BY FS_Interval
<1>2. Places(q, v) \in SUBSET (1 .. Len(q))
  BY <1>1 DEF Places
<1>3. IsFiniteSet(Places(q, v)) /\ Cardinality(Places(q, v)) \in Nat
  BY <1>1, <1>2, FS_Subset, FS_CardinalityType
<1>4. Places(q, v) = {} <=> v \notin Range(q)
  BY DEF Places, Range
<1>. QED
  BY <1>3, <1>4, FS_EmptySet

LEMMA PlacesConcat ==
  ASSUME NEW V, NEW a \in Seq(V), NEW b \in Seq(V), NEW v
  PROVE  Cardinality(Places(a \o b, v)) =
           Cardinality(Places(a, v)) + Cardinality(Places(b, v))
<1>. DEFINE P == Places(a, v)
            Q == Places(b, v)
            R == {p + Len(a) : p \in Q}
            f == [p \in Q |-> p + Len(a)]
<1>1. IsFiniteSet(P) /\ IsFiniteSet(Q)
  BY PlacesFinite
<1>2. Len(a) \in Nat /\ Q \subseteq Nat \ {0} /\ P \subseteq 1 .. Len(a)
  BY DEF Places
<1>3. f \in Bijection(Q, R)
  BY <1>2 DEF Bijection, Injection, Surjection, IsInjective
<1>4. IsFiniteSet(R) /\ Cardinality(R) = Cardinality(Q)
  <2>1. ExistsBijection(Q, R)
    BY <1>3 DEF ExistsBijection
  <2>. HIDE DEF Q, R
  <2>. QED
    BY <1>1, <2>1, FS_Bijection
<1>5. Places(a \o b, v) = P \cup R
  <2>. DEFINE c == a \o b
  <2>1. /\ DOMAIN c = 1 .. Len(a) + Len(b) /\ Len(b) \in Nat
        /\ DOMAIN a = 1 .. Len(a) /\ DOMAIN b = 1 .. Len(b)
        /\ \A p \in 1 .. Len(a) + Len(b) :
             c[p] = IF p <= Len(a) THEN a[p] ELSE b[p - Len(a)]
    BY ConcatProperties
  <2>. HIDE DEF c
  <2>2. ASSUME NEW p \in Places(c, v) PROVE p \in P \cup R
    <3>1. p \in 1 .. Len(a) + Len(b) /\ c[p] = v
      BY <2>1 DEF Places
    <3>2. CASE p <= Len(a)
      BY <1>2, <2>1, <3>1, <3>2 DEF Places
    <3>3. CASE p > Len(a)
      <4>1. p - Len(a) \in 1 .. Len(b) /\ b[p - Len(a)] = v
        BY <1>2, <2>1, <3>1, <3>3
      <4>2. p - Len(a) \in Q /\ p = (p - Len(a)) + Len(a)
        BY <1>2, <2>1, <4>1, <3>1 DEF Places
      <4>. QED
        BY <4>2
    <3>. QED
      BY <1>2, <3>1, <3>2, <3>3
  <2>3. ASSUME NEW p \in P PROVE p \in Places(c, v)
    BY <1>2, <2>1 DEF Places
  <2>4. ASSUME NEW p \in Q PROVE p + Len(a) \in Places(c, v)
    <3>1. p \in 1 .. Len(b) /\ b[p] = v
      BY <2>1 DEF Places
    <3>2. p + Len(a) \in 1 .. Len(a) + Len(b) /\ ~(p + Len(a) <= Len(a))
          /\ p + Len(a) - Len(a) = p
      BY <1>2, <2>1, <3>1
    <3>3. c[p + Len(a)] = v
      BY <2>1, <3>1, <3>2
    <3>. QED
      BY <2>1, <3>2, <3>3 DEF Places
  <2>. QED
    BY <2>2, <2>3, <2>4 DEF c
<1>6. P \cap R = {}
  BY <1>2
<1>. HIDE DEF P, Q, R
<1>7. Cardinality(P \cup R) = Cardinality(P) + Cardinality(R)
  <2>1. Cardinality(P \cup R) = Cardinality(P) + Cardinality(R) - Cardinality(P \cap R)
    BY <1>1, <1>4, FS_Union
  <2>2. Cardinality(P \cap R) = 0 /\ Cardinality(P) \in Nat /\ Cardinality(R) \in Nat
    BY <1>1, <1>4, <1>6, FS_EmptySet, FS_CardinalityType
  <2>. QED
    BY <2>1, <2>2
<1>. QED
  BY <1>4, <1>5, <1>7 DEF P, Q

\* A value that only the j-th member has occurs as often as it does there.
OnlyIn(s, v, j) == \A i \in DOMAIN s : i # j => v \notin Range(s[i])

LEMMA FlattenPlaces ==
  ASSUME NEW V, NEW n \in Nat, NEW s \in [1 .. n -> Seq(V)], NEW v, NEW j \in 1 .. n,
         OnlyIn(s, v, j)
  PROVE  Cardinality(Places(FlattenSeq(s), v)) = Cardinality(Places(s[j], v))
<1>1. PICK f \in [0 .. n -> Seq(V)] : Flattening(f, s, n) /\ f[n] = FlattenSeq(s)
  BY FlattenPrefixes
<1>. DEFINE there == Cardinality(Places(s[j], v))
            S == {k \in 0 .. n : Cardinality(Places(f[k], v)) = IF k < j THEN 0 ELSE there}
<1>2. there \in Nat
  BY PlacesFinite
<1>3. 0 \in S
  <2>1. f[0] = <<>> /\ Range(f[0]) = {}
    BY <1>1 DEF Range, Flattening
  <2>2. Cardinality(Places(f[0], v)) = 0
    BY <2>1, PlacesFinite
  <2>. QED
    BY <2>2
<1>4. ASSUME NEW k \in 1 .. n, k - 1 \in S PROVE k \in S
  <2>1. /\ f[k - 1] \in Seq(V) /\ s[k] \in Seq(V) /\ f[k] = f[k - 1] \o s[k]
    <3>1. k - 1 \in 0 .. n
      OBVIOUS
    <3>. QED
      BY <1>1, <3>1 DEF Flattening
  <2>2. Cardinality(Places(f[k], v)) =
          Cardinality(Places(f[k - 1], v)) + Cardinality(Places(s[k], v))
    BY <2>1, PlacesConcat
  <2>3. Cardinality(Places(f[k - 1], v)) = IF k - 1 < j THEN 0 ELSE there
    BY <1>4
  <2>4. k # j => Cardinality(Places(s[k], v)) = 0
    BY <2>1, PlacesFinite DEF OnlyIn
  <2>. HIDE DEF there
  <2>5. Cardinality(Places(f[k], v)) = IF k < j THEN 0 ELSE there
    <3>1. CASE k = j
      BY <1>2, <2>2, <2>3, <3>1 DEF there
    <3>2. CASE k # j
      BY <1>2, <2>2, <2>3, <2>4, <3>2
    <3>. QED
      BY <3>1, <3>2
  <2>. QED
    BY <2>5
<1>. HIDE DEF S
<1>5. Inductive(S, n)
  BY <1>3, <1>4 DEF Inductive
<1>6. n \in S
  BY <1>5, SetInduction
<1>. QED
  BY <1>1, <1>6 DEF S

-------------------------------------------------------------------------------
(* Members of a finite set by their rank                                   *)

\* L: the pairs of members of S of which the first comes before the second.
TotalOrder(S, L) ==
  /\ \A x \in S : <<x, x>> \notin L
  /\ \A x, y \in S : x # y => <<x, y>> \in L \/ <<y, x>> \in L
  /\ \A x, y, z \in S : <<x, y>> \in L /\ <<y, z>> \in L => <<x, z>> \in L

Below(S, L, m) == {x \in S : <<x, m>> \in L}

Rank(S, L, m) == Cardinality(Below(S, L, m))

\* Each rank from 0 is that of one member.
RankedOnce(S, L) ==
  /\ \A m \in S : Rank(S, L, m) \in 0 .. Cardinality(S) - 1
  /\ \A m, x \in S : Rank(S, L, m) = Rank(S, L, x) => m = x
  /\ \A k \in 0 .. Cardinality(S) - 1 : \E m \in S : Rank(S, L, m) = k

LEMMA Ranks ==
  ASSUME NEW S, IsFiniteSet(S), NEW L, TotalOrder(S, L)
  PROVE  RankedOnce(S, L)
<1>. DEFINE rank == [m \in S |-> Rank(S, L, m)]
            T == 0 .. Cardinality(S) - 1
<1>0. Cardinality(S) \in Nat
  BY FS_CardinalityType
<1>1. ASSUME NEW m \in S, NEW U \in SUBSET S, m \notin U
      PROVE  IsFiniteSet(U) /\ Cardinality(U) \in Nat /\ Cardinality(U) < Cardinality(S)
  <2>1. IsFiniteSet(U) /\ Cardinality(U) <= Cardinality(S) /\ Cardinality(U) # Cardinality(S)
    BY <1>1, FS_Subset
  <2>. QED
    BY <1>0, <2>1, FS_CardinalityType
<1>2. ASSUME NEW m \in S PROVE Rank(S, L, m) \in T
  <2>1. Below(S, L, m) \in SUBSET S /\ m \notin Below(S, L, m)
    BY DEF Below, TotalOrder
  <2>. HIDE DEF T
  <2>2. /\ Rank(S, L, m) \in Nat
        /\ Rank(S, L, m) < Cardinality(S)
    BY <1>1, <2>1 DEF Rank
  <2>. QED
    BY <1>0, <2>2 DEF T
<1>3. ASSUME NEW m \in S, NEW x \in S, <<m, x>> \in L
      PROVE  Rank(S, L, m) # Rank(S, L, x)
  <2>1. /\ Below(S, L, m) \in SUBSET Below(S, L, x) /\ m \in Below(S, L, x)
        /\ m \notin Below(S, L, m) /\ Below(S, L, x) \in SUBSET S
    BY <1>3 DEF Below, TotalOrder
  <2>2. IsFiniteSet(Below(S, L, x))
    BY <2>1, FS_Subset
  <2>. QED
    BY <2>1, <2>2, FS_Subset DEF Rank
<1>4. ASSUME NEW m \in S, NEW x \in S,
             Rank(S, L, m) = Rank(S, L, x)
      PROVE  m = x
  BY <1>3, <1>4 DEF TotalOrder
<1>5. rank \in Injection(S, T)
  BY <1>2, <1>4 DEF Injection, IsInjective
<1>6. IsFiniteSet(T) /\ Cardinality(T) = Cardinality(S)
  BY <1>0, FS_Interval
<1>7. rank \in Surjection(S, T)
  <2>. HIDE DEF rank, T
  <2>. QED
    BY <1>5, <1>6, FS_Injection
<1>8. \A k \in T : \E m \in S : Rank(S, L, m) = k
  BY <1>7 DEF Surjection
<1>. QED
  BY <1>2, <1>4, <1>8 DEF RankedOnce

\* The members of a set of numbers in increasing order.
KthSmallest(S, k) == CHOOSE i \in S : Cardinality({j \in S : j <= i}) = k

LEMMA KthSmallestOf ==
  ASSUME NEW S \in SUBSET Nat, IsFiniteSet(S)
  PROVE  /\ \A k \in 1 .. Cardinality(S) : KthSmallest(S, k) \in S
         /\ \A k, l \in 1 .. Cardinality(S) : KthSmallest(S, k) = KthSmallest(S, l) => k = l
         /\ \A i \in S : \E k \in 1 .. Cardinality(S) : KthSmallest(S, k) = i
<1>. DEFINE L == {p \in S \X S : p[1] < p[2]}
            UpTo(i) == {j \in S : j <= i}
<1>1. TotalOrder(S, L)
  BY DEF TotalOrder
<1>2. ASSUME NEW i \in S PROVE Cardinality(UpTo(i)) = Rank(S, L, i) + 1
  <2>1. UpTo(i) = Below(S, L, i) \cup {i} /\ i \notin Below(S, L, i)
    <3>1. \A j \in S : j \in Nat /\ i \in Nat /\ (j <= i <=> j < i \/ j = i)
      OBVIOUS
    <3>2. Below(S, L, i) = {j \in S : j < i}
      BY DEF Below
    <3>3. i \notin Below(S, L, i) /\ i \in UpTo(i)
      BY <3>1, <3>2
    <3>5. Below(S, L, i) \subseteq UpTo(i)
      BY <3>1, <3>2
    <3>4. ASSUME NEW j \in UpTo(i) PROVE j \in Below(S, L, i) \cup {i}
      <4>1. j \in S /\ j <= i
        OBVIOUS
      <4>2. j < i \/ j = i
        BY <3>1, <4>1
      <4>. QED
        BY <3>2, <4>1, <4>2
    <3>. QED
      BY <3>3, <3>4, <3>5
  <2>2. IsFiniteSet(Below(S, L, i))
    <3>1. Below(S, L, i) \in SUBSET S
      BY DEF Below
    <3>. QED
      BY <3>1, FS_Subset
  <2>. HIDE DEF UpTo, L
  <2>. QED
    BY <2>1, <2>2, FS_AddElement DEF Rank
<1>. HIDE DEF L
<1>3. RankedOnce(S, L)
  BY <1>1, Ranks
<1>4. Cardinality(S) \in Nat
  BY FS_CardinalityType
<1>5. ASSUME NEW k \in 1 .. Cardinality(S)
      PROVE  KthSmallest(S, k) \in S /\ Cardinality(UpTo(KthSmallest(S, k))) = k
  <2>1. k - 1 \in 0 .. Cardinality(S) - 1
    BY <1>4
  <2>2. PICK m \in S : Rank(S, L, m) = k - 1
    BY <1>3, <2>1 DEF RankedOnce
  <2>3. Cardinality(UpTo(m)) = k
    BY <1>2, <2>2
  <2>4. KthSmallest(S, k) = CHOOSE i \in S : Cardinality(UpTo(i)) = k
    BY DEF KthSmallest
  <2>. HIDE DEF UpTo
  <2>. QED
    BY <2>3, <2>4
<1>6. ASSUME NEW i \in S PROVE \E k \in 1 .. Cardinality(S) : KthSmallest(S, k) = i
  <2>. DEFINE k == Cardinality(UpTo(i))
  <2>1. k = Rank(S, L, i) + 1 /\ k \in 1 .. Cardinality(S)
    BY <1>2, <1>3, <1>4 DEF RankedOnce
  <2>2. KthSmallest(S, k) \in S /\ Cardinality(UpTo(KthSmallest(S, k))) = k
    BY <1>5, <2>1
  <2>3. Rank(S, L, KthSmallest(S, k)) = Rank(S, L, i)
    <3>1. Cardinality(UpTo(KthSmallest(S, k))) = Rank(S, L, KthSmallest(S, k)) + 1
      BY <1>2, <2>2
    <3>. HIDE DEF UpTo, k
    <3>2. \A m \in S : Rank(S, L, m) \in Int
      BY <1>3, <1>4 DEF RankedOnce
    <3>3. Rank(S, L, KthSmallest(S, k)) \in Int /\ Rank(S, L, i) \in Int
      BY <2>2, <3>2
    <3>. QED
      BY <2>1, <2>2, <3>1, <3>3
  <2>4. KthSmallest(S, k) = i
    BY <1>3, <2>2, <2>3 DEF RankedOnce
  <2>. QED
    BY <2>1, <2>4
<1>7. ASSUME NEW k \in 1 .. Cardinality(S), NEW l \in 1 .. Cardinality(S),
             KthSmallest(S, k) = KthSmallest(S, l)
      PROVE  k = l
  <2>. HIDE DEF UpTo
  <2>. QED
    BY <1>5, <1>7
<1>. QED
  BY <1>5, <1>6, <1>7

-------------------------------------------------------------------------------
(* Sequences of whatever.                                                  *)

IsSequence(q) == \E V : q \in Seq(V)

LEMMA Appended ==
  ASSUME NEW q, IsSequence(q), NEW e
  PROVE  /\ IsSequence(Append(q, e)) /\ Len(q) \in Nat /\ Len(Append(q, e)) = Len(q) + 1
         /\ \A k \in 1 .. Len(q) + 1 :
              Append(q, e)[k] = IF k = Len(q) + 1 THEN e ELSE q[k]
<1>. PICK V : q \in Seq(V)
  BY DEF IsSequence
<1>1. q \in Seq(V \cup {e}) /\ e \in V \cup {e}
  OBVIOUS
<1>2. /\ Append(q, e) \in Seq(V \cup {e}) /\ Len(Append(q, e)) = Len(q) + 1
      /\ \A k \in 1 .. Len(q) + 1 : Append(q, e)[k] = IF k = Len(q) + 1 THEN e ELSE q[k]
  BY <1>1
<1>. QED
  BY <1>1, <1>2 DEF IsSequence

LEMMA EmptySequence == IsSequence(<<>>) /\ Len(<<>>) = 0
<1>1. <<>> \in Seq({})
  OBVIOUS
<1>. QED
  BY <1>1 DEF IsSequence

LEMMA MaxOf ==
  ASSUME NEW n \in Nat, NEW S \in SUBSET (0 .. n), S # {}
  PROVE  Max(S) \in S /\ \A k \in S : k <= Max(S)
<1>. DEFINE T == {n - k : k \in S}
<1>1. T \in SUBSET Nat /\ T # {}
  <2>1. \A k \in S : n - k \in Nat
    OBVIOUS
  <2>. QED
    BY <2>1
<1>2. PICK m \in T : \A k \in T : m <= k
  <2>. HIDE DEF T
  <2>. QED
    BY <1>1, LeastNumber
<1>3. n - m \in S /\ \A k \in S : n - m >= k
  BY <1>2
<1>. QED
  BY <1>3 DEF Max

\* e behind the first k of q.
LEMMA Inserted ==
  ASSUME NEW V, NEW q \in Seq(V), NEW k \in 0 .. Len(q), NEW e \in V
  PROVE  LET r == InsertAt(q, k + 1, e)
         IN /\ r \in Seq(V) /\ Len(r) = Len(q) + 1
            /\ \A j \in 1 .. Len(q) + 1 :
                 r[j] = IF j <= k THEN q[j] ELSE IF j = k + 1 THEN e ELSE q[j - 1]
<1>. DEFINE r == InsertAt(q, k + 1, e)
            a == SubSeq(q, 1, k)
            b == <<e>>
            c == SubSeq(q, k + 1, Len(q))
<1>0. k \in Nat /\ Len(q) \in Nat /\ k <= Len(q)
  OBVIOUS
<1>1. /\ a \in Seq(V) /\ Len(a) = k
      /\ \A j \in 1 .. k : a[j] = q[j]
  OBVIOUS
<1>2. b \in Seq(V) /\ Len(b) = 1 /\ b[1] = e
  OBVIOUS
<1>3. /\ c \in Seq(V) /\ Len(c) = Len(q) - k
      /\ \A j \in 1 .. Len(q) - k : c[j] = q[k + j]
  OBVIOUS
<1>4. r = (a \o b) \o c
  <2>1. (k + 1) - 1 = k
    OBVIOUS
  <2>. QED
    BY <2>1 DEF InsertAt
<1>. HIDE DEF a, b, c, r
<1>5. /\ a \o b \in Seq(V) /\ Len(a \o b) = k + 1
      /\ \A j \in 1 .. k + 1 : (a \o b)[j] = IF j <= k THEN q[j] ELSE e
  <2>1. /\ a \o b \in Seq(V) /\ Len(a \o b) = Len(a) + Len(b)
        /\ \A j \in 1 .. Len(a) + Len(b) :
             (a \o b)[j] = IF j <= Len(a) THEN a[j] ELSE b[j - Len(a)]
    BY <1>1, <1>2, ConcatProperties
  <2>. QED
    BY <1>0, <1>1, <1>2, <2>1
<1>6. /\ r \in Seq(V) /\ Len(r) = Len(q) + 1
      /\ \A j \in 1 .. Len(q) + 1 :
           r[j] = IF j <= k + 1 THEN (a \o b)[j] ELSE c[j - (k + 1)]
  <2>. DEFINE d == a \o b
  <2>0. r = d \o c /\ d \in Seq(V) /\ Len(d) = k + 1
    BY <1>4, <1>5
  <2>. HIDE DEF d
  <2>1. /\ r \in Seq(V) /\ Len(r) = Len(d) + Len(c)
        /\ \A j \in 1 .. Len(d) + Len(c) :
             r[j] = IF j <= Len(d) THEN d[j] ELSE c[j - Len(d)]
    BY <1>3, <2>0, ConcatProperties
  <2>2. Len(d) + Len(c) = Len(q) + 1
    BY <1>0, <1>3, <2>0
  <2>. QED
    BY <2>0, <2>1, <2>2 DEF d
<1>7. ASSUME NEW j \in 1 .. Len(q) + 1
      PROVE  r[j] = IF j <= k THEN q[j] ELSE IF j = k + 1 THEN e ELSE q[j - 1]
  <2>. DEFINE d == a \o b
  <2>0. /\ \A l \in 1 .. k + 1 : d[l] = IF l <= k THEN q[l] ELSE e
        /\ r[j] = IF j <= k + 1 THEN d[j] ELSE c[j - (k + 1)]
    BY <1>5, <1>6
  <2>. HIDE DEF d
  <2>1. CASE j <= k + 1
    <3>1. j \in 1 .. k + 1 /\ (j <= k \/ (j = k + 1 /\ ~(j <= k)))
      BY <1>0, <2>1
    <3>2. r[j] = d[j]
      BY <2>0, <2>1
    <3>3. d[j] = IF j <= k THEN q[j] ELSE e
      BY <2>0, <3>1
    <3>. QED
      BY <3>1, <3>2, <3>3
  <2>2. CASE j > k + 1
    <3>1. /\ j - (k + 1) \in 1 .. Len(q) - k /\ k + (j - (k + 1)) = j - 1
          /\ ~(j <= k) /\ j # k + 1 /\ ~(j <= k + 1)
      BY <1>0, <2>2
    <3>2. c[j - (k + 1)] = q[k + (j - (k + 1))]
      BY <1>3, <3>1
    <3>. QED
      BY <2>0, <3>1, <3>2
  <2>. QED
    BY <1>0, <2>1, <2>2
<1>. QED
  BY <1>6, <1>7 DEF r

=============================================================================
