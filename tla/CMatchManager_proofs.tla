------------------------- MODULE CMatchManager_proofs -------------------------
(***************************************************************************)
(* For any events, cuts and scores: the manager asks about every choice of *)
(* ranked clusters of different planes, once, and its result uses no       *)
(* cluster twice and leaves out only what lost.                            *)
(***************************************************************************)
EXTENDS CMatchManager, SequenceLemmas

-------------------------------------------------------------------------------
(* The greedy choice: PassResult goes through the candidates of a register *)
(* from the last one.                                                      *)

\* What iter[s] of its fold is: the candidates at the places s, the largest last.
Iterates(g, reg) ==
  g = [s \in SUBSET DOMAIN Reverse(reg) |->
         IF s = {} THEN <<>>
         ELSE BK!Picked(g[s \ {Max(s)}], Reverse(reg)[Max(s)].members)]

LEMMA PassResultIterates ==
  ASSUME NEW reg
  PROVE  BK!PassResult(reg) = (CHOOSE g : Iterates(g, reg))[DOMAIN Reverse(reg)]
<1>. QED
  BY DEF BK!PassResult, BK!FoldLeft, BK!MapThenFoldSet, Iterates, BK!Reverse, Reverse, Max, BK!Max

IsRegister(reg, D) ==
  IsSequence(reg) /\ \A k \in 1 .. Len(reg) : reg[k].members \in SUBSET D

LEMMA PickedType ==
  ASSUME NEW D, NEW result \in Seq(SUBSET D), NEW members \in SUBSET D
  PROVE  BK!Picked(result, members) \in Seq(SUBSET D)
<1>. QED
  BY DEF BK!Picked

\* f[k]: what PassResult has picked after the last k candidates.
Picking(f, reg) ==
  f[0] = <<>> /\ \A k \in 1 .. Len(reg) :
                   f[k] = BK!Picked(f[k - 1], reg[Len(reg) - k + 1].members)

\* The equation of the fold has a solution.
LEMMA IteratesExists ==
  ASSUME NEW D, NEW reg, IsRegister(reg, D)
  PROVE  \E g : Iterates(g, reg)
<1>. DEFINE n == Len(reg)
            q == Reverse(reg)
            P == SUBSET (1 .. n)
            R == Seq(SUBSET D)
            V == [P -> R]
            M(i) == q[i].members
            Step(h) == [s \in P |-> IF s = {} THEN <<>> ELSE BK!Picked(h[s \ {Max(s)}], M(Max(s)))]
            G == [p \in (1 .. n) \X V |-> Step(p[2])]
            none == [s \in P |-> <<>>]
<1>1. n \in Nat /\ q = [i \in 1 .. n |-> reg[n - i + 1]] /\ DOMAIN q = 1 .. n
  BY DEF IsRegister, IsSequence, Reverse
<1>2. ASSUME NEW i \in 1 .. n PROVE M(i) \in SUBSET D
  <2>1. n - i + 1 \in 1 .. n /\ q[i] = reg[n - i + 1]
    BY <1>1
  <2>. QED
    BY <2>1 DEF IsRegister
<1>3. ASSUME NEW s \in P, s # {}
      PROVE  /\ Max(s) \in s /\ Max(s) \in 1 .. n /\ \A k \in s : k <= Max(s)
             /\ s \ {Max(s)} \in P /\ s \ {Max(s)} \subseteq 1 .. Max(s) - 1
  <2>1. s \in SUBSET (0 .. n)
    BY <1>1
  <2>2. Max(s) \in s /\ \A k \in s : k <= Max(s)
    BY <1>1, <1>3, <2>1, MaxOf
  <2>3. ASSUME NEW k \in s \ {Max(s)} PROVE k \in 1 .. Max(s) - 1
    <3>1. k \in 1 .. n /\ Max(s) \in 1 .. n /\ k <= Max(s) /\ k # Max(s)
      BY <2>2
    <3>. QED
      BY <1>1, <3>1
  <2>. QED
    BY <2>2, <2>3
<1>. HIDE DEF q, n, M
<1>4. ASSUME NEW h \in V PROVE Step(h) \in V
  <2>1. ASSUME NEW s \in P, s # {} PROVE BK!Picked(h[s \ {Max(s)}], M(Max(s))) \in R
    <3>1. h[s \ {Max(s)}] \in R /\ M(Max(s)) \in SUBSET D
      BY <1>2, <1>3, <2>1
    <3>. HIDE DEF P
    <3>. QED
      BY <3>1, PickedType
  <2>2. <<>> \in R
    OBVIOUS
  <2>. HIDE DEF P, R
  <2>. QED
    BY <2>1, <2>2
<1>5. none \in V
  OBVIOUS
<1>. HIDE DEF V, Step, none
<1>6. G \in [(1 .. n) \X V -> V]
  BY <1>4
<1>. HIDE DEF G
<1>7. PICK f \in [0 .. n -> V] : Recursion(f, none, G, n)
  BY <1>1, <1>5, <1>6, FiniteRecursion
<1>8. f[0] = none /\ \A k \in 1 .. n : f[k] = Step(f[k - 1])
  <2>1. ASSUME NEW k \in 1 .. n PROVE f[k] = Step(f[k - 1])
    <3>1. f[k - 1] \in V /\ <<k, f[k - 1]>> \in (1 .. n) \X V
      BY <1>1
    <3>. QED
      BY <1>7, <3>1 DEF Recursion, G
  <2>. QED
    BY <1>7, <2>1 DEF Recursion
<1>. DEFINE S == {k \in 0 .. n : \A s \in SUBSET (1 .. k - 1) : f[k][s] = f[k - 1][s]} \cup {0}
<1>9. ASSUME NEW k \in 1 .. n, k - 1 \in S PROVE k \in S
  <2>1. ASSUME NEW s \in SUBSET (1 .. k - 1) PROVE f[k][s] = f[k - 1][s]
    <3>1. s \in P
      BY <1>1
    <3>2. CASE s = {}
      <4>1. \A h : Step(h)[{}] = <<>>
        BY DEF Step
      <4>2. none[{}] = <<>>
        BY DEF none
      <4>3. k - 1 = 0 \/ k - 1 \in 1 .. n
        BY <1>1
      <4>4. f[k][{}] = <<>> /\ f[k - 1][{}] = <<>>
        BY <1>8, <4>1, <4>2, <4>3
      <4>. QED
        BY <3>2, <4>4
    <3>3. CASE s # {}
      <4>1. Max(s) \in 1 .. k - 1 /\ s \ {Max(s)} \subseteq 1 .. Max(s) - 1
        BY <1>3, <3>1, <3>3
      <4>2. k - 1 \in 1 .. n /\ s \ {Max(s)} \in SUBSET (1 .. (k - 1) - 1) /\ k - 1 # 0
        BY <1>1, <4>1
      <4>3. f[k - 1][s \ {Max(s)}] = f[(k - 1) - 1][s \ {Max(s)}]
        BY <1>9, <4>2
      <4>4. ASSUME NEW h PROVE Step(h)[s] = BK!Picked(h[s \ {Max(s)}], M(Max(s)))
        BY <3>1, <3>3 DEF Step
      <4>5. f[k] = Step(f[k - 1]) /\ f[k - 1] = Step(f[(k - 1) - 1])
        BY <1>8, <4>2
      <4>. QED
        BY <4>3, <4>4, <4>5
    <3>. QED
      BY <3>2, <3>3
  <2>. QED
    BY <2>1, <1>1
<1>10. n \in S
  <2>1. 0 \in S
    OBVIOUS
  <2>. HIDE DEF S
  <2>. QED
    BY <1>1, <1>9, <2>1, SetInduction DEF Inductive
<1>11. f[n] = Step(f[n])
  <2>1. CASE n = 0
    <3>1. P = {{}}
      BY <2>1
    <3>2. f[n] = none
      BY <1>8, <2>1
    <3>. HIDE DEF P
    <3>3. none = [s \in P |-> <<>>]
      BY DEF none
    <3>4. Step(none) = [s \in P |-> <<>>]
      BY <3>1 DEF Step
    <3>. QED
      BY <3>2, <3>3, <3>4
  <2>2. CASE n # 0
    <3>1. n \in 1 .. n
      BY <1>1, <2>2
    <3>2. f[n] = Step(f[n - 1])
      BY <1>8, <3>1
    <3>3. \A s \in SUBSET (1 .. n - 1) : f[n][s] = f[n - 1][s]
      BY <1>1, <1>10, <2>2
    <3>4. ASSUME NEW s \in P, s # {} PROVE f[n][s \ {Max(s)}] = f[n - 1][s \ {Max(s)}]
      <4>1. s \ {Max(s)} \in SUBSET (1 .. n - 1)
        BY <1>1, <1>3, <3>4
      <4>. QED
        BY <3>3, <4>1
    <3>. HIDE DEF P
    <3>5. Step(f[n]) = Step(f[n - 1])
      BY <3>4 DEF Step
    <3>. QED
      BY <3>2, <3>5
  <2>. QED
    BY <2>1, <2>2
<1>12. Iterates(f[n], reg)
  BY <1>1, <1>11 DEF Iterates, Step, q, M
<1>. QED
  BY <1>12

LEMMA PassResultStepwise ==
  ASSUME NEW D, NEW reg, IsRegister(reg, D)
  PROVE  \E f : Picking(f, reg) /\ f[Len(reg)] = BK!PassResult(reg)
<1>. DEFINE n == Len(reg)
            q == Reverse(reg)
            g == CHOOSE h : Iterates(h, reg)
            f == [k \in 0 .. n |-> g[1 .. k]]
<1>1. n \in Nat /\ q = [i \in 1 .. n |-> reg[n - i + 1]] /\ DOMAIN q = 1 .. n
  BY DEF IsRegister, IsSequence, Reverse
<1>2. Iterates(g, reg)
  BY IteratesExists
<1>. HIDE DEF g, n, q
<1>3. g = [s \in SUBSET (1 .. n) |->
             IF s = {} THEN <<>> ELSE BK!Picked(g[s \ {Max(s)}], q[Max(s)].members)]
  BY <1>1, <1>2 DEF Iterates, q
<1>4. f[0] = <<>>
  <2>1. 1 .. 0 = {} /\ {} \in SUBSET (1 .. n) /\ 0 \in 0 .. n
    BY <1>1
  <2>. QED
    BY <1>3, <2>1
<1>5. ASSUME NEW k \in 1 .. n PROVE f[k] = BK!Picked(f[k - 1], reg[n - k + 1].members)
  <2>. DEFINE s == 1 .. k
  <2>1. s \in SUBSET (1 .. n) /\ k \in s /\ s # {} /\ \A l \in s : l <= k
    BY <1>1
  <2>2. Max(s) = k
    <3>1. s \in SUBSET (0 .. n)
      BY <2>1
    <3>. HIDE DEF s
    <3>2. Max(s) \in s /\ k <= Max(s)
      BY <1>1, <2>1, <3>1, MaxOf
    <3>3. Max(s) <= k
      BY <2>1, <3>2
    <3>4. Max(s) \in 0 .. n
      BY <3>1, <3>2
    <3>. QED
      BY <1>1, <3>2, <3>3, <3>4
  <2>3. s \ {k} = 1 .. k - 1
    BY <1>1
  <2>4. g[s] = BK!Picked(g[s \ {k}], q[k].members)
    <3>. HIDE DEF s
    <3>. QED
      BY <1>3, <2>1, <2>2
  <2>5. f[k] = g[s] /\ f[k - 1] = g[s \ {k}] /\ q[k] = reg[n - k + 1]
    <3>1. k \in 0 .. n /\ k - 1 \in 0 .. n
      BY <1>1
    <3>2. f[k] = g[1 .. k] /\ f[k - 1] = g[1 .. k - 1]
      BY <3>1
    <3>. QED
      BY <1>1, <2>3, <3>2
  <2>. QED
    BY <2>4, <2>5
<1>6. f[n] = BK!PassResult(reg)
  <2>1. f[n] = g[1 .. n]
    BY <1>1
  <2>. QED
    BY <1>1, <2>1, PassResultIterates DEF g, q
<1>. HIDE DEF f
<1>7. Picking(f, reg)
  BY <1>4, <1>5 DEF Picking, n
<1>. QED
  BY <1>6, <1>7 DEF n

\* What the result is after the candidates from j on.
PickedFrom(result, reg, D, j) ==
  LET of(i, l) == result[i] = reg[l].members
      places == 1 .. Len(result)
  IN /\ result \in Seq(SUBSET D)
     /\ \A i \in places : \E l \in j .. Len(reg) : of(i, l)
     /\ \A i, k \in places : i # k => result[i] \intersect result[k] = {}
     /\ \A k \in j .. Len(reg) :
          \/ \E i \in places : of(i, k)
          \/ \E l \in k + 1 .. Len(reg), i \in places :
               of(i, l) /\ reg[l].members \intersect reg[k].members # {}

LEMMA PickStep ==
  ASSUME NEW D, NEW reg, IsRegister(reg, D), NEW j \in 1 .. Len(reg),
         NEW result, PickedFrom(result, reg, D, j + 1)
  PROVE  PickedFrom(BK!Picked(result, reg[j].members), reg, D, j)
<1>. DEFINE n == Len(reg)
            m == reg[j].members
            r == BK!Picked(result, m)
<1>0. n \in Nat /\ m \in SUBSET D /\ Len(result) \in Nat /\ result \in Seq(SUBSET D)
  BY DEF IsRegister, IsSequence, PickedFrom
<1>1. /\ \A i \in 1 .. Len(result) : \E l \in j + 1 .. n : result[i] = reg[l].members
      /\ \A i, k \in 1 .. Len(result) : i # k => result[i] \intersect result[k] = {}
      /\ \A k \in j + 1 .. n :
           \/ \E i \in 1 .. Len(result) : result[i] = reg[k].members
           \/ \E l \in k + 1 .. n, i \in 1 .. Len(result) :
                result[i] = reg[l].members /\ reg[l].members \intersect reg[k].members # {}
  BY DEF PickedFrom
<1>2. j .. n = (j + 1 .. n) \cup {j}
  OBVIOUS
<1>3. (UNION BK!Range(result)) \intersect m = {} <=>
        \A i \in 1 .. Len(result) : result[i] \intersect m = {}
  <2>1. \A x : x \in UNION BK!Range(result) <=> \E i \in 1 .. Len(result) : x \in result[i]
    BY <1>0 DEF BK!Range
  <2>. DEFINE U == UNION BK!Range(result)
  <2>. HIDE DEF m, U
  <2>2. \A x : x \in U <=> \E i \in 1 .. Len(result) : x \in result[i]
    BY <2>1 DEF U
  <2>3. U \intersect m = {} <=> \A i \in 1 .. Len(result) : result[i] \intersect m = {}
    <3>1. U \intersect m = {} <=> \A x \in m : x \notin U
      OBVIOUS
    <3>2. \A i \in 1 .. Len(result) : result[i] \intersect m = {} <=> \A x \in m : x \notin result[i]
      OBVIOUS
    <3>. QED
      BY <2>2, <3>1, <3>2
  <2>. QED
    BY <2>3 DEF U
<1>. HIDE DEF n, m
<1>4. CASE \A i \in 1 .. Len(result) : result[i] \intersect m = {}
  <2>. DEFINE e == Len(result) + 1
  <2>1. r = Append(result, m)
    BY <1>3, <1>4 DEF BK!Picked
  <2>. HIDE DEF r
  <2>2. /\ r \in Seq(SUBSET D) /\ Len(r) = e /\ r[e] = m
        /\ \A i \in 1 .. Len(result) : r[i] = result[i]
        /\ 1 .. e = (1 .. Len(result)) \cup {e}
    BY <1>0, <2>1
  <2>. HIDE DEF e
  <2>3. ASSUME NEW i \in 1 .. e PROVE \E l \in j .. n : r[i] = reg[l].members
    <3>1. CASE i \in 1 .. Len(result)
      <4>1. PICK l \in j + 1 .. n : result[i] = reg[l].members
        BY <1>1, <3>1
      <4>2. l \in j .. n
        BY <1>2
      <4>. QED
        BY <2>2, <3>1, <4>1, <4>2
    <3>2. CASE i = e
      BY <1>2, <2>2, <3>2 DEF m
    <3>. QED
      BY <2>2, <3>1, <3>2
  <2>4. ASSUME NEW i \in 1 .. e, NEW k \in 1 .. e, i # k
        PROVE  r[i] \intersect r[k] = {}
    <3>1. CASE i \in 1 .. Len(result) /\ k \in 1 .. Len(result)
      BY <1>1, <2>2, <2>4, <3>1
    <3>2. CASE i \in 1 .. Len(result) /\ k = e
      BY <1>4, <2>2, <3>2
    <3>3. CASE i = e /\ k \in 1 .. Len(result)
      BY <1>4, <2>2, <3>3
    <3>. QED
      BY <2>2, <2>4, <3>1, <3>2, <3>3
  <2>5. ASSUME NEW k \in j .. n
        PROVE  \/ \E i \in 1 .. e : r[i] = reg[k].members
               \/ \E l \in k + 1 .. n, i \in 1 .. e :
                    r[i] = reg[l].members /\ reg[l].members \intersect reg[k].members # {}
    <3>1. CASE k = j
      BY <2>2, <3>1 DEF m
    <3>2. CASE k \in j + 1 .. n
      BY <1>1, <2>2, <3>2
    <3>. QED
      BY <1>2, <3>1, <3>2
  <2>. QED
    BY <2>2, <2>3, <2>4, <2>5 DEF PickedFrom, n, r, m
<1>5. CASE ~ \A i \in 1 .. Len(result) : result[i] \intersect m = {}
  <2>1. r = result
    BY <1>3, <1>5 DEF BK!Picked
  <2>2. \A i \in 1 .. Len(result) : \E l \in j .. n : result[i] = reg[l].members
    BY <1>1, <1>2
  <2>3. \E l \in j + 1 .. n, i \in 1 .. Len(result) :
          result[i] = reg[l].members /\ reg[l].members \intersect reg[j].members # {}
    BY <1>1, <1>5 DEF m
  <2>4. ASSUME NEW k \in j .. n
        PROVE  \/ \E i \in 1 .. Len(result) : result[i] = reg[k].members
               \/ \E l \in k + 1 .. n, i \in 1 .. Len(result) :
                    result[i] = reg[l].members /\ reg[l].members \intersect reg[k].members # {}
    <3>1. CASE k = j
      BY <2>3, <3>1
    <3>2. CASE k \in j + 1 .. n
      BY <1>1, <3>2
    <3>. QED
      BY <1>2, <3>1, <3>2
  <2>5. PickedFrom(result, reg, D, j)
    BY <1>0, <1>1, <2>2, <2>4 DEF PickedFrom, n
  <2>. QED
    BY <2>1, <2>5 DEF m
<1>. QED
  BY <1>4, <1>5

LEMMA PassResultPicks ==
  ASSUME NEW D, NEW reg, IsRegister(reg, D)
  PROVE  PickedFrom(BK!PassResult(reg), reg, D, 1)
<1>. DEFINE n == Len(reg)
<1>1. PICK f : Picking(f, reg) /\ f[n] = BK!PassResult(reg)
  BY PassResultStepwise
<1>. DEFINE S == {k \in 0 .. n : PickedFrom(f[k], reg, D, n - k + 1)}
<1>2. n \in Nat
  BY DEF IsRegister, IsSequence
<1>3. 0 \in S
  <2>1. f[0] = <<>> /\ <<>> \in Seq(SUBSET D) /\ Len(<<>>) = 0
    BY <1>1 DEF Picking
  <2>2. (n - 0 + 1 .. n) = {} /\ 1 .. 0 = {}
    BY <1>2
  <2>3. PickedFrom(<<>>, reg, D, n - 0 + 1)
    BY <2>1, <2>2 DEF PickedFrom
  <2>. QED
    BY <1>2, <2>1, <2>3
<1>4. ASSUME NEW k \in 1 .. n, k - 1 \in S PROVE k \in S
  <2>. DEFINE j == n - k + 1
  <2>1. j \in 1 .. n /\ n - (k - 1) + 1 = j + 1 /\ k \in 0 .. n
    BY <1>2
  <2>2. PickedFrom(f[k - 1], reg, D, j + 1)
    BY <1>4, <2>1
  <2>3. f[k] = BK!Picked(f[k - 1], reg[j].members)
    BY <1>1 DEF Picking
  <2>4. PickedFrom(f[k], reg, D, j)
    <3>. HIDE DEF j
    <3>. QED
      BY <2>1, <2>2, <2>3, PickStep
  <2>. QED
    BY <2>1, <2>4
<1>5. n \in S
  <2>. HIDE DEF S, n
  <2>. QED
    BY <1>2, <1>3, <1>4, SetInduction DEF Inductive
<1>6. n - n + 1 = 1
  BY <1>2
<1>. QED
  BY <1>1, <1>5, <1>6

-------------------------------------------------------------------------------
(* The register: ordered by score, and of equal scores those of more       *)
(* clusters first, as they were asked about first.                         *)

Candidates(D) == [score : Int, members : SUBSET D]

BetterOrSame(reg, k, l) ==
  \/ reg[l].score > reg[k].score
  \/ /\ reg[l].score = reg[k].score
     /\ Cardinality(reg[l].members) <= Cardinality(reg[k].members)

RegisterOK(reg, D) ==
  /\ reg \in Seq(Candidates(D))
  /\ \A k, l \in 1 .. Len(reg) : k < l => BetterOrSame(reg, k, l)

LEMMA MatchOrdered ==
  ASSUME NEW D, NEW reg, RegisterOK(reg, D), NEW members \in SUBSET D, NEW score \in Int,
         \A k \in 1 .. Len(reg) : Cardinality(members) <= Cardinality(reg[k].members)
  PROVE  LET r == BK!Match(reg, members, score)
         IN /\ RegisterOK(r, D)
            /\ \A k \in 1 .. Len(r) :
                 r[k].members = members \/ \E l \in 1 .. Len(reg) : r[k].members = reg[l].members
<1>. DEFINE r == BK!Match(reg, members, score)
            n == Len(reg)
            L == {0} \cup {k \in DOMAIN reg : reg[k].score <= score}
            last == Max(L)
            e == [score |-> score, members |-> members]
<1>1. /\ n \in Nat /\ DOMAIN reg = 1 .. n /\ reg \in Seq(Candidates(D)) /\ e \in Candidates(D)
      /\ \A k \in 1 .. n : reg[k].score \in Int
  <2>1. reg \in Seq(Candidates(D)) /\ e \in Candidates(D)
    BY DEF RegisterOK, Candidates
  <2>2. \A k \in 1 .. n : reg[k] \in Candidates(D)
    BY <2>1
  <2>. QED
    BY <2>1, <2>2 DEF Candidates
<1>2. last \in L /\ \A k \in L : k <= last
  <2>1. L \in SUBSET (0 .. n) /\ L # {}
    BY <1>1
  <2>. HIDE DEF L
  <2>. QED
    BY <1>1, <2>1, MaxOf
<1>. HIDE DEF last, n
<1>3. last \in 0 .. n
  BY <1>1, <1>2
<1>4. ASSUME NEW k \in 1 .. n
      PROVE  /\ k <= last => reg[k].score <= score
             /\ k > last => reg[k].score > score
  <2>1. CASE k > last
    BY <1>1, <1>2, <1>3, <2>1
  <2>2. CASE k = last
    BY <1>1, <1>2, <1>3, <2>2
  <2>3. CASE k < last
    <3>1. last \in 1 .. n /\ reg[last].score <= score
      BY <1>1, <1>2, <1>3, <2>3
    <3>2. reg[last].score >= reg[k].score
      BY <1>1, <2>3, <3>1 DEF RegisterOK, BetterOrSame, n
    <3>3. reg[k].score \in Int /\ reg[last].score \in Int
      BY <1>1, <3>1
    <3>. QED
      BY <1>1, <1>3, <2>3, <3>1, <3>2, <3>3
  <2>. QED
    BY <1>1, <1>3, <2>1, <2>2, <2>3
<1>5. r = InsertAt(reg, last + 1, e)
  BY DEF BK!Match, BK!InsertAt, InsertAt, BK!Max, Max, last
<1>. HIDE DEF r, L
<1>6. /\ r \in Seq(Candidates(D)) /\ Len(r) = n + 1
      /\ \A j \in 1 .. n + 1 :
           r[j] = IF j <= last THEN reg[j] ELSE IF j = last + 1 THEN e ELSE reg[j - 1]
  <2>1. e \in Candidates(D) /\ last \in 0 .. Len(reg)
    BY <1>1, <1>3 DEF n
  <2>. DEFINE V == Candidates(D)
              i == InsertAt(reg, last + 1, e)
  <2>2. reg \in Seq(V) /\ e \in V
    BY <1>1
  <2>. HIDE DEF e, V
  <2>3. /\ i \in Seq(V) /\ Len(i) = Len(reg) + 1
        /\ \A j \in 1 .. Len(reg) + 1 :
             i[j] = IF j <= last THEN reg[j] ELSE IF j = last + 1 THEN e ELSE reg[j - 1]
    BY <2>1, <2>2, Inserted
  <2>. HIDE DEF i
  <2>4. r = i
    BY <1>5 DEF i
  <2>. QED
    BY <2>3, <2>4 DEF n, V
<1>. HIDE DEF e
<1>7. ASSUME NEW k \in 1 .. n + 1, NEW l \in 1 .. n + 1, k < l
      PROVE  BetterOrSame(r, k, l)
  <2>0. /\ (k <= last => r[k] = reg[k] /\ k \in 1 .. n)
        /\ (k = last + 1 => r[k] = e)
        /\ (k > last + 1 => r[k] = reg[k - 1] /\ k - 1 \in 1 .. n /\ k - 1 > last)
        /\ (l <= last => r[l] = reg[l] /\ l \in 1 .. n)
        /\ (l = last + 1 => r[l] = e)
        /\ (l > last + 1 => r[l] = reg[l - 1] /\ l - 1 \in 1 .. n /\ l - 1 > last)
    BY <1>1, <1>3, <1>6
  <2>1. \A i, j \in 1 .. n : i < j => BetterOrSame(reg, i, j)
    BY DEF RegisterOK, n
  <2>2. CASE l <= last
    BY <1>1, <1>3, <1>7, <2>0, <2>1, <2>2 DEF BetterOrSame
  <2>3. CASE l = last + 1
    <3>1. k <= last /\ k \in 1 .. n /\ r[k] = reg[k] /\ r[l] = e
      BY <1>1, <1>3, <1>7, <2>0, <2>3
    <3>2. reg[k].score <= score /\ Cardinality(members) <= Cardinality(reg[k].members)
          /\ reg[k].score \in Int
      BY <1>1, <1>4, <3>1 DEF n
    <3>3. r[l].score = score /\ r[l].members = members
      BY <3>1 DEF e
    <3>. QED
      BY <3>1, <3>2, <3>3 DEF BetterOrSame
  <2>4. CASE l > last + 1
    <3>1. r[l] = reg[l - 1] /\ l - 1 \in 1 .. n /\ l - 1 > last
      BY <2>0, <2>4
    <3>2. CASE k <= last
      <4>1. r[k] = reg[k] /\ k \in 1 .. n /\ k < l - 1
        BY <1>1, <1>3, <2>0, <3>1, <3>2
      <4>. QED
        BY <2>1, <3>1, <4>1 DEF BetterOrSame
    <3>3. CASE k = last + 1
      <4>1. r[k] = e /\ r[k].score = score
        BY <2>0, <3>3 DEF e
      <4>. QED
        BY <1>1, <1>4, <3>1, <4>1 DEF BetterOrSame
    <3>4. CASE k > last + 1
      <4>1. r[k] = reg[k - 1] /\ k - 1 \in 1 .. n /\ k - 1 < l - 1
        BY <1>1, <1>3, <1>7, <2>0, <3>1, <3>4
      <4>. QED
        BY <2>1, <3>1, <4>1 DEF BetterOrSame
    <3>. QED
      BY <1>1, <1>3, <3>2, <3>3, <3>4
  <2>. QED
    BY <1>1, <1>3, <2>2, <2>3, <2>4
<1>8. ASSUME NEW k \in 1 .. n + 1
      PROVE  r[k].members = members \/ \E l \in 1 .. n : r[k].members = reg[l].members
  <2>1. CASE k <= last
    <3>1. k \in 1 .. n /\ r[k] = reg[k]
      BY <1>1, <1>3, <1>6, <2>1
    <3>. QED
      BY <3>1
  <2>2. CASE k = last + 1
    <3>1. r[k] = e
      BY <1>1, <1>3, <1>6, <2>2
    <3>. QED
      BY <3>1 DEF e
  <2>3. CASE k > last + 1
    <3>1. k - 1 \in 1 .. n /\ r[k] = reg[k - 1]
      BY <1>1, <1>3, <1>6, <2>3
    <3>. QED
      BY <3>1
  <2>. QED
    BY <1>1, <1>3, <2>1, <2>2, <2>3
<1>9. RegisterOK(r, D)
  BY <1>6, <1>7 DEF RegisterOK
<1>. QED
  BY <1>6, <1>8, <1>9 DEF r, n

\* What the two properties of the result say of a register.
LEMMA GreedyResult ==
  ASSUME NEW D, NEW reg, RegisterOK(reg, D)
  PROVE  LET result == BK!PassResult(reg)
         IN /\ UNION Range(result) \subseteq D
            /\ \A k, l \in DOMAIN result : k # l => result[k] \intersect result[l] = {}
            /\ \A k \in DOMAIN reg :
                 \/ reg[k].members \in Range(result)
                 \/ \E l \in k + 1 .. Len(reg) :
                      /\ reg[l].members \in Range(result)
                      /\ reg[l].members \intersect reg[k].members # {}
                      /\ BetterOrSame(reg, k, l)
<1>. DEFINE result == BK!PassResult(reg)
            n == Len(reg)
<1>1. IsRegister(reg, D) /\ DOMAIN reg = 1 .. n /\ n \in Nat
  <2>1. reg \in Seq(Candidates(D))
    BY DEF RegisterOK
  <2>2. \A k \in 1 .. n : reg[k] \in Candidates(D)
    BY <2>1
  <2>3. \A k \in 1 .. n : reg[k].members \in SUBSET D
    BY <2>2 DEF Candidates
  <2>. QED
    BY <2>1, <2>3 DEF IsRegister, IsSequence
<1>2. PickedFrom(result, reg, D, 1)
  BY <1>1, PassResultPicks
<1>. HIDE DEF result, n
<1>3. result \in Seq(SUBSET D) /\ DOMAIN result = 1 .. Len(result)
  BY <1>2 DEF PickedFrom
<1>4. UNION Range(result) \subseteq D
  BY <1>3 DEF Range
<1>5. \A k, l \in 1 .. Len(result) : k # l => result[k] \intersect result[l] = {}
  BY <1>2 DEF PickedFrom
<1>6. ASSUME NEW k \in 1 .. n
      PROVE  \/ reg[k].members \in Range(result)
             \/ \E l \in k + 1 .. n :
                  /\ reg[l].members \in Range(result)
                  /\ reg[l].members \intersect reg[k].members # {}
                  /\ BetterOrSame(reg, k, l)
  <2>1. \A i \in 1 .. Len(result) : result[i] \in Range(result)
    BY <1>3 DEF Range
  <2>2. CASE \E i \in 1 .. Len(result) : result[i] = reg[k].members
    BY <2>1, <2>2
  <2>3. CASE \E l \in k + 1 .. n, i \in 1 .. Len(result) :
               result[i] = reg[l].members /\ reg[l].members \intersect reg[k].members # {}
    <3>1. PICK l \in k + 1 .. n, i \in 1 .. Len(result) :
               result[i] = reg[l].members /\ reg[l].members \intersect reg[k].members # {}
      BY <2>3
    <3>2. BetterOrSame(reg, k, l)
      BY <1>1 DEF RegisterOK, n
    <3>. QED
      BY <2>1, <3>1, <3>2
  <2>. QED
    BY <1>2, <2>2, <2>3 DEF PickedFrom, n
<1>. QED
  BY <1>1, <1>3, <1>4, <1>5, <1>6 DEF result, n

-------------------------------------------------------------------------------
(* The odometer.                                                           *)

\* d comes before e.
LexLess(d, e) ==
  \E k \in DOMAIN e : d[k] < e[k] /\ \A j \in DOMAIN e : j < k => d[j] = e[j]

LEMMA SuffixOf ==
  ASSUME NEW r \in Nat, NEW U \in SUBSET Index(r),
         \A k, j \in Index(r) : k \in U /\ j >= k => j \in U
  PROVE  Cardinality(U) \in 0 .. r /\ U = {k \in Index(r) : k >= r - Cardinality(U)}
<1>1. CASE U = {}
  <2>1. Cardinality(U) = 0
    BY <1>1, FS_EmptySet
  <2>. QED
    BY <1>1, <2>1 DEF Index
<1>2. CASE U # {}
  <2>1. U \in SUBSET Nat
    BY DEF Index
  <2>2. PICK m \in U : \A k \in U : m <= k
    BY <1>2, <2>1, LeastNumber
  <2>3. U = m .. r - 1 /\ m \in 0 .. r - 1
    <3>1. m \in Index(r) /\ Index(r) = 0 .. r - 1
      BY <2>2 DEF Index
    <3>2. ASSUME NEW j \in m .. r - 1 PROVE j \in U
      <4>1. j \in Index(r) /\ j >= m
        BY <3>1, <3>2
      <4>. QED
        BY <2>2, <3>1, <4>1
    <3>3. ASSUME NEW j \in U PROVE j \in m .. r - 1
      <4>1. j \in 0 .. r - 1 /\ m <= j
        BY <2>2, <3>1
      <4>. QED
        BY <3>1, <4>1
    <3>. QED
      BY <3>1, <3>2, <3>3
  <2>4. Cardinality(m .. r - 1) = r - m
    <3>1. m \in Int /\ r - 1 \in Int /\ ~(m > r - 1)
      BY <2>3
    <3>. QED
      BY <3>1, FS_Interval
  <2>5. Cardinality(U) = r - m /\ r - Cardinality(U) = m
    BY <2>3, <2>4
  <2>. QED
    BY <2>3, <2>5 DEF Index
<1>. QED
  BY <1>1, <1>2

\* What is nowhere above c, and below it only from m on, is c or comes before it.
LEMMA LexTop ==
  ASSUME NEW r \in Nat, NEW c \in [Index(r) -> Int], NEW d \in [Index(r) -> Int],
         \A k \in Index(r) : d[k] <= c[k]
  PROVE  d = c \/ LexLess(d, c)
<1>. DEFINE D == {k \in Index(r) : d[k] # c[k]}
<1>1. CASE D = {}
  BY <1>1
<1>2. CASE D # {}
  <2>1. D \in SUBSET Nat
    BY DEF Index
  <2>. HIDE DEF D
  <2>2. PICK p \in D : \A k \in D : p <= k
    BY <1>2, <2>1, LeastNumber
  <2>3. p \in Index(r) /\ d[p] < c[p]
    BY <2>2 DEF D
  <2>4. ASSUME NEW j \in Index(r), j < p PROVE d[j] = c[j]
    <3>1. j \in D => p <= j
      BY <2>2
    <3>2. j \in Int /\ p \in Int
      BY <2>3 DEF Index
    <3>. QED
      BY <2>4, <3>1, <3>2 DEF D
  <2>. QED
    BY <2>3, <2>4 DEF LexLess
<1>. QED
  BY <1>1, <1>2

\* x is c with digit k raised by one and the digits after it, all at their ends, at 0.
Raised(x, c, r, k, end) ==
  \A j \in Index(r) : /\ x[j] = IF j > k THEN 0 ELSE IF j = k THEN c[j] + 1 ELSE c[j]
                      /\ j > k => c[j] + 1 = end[j]

LEMMA LexNext ==
  ASSUME NEW r \in Nat, NEW end, NEW c \in [Index(r) -> Nat], NEW x \in [Index(r) -> Nat],
         NEW d \in [Index(r) -> Nat], \A j \in Index(r) : end[j] \in Nat /\ d[j] < end[j],
         NEW k \in Index(r), Raised(x, c, r, k, end)
  PROVE  LexLess(d, x) <=> LexLess(d, c) \/ d = c
<1>0. DOMAIN x = Index(r) /\ DOMAIN c = Index(r) /\ Index(r) \subseteq Int
  BY DEF Index
<1>1. /\ x[k] = c[k] + 1
      /\ \A j \in Index(r) : j < k => x[j] = c[j]
      /\ \A j \in Index(r) : j > k => x[j] = 0 /\ c[j] + 1 = end[j]
  BY <1>0 DEF Raised
<1>2. ASSUME d = c PROVE LexLess(d, x)
  <2>1. d[k] < x[k]
    BY <1>1, <1>2
  <2>2. \A j \in Index(r) : j < k => d[j] = x[j]
    BY <1>1, <1>2
  <2>. QED
    BY <1>0, <2>1, <2>2 DEF LexLess
<1>3. ASSUME LexLess(d, c) PROVE LexLess(d, x)
  <2>1. PICK m \in Index(r) : d[m] < c[m] /\ \A j \in Index(r) : j < m => d[j] = c[j]
    BY <1>0, <1>3 DEF LexLess
  <2>2. CASE m <= k
    <3>1. d[m] < x[m]
      <4>1. m < k \/ m = k
        BY <1>0, <2>2
      <4>. QED
        BY <1>1, <2>1, <4>1
    <3>2. ASSUME NEW j \in Index(r), j < m PROVE d[j] = x[j]
      <4>1. j < k
        BY <1>0, <2>2, <3>2
      <4>. QED
        BY <1>1, <2>1, <3>2, <4>1
    <3>. QED
      BY <1>0, <3>1, <3>2 DEF LexLess
  <2>3. CASE k < m
    <3>1. d[k] < x[k]
      BY <1>1, <2>1, <2>3
    <3>2. ASSUME NEW j \in Index(r), j < k PROVE d[j] = x[j]
      <4>1. j < m
        BY <1>0, <2>3, <3>2
      <4>. QED
        BY <1>1, <2>1, <3>2, <4>1
    <3>. QED
      BY <1>0, <3>1, <3>2 DEF LexLess
  <2>. QED
    BY <1>0, <2>2, <2>3
<1>4. ASSUME LexLess(d, x) PROVE LexLess(d, c) \/ d = c
  <2>1. PICK m \in Index(r) : d[m] < x[m] /\ \A j \in Index(r) : j < m => d[j] = x[j]
    BY <1>0, <1>4 DEF LexLess
  <2>2. m <= k
    <3>1. ASSUME m > k PROVE FALSE
      <4>1. x[m] = 0 /\ d[m] \in Nat
        BY <1>1, <3>1
      <4>. QED
        BY <2>1, <4>1
    <3>. QED
      BY <1>0, <3>1
  <2>3. ASSUME NEW j \in Index(r), j < m PROVE d[j] = c[j]
    <3>1. j < k
      BY <1>0, <2>2, <2>3
    <3>. QED
      BY <1>1, <2>1, <2>3, <3>1
  <2>4. CASE m < k
    <3>1. d[m] < c[m]
      BY <1>1, <2>1, <2>4
    <3>. QED
      BY <1>0, <2>3, <3>1 DEF LexLess
  <2>5. CASE m = k /\ d[k] < c[k]
    BY <1>0, <2>3, <2>5 DEF LexLess
  <2>6. CASE m = k /\ d[k] = c[k]
    <3>1. ASSUME NEW j \in Index(r) PROVE d[j] <= c[j]
      <4>1. CASE j < k
        BY <2>3, <2>6, <4>1
      <4>2. CASE j = k
        BY <2>6, <4>2
      <4>3. CASE j > k
        <5>1. c[j] + 1 = end[j] /\ d[j] < end[j] /\ d[j] \in Nat /\ c[j] \in Nat
          BY <1>1, <4>3
        <5>. QED
          BY <5>1
      <4>. QED
        BY <1>0, <4>1, <4>2, <4>3
    <3>2. c \in [Index(r) -> Int] /\ d \in [Index(r) -> Int]
      OBVIOUS
    <3>. QED
      BY <3>1, <3>2, LexTop
  <2>7. m = k => d[k] < c[k] \/ d[k] = c[k]
    <3>1. d[m] < x[m] /\ x[k] = c[k] + 1 /\ d[k] \in Nat /\ c[k] \in Nat
      BY <1>1, <2>1
    <3>. QED
      BY <3>1
  <2>. QED
    BY <1>0, <2>2, <2>4, <2>5, <2>6, <2>7
<1>. QED
  BY <1>2, <1>3, <1>4

-------------------------------------------------------------------------------
(* The vectors of flags and their order.                                   *)

AllFlags(n) == [Index(n) -> BOOLEAN]
HowMany(f) == Cardinality(Taken(f))

LEMMA TakenOf ==
  ASSUME NEW n \in Nat, NEW f \in AllFlags(n)
  PROVE  /\ DOMAIN f = Index(n) /\ Size(f) = n
         /\ Taken(f) \in SUBSET Index(n) /\ Taken(f) \in SUBSET Nat
         /\ IsFiniteSet(Taken(f)) /\ HowMany(f) \in 0 .. n
<1>1. IsFiniteSet(0 .. n - 1) /\ Cardinality(0 .. n - 1) = n
  BY FS_Interval
<1>2. DOMAIN f = 0 .. n - 1 /\ Size(f) = n
  BY <1>1 DEF AllFlags, Index, Size
<1>3. Taken(f) \in SUBSET (0 .. n - 1)
  BY <1>2 DEF Taken
<1>4. IsFiniteSet(Taken(f)) /\ HowMany(f) <= n /\ HowMany(f) \in Nat
  BY <1>1, <1>3, FS_Subset, FS_CardinalityType DEF HowMany
<1>5. Taken(f) \in SUBSET Nat
  BY <1>3
<1>. QED
  BY <1>2, <1>3, <1>4, <1>5 DEF Index

LEMMA PrecedesTotal ==
  ASSUME NEW n \in Nat, NEW f \in AllFlags(n), NEW g \in AllFlags(n)
  PROVE  f = g \/ Precedes(f, g) \/ Precedes(g, f)
<1>. DEFINE D == {k \in Index(n) : f[k] # g[k]}
<1>0. DOMAIN f = Index(n) /\ DOMAIN g = Index(n) /\ Index(n) \subseteq Nat
  BY DEF AllFlags, Index
<1>1. CASE D = {}
  <2>1. \A k \in Index(n) : f[k] = g[k]
    BY <1>1
  <2>. QED
    BY <1>0, <2>1 DEF AllFlags
<1>2. CASE D # {}
  <2>1. D \in SUBSET Nat
    BY <1>0
  <2>. HIDE DEF D
  <2>2. PICK p \in D : \A k \in D : p <= k
    BY <1>2, <2>1, LeastNumber
  <2>3. p \in Index(n) /\ f[p] # g[p] /\ f[p] \in BOOLEAN /\ g[p] \in BOOLEAN
    BY <2>2 DEF D, AllFlags
  <2>4. ASSUME NEW j \in Index(n), j < p PROVE f[j] = g[j]
    <3>1. j \in D => p <= j
      BY <2>2
    <3>2. j \in Nat /\ p \in Nat
      BY <1>0, <2>3
    <3>. QED
      BY <2>4, <3>1, <3>2 DEF D
  <2>. QED
    BY <1>0, <2>3, <2>4 DEF Precedes
<1>. QED
  BY <1>1, <1>2

LEMMA PrecedesOrder ==
  ASSUME NEW n \in Nat, NEW f \in AllFlags(n), NEW g \in AllFlags(n), NEW h \in AllFlags(n)
  PROVE  ~Precedes(f, f) /\ (Precedes(f, g) /\ Precedes(g, h) => Precedes(f, h))
<1>0. DOMAIN f = Index(n) /\ DOMAIN g = Index(n) /\ DOMAIN h = Index(n) /\ Index(n) \subseteq Nat
  BY DEF AllFlags, Index
<1>1. ~Precedes(f, f)
  BY DEF Precedes
<1>2. ASSUME Precedes(f, g), Precedes(g, h) PROVE Precedes(f, h)
  <2>1. PICK p \in Index(n) : g[p] /\ ~f[p] /\ \A q \in Index(n) : q < p => f[q] = g[q]
    BY <1>0, <1>2 DEF Precedes
  <2>2. PICK m \in Index(n) : h[m] /\ ~g[m] /\ \A q \in Index(n) : q < m => g[q] = h[q]
    BY <1>0, <1>2 DEF Precedes
  <2>3. p < m \/ m < p
    <3>1. p # m
      BY <2>1, <2>2
    <3>. QED
      BY <1>0, <2>1, <2>2, <3>1
  <2>4. CASE p < m
    <3>1. h[p] /\ ~f[p]
      BY <2>1, <2>2, <2>4
    <3>2. ASSUME NEW q \in Index(n), q < p PROVE f[q] = h[q]
      <4>1. q < m
        BY <1>0, <2>4, <3>2
      <4>. QED
        BY <2>1, <2>2, <3>2, <4>1
    <3>. QED
      BY <1>0, <3>1, <3>2 DEF Precedes
  <2>5. CASE m < p
    <3>1. h[m] /\ ~f[m]
      BY <2>1, <2>2, <2>5
    <3>2. ASSUME NEW q \in Index(n), q < m PROVE f[q] = h[q]
      <4>1. q < p
        BY <1>0, <2>5, <3>2
      <4>. QED
        BY <2>1, <2>2, <3>2, <4>1
    <3>. QED
      BY <1>0, <3>1, <3>2 DEF Precedes
  <2>. QED
    BY <2>3, <2>4, <2>5
<1>. QED
  BY <1>1, <1>2

\* A set of vectors of flags that is not empty has a first one.
LEMMA FirstOfFlags ==
  ASSUME NEW n \in Nat, NEW G \in SUBSET AllFlags(n), G # {}
  PROVE  \E f \in G : \A g \in G : g = f \/ Precedes(f, g)
<1>. DEFINE L == {p \in G \X G : Precedes(p[1], p[2])}
            t == [f \in G |-> Taken(f)]
<1>1. IsFiniteSet(SUBSET Index(n))
  <2>1. IsFiniteSet(Index(n))
    BY FS_Interval DEF Index
  <2>. QED
    BY <2>1, FS_SUBSET, Zenon
<1>2. t \in Injection(G, SUBSET Index(n))
  <2>1. t \in [G -> SUBSET Index(n)]
    BY TakenOf
  <2>2. ASSUME NEW f \in G, NEW g \in G, t[f] = t[g] PROVE f = g
    <3>1. Taken(f) = Taken(g) /\ f \in AllFlags(n) /\ g \in AllFlags(n)
      BY <2>2
    <3>2. ASSUME NEW k \in Index(n) PROVE f[k] = g[k]
      <4>1. f[k] \in BOOLEAN /\ g[k] \in BOOLEAN /\ k \in DOMAIN f /\ k \in DOMAIN g
        BY <3>1 DEF AllFlags
      <4>2. f[k] <=> g[k]
        BY <3>1, <4>1 DEF Taken
      <4>. QED
        BY <4>1, <4>2
    <3>. QED
      BY <3>1, <3>2 DEF AllFlags
  <2>. QED
    BY <2>1, <2>2 DEF Injection, IsInjective
<1>. HIDE DEF t
<1>3. IsFiniteSet(G) /\ Cardinality(G) \in Nat /\ Cardinality(G) # 0
  BY <1>1, <1>2, FS_Injection, FS_CardinalityType, FS_EmptySet
<1>4. \A x, y : <<x, y>> \in L <=> x \in G /\ y \in G /\ Precedes(x, y)
  OBVIOUS
<1>. HIDE DEF L
<1>5. TotalOrder(G, L)
  <2>1. \A x \in G : <<x, x>> \notin L
    BY <1>4, PrecedesOrder
  <2>2. \A x, y \in G : x # y => <<x, y>> \in L \/ <<y, x>> \in L
    BY <1>4, PrecedesTotal
  <2>3. \A x, y, z \in G : <<x, y>> \in L /\ <<y, z>> \in L => <<x, z>> \in L
    BY <1>4, PrecedesOrder
  <2>. QED
    BY <2>1, <2>2, <2>3 DEF TotalOrder
<1>6. RankedOnce(G, L)
  BY <1>3, <1>5, Ranks
<1>7. 0 \in 0 .. Cardinality(G) - 1
  BY <1>3
<1>8. PICK f \in G : Rank(G, L, f) = 0
  BY <1>6, <1>7 DEF RankedOnce
<1>9. Below(G, L, f) = {}
  <2>1. Below(G, L, f) \in SUBSET G
    BY DEF Below
  <2>. QED
    BY <1>3, <1>8, <2>1, FS_Subset, FS_EmptySet DEF Rank
<1>10. \A g \in G : <<g, f>> \notin L
  BY <1>9 DEF Below
<1>. QED
  BY <1>4, <1>5, <1>10 DEF TotalOrder

\* The next vector is behind this one and those before it; there is none behind the last.
LEMMA FlagsNext ==
  ASSUME NEW n \in Nat, NEW f \in AllFlags(n), NEW g \in NextFlags(f)
  PROVE  /\ g \in AllFlags(n) /\ HowMany(g) = HowMany(f)
         /\ \A h \in AllFlags(n) : HowMany(h) = HowMany(f) =>
              (Precedes(h, g) <=> Precedes(h, f) \/ h = f)
<1>0. Size(f) = n /\ \A r : Flags(n, r) = {h \in AllFlags(n) : HowMany(h) = r}
  BY TakenOf DEF Flags, AllFlags, HowMany
<1>1. /\ g \in AllFlags(n) /\ HowMany(g) = HowMany(f) /\ Precedes(f, g)
      /\ \A h \in AllFlags(n) : HowMany(h) = HowMany(f) /\ Precedes(f, h) => h = g \/ Precedes(g, h)
  BY <1>0 DEF NextFlags, HowMany
<1>2. ASSUME NEW h \in AllFlags(n), HowMany(h) = HowMany(f)
      PROVE  Precedes(h, g) <=> Precedes(h, f) \/ h = f
  <2>1. ASSUME Precedes(h, f) \/ h = f PROVE Precedes(h, g)
    BY <1>1, <2>1, PrecedesOrder
  <2>2. ASSUME Precedes(h, g) PROVE Precedes(h, f) \/ h = f
    <3>1. ASSUME Precedes(f, h) PROVE FALSE
      <4>1. h = g \/ Precedes(g, h)
        BY <1>1, <1>2, <3>1
      <4>2. ~Precedes(g, g) /\ (Precedes(h, g) /\ Precedes(g, h) => Precedes(h, h)) /\ ~Precedes(h, h)
        BY <1>1, PrecedesOrder
      <4>. QED
        BY <2>2, <4>1, <4>2
    <3>. QED
      BY <3>1, PrecedesTotal
  <2>. QED
    BY <2>1, <2>2
<1>. QED
  BY <1>1, <1>2

LEMMA FlagsLast ==
  ASSUME NEW n \in Nat, NEW f \in AllFlags(n), NextFlags(f) = {},
         NEW h \in AllFlags(n), HowMany(h) = HowMany(f)
  PROVE  Precedes(h, f) \/ h = f
<1>. DEFINE G == {g \in AllFlags(n) : HowMany(g) = HowMany(f) /\ Precedes(f, g)}
<1>0. Size(f) = n /\ \A r : Flags(n, r) = {g \in AllFlags(n) : HowMany(g) = r}
  BY TakenOf DEF Flags, AllFlags, HowMany
<1>1. ASSUME G # {} PROVE FALSE
  <2>1. PICK g \in G : \A k \in G : k = g \/ Precedes(g, k)
    <3>1. G \in SUBSET AllFlags(n)
      OBVIOUS
    <3>. HIDE DEF G
    <3>. QED
      BY <1>1, <3>1, FirstOfFlags
  <2>2. g \in NextFlags(f)
    BY <1>0, <2>1 DEF NextFlags, HowMany
  <2>. QED
    BY <2>2
<1>2. ~Precedes(f, h)
  BY <1>1
<1>. QED
  BY <1>2, PrecedesTotal

\* The first vector with r planes.
LEMMA FlagsFirst ==
  ASSUME NEW n \in Nat, NEW r \in 0 .. n
  PROVE  LET f == FirstFlags(n, r)
         IN /\ f \in AllFlags(n) /\ HowMany(f) = r
            /\ \A h \in AllFlags(n) : HowMany(h) = r => ~Precedes(h, f)
<1>. DEFINE f == FirstFlags(n, r)
<1>1. f \in AllFlags(n) /\ DOMAIN f = Index(n)
  BY DEF FirstFlags, AllFlags, Index
<1>2. ASSUME NEW k \in Index(n) PROVE f[k] <=> k >= n - r
  BY DEF FirstFlags
<1>. HIDE DEF f
<1>3. Taken(f) = n - r .. n - 1
  <2>1. Taken(f) = {k \in Index(n) : k >= n - r}
    BY <1>1, <1>2 DEF Taken
  <2>. QED
    BY <2>1 DEF Index
<1>4. HowMany(f) = r
  <2>1. Cardinality(n - r .. n - 1) = IF n - r > n - 1 THEN 0 ELSE n - 1 - (n - r) + 1
    <3>1. n - r \in Int /\ n - 1 \in Int
      OBVIOUS
    <3>. QED
      BY <3>1, FS_Interval
  <2>. QED
    BY <1>3, <2>1 DEF HowMany
<1>5. ASSUME NEW h \in AllFlags(n), Precedes(h, f) PROVE HowMany(h) # r
  <2>0. DOMAIN h = Index(n) /\ IsFiniteSet(Taken(f)) /\ Index(n) \subseteq Nat
    BY <1>1, TakenOf DEF Index
  <2>1. PICK p \in Index(n) : f[p] /\ ~h[p] /\ \A q \in Index(n) : q < p => h[q] = f[q]
    BY <1>5, <2>0, TakenOf DEF Precedes
  <2>2. p \in Taken(f) /\ p \notin Taken(h)
    BY <1>1, <2>1 DEF Taken
  <2>3. ASSUME NEW q \in Taken(h) PROVE q \in Taken(f)
    <3>1. q \in Index(n) /\ h[q] /\ q \in Nat /\ p \in Nat /\ p >= n - r
      BY <1>2, <2>0, <2>1 DEF Taken
    <3>2. CASE q < p
      BY <1>1, <2>1, <3>1, <3>2 DEF Taken
    <3>3. CASE q >= p
      <4>1. q >= n - r
        BY <3>1, <3>3
      <4>. QED
        BY <1>1, <1>2, <3>1, <4>1 DEF Taken
    <3>. QED
      BY <3>1, <3>2, <3>3
  <2>4. Taken(h) \in SUBSET Taken(f) /\ Taken(h) # Taken(f)
    BY <2>2, <2>3
  <2>5. Cardinality(Taken(h)) # Cardinality(Taken(f))
    BY <2>0, <2>4, FS_Subset
  <2>. QED
    BY <1>4, <2>5 DEF HowMany
<1>. QED
  BY <1>1, <1>4, <1>5 DEF f

-------------------------------------------------------------------------------
(* The columns and the combinations of them.                               *)

LEMMA NthOf ==
  ASSUME NEW S \in SUBSET Nat, IsFiniteSet(S)
  PROVE  /\ \A k \in 1 .. Cardinality(S) : Nth(S, k) \in S
         /\ \A k, l \in 1 .. Cardinality(S) : Nth(S, k) = Nth(S, l) => k = l
         /\ \A i \in S : \E k \in 1 .. Cardinality(S) : Nth(S, k) = i
<1>. QED
  BY KthSmallestOf DEF Nth, KthSmallest

\* The members of S, counted from 0.
LEMMA FromZero ==
  ASSUME NEW S \in SUBSET Nat, IsFiniteSet(S)
  PROVE  /\ \A k \in Index(Cardinality(S)) : Nth(S, k + 1) \in S
         /\ \A k, l \in Index(Cardinality(S)) : Nth(S, k + 1) = Nth(S, l + 1) => k = l
         /\ \A i \in S : \E k \in Index(Cardinality(S)) : Nth(S, k + 1) = i
<1>. DEFINE m == Cardinality(S)
<1>1. m \in Nat
  BY FS_CardinalityType
<1>. HIDE DEF m
<1>2. /\ \A k \in 1 .. m : Nth(S, k) \in S
      /\ \A k, l \in 1 .. m : Nth(S, k) = Nth(S, l) => k = l
      /\ \A i \in S : \E k \in 1 .. m : Nth(S, k) = i
  BY NthOf DEF m
<1>3. \A k \in Index(m) : k \in Int /\ k + 1 \in 1 .. m
  BY <1>1 DEF Index
<1>4. ASSUME NEW k \in Index(m), NEW l \in Index(m), Nth(S, k + 1) = Nth(S, l + 1)
      PROVE  k = l
  <2>1. k + 1 = l + 1
    BY <1>2, <1>3, <1>4
  <2>. QED
    BY <1>3, <2>1
<1>5. ASSUME NEW i \in S PROVE \E k \in Index(m) : Nth(S, k + 1) = i
  <2>1. PICK k \in 1 .. m : Nth(S, k) = i
    BY <1>2
  <2>2. k - 1 \in Index(m) /\ (k - 1) + 1 = k
    BY <1>1 DEF Index
  <2>. QED
    BY <2>1, <2>2
<1>. QED
  BY <1>2, <1>3, <1>4, <1>5 DEF m

IsInput(in) ==
  /\ IsFiniteSet(DOMAIN in) /\ DOMAIN in \subseteq Nat
  /\ \A i \in DOMAIN in : in[i].plane \in Nat /\ Len(in[i].hits) \in Nat

LEMMA FreshInput ==
  ASSUME NEW e \in Events
  PROVE  IsInput(Fresh(e))
<1>. DEFINE in == Fresh(e)
<1>1. /\ IsFiniteSet(DOMAIN e) /\ DOMAIN e = Index(Size(e)) /\ Size(e) \in Nat
      /\ \A i \in DOMAIN e : e[i].plane \in Nat /\ e[i].nhits \in Nat \ {0}
  BY EventsAssumption, FS_CardinalityType DEF IsEvent, Size
<1>2. DOMAIN in = DOMAIN e /\ DOMAIN in \subseteq Nat
  BY <1>1 DEF Fresh, Index
<1>3. ASSUME NEW i \in DOMAIN in PROVE in[i].plane \in Nat /\ Len(in[i].hits) \in Nat
  <2>. DEFINE q == [h \in 1 .. e[i].nhits |-> i]
  <2>1. in[i] = [plane |-> e[i].plane, hits |-> q] /\ i \in DOMAIN e
    BY <1>2 DEF Fresh
  <2>2. q \in Seq({i}) /\ Len(q) \in Nat
    BY <1>1, <2>1
  <2>. HIDE DEF q, in
  <2>. QED
    BY <1>1, <2>1, <2>2
<1>. QED
  BY <1>1, <1>2, <1>3 DEF IsInput

LEMMA InputPlanes ==
  ASSUME NEW in, IsInput(in), NEW min
  PROVE  /\ Ranked(in, min) \in SUBSET DOMAIN in /\ IsFiniteSet(Ranked(in, min))
         /\ PlanesOf(in, min) \in SUBSET Nat /\ IsFiniteSet(PlanesOf(in, min))
         /\ Cardinality(PlanesOf(in, min)) \in Nat
<1>. DEFINE R == Ranked(in, min)
            P == PlanesOf(in, min)
            f == [i \in R |-> in[i].plane]
<1>1. R \in SUBSET DOMAIN in
  BY DEF Ranked
<1>2. IsFiniteSet(R)
  BY <1>1, FS_Subset DEF IsInput
<1>3. f \in Surjection(R, P) /\ P \in SUBSET Nat
  BY <1>1 DEF PlanesOf, Surjection, IsInput
<1>. HIDE DEF f, R, P
<1>4. IsFiniteSet(P) /\ Cardinality(P) \in Nat
  BY <1>2, <1>3, FS_Surjection, FS_CardinalityType
<1>. QED
  BY <1>1, <1>2, <1>3, <1>4 DEF R, P

\* A column has clusters of one plane, each of them once; there is one for each plane.
IsColumns(cols, in, min) ==
  LET C == Index(Cardinality(PlanesOf(in, min)))
  IN /\ DOMAIN cols = C
     /\ \A c \in C : Size(cols[c]) \in Nat \ {0} /\ DOMAIN cols[c] = Index(Size(cols[c]))
     /\ \A c \in C : \A k \in DOMAIN cols[c] : cols[c][k] \in Ranked(in, min)
     /\ \A c, b \in C : \A k \in DOMAIN cols[c], l \in DOMAIN cols[b] :
          /\ in[cols[c][k]].plane = in[cols[b][l]].plane <=> c = b
          /\ cols[c][k] = cols[b][l] => c = b /\ k = l
     /\ \A i \in Ranked(in, min) : \E c \in C : \E k \in DOMAIN cols[c] : cols[c][k] = i

LEMMA ColumnsGood ==
  ASSUME IsInput(input)
  PROVE  IsColumns(Columns, input, minHits)
<1>. DEFINE P == PlanesOf(input, minHits)
            R == Ranked(input, minHits)
            C == Index(Cardinality(P))
            on(p) == {i \in R : input[i].plane = p}
            pl(c) == Nth(P, c + 1)
            L == {p \in R \X R : Ahead(input, minHits, p[1], p[2])}
            ks(c) == Index(Cardinality(on(pl(c))))
            at(c, k) == CHOOSE i \in on(pl(c)) : Rank(on(pl(c)), L, i) = k
<1>1. /\ R \in SUBSET DOMAIN input /\ IsFiniteSet(R) /\ R \in SUBSET Nat
      /\ P \in SUBSET Nat /\ IsFiniteSet(P) /\ Cardinality(P) \in Nat
      /\ P = {input[i].plane : i \in R}
  BY InputPlanes DEF PlanesOf, IsInput
<1>2. /\ \A c \in C : pl(c) \in P
      /\ \A c, b \in C : pl(c) = pl(b) => c = b
      /\ \A p \in P : \E c \in C : pl(c) = p
  <2>. HIDE DEF P
  <2>. QED
    BY <1>1, FromZero
<1>3. ASSUME NEW S \in SUBSET R PROVE TotalOrder(S, L)
  <2>. DEFINE pr(i) == Priority(input[i], minHits)
  <2>1. \A i \in R : pr(i) \in Int /\ i \in Nat
    BY <1>1 DEF Priority, IsInput
  <2>2. \A i, j : <<i, j>> \in L <=> i \in R /\ j \in R /\ (pr(i) > pr(j) \/ (pr(i) = pr(j) /\ i < j))
    BY DEF Ahead
  <2>. HIDE DEF L, pr, R
  <2>3. \A x \in S : <<x, x>> \notin L
    BY <2>1, <2>2
  <2>4. \A x, y \in S : x # y => <<x, y>> \in L \/ <<y, x>> \in L
    BY <2>1, <2>2
  <2>5. \A x, y, z \in S : <<x, y>> \in L /\ <<y, z>> \in L => <<x, z>> \in L
    BY <2>1, <2>2
  <2>. QED
    BY <2>3, <2>4, <2>5 DEF TotalOrder
<1>4. ASSUME NEW c \in C
      PROVE  /\ Columns[c] = [k \in ks(c) |-> at(c, k)]
             /\ ks(c) = 0 .. Cardinality(on(pl(c))) - 1 /\ Cardinality(on(pl(c))) \in Nat \ {0}
             /\ \A k \in ks(c) : at(c, k) \in on(pl(c)) /\ Rank(on(pl(c)), L, at(c, k)) = k
             /\ \A i \in on(pl(c)) : \E k \in ks(c) : at(c, k) = i
  <2>. DEFINE S == on(pl(c))
  <2>1. S \in SUBSET R /\ IsFiniteSet(S) /\ S # {} /\ Cardinality(S) \in Nat /\ Cardinality(S) # 0
    <3>1. S \in SUBSET R
      OBVIOUS
    <3>2. S # {}
      BY <1>1, <1>2
    <3>. HIDE DEF S, R
    <3>. QED
      BY <1>1, <3>1, <3>2, FS_Subset, FS_CardinalityType, FS_EmptySet
  <2>2. RankedOnce(S, L)
    <3>. HIDE DEF S, L, R
    <3>. QED
      BY <1>3, <2>1, Ranks
  <2>3. ASSUME NEW i \in S
        PROVE  Cardinality({j \in S : Ahead(input, minHits, j, i)}) = Rank(S, L, i)
    <3>1. {j \in S : Ahead(input, minHits, j, i)} = Below(S, L, i)
      BY <2>1 DEF Below
    <3>. QED
      BY <3>1 DEF Rank
  <2>4. Columns[c] = [k \in ks(c) |-> CHOOSE i \in S : Cardinality({j \in S : Ahead(input, minHits, j, i)}) = k]
    BY DEF Columns
  <2>5. ASSUME NEW k \in ks(c)
        PROVE  (CHOOSE i \in S : Cardinality({j \in S : Ahead(input, minHits, j, i)}) = k) = at(c, k)
    <3>1. \A i \in S : Cardinality({j \in S : Ahead(input, minHits, j, i)}) = k <=> Rank(S, L, i) = k
      BY <2>3
    <3>. HIDE DEF L
    <3>. QED
      BY <3>1
  <2>6. Columns[c] = [k \in ks(c) |-> at(c, k)]
    BY <2>4, <2>5
  <2>7. ks(c) = 0 .. Cardinality(S) - 1
    BY DEF Index
  <2>. HIDE DEF L
  <2>8. ASSUME NEW k \in ks(c) PROVE at(c, k) \in S /\ Rank(S, L, at(c, k)) = k
    <3>1. \E i \in S : Rank(S, L, i) = k
      BY <2>2, <2>7 DEF RankedOnce
    <3>. QED
      BY <3>1
  <2>9. ASSUME NEW i \in S PROVE \E k \in ks(c) : at(c, k) = i
    <3>1. Rank(S, L, i) \in ks(c)
      BY <2>2, <2>7 DEF RankedOnce
    <3>2. at(c, Rank(S, L, i)) = i
      BY <2>2, <2>8, <3>1 DEF RankedOnce
    <3>. QED
      BY <3>1, <3>2
  <2>. QED
    BY <2>1, <2>6, <2>7, <2>8, <2>9
<1>5. DOMAIN Columns = C
  BY DEF Columns
<1>6. ASSUME NEW c \in C
      PROVE  /\ DOMAIN Columns[c] = ks(c) /\ Size(Columns[c]) = Cardinality(on(pl(c)))
             /\ \A k \in ks(c) : Columns[c][k] = at(c, k)
  <2>1. Columns[c] = [k \in ks(c) |-> at(c, k)]
    BY <1>4
  <2>2. /\ ks(c) = 0 .. Cardinality(on(pl(c))) - 1 /\ Cardinality(on(pl(c))) \in Nat \ {0}
    BY <1>4
  <2>. HIDE DEF at, on, pl
  <2>3. Cardinality(0 .. Cardinality(on(pl(c))) - 1) = Cardinality(on(pl(c)))
    BY <2>2, FS_Interval
  <2>. HIDE DEF ks
  <2>4. DOMAIN Columns[c] = ks(c) /\ \A k \in ks(c) : Columns[c][k] = at(c, k)
    BY <2>1
  <2>. QED
    BY <2>2, <2>3, <2>4 DEF Size
<1>. DEFINE cols == Columns
<1>. HIDE DEF cols, at, ks, L
<1>7. ASSUME NEW c \in C, NEW k \in ks(c)
      PROVE  at(c, k) \in R /\ input[at(c, k)].plane = pl(c) /\ Rank(on(pl(c)), L, at(c, k)) = k
  BY <1>4
<1>8. ASSUME NEW c \in C, NEW b \in C, NEW k \in ks(c), NEW l \in ks(b)
      PROVE  /\ input[at(c, k)].plane = input[at(b, l)].plane <=> c = b
             /\ at(c, k) = at(b, l) => c = b /\ k = l
  <2>1. input[at(c, k)].plane = input[at(b, l)].plane <=> c = b
    <3>1. input[at(c, k)].plane = pl(c) /\ input[at(b, l)].plane = pl(b)
      BY <1>7
    <3>2. pl(c) = pl(b) <=> c = b
      BY <1>2
    <3>. HIDE DEF pl
    <3>. QED
      BY <3>1, <3>2
  <2>2. at(c, k) = at(b, l) => c = b
    BY <2>1
  <2>3. c = b /\ at(c, k) = at(b, l) => k = l
    BY <1>7
  <2>. QED
    BY <2>1, <2>2, <2>3
<1>9. ASSUME NEW i \in R PROVE \E c \in C : \E k \in ks(c) : at(c, k) = i
  <2>1. input[i].plane \in P
    BY <1>1
  <2>2. PICK c \in C : pl(c) = input[i].plane
    BY <1>2, <2>1
  <2>3. i \in on(pl(c))
    BY <2>2
  <2>. QED
    BY <1>4, <2>3
<1>10. ASSUME NEW c \in C
       PROVE  Size(cols[c]) \in Nat \ {0} /\ DOMAIN cols[c] = Index(Size(cols[c]))
  BY <1>4, <1>6 DEF cols, Index
<1>11. IsColumns(cols, input, minHits)
  <2>1. \A c \in C : DOMAIN cols[c] = ks(c) /\ \A k \in ks(c) : cols[c][k] = at(c, k)
    BY <1>6 DEF cols
  <2>2. DOMAIN cols = C
    BY <1>5 DEF cols
  <2>. HIDE DEF C, R, on, pl
  <2>. QED
    BY <1>7, <1>8, <1>9, <1>10, <2>1, <2>2 DEF IsColumns, C, R
<1>. QED
  BY <1>11 DEF cols

\* The column that the k-th digit counts in when the columns of f are taken.
At(f, k) == Nth(Taken(f), k + 1)

Digits(f) == Index(HowMany(f))

Counters(cols, f) ==
  {d \in [Digits(f) -> Nat] : \A k \in Digits(f) : d[k] < Size(cols[At(f, k)])}

CombinationOf(cols, f, d) == {cols[At(f, k)][d[k]] : k \in Digits(f)}

\* What the algorithm is to be asked about.
AcrossPlanes(in, min) ==
  {S \in SUBSET Ranked(in, min) :
     Cardinality(S) >= 2 /\ \A i, j \in S : i # j => in[i].plane # in[j].plane}

LEMMA AtOf ==
  ASSUME NEW n \in Nat, NEW f \in AllFlags(n)
  PROVE  /\ HowMany(f) \in Nat /\ IsFiniteSet(Digits(f)) /\ Cardinality(Digits(f)) = HowMany(f)
         /\ \A k \in Digits(f) : At(f, k) \in Index(n) /\ f[At(f, k)]
         /\ \A k, l \in Digits(f) : At(f, k) = At(f, l) => k = l
         /\ \A c \in Index(n) : f[c] => \E k \in Digits(f) : At(f, k) = c
<1>. DEFINE T == Taken(f)
<1>1. /\ T \in SUBSET Nat /\ IsFiniteSet(T) /\ HowMany(f) \in Nat
      /\ \A c : c \in T <=> c \in Index(n) /\ f[c]
  BY TakenOf DEF Taken
<1>. HIDE DEF T
<1>2. /\ \A k \in Digits(f) : At(f, k) \in T
      /\ \A k, l \in Digits(f) : At(f, k) = At(f, l) => k = l
      /\ \A c \in T : \E k \in Digits(f) : At(f, k) = c
  BY <1>1, FromZero DEF At, Digits, HowMany, T
<1>3. IsFiniteSet(Digits(f)) /\ Cardinality(Digits(f)) = HowMany(f)
  <2>. DEFINE h == HowMany(f)
  <2>1. h \in Nat /\ Digits(f) = 0 .. h - 1
    BY <1>1 DEF Digits, Index
  <2>. HIDE DEF h
  <2>2. IsFiniteSet(0 .. h - 1) /\ Cardinality(0 .. h - 1) = h
    BY <2>1, FS_Interval
  <2>. QED
    BY <2>1, <2>2 DEF h
<1>. QED
  BY <1>1, <1>2, <1>3

\* A combination takes each of its clusters from a column of its own.
LEMMA CombinationPlaces ==
  ASSUME NEW in, NEW min, NEW cols, IsInput(in), IsColumns(cols, in, min),
         NEW f \in AllFlags(Cardinality(PlanesOf(in, min))), NEW d \in Counters(cols, f)
  PROVE  /\ \A k \in Digits(f) :
              /\ At(f, k) \in DOMAIN cols /\ f[At(f, k)]
              /\ d[k] \in DOMAIN cols[At(f, k)]
              /\ cols[At(f, k)][d[k]] \in Ranked(in, min)
         /\ \A k, l \in Digits(f) :
              in[cols[At(f, k)][d[k]]].plane = in[cols[At(f, l)][d[l]]].plane => k = l
<1>. DEFINE n == Cardinality(PlanesOf(in, min))
<1>1. n \in Nat /\ DOMAIN cols = Index(n)
  BY InputPlanes DEF IsColumns
<1>2. /\ \A k \in Digits(f) : At(f, k) \in Index(n) /\ f[At(f, k)]
      /\ \A k, l \in Digits(f) : At(f, k) = At(f, l) => k = l
  <2>. HIDE DEF n
  <2>. QED
    BY <1>1, AtOf DEF n
<1>3. ASSUME NEW k \in Digits(f)
      PROVE  /\ At(f, k) \in DOMAIN cols /\ d[k] \in DOMAIN cols[At(f, k)]
             /\ cols[At(f, k)][d[k]] \in Ranked(in, min)
  <2>. DEFINE c == At(f, k)
  <2>1. c \in Index(n) /\ d[k] \in Nat /\ d[k] < Size(cols[c])
    BY <1>2 DEF Counters
  <2>. HIDE DEF c
  <2>2. Size(cols[c]) \in Nat /\ DOMAIN cols[c] = Index(Size(cols[c]))
    BY <2>1 DEF IsColumns
  <2>3. d[k] \in DOMAIN cols[c]
    BY <2>1, <2>2 DEF Index
  <2>4. cols[c][d[k]] \in Ranked(in, min)
    BY <2>1, <2>3 DEF IsColumns
  <2>. QED
    BY <1>1, <2>1, <2>3, <2>4 DEF c
<1>4. ASSUME NEW k \in Digits(f), NEW l \in Digits(f),
             in[cols[At(f, k)][d[k]]].plane = in[cols[At(f, l)][d[l]]].plane
      PROVE  k = l
  <2>1. At(f, k) = At(f, l)
    BY <1>1, <1>3, <1>4 DEF IsColumns
  <2>. QED
    BY <1>2, <2>1
<1>. QED
  BY <1>2, <1>3, <1>4

LEMMA CombinationIsChoice ==
  ASSUME NEW in, NEW min, NEW cols, IsInput(in), IsColumns(cols, in, min),
         NEW f \in AllFlags(Cardinality(PlanesOf(in, min))), NEW d \in Counters(cols, f)
  PROVE  LET S == CombinationOf(cols, f, d)
         IN /\ S \in SUBSET Ranked(in, min) /\ Cardinality(S) = HowMany(f)
            /\ HowMany(f) >= 2 => S \in AcrossPlanes(in, min)
<1>. DEFINE S == CombinationOf(cols, f, d)
            member(k) == cols[At(f, k)][d[k]]
            g == [k \in Digits(f) |-> member(k)]
<1>1. /\ \A k \in Digits(f) : member(k) \in Ranked(in, min)
      /\ \A k, l \in Digits(f) : in[member(k)].plane = in[member(l)].plane => k = l
  BY CombinationPlaces
<1>2. S = {member(k) : k \in Digits(f)}
  BY DEF CombinationOf
<1>. HIDE DEF S, member
<1>3. g \in Bijection(Digits(f), S)
  BY <1>1, <1>2 DEF Bijection, Injection, Surjection, IsInjective
<1>4. Cardinality(S) = HowMany(f)
  <2>1. IsFiniteSet(Digits(f)) /\ Cardinality(Digits(f)) = HowMany(f)
    BY InputPlanes, AtOf
  <2>2. ExistsBijection(Digits(f), S)
    BY <1>3 DEF ExistsBijection
  <2>. QED
    BY <2>1, <2>2, FS_Bijection
<1>5. \A i, j \in S : i # j => in[i].plane # in[j].plane
  BY <1>1, <1>2
<1>6. S \in SUBSET Ranked(in, min)
  BY <1>1, <1>2
<1>. QED
  BY <1>4, <1>5, <1>6 DEF S, AcrossPlanes

LEMMA CombinationInjective ==
  ASSUME NEW in, NEW min, NEW cols, IsInput(in), IsColumns(cols, in, min),
         NEW f \in AllFlags(Cardinality(PlanesOf(in, min))), NEW d \in Counters(cols, f),
         NEW g \in AllFlags(Cardinality(PlanesOf(in, min))), NEW e \in Counters(cols, g),
         CombinationOf(cols, f, d) = CombinationOf(cols, g, e)
  PROVE  f = g /\ d = e
<1>. DEFINE n == Cardinality(PlanesOf(in, min))
<1>0. n \in Nat /\ DOMAIN cols = Index(n)
  BY InputPlanes DEF IsColumns
<1>1. ASSUME NEW h \in AllFlags(n), NEW x \in Counters(cols, h), NEW i
      PROVE  i \in CombinationOf(cols, h, x) <=>
               \E k \in Digits(h) : cols[At(h, k)][x[k]] = i
  BY DEF CombinationOf
\* A column taken by one is taken by the other, with the same cluster.
<1>2. ASSUME NEW h \in AllFlags(n), NEW x \in Counters(cols, h),
             NEW v \in AllFlags(n), NEW y \in Counters(cols, v),
             CombinationOf(cols, h, x) = CombinationOf(cols, v, y), NEW k \in Digits(h)
      PROVE  v[At(h, k)] /\ \E l \in Digits(v) : At(v, l) = At(h, k) /\ y[l] = x[k]
  <2>1. PICK l \in Digits(v) : cols[At(v, l)][y[l]] = cols[At(h, k)][x[k]]
    BY <1>1, <1>2
  <2>2. /\ At(h, k) \in DOMAIN cols /\ x[k] \in DOMAIN cols[At(h, k)]
        /\ At(v, l) \in DOMAIN cols /\ y[l] \in DOMAIN cols[At(v, l)] /\ v[At(v, l)]
    BY CombinationPlaces
  <2>3. At(v, l) = At(h, k) /\ y[l] = x[k]
    BY <1>0, <2>1, <2>2 DEF IsColumns
  <2>. QED
    BY <2>2, <2>3
<1>. HIDE DEF n
<1>3. ASSUME NEW c \in Index(n) PROVE f[c] = g[c]
  <2>1. f[c] \in BOOLEAN /\ g[c] \in BOOLEAN
    BY DEF AllFlags, n
  <2>2. f[c] => g[c]
    <3>1. f[c] => \E k \in Digits(f) : At(f, k) = c
      BY <1>0, AtOf DEF n
    <3>. QED
      BY <1>2, <3>1 DEF n
  <2>3. g[c] => f[c]
    <3>1. g[c] => \E k \in Digits(g) : At(g, k) = c
      BY <1>0, AtOf DEF n
    <3>. QED
      BY <1>2, <3>1 DEF n
  <2>. QED
    BY <2>1, <2>2, <2>3
<1>4. f = g
  BY <1>3 DEF AllFlags, n
<1>5. ASSUME NEW k \in Digits(f) PROVE d[k] = e[k]
  <2>1. PICK l \in Digits(g) : At(g, l) = At(f, k) /\ e[l] = d[k]
    BY <1>2 DEF n
  <2>2. l = k
    BY <1>0, <1>4, <2>1, AtOf DEF n
  <2>. QED
    BY <2>1, <2>2
<1>6. d = e
  BY <1>4, <1>5 DEF Counters
<1>. QED
  BY <1>4, <1>6

LEMMA ChoiceIsCombination ==
  ASSUME NEW in, NEW min, NEW cols, IsInput(in), IsColumns(cols, in, min),
         NEW S \in AcrossPlanes(in, min)
  PROVE  \E f \in AllFlags(Cardinality(PlanesOf(in, min))) : \E d \in Counters(cols, f) :
           HowMany(f) >= 2 /\ S = CombinationOf(cols, f, d)
<1>. DEFINE n == Cardinality(PlanesOf(in, min))
            has(c, l) == l \in DOMAIN cols[c] /\ cols[c][l] \in S
            f == [c \in Index(n) |-> \E l \in DOMAIN cols[c] : cols[c][l] \in S]
            d == [k \in Digits(f) |-> CHOOSE l \in DOMAIN cols[At(f, k)] : cols[At(f, k)][l] \in S]
<1>0. n \in Nat /\ DOMAIN cols = Index(n)
  BY InputPlanes DEF IsColumns
<1>1. f \in AllFlags(n)
  BY DEF AllFlags
<1>2. /\ S \in SUBSET Ranked(in, min) /\ Cardinality(S) >= 2
      /\ \A i, j \in S : in[i].plane = in[j].plane => i = j
  BY DEF AcrossPlanes
<1>3. ASSUME NEW c \in Index(n), NEW k, NEW l, has(c, k), has(c, l) PROVE k = l
  <2>1. cols[c][k] = cols[c][l]
    BY <1>0, <1>2, <1>3 DEF IsColumns
  <2>. QED
    BY <1>0, <1>3, <2>1 DEF IsColumns
<1>4. \A c \in Index(n) : f[c] <=> \E l : has(c, l)
  OBVIOUS
<1>. HIDE DEF f
<1>5. /\ \A k \in Digits(f) : At(f, k) \in Index(n) /\ f[At(f, k)]
      /\ \A c \in Index(n) : f[c] => \E k \in Digits(f) : At(f, k) = c
  <2>. HIDE DEF n
  <2>. QED
    BY <1>0, <1>1, AtOf
<1>6. ASSUME NEW k \in Digits(f) PROVE has(At(f, k), d[k])
  BY <1>4, <1>5
<1>. HIDE DEF d
<1>7. d \in Counters(cols, f)
  <2>1. ASSUME NEW k \in Digits(f) PROVE d[k] \in Nat /\ d[k] < Size(cols[At(f, k)])
    <3>. DEFINE c == At(f, k)
    <3>1. c \in Index(n) /\ d[k] \in DOMAIN cols[c]
      BY <1>5, <1>6
    <3>. HIDE DEF c
    <3>2. Size(cols[c]) \in Nat /\ DOMAIN cols[c] = Index(Size(cols[c]))
      BY <3>1 DEF IsColumns
    <3>. QED
      BY <3>1, <3>2 DEF Index, c
  <2>2. d = [k \in Digits(f) |-> d[k]]
    BY DEF d
  <2>. QED
    BY <2>1, <2>2 DEF Counters
<1>8. S = CombinationOf(cols, f, d)
  <2>1. ASSUME NEW i \in S PROVE \E k \in Digits(f) : cols[At(f, k)][d[k]] = i
    <3>1. PICK c \in Index(n) : \E l \in DOMAIN cols[c] : cols[c][l] = i
      BY <1>0, <1>2 DEF IsColumns
    <3>2. PICK l \in DOMAIN cols[c] : cols[c][l] = i
      BY <3>1
    <3>3. PICK k \in Digits(f) : At(f, k) = c
      BY <1>4, <1>5, <3>2
    <3>4. d[k] = l
      BY <1>3, <1>6, <3>2, <3>3
    <3>. QED
      BY <3>2, <3>3, <3>4
  <2>2. \A k \in Digits(f) : cols[At(f, k)][d[k]] \in S
    BY <1>6
  <2>. QED
    BY <2>1, <2>2 DEF CombinationOf
<1>9. HowMany(f) >= 2
  <2>1. Cardinality(S) = HowMany(f)
    BY <1>1, <1>7, <1>8, CombinationIsChoice
  <2>. QED
    BY <1>2, <2>1
<1>. QED
  BY <1>1, <1>7, <1>8, <1>9

-------------------------------------------------------------------------------
(* Where the enumeration is.                                               *)

NumPlanes == Cardinality(PlanesOf(input, minHits))

AtPlace ==
  /\ IsInput(input) /\ IsColumns(columns, input, minHits) /\ NumPlanes >= 2
  /\ planes \in AllFlags(NumPlanes) /\ HowMany(planes) >= 2
  /\ counter \in Counters(columns, planes)

\* The combination of f and d is asked about before that of p and c: it is of
\* more planes, or of as many and an earlier vector, or of the same and lower.
Before(f, d, p, c) ==
  \/ HowMany(f) > HowMany(p)
  \/ HowMany(f) = HowMany(p) /\ Precedes(f, p)
  \/ f = p /\ LexLess(d, c)

\* A has the combinations before that of p and c, and no other.
AskedBefore(A, cols, p, c) ==
  /\ A \subseteq AcrossPlanes(input, minHits)
  /\ \A f \in AllFlags(NumPlanes) : \A d \in Counters(cols, f) :
       HowMany(f) >= 2 => (CombinationOf(cols, f, d) \in A <=> Before(f, d, p, c))

\* The place in the model's terms.
LEMMA PlaceTerms ==
  ASSUME AtPlace
  PROVE  /\ NumPlanes \in Nat /\ Size(planes) = NumPlanes /\ HowMany(planes) \in 2 .. NumPlanes
         /\ DOMAIN counter = Digits(planes) /\ Size(counter) = HowMany(planes)
         /\ counter \in [Digits(planes) -> Nat]
         /\ Zeros(planes) = [k \in Digits(planes) |-> 0]
         /\ \A k \in Digits(planes) :
              /\ PlaneAt(k) = At(planes, k) /\ Clusters(k) = Size(columns[At(planes, k)])
              /\ Clusters(k) \in Nat \ {0} /\ counter[k] < Clusters(k)
         /\ Combination = CombinationOf(columns, planes, counter)
         /\ Combination \in AcrossPlanes(input, minHits)
         /\ Cardinality(Combination) = HowMany(planes)
<1>1. NumPlanes \in Nat
  BY InputPlanes DEF AtPlace, NumPlanes
<1>2. /\ Size(planes) = NumPlanes /\ HowMany(planes) \in 2 .. NumPlanes
      /\ \A k \in Digits(planes) : At(planes, k) \in Index(NumPlanes)
      /\ Cardinality(Digits(planes)) = HowMany(planes)
  <2>1. planes \in AllFlags(NumPlanes) /\ HowMany(planes) >= 2
    BY DEF AtPlace
  <2>. QED
    BY <1>1, <2>1, TakenOf, AtOf
<1>3. /\ DOMAIN counter = Digits(planes) /\ counter \in [Digits(planes) -> Nat]
      /\ \A k \in Digits(planes) : counter[k] < Size(columns[At(planes, k)])
  BY DEF AtPlace, Counters
<1>4. Size(counter) = HowMany(planes)
  BY <1>2, <1>3 DEF Size
<1>5. ASSUME NEW k \in Digits(planes)
      PROVE  PlaneAt(k) = At(planes, k) /\ Clusters(k) = Size(columns[At(planes, k)])
  BY DEF PlaneAt, Clusters, At
<1>6. ASSUME NEW k \in Digits(planes) PROVE Size(columns[At(planes, k)]) \in Nat \ {0}
  BY <1>2 DEF AtPlace, IsColumns, NumPlanes
<1>7. Combination = CombinationOf(columns, planes, counter)
  <2>1. ASSUME NEW i PROVE i \in Combination <=> i \in CombinationOf(columns, planes, counter)
    BY <1>3, <1>5 DEF Combination, CombinationOf
  <2>. QED
    BY <2>1
<1>8. Combination \in AcrossPlanes(input, minHits) /\ Cardinality(Combination) = HowMany(planes)
  BY <1>7, CombinationIsChoice DEF AtPlace, NumPlanes
<1>9. Zeros(planes) = [k \in Digits(planes) |-> 0]
  BY DEF Zeros, Digits, HowMany
<1>. QED
  BY <1>1, <1>2, <1>3, <1>4, <1>5, <1>6, <1>7, <1>8, <1>9

\* NextCounter is the next state of the odometer, or all zeros after the last.
LEMMA CounterNext ==
  ASSUME AtPlace
  PROVE  /\ NextCounter # Zeros(planes) =>
              /\ NextCounter \in Counters(columns, planes)
              /\ \A d \in Counters(columns, planes) :
                   LexLess(d, NextCounter) <=> LexLess(d, counter) \/ d = counter
         /\ NextCounter = Zeros(planes) =>
              \A d \in Counters(columns, planes) : LexLess(d, counter) \/ d = counter
<1>. DEFINE r == HowMany(planes)
            end == [k \in Digits(planes) |-> Clusters(k)]
            full == {k \in Digits(planes) : \A j \in Digits(planes) :
                       j >= k => counter[j] + 1 = end[j]}
            last == r - Cardinality(full) - 1
            x == NextCounter
<1>1. /\ r \in Nat /\ Digits(planes) = Index(r) /\ Size(counter) = r
      /\ counter \in [Index(r) -> Nat] /\ DOMAIN counter = Index(r)
      /\ Zeros(planes) = [k \in Index(r) |-> 0]
      /\ \A k \in Index(r) : /\ end[k] = Clusters(k) /\ end[k] = Size(columns[At(planes, k)])
                             /\ end[k] \in Nat \ {0} /\ counter[k] < end[k]
  BY PlaceTerms DEF Digits
<1>2. \A d : d \in Counters(columns, planes) <=>
               d \in [Index(r) -> Nat] /\ \A k \in Index(r) : d[k] < end[k]
  BY <1>1 DEF Counters
<1>3. x = [j \in Index(r) |-> IF j > last THEN 0
                               ELSE IF j = last THEN counter[j] + 1 ELSE counter[j]]
  <2>1. {k \in DOMAIN counter : \A j \in DOMAIN counter : j >= k => counter[j] + 1 = Clusters(j)} = full
    BY <1>1
  <2>. QED
    BY <1>1, <2>1 DEF NextCounter
<1>. HIDE DEF r, end, x
<1>4. Cardinality(full) \in 0 .. r /\ full = {k \in Index(r) : k >= r - Cardinality(full)}
  <2>1. ASSUME NEW k \in Index(r), NEW j \in Index(r), k \in full, j >= k PROVE j \in full
    <3>1. ASSUME NEW i \in Digits(planes), i >= j PROVE counter[i] + 1 = end[i]
      <4>1. i >= k
        <5>1. i \in Int /\ j \in Int /\ k \in Int
          BY <1>1, <3>1 DEF Index
        <5>. QED
          BY <2>1, <3>1, <5>1
      <4>. QED
        BY <2>1, <3>1, <4>1
    <3>. QED
      BY <1>1, <3>1
  <2>2. full \in SUBSET Index(r)
    BY <1>1
  <2>. HIDE DEF full
  <2>. QED
    BY <1>1, <2>1, <2>2, SuffixOf
<1>5. last \in -1 .. r - 1 /\ \A k \in Index(r) : k \in full <=> k > last
  <2>. HIDE DEF full
  <2>1. Index(r) \subseteq Int
    BY DEF Index
  <2>2. last \in -1 .. r - 1
    BY <1>1, <1>4
  <2>3. ASSUME NEW k \in Index(r) PROVE k \in full <=> k > last
    <3>1. k \in full <=> k >= r - Cardinality(full)
      BY <1>4
    <3>2. k \in Int /\ r \in Int /\ Cardinality(full) \in Int
      BY <1>1, <1>4, <2>1
    <3>. QED
      BY <3>1, <3>2
  <2>. QED
    BY <2>2, <2>3
<1>. HIDE DEF last
<1>6. ASSUME NEW k \in Index(r), k > last PROVE counter[k] + 1 = end[k]
  <2>1. k \in full /\ k \in Digits(planes) /\ k >= k
    BY <1>1, <1>5, <1>6 DEF Index
  <2>. QED
    BY <2>1
<1>7. CASE last = -1
  <2>1. ASSUME NEW k \in Index(r) PROVE k > last
    BY <1>7 DEF Index
  <2>2. x = Zeros(planes)
    BY <1>1, <1>3, <2>1
  <2>3. ASSUME NEW d \in Counters(columns, planes) PROVE LexLess(d, counter) \/ d = counter
    <3>1. d \in [Index(r) -> Int] /\ counter \in [Index(r) -> Int]
      BY <1>1, <1>2
    <3>2. ASSUME NEW k \in Index(r) PROVE d[k] <= counter[k]
      <4>1. counter[k] + 1 = end[k] /\ d[k] < end[k] /\ d[k] \in Nat /\ counter[k] \in Nat
        BY <1>1, <1>2, <1>6, <2>1
      <4>. QED
        BY <4>1
    <3>. QED
      BY <1>1, <3>1, <3>2, LexTop
  <2>. QED
    BY <2>2, <2>3 DEF x
<1>8. CASE last # -1
  <2>1. last \in Index(r) /\ last \in Nat
    BY <1>1, <1>5, <1>8 DEF Index
  <2>2. counter[last] + 1 < end[last]
    <3>1. last \notin full
      BY <1>5, <2>1
    <3>2. PICK j \in Index(r) : j >= last /\ counter[j] + 1 # end[j]
      BY <1>1, <2>1, <3>1
    <3>3. j = last
      <4>1. ~(j > last)
        BY <1>6, <3>2
      <4>. QED
        BY <2>1, <3>2, <4>1 DEF Index
    <3>4. counter[last] \in Nat /\ end[last] \in Nat /\ counter[last] < end[last]
      BY <1>1, <2>1
    <3>. QED
      BY <3>2, <3>3, <3>4
  <2>3. ASSUME NEW j \in Index(r)
        PROVE  /\ x[j] = IF j > last THEN 0 ELSE IF j = last THEN counter[j] + 1 ELSE counter[j]
               /\ j > last => counter[j] + 1 = end[j]
               /\ x[j] \in Nat /\ x[j] < end[j]
    <3>1. x[j] = IF j > last THEN 0 ELSE IF j = last THEN counter[j] + 1 ELSE counter[j]
      BY <1>3
    <3>2. counter[j] \in Nat /\ end[j] \in Nat \ {0} /\ counter[j] < end[j]
      BY <1>1
    <3>. QED
      BY <1>6, <2>2, <3>1, <3>2
  <2>4. x \in [Index(r) -> Nat] /\ x \in Counters(columns, planes)
    <3>1. x = [j \in Index(r) |-> x[j]]
      BY <1>3
    <3>2. x \in [Index(r) -> Nat]
      BY <2>3, <3>1
    <3>. QED
      BY <1>2, <2>3, <3>2
  <2>5. x # Zeros(planes)
    <3>1. x[last] = counter[last] + 1 /\ counter[last] \in Nat
      BY <1>1, <2>1, <2>3
    <3>. QED
      BY <1>1, <2>1, <3>1
  <2>6. ASSUME NEW d \in Counters(columns, planes)
        PROVE  LexLess(d, x) <=> LexLess(d, counter) \/ d = counter
    <3>1. Raised(x, counter, r, last, end)
      BY <2>3 DEF Raised
    <3>2. d \in [Index(r) -> Nat] /\ \A j \in Index(r) : end[j] \in Nat /\ d[j] < end[j]
      BY <1>1, <1>2
    <3>. QED
      BY <1>1, <2>1, <2>4, <3>1, <3>2, LexNext
  <2>. QED
    BY <2>4, <2>5, <2>6 DEF x
<1>. QED
  BY <1>7, <1>8

-------------------------------------------------------------------------------
(* The invariant.                                                          *)

LargerRegistered ==
  \A k \in 1 .. Len(register) : Cardinality(register[k].members) >= HowMany(planes)

Fields ==
  /\ IsInput(input) /\ RegisterOK(register, DOMAIN input)
  /\ pc \in {"idle", "begin", "process", "ask", "end", "thrown"}
  /\ pc # "idle" => \E e \in Events : input = Fresh(e)

Unasked == pc \in {"begin", "process"} => register = <<>> /\ asked = {}

Enumerating ==
  pc = "ask" => AtPlace /\ LargerRegistered /\ AskedBefore(asked, columns, planes, counter)

Enumerated ==
  pc = "end" /\ NumPlanes >= 2 => asked = AcrossPlanes(input, minHits)

MatchInv == Fields /\ Unasked /\ Enumerating /\ Enumerated

LEMMA EmptyRegister == \A D : RegisterOK(<<>>, D)
<1>. SUFFICES ASSUME NEW D PROVE RegisterOK(<<>>, D)
  OBVIOUS
<1>1. <<>> \in Seq(Candidates(D)) /\ Len(<<>>) = 0
  OBVIOUS
<1>2. \A k \in 1 .. 0 : FALSE
  OBVIOUS
<1>. QED
  BY <1>1, <1>2 DEF RegisterOK

LEMMA MatchInit == Init => MatchInv
<1>. SUFFICES ASSUME Init PROVE MatchInv
  OBVIOUS
<1>1. IsInput(input)
  <2>1. input = <<>> /\ DOMAIN input = {}
    BY DEF Init, None
  <2>. QED
    BY <2>1, FS_EmptySet DEF IsInput
<1>2. RegisterOK(register, DOMAIN input)
  BY EmptyRegister DEF Init
<1>. QED
  BY <1>1, <1>2 DEF Init, MatchInv, Fields, Unasked, Enumerating, Enumerated

LEMMA BeforeNothing ==
  ASSUME AtPlace
  PROVE  ~Before(planes, counter, planes, counter)
<1>1. ~Precedes(planes, planes)
  BY PlaceTerms, PrecedesOrder DEF AtPlace
<1>2. ~LexLess(counter, counter)
  BY PlaceTerms DEF LexLess
<1>3. HowMany(planes) \in Int
  BY PlaceTerms
<1>. QED
  BY <1>1, <1>2, <1>3 DEF Before

LEMMA OnceEach == MatchInv => EveryCombination
<1>. SUFFICES ASSUME MatchInv PROVE EveryCombination
  OBVIOUS
<1>1. ASSUME pc = "ask" PROVE Combination \notin asked
  <2>1. AtPlace /\ AskedBefore(asked, columns, planes, counter)
    BY <1>1 DEF MatchInv, Enumerating
  <2>2. ~Before(planes, counter, planes, counter)
    BY <2>1, BeforeNothing
  <2>3. CombinationOf(columns, planes, counter) \notin asked
    BY <2>1, <2>2 DEF AskedBefore, AtPlace
  <2>. QED
    BY <2>1, <2>3, PlaceTerms
<1>2. ASSUME pc = "end", Cardinality(PlanesOf(input, minHits)) >= 2
      PROVE  asked = {S \in SUBSET Ranked(input, minHits) :
                        /\ Cardinality(S) >= 2
                        /\ \A i, j \in S : i # j => input[i].plane # input[j].plane}
  BY <1>2 DEF MatchInv, Enumerated, NumPlanes, AcrossPlanes
<1>. QED
  BY <1>1, <1>2 DEF EveryCombination

LEMMA GreedyEnough == MatchInv => MatchedOnce /\ LosersLost
<1>. SUFFICES ASSUME MatchInv PROVE MatchedOnce /\ LosersLost
  OBVIOUS
<1>1. RegisterOK(register, DOMAIN input)
  BY DEF MatchInv, Fields
<1>. DEFINE result == BK!PassResult(register)
<1>2. /\ UNION Range(result) \subseteq DOMAIN input
      /\ \A k, l \in DOMAIN result : k # l => result[k] \intersect result[l] = {}
      /\ \A k \in DOMAIN register :
           \/ register[k].members \in Range(result)
           \/ \E l \in k + 1 .. Len(register) :
                /\ register[l].members \in Range(result)
                /\ register[l].members \intersect register[k].members # {}
                /\ BetterOrSame(register, k, l)
  BY <1>1, GreedyResult
<1>. HIDE DEF result
<1>3. MatchedOnce
  BY <1>2 DEF MatchedOnce, result
<1>4. LosersLost
  BY <1>2 DEF LosersLost, BetterOrSame, result
<1>. QED
  BY <1>3, <1>4

-------------------------------------------------------------------------------
(* Its steps.                                                              *)

LEMMA AnalyzeKeeps ==
  ASSUME MatchInv, NEW event \in Events, Analyze(event)
  PROVE  MatchInv'
<1>1. IsInput(input')
  BY FreshInput DEF Analyze
<1>2. RegisterOK(register', DOMAIN input')
  BY EmptyRegister DEF Analyze, ResetRegister
<1>3. pc' \in {"idle", "begin"} /\ register' = <<>> /\ asked' = {} /\ input' = Fresh(event)
  BY DEF Analyze, ResetRegister
<1>. QED
  BY <1>1, <1>2, <1>3 DEF MatchInv, Fields, Unasked, Enumerating, Enumerated

LEMMA QuietKeeps ==
  ASSUME MatchInv, Begin \/ End \/ Catch \/ UNCHANGED vars
  PROVE  MatchInv'
<1>1. CASE Begin
  BY <1>1 DEF MatchInv, Fields, Unasked, Enumerating, Enumerated, Begin
<1>2. CASE End
  BY <1>2 DEF MatchInv, Fields, Unasked, Enumerating, Enumerated, End
<1>3. CASE Catch
  BY <1>3 DEF MatchInv, Fields, Unasked, Enumerating, Enumerated, Catch
<1>4. CASE UNCHANGED vars
  BY <1>4 DEF MatchInv, Fields, Unasked, Enumerating, Enumerated, vars, loop, AtPlace,
     NumPlanes, LargerRegistered, AskedBefore
<1>. QED
  BY <1>1, <1>2, <1>3, <1>4

LEMMA ZerosFirst ==
  ASSUME NEW f, HowMany(f) \in Nat
  PROVE  \A d \in [Digits(f) -> Nat] : ~LexLess(d, Zeros(f))
<1>1. Zeros(f) = [k \in Digits(f) |-> 0]
  BY DEF Zeros, Digits, HowMany
<1>. QED
  BY <1>1 DEF LexLess

\* The zeros of any planes are a state of the odometer.
LEMMA ZerosCount ==
  ASSUME NEW in, NEW min, NEW cols, IsInput(in), IsColumns(cols, in, min),
         NEW f \in AllFlags(Cardinality(PlanesOf(in, min)))
  PROVE  Zeros(f) \in Counters(cols, f)
<1>. DEFINE n == Cardinality(PlanesOf(in, min))
<1>1. Zeros(f) = [k \in Digits(f) |-> 0]
  BY DEF Zeros, Digits, HowMany
<1>2. \A k \in Digits(f) : At(f, k) \in Index(n)
  BY InputPlanes, AtOf
<1>3. \A k \in Digits(f) : Size(cols[At(f, k)]) \in Nat \ {0}
  BY <1>2 DEF IsColumns
<1>. QED
  BY <1>1, <1>3 DEF Counters

LEMMA ProcessKeeps ==
  ASSUME MatchInv, IterationProcess
  PROVE  MatchInv'
<1>0. /\ pc = "process" /\ register = <<>> /\ asked = {} /\ IsInput(input)
      /\ UNCHANGED <<minHits, input, register, asked>>
      /\ NumPlanes \in Nat
  <2>1. IsInput(input)
    BY DEF MatchInv, Fields
  <2>. QED
    BY <2>1, InputPlanes DEF IterationProcess, MatchInv, Unasked, NumPlanes
<1>1. CASE NumPlanes < 2 /\ pc' = "end" /\ UNCHANGED loop
  <2>1. ~(NumPlanes' >= 2)
    BY <1>0, <1>1 DEF NumPlanes
  <2>. QED
    BY <1>0, <1>1, <2>1 DEF MatchInv, Fields, Unasked, Enumerating, Enumerated
<1>2. CASE pc' = "thrown"
  BY <1>0, <1>2 DEF MatchInv, Fields, Unasked, Enumerating, Enumerated
<1>3. CASE /\ NumPlanes >= 2 /\ columns' = Columns
           /\ planes' = FirstFlags(NumPlanes, NumPlanes) /\ counter' = Zeros(planes')
           /\ pc' = "ask"
  <2>1. IsColumns(columns', input, minHits)
    BY <1>0, <1>3, ColumnsGood
  <2>2. /\ planes' \in AllFlags(NumPlanes) /\ HowMany(planes') = NumPlanes
        /\ \A h \in AllFlags(NumPlanes) : HowMany(h) = NumPlanes => ~Precedes(h, planes')
    <3>1. NumPlanes \in 0 .. NumPlanes
      BY <1>0
    <3>. QED
      BY <1>0, <1>3, <3>1, FlagsFirst
  <2>3. counter' \in Counters(columns', planes')
    BY <1>0, <1>3, <2>1, <2>2, ZerosCount DEF NumPlanes
  <2>4. AtPlace'
    BY <1>0, <1>3, <2>1, <2>2, <2>3 DEF AtPlace, NumPlanes
  <2>5. LargerRegistered'
    <3>1. register' = <<>> /\ Len(<<>>) = 0 /\ \A k \in 1 .. 0 : FALSE
      BY <1>0
    <3>. QED
      BY <3>1 DEF LargerRegistered
  <2>6. ASSUME NEW f \in AllFlags(NumPlanes), NEW d \in Counters(columns', f)
        PROVE  ~Before(f, d, planes', counter')
    <3>1. HowMany(f) \in 0 .. NumPlanes
      BY <1>0, TakenOf
    <3>2. ~(HowMany(f) > HowMany(planes'))
      BY <1>0, <2>2, <3>1
    <3>3. ~(HowMany(f) = HowMany(planes') /\ Precedes(f, planes'))
      BY <2>2
    <3>4. f = planes' => ~LexLess(d, counter')
      <4>1. d \in [Digits(f) -> Nat] /\ HowMany(f) \in Nat
        BY <3>1 DEF Counters
      <4>. QED
        BY <1>3, <4>1, ZerosFirst
    <3>. QED
      BY <3>2, <3>3, <3>4 DEF Before
  <2>7. AskedBefore(asked, columns, planes, counter)'
    BY <1>0, <2>6 DEF AskedBefore, NumPlanes
  <2>. QED
    BY <1>0, <1>3, <2>4, <2>5, <2>7 DEF MatchInv, Fields, Unasked, Enumerating, Enumerated
<1>. QED
  BY <1>1, <1>2, <1>3 DEF IterationProcess, NumPlanes

\* The combination put to the algorithm is added to those before it.
LEMMA OneMore ==
  ASSUME AtPlace, AskedBefore(asked, columns, planes, counter)
  PROVE  LET A == asked \cup {Combination}
         IN /\ A \subseteq AcrossPlanes(input, minHits)
            /\ \A f \in AllFlags(NumPlanes) : \A d \in Counters(columns, f) :
                 HowMany(f) >= 2 =>
                   (CombinationOf(columns, f, d) \in A <=>
                      Before(f, d, planes, counter) \/ (f = planes /\ d = counter))
<1>1. Combination = CombinationOf(columns, planes, counter)
      /\ Combination \in AcrossPlanes(input, minHits)
  BY PlaceTerms
<1>2. ASSUME NEW f \in AllFlags(NumPlanes), NEW d \in Counters(columns, f)
      PROVE  CombinationOf(columns, f, d) = Combination <=> f = planes /\ d = counter
  BY <1>1, CombinationInjective DEF AtPlace, NumPlanes
<1>. QED
  BY <1>1, <1>2 DEF AskedBefore

LEMMA RegisterKept ==
  ASSUME MatchInv, NEW score \in Scores(input), Ask(score)
  PROVE  /\ RegisterOK(register', DOMAIN input)
         /\ \A k \in 1 .. Len(register') : Cardinality(register'[k].members) >= HowMany(planes)
<1>1. pc = "ask" /\ AtPlace /\ LargerRegistered /\ RegisterOK(register, DOMAIN input)
  BY DEF Ask, MatchInv, Fields, Enumerating
<1>2. score \in Int
  BY <1>1, ScoresAssumption DEF MatchInv, Fields
<1>3. CASE ~Registered(score)
  BY <1>1, <1>3 DEF Ask, LargerRegistered
<1>4. CASE Registered(score)
  <2>. DEFINE members == Combination
              r == BK!Match(register, members, score)
              h == HowMany(planes)
  <2>1. members \in SUBSET DOMAIN input /\ Cardinality(members) = h /\ h \in Int
    <3>1. IsInput(input) /\ Combination \in AcrossPlanes(input, minHits)
      BY <1>1, PlaceTerms DEF AtPlace
    <3>2. Ranked(input, minHits) \in SUBSET DOMAIN input
      BY <3>1, InputPlanes
    <3>. QED
      BY <1>1, <3>1, <3>2, PlaceTerms DEF AcrossPlanes
  <2>2. \A k \in 1 .. Len(register) : Cardinality(register[k].members) >= h
    BY <1>1 DEF LargerRegistered
  <2>. HIDE DEF members, h
  <2>3. \A k \in 1 .. Len(register) : Cardinality(members) <= Cardinality(register[k].members)
    BY <2>1, <2>2
  <2>4. /\ RegisterOK(r, DOMAIN input)
        /\ \A k \in 1 .. Len(r) :
             r[k].members = members \/ \E l \in 1 .. Len(register) : r[k].members = register[l].members
    <3>. HIDE DEF r
    <3>. QED
      BY <1>1, <1>2, <2>1, <2>3, MatchOrdered DEF r
  <2>5. register' = r
    BY <1>4 DEF Ask, members
  <2>. HIDE DEF r
  <2>6. \A k \in 1 .. Len(r) : Cardinality(r[k].members) >= h
    BY <2>1, <2>2, <2>4
  <2>. QED
    BY <2>4, <2>5, <2>6 DEF h
<1>. QED
  BY <1>3, <1>4

\* A place behind this one with nothing in between keeps the invariant.
MovedOn ==
  /\ planes' \in AllFlags(NumPlanes) /\ HowMany(planes') \in 2 .. HowMany(planes)
  /\ counter' \in Counters(columns, planes') /\ columns' = columns
  /\ \A f \in AllFlags(NumPlanes) : \A d \in Counters(columns, f) :
       Before(f, d, planes', counter') <=>
         Before(f, d, planes, counter) \/ (f = planes /\ d = counter)

LEMMA MoveKeeps ==
  ASSUME MatchInv, NEW score \in Scores(input), Ask(score), MovedOn, pc' = "ask"
  PROVE  MatchInv'
<1>1. /\ pc = "ask" /\ AtPlace /\ AskedBefore(asked, columns, planes, counter)
      /\ UNCHANGED <<minHits, input>> /\ asked' = asked \cup {Combination}
      /\ NumPlanes' = NumPlanes
  BY DEF Ask, MatchInv, Enumerating, NumPlanes
<1>2. HowMany(planes) \in Nat /\ HowMany(planes') \in Nat /\ HowMany(planes') >= 2
      /\ HowMany(planes') <= HowMany(planes)
  BY <1>1, PlaceTerms DEF MovedOn
<1>3. AtPlace'
  BY <1>1, <1>2 DEF AtPlace, MovedOn
<1>4. /\ RegisterOK(register', DOMAIN input)
      /\ \A k \in 1 .. Len(register') : Cardinality(register'[k].members) >= HowMany(planes)
  BY RegisterKept
<1>5. LargerRegistered'
  <2>1. ASSUME NEW k \in 1 .. Len(register')
        PROVE  Cardinality(register'[k].members) >= HowMany(planes')
    <3>1. register'[k] \in Candidates(DOMAIN input)
      BY <1>4 DEF RegisterOK
    <3>2. Cardinality(register'[k].members) \in Nat
      <4>1. register'[k].members \in SUBSET DOMAIN input /\ IsFiniteSet(DOMAIN input)
        BY <1>1, <3>1 DEF Candidates, AtPlace, IsInput
      <4>. QED
        BY <4>1, FS_Subset, FS_CardinalityType
    <3>3. Cardinality(register'[k].members) >= HowMany(planes)
      BY <1>4
    <3>. QED
      BY <1>2, <3>2, <3>3
  <2>. QED
    BY <2>1 DEF LargerRegistered
<1>6. AskedBefore(asked, columns, planes, counter)'
  <2>1. /\ asked' \subseteq AcrossPlanes(input, minHits)
        /\ \A f \in AllFlags(NumPlanes) : \A d \in Counters(columns, f) :
             HowMany(f) >= 2 =>
               (CombinationOf(columns, f, d) \in asked' <=>
                  Before(f, d, planes, counter) \/ (f = planes /\ d = counter))
    BY <1>1, OneMore
  <2>2. \A f \in AllFlags(NumPlanes) : \A d \in Counters(columns, f) :
          HowMany(f) >= 2 => (CombinationOf(columns, f, d) \in asked' <=> Before(f, d, planes', counter'))
    BY <2>1 DEF MovedOn
  <2>3. \A f \in AllFlags(NumPlanes') : \A d \in Counters(columns', f) :
          HowMany(f) >= 2 => (CombinationOf(columns', f, d) \in asked' <=> Before(f, d, planes', counter'))
    BY <1>1, <2>2 DEF MovedOn
  <2>4. asked' \subseteq AcrossPlanes(input', minHits')
    BY <1>1, <2>1
  <2>. QED
    BY <2>3, <2>4 DEF AskedBefore
<1>7. Fields'
  BY <1>1, <1>4 DEF MatchInv, Fields
<1>. QED
  BY <1>3, <1>5, <1>6, <1>7 DEF MatchInv, Unasked, Enumerating, Enumerated

LEMMA AskKeeps ==
  ASSUME MatchInv, NEW score \in Scores(input), Ask(score)
  PROVE  MatchInv'
<1>. DEFINE n == NumPlanes
            r == HowMany(planes)
<1>1. /\ pc = "ask" /\ AtPlace /\ AskedBefore(asked, columns, planes, counter)
      /\ UNCHANGED <<minHits, input>> /\ asked' = asked \cup {Combination} /\ Advance
      /\ NumPlanes' = NumPlanes
  BY DEF Ask, MatchInv, Enumerating, NumPlanes
<1>2. /\ n \in Nat /\ Size(planes) = n /\ r \in 2 .. n /\ planes \in AllFlags(n)
      /\ counter \in Counters(columns, planes)
      /\ IsInput(input) /\ IsColumns(columns, input, minHits)
  BY <1>1, PlaceTerms DEF AtPlace
<1>3. ASSUME NEW f \in AllFlags(n)
      PROVE  HowMany(f) \in 0 .. n /\ Zeros(f) \in Counters(columns, f)
             /\ \A d \in Counters(columns, f) : ~LexLess(d, Zeros(f))
  <2>1. HowMany(f) \in 0 .. n
    BY <1>2, TakenOf
  <2>2. Zeros(f) \in Counters(columns, f)
    BY <1>2, ZerosCount DEF NumPlanes
  <2>3. ASSUME NEW d \in Counters(columns, f) PROVE ~LexLess(d, Zeros(f))
    <3>1. d \in [Digits(f) -> Nat] /\ HowMany(f) \in Nat
      BY <2>1 DEF Counters
    <3>. QED
      BY <3>1, ZerosFirst
  <2>. QED
    BY <2>1, <2>2, <2>3
<1>. HIDE DEF n, r
<1>4. ASSUME NextCounter = Zeros(planes), NEW d \in Counters(columns, planes)
      PROVE  LexLess(d, counter) \/ d = counter
  BY <1>1, <1>4, CounterNext
<1>5. CASE NextCounter # Zeros(planes) /\ counter' = NextCounter
           /\ UNCHANGED <<columns, planes, pc>>
  <2>1. ASSUME NEW f \in AllFlags(n), NEW d \in Counters(columns, f)
        PROVE  Before(f, d, planes', counter') <=>
                 Before(f, d, planes, counter) \/ (f = planes /\ d = counter)
    <3>1. f = planes => (LexLess(d, counter') <=> LexLess(d, counter) \/ d = counter)
      BY <1>1, <1>5, CounterNext
    <3>. QED
      BY <1>5, <3>1 DEF Before
  <2>2. counter' \in Counters(columns, planes)
    BY <1>1, <1>5, CounterNext
  <2>3. MovedOn
    BY <1>2, <1>5, <2>1, <2>2 DEF MovedOn, n, r
  <2>. QED
    BY <1>1, <1>5, <2>3, MoveKeeps
<1>6. CASE /\ NextCounter = Zeros(planes)
           /\ planes' \in NextFlags(planes) /\ counter' = Zeros(planes')
           /\ UNCHANGED <<columns, pc>>
  <2>1. /\ planes' \in AllFlags(n) /\ HowMany(planes') = r
        /\ \A h \in AllFlags(n) : HowMany(h) = r =>
             (Precedes(h, planes') <=> Precedes(h, planes) \/ h = planes)
    BY <1>2, <1>6, FlagsNext DEF r
  <2>2. ASSUME NEW f \in AllFlags(n), NEW d \in Counters(columns, f)
        PROVE  Before(f, d, planes', counter') <=>
                 Before(f, d, planes, counter) \/ (f = planes /\ d = counter)
    <3>1. ~(f = planes' /\ LexLess(d, counter'))
      BY <1>3, <1>6, <2>1
    <3>2. f = planes => LexLess(d, counter) \/ d = counter
      BY <1>4, <1>6
    <3>3. HowMany(f) = r => (Precedes(f, planes') <=> Precedes(f, planes) \/ f = planes)
      BY <2>1
    <3>4. f = planes => HowMany(f) = r
      BY DEF r
    <3>. QED
      BY <2>1, <3>1, <3>2, <3>3, <3>4 DEF Before, r
  <2>3. counter' \in Counters(columns, planes')
    BY <1>3, <1>6, <2>1
  <2>4. MovedOn
    BY <1>2, <1>6, <2>1, <2>2, <2>3 DEF MovedOn, n, r
  <2>. QED
    BY <1>1, <1>6, <2>4, MoveKeeps
<1>7. CASE /\ NextCounter = Zeros(planes) /\ NextFlags(planes) = {} /\ r > 2
           /\ planes' = FirstFlags(n, r - 1) /\ counter' = Zeros(planes')
           /\ UNCHANGED <<columns, pc>>
  <2>1. /\ planes' \in AllFlags(n) /\ HowMany(planes') = r - 1
        /\ \A h \in AllFlags(n) : HowMany(h) = r - 1 => ~Precedes(h, planes')
    <3>1. r - 1 \in 0 .. n
      BY <1>2
    <3>. QED
      BY <1>2, <1>7, <3>1, FlagsFirst
  <2>2. ASSUME NEW f \in AllFlags(n), NEW d \in Counters(columns, f)
        PROVE  Before(f, d, planes', counter') <=>
                 Before(f, d, planes, counter) \/ (f = planes /\ d = counter)
    <3>1. ~(f = planes' /\ LexLess(d, counter'))
      BY <1>3, <1>7, <2>1
    <3>2. f = planes => LexLess(d, counter) \/ d = counter
      BY <1>4, <1>7
    <3>3. ~(HowMany(f) = HowMany(planes') /\ Precedes(f, planes'))
      BY <2>1
    <3>4. HowMany(f) = r => Precedes(f, planes) \/ f = planes
      BY <1>2, <1>7, FlagsLast DEF r
    <3>5. HowMany(f) > HowMany(planes') <=> HowMany(f) > r \/ HowMany(f) = r
      <4>1. HowMany(f) \in Int /\ r \in Int
        BY <1>2, <1>3
      <4>. QED
        BY <2>1, <4>1
    <3>6. f = planes => HowMany(f) = r
      BY DEF r
    <3>. QED
      BY <3>1, <3>2, <3>3, <3>4, <3>5, <3>6 DEF Before, r
  <2>3. counter' \in Counters(columns, planes')
    BY <1>3, <1>7, <2>1
  <2>4. HowMany(planes') \in 2 .. r
    BY <1>2, <1>7, <2>1
  <2>5. MovedOn
    BY <1>7, <2>1, <2>2, <2>3, <2>4 DEF MovedOn, n, r
  <2>. QED
    BY <1>1, <1>7, <2>5, MoveKeeps
<1>8. CASE /\ NextCounter = Zeros(planes) /\ NextFlags(planes) = {} /\ r = 2
           /\ pc' = "end"
  <2>1. ASSUME NEW f \in AllFlags(n), NEW d \in Counters(columns, f), HowMany(f) >= 2
        PROVE  Before(f, d, planes, counter) \/ (f = planes /\ d = counter)
    <3>1. f = planes => LexLess(d, counter) \/ d = counter
      BY <1>4, <1>8
    <3>2. HowMany(f) = r => Precedes(f, planes) \/ f = planes
      BY <1>2, <1>8, FlagsLast DEF r
    <3>3. HowMany(f) > r \/ HowMany(f) = r
      BY <1>2, <1>3, <1>8, <2>1
    <3>. QED
      BY <3>1, <3>2, <3>3 DEF Before, r
  <2>2. /\ asked' \subseteq AcrossPlanes(input, minHits)
        /\ \A f \in AllFlags(n) : \A d \in Counters(columns, f) :
             HowMany(f) >= 2 => CombinationOf(columns, f, d) \in asked'
    BY <1>1, <2>1, OneMore DEF n
  <2>3. ASSUME NEW S \in AcrossPlanes(input, minHits) PROVE S \in asked'
    BY <1>2, <2>2, ChoiceIsCombination DEF n, NumPlanes
  <2>4. Enumerated'
    BY <1>1, <2>2, <2>3 DEF Enumerated
  <2>5. RegisterOK(register', DOMAIN input)
    BY RegisterKept
  <2>. QED
    BY <1>1, <1>8, <2>4, <2>5 DEF MatchInv, Fields, Unasked, Enumerating
<1>. QED
  BY <1>1, <1>2, <1>5, <1>6, <1>7, <1>8 DEF Advance, r, HowMany

LEMMA MatchStep == MatchInv /\ [Next]_vars => MatchInv'
<1>. SUFFICES ASSUME MatchInv, [Next]_vars PROVE MatchInv'
  OBVIOUS
<1>1. CASE \E event \in Events : Analyze(event)
  BY <1>1, AnalyzeKeeps
<1>2. CASE IterationProcess
  BY <1>2, ProcessKeeps
<1>3. CASE \E s \in Scores(input) : Ask(s)
  BY <1>3, AskKeeps
<1>4. CASE Begin \/ End \/ Catch \/ UNCHANGED vars
  BY <1>4, QuietKeeps
<1>. QED
  BY <1>1, <1>2, <1>3, <1>4 DEF Next, Process

LEMMA MatchAlways == Spec => []MatchInv
<1>. QED
  BY MatchInit, MatchStep, PTL DEF Spec

-------------------------------------------------------------------------------
(* The theorems.                                                           *)

\* PlaneClusterCombinations goes through every choice of one ranked cluster from
\* each of two or more planes, however many planes and clusters there are, and
\* puts none to the algorithm twice.
THEOREM EveryCombinationAlways == Spec => []EveryCombination
<1>. QED
  BY MatchAlways, OnceEach, PTL

\* PassResult's matches have no cluster in common, and none of an earlier event.
THEOREM MatchedOnceAlways == Spec => []MatchedOnce
<1>. QED
  BY MatchAlways, GreedyEnough, PTL

\* A candidate that PassResult leaves out shares a cluster with a match that is in
\* the result and is better, or as good and of no more planes.
THEOREM LosersLostAlways == Spec => []LosersLost
<1>. QED
  BY MatchAlways, GreedyEnough, PTL
=============================================================================
