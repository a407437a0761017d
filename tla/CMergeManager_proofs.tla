------------------------- MODULE CMergeManager_proofs -------------------------
(***************************************************************************)
(* The book keeper, for any number of input clusters: it implements the    *)
(* partition, its numbering and flags stay sound, and Combine composes.    *)
(*                                                                         *)
(* The manager, for any events, set-ups and answers of the algorithms:     *)
(* analyze() loses no hit, its composed book keeper says what the output   *)
(* is made of, no call throws, and a converged result has nothing left to  *)
(* merge.  The array of algorithms that answer is last.                    *)
(***************************************************************************)
EXTENDS CMergeBookKeeper, CMergeManager, CBAlgoArray, SequenceLemmas

(***************************************************************************)
(*                             The book keeper                             *)
(***************************************************************************)

(***************************************************************************)
(* The inductive invariant, in the parts the steps can disturb.            *)
(***************************************************************************)
Sizes ==
  /\ len \in Nat /\ len <= MaxLen
  /\ count \in Nat /\ count <= len

Outputs ==
  /\ out \in [Indexes(len) -> Indexes(count)]
  /\ InOrder(out)
  /\ \A k \in Indexes(count) : \E x \in Indexes(len) : out[x] = k

Flags ==
  /\ prohibit \in [Indexes(len) -> SUBSET Nat]
  /\ NoStaleFlags

Progress ==
  /\ combine \in {"idle", "running", "done", "thrown"}
  /\ todo \subseteq Indexes(len)

IInv == Sizes /\ Outputs /\ Flags /\ Progress

(***************************************************************************)
(* One Unite step: the numbering.                                          *)
(***************************************************************************)

\* Closing the gap at b keeps the outputs in use, in order of first cluster.
LEMMA UniteNumbers ==
  ASSUME Sizes, Outputs, NEW a \in Indexes(count), NEW b \in Indexes(count), a < b,
         Unite(a, b)
  PROVE  Sizes' /\ Outputs'
<1>1. Sizes'
  BY DEF Sizes, Unite, Indexes
<1>2. out' \in [Indexes(len') -> Indexes(count')]
  <2>1. ASSUME NEW k \in Indexes(count)
        PROVE  NewIndex(k, a, b) \in Indexes(count - 1)
    BY DEF NewIndex, Indexes, Sizes
  <2>2. \A x \in Indexes(len) : NewIndex(out[x], a, b) \in Indexes(count - 1)
    BY <2>1 DEF Outputs
  <2> QED
    BY <2>2 DEF Unite
<1>3. InOrder(out)'
  <2>1. SUFFICES ASSUME NEW x \in Indexes(len), NEW k \in Indexes(NewIndex(out[x], a, b))
                 PROVE  \E y \in Indexes(x) : NewIndex(out[y], a, b) = k
    <3>1. DOMAIN out' = Indexes(len) /\ \A x \in Indexes(len) : out'[x] = NewIndex(out[x], a, b)
      BY DEF Unite
    <3>2. \A x \in Indexes(len) : Indexes(x) \subseteq Indexes(len)
      BY DEF Indexes, Sizes
    <3> QED
      BY <3>1, <3>2 DEF InOrder
  <2>2. out[x] \in Indexes(count)
    BY DEF Outputs
  <2>3. \A j \in Indexes(out[x]) : \E y \in Indexes(x) : out[y] = j
    BY DEF Outputs, InOrder
  <2>4. CASE k < b
    <3>1. k \in Indexes(out[x])
      BY <2>2, <2>4 DEF NewIndex, Indexes, Sizes
    <3>2. PICK y \in Indexes(x) : out[y] = k
      BY <2>3, <3>1
    <3>3. CASE k # a /\ k # b
      BY <3>2, <2>4, <3>3 DEF NewIndex, Indexes, Sizes
    <3>4. CASE k = a
      BY <3>2, <3>4 DEF NewIndex
    <3> QED
      BY <3>3, <3>4, <2>4 DEF Indexes, Sizes
  <2>5. CASE k >= b
    <3>1. k + 1 \in Indexes(out[x])
      BY <2>2, <2>5 DEF NewIndex, Indexes, Sizes
    <3>2. PICK y \in Indexes(x) : out[y] = k + 1
      BY <2>3, <3>1
    <3> QED
      BY <3>2, <2>5, <3>1, <2>2 DEF NewIndex, Indexes, Sizes
  <2> QED
    BY <2>2, <2>4, <2>5 DEF NewIndex, Indexes, Sizes
<1>4. \A k \in Indexes(count') : \E x \in Indexes(len') : out'[x] = k
  <2>1. SUFFICES ASSUME NEW k \in Indexes(count - 1)
                 PROVE  \E x \in Indexes(len) : NewIndex(out[x], a, b) = k
    BY DEF Unite
  <2>2. CASE k < b
    <3>1. PICK x \in Indexes(len) : out[x] = k
      BY DEF Outputs, Indexes, Sizes
    <3> QED
      BY <3>1, <2>2 DEF NewIndex, Indexes, Sizes
  <2>3. CASE k >= b
    <3>1. PICK x \in Indexes(len) : out[x] = k + 1
      BY DEF Outputs, Indexes, Sizes
    <3> QED
      BY <3>1, <2>3 DEF NewIndex, Indexes, Sizes
  <2> QED
    BY <2>2, <2>3 DEF Indexes, Sizes
<1> QED
  BY <1>1, <1>2, <1>3, <1>4 DEF Outputs

\* Compacting the triangle leaves every flag inside the smaller triangle.
LEMMA UniteFlags ==
  ASSUME Sizes, Flags, NEW a \in Indexes(count), NEW b \in Indexes(count), a < b,
         Unite(a, b)
  PROVE  Flags'
<1> DEFINE Live(r, c) == IF r < c THEN 1 .. c - r - 1 ELSE {}
<1>1. \A r \in Indexes(len) : prohibit[r] \subseteq Live(r, count)
  BY DEF Flags, NoStaleFlags
<1>2. ASSUME NEW r \in Indexes(len), NEW d \in NewRow(r, a, b)
      PROVE  d \in Live(r, count - 1)
  <2>0. prohibit[r] \subseteq Live(r, count)
    BY <1>1
  <2>1. CASE r < a
    BY <1>2, <2>0, <2>1 DEF NewRow, ShiftedRow, Sizes, Indexes
  <2>2. CASE r = a
    BY <1>2, <2>0, <2>2 DEF NewRow, ShiftedRow, InheritedRow, Sizes, Indexes
  <2>3. CASE a < r /\ r < b
    BY <1>2, <2>0, <2>3 DEF NewRow, ShiftedRow, Sizes, Indexes
  <2>4. CASE b <= r /\ r < count - 1
    <3>1. r + 1 \in Indexes(len) /\ d \in prohibit[r + 1]
      BY <1>2, <2>4 DEF NewRow, Sizes, Indexes
    <3> QED
      BY <3>1, <1>1, <2>4 DEF Sizes, Indexes
  <2>5. CASE b <= r /\ r >= count - 1
    BY <1>2, <2>0, <2>5 DEF NewRow, Sizes, Indexes
  <2> QED
    BY <2>1, <2>2, <2>3, <2>4, <2>5 DEF Indexes, Sizes
<1>3. \A r \in Indexes(len) : prohibit'[r] = NewRow(r, a, b)
  BY DEF Unite
<1>4. \A r \in Indexes(len) : NewRow(r, a, b) \subseteq Nat
  BY <1>2 DEF Sizes, Indexes
<1>5. prohibit' \in [Indexes(len') -> SUBSET Nat]
  BY <1>4 DEF Unite
<1>6. NoStaleFlags'
  BY <1>2, <1>3 DEF NoStaleFlags, Unite
<1> QED
  BY <1>5, <1>6 DEF Flags

(***************************************************************************)
(* One Unite step: the flags, as a relation between outputs.               *)
(***************************************************************************)

\* A flag between two outputs is found again between what became of them.
LEMMA FlagIsKept ==
  ASSUME Sizes, Flags, NEW a \in Indexes(count), NEW b \in Indexes(count), a < b,
         Unite(a, b),
         NEW p \in Indexes(count), NEW q \in Indexes(count), p < q, q - p \in prohibit[p],
         ~ (p = a /\ q = b)
  PROVE  /\ NewIndex(p, a, b) # NewIndex(q, a, b)
         /\ Prohibited(NewIndex(p, a, b), NewIndex(q, a, b))'
<1> DEFINE P == NewIndex(p, a, b)
           Q == NewIndex(q, a, b)
<1>1. \A r \in Indexes(len) : prohibit'[r] = NewRow(r, a, b)
  BY DEF Unite
<1>2. P \in Indexes(len) /\ Q \in Indexes(len) /\ P # Q
  BY DEF NewIndex, Indexes, Sizes
<1>3. Prohibited(P, Q)' <=> IF P < Q THEN Q - P \in NewRow(P, a, b)
                                     ELSE P - Q \in NewRow(Q, a, b)
  BY <1>1, <1>2 DEF Prohibited
<1>4. CASE p # a /\ p # b /\ q # a /\ q # b
  BY <1>3, <1>4 DEF NewIndex, NewRow, ShiftedRow, Indexes, Sizes
<1>5. CASE p = a
  BY <1>3, <1>5 DEF NewIndex, NewRow, ShiftedRow, InheritedRow, Indexes, Sizes
<1>6. CASE p = b
  BY <1>3, <1>6 DEF NewIndex, NewRow, ShiftedRow, InheritedRow, Indexes, Sizes
<1>7. CASE q = a
  BY <1>3, <1>7 DEF NewIndex, NewRow, ShiftedRow, InheritedRow, Indexes, Sizes
<1>8. CASE q = b
  BY <1>3, <1>8 DEF NewIndex, NewRow, ShiftedRow, InheritedRow, Indexes, Sizes
<1> QED
  BY <1>2, <1>4, <1>5, <1>6, <1>7, <1>8

\* A flag after the step comes from a flag between outputs that became the pair.
LEMMA FlagHasOrigin ==
  ASSUME Sizes, Flags, NEW a \in Indexes(count), NEW b \in Indexes(count), a < b,
         Unite(a, b),
         NEW P \in Indexes(count - 1), NEW Q \in Indexes(count - 1), P < Q,
         Q - P \in prohibit'[P]
  PROVE  \E p, q \in Indexes(count) :
           /\ NewIndex(p, a, b) = P /\ NewIndex(q, a, b) = Q
           /\ p # q /\ Prohibited(p, q)
<1> DEFINE Old(k) == IF k < b THEN k ELSE k + 1
<1>1. Q - P \in NewRow(P, a, b)
  BY DEF Unite, Indexes, Sizes
<1>2. PICK p \in Indexes(count), q \in Indexes(count) : p = Old(P) /\ q = Old(Q)
  BY DEF Indexes, Sizes
<1>3. /\ NewIndex(p, a, b) = P /\ NewIndex(q, a, b) = Q
      /\ p < q /\ NewIndex(b, a, b) = a
  BY <1>2 DEF NewIndex, Indexes, Sizes
<1>4. CASE P < a
  <2>1. \/ q - p \in prohibit[p]
        \/ Q = a /\ p = P /\ b - P \in prohibit[P]
    BY <1>1, <1>2, <1>4 DEF NewRow, ShiftedRow, Indexes, Sizes
  <2> QED
    BY <2>1, <1>3, <1>4 DEF Prohibited, Indexes, Sizes
<1>5. CASE P = a
  <2>1. \/ q - p \in prohibit[p]
        \/ q < b /\ b - q \in prohibit[q]
        \/ q > b /\ q - b \in prohibit[b]
    <3>1. P = p /\ Q - P \in ShiftedRow(a, b) \cup InheritedRow(a, b)
      BY <1>1, <1>2, <1>5 DEF NewRow, Indexes, Sizes
    <3>2. CASE Q - P \in ShiftedRow(a, b)
      BY <3>1, <3>2, <1>2, <1>5 DEF ShiftedRow, Indexes, Sizes
    <3>3. CASE Q - P \in InheritedRow(a, b) /\ Q < b
      BY <3>1, <3>3, <1>2, <1>5 DEF InheritedRow, Indexes, Sizes
    <3>4. CASE Q - P \in InheritedRow(a, b) /\ Q >= b
      <4>1. Q - P + 1 + a - b \in prohibit[b]
        BY <3>4, <1>5 DEF InheritedRow, Indexes, Sizes
      <4>2. Q - P + 1 + a - b = q - b /\ q > b
        BY <3>4, <1>2, <1>5 DEF Indexes, Sizes
      <4> QED
        BY <4>1, <4>2
    <3> QED
      BY <3>1, <3>2, <3>3, <3>4 DEF Indexes, Sizes
  <2> QED
    BY <2>1, <1>3, <1>5 DEF Prohibited, Indexes, Sizes
<1>6. CASE a < P /\ P < b
  <2>1. q - p \in prohibit[p]
    BY <1>1, <1>2, <1>6 DEF NewRow, ShiftedRow, Indexes, Sizes
  <2> QED
    BY <2>1, <1>3 DEF Prohibited, Indexes, Sizes
<1>7. CASE b <= P
  <2>1. p = P + 1 /\ q = Q + 1 /\ P < count - 1 /\ Q - P = q - p
    BY <1>2, <1>7 DEF Indexes, Sizes
  <2>2. q - p \in prohibit[p]
    BY <1>1, <2>1, <1>7 DEF NewRow, Indexes, Sizes
  <2> QED
    BY <2>2, <1>3 DEF Prohibited, Indexes, Sizes
<1> QED
  BY <1>4, <1>5, <1>6, <1>7 DEF Indexes, Sizes

\* The same for a Merge of two clusters, in either order of their outputs.
LEMMA UniteClustersKeeps ==
  ASSUME Sizes, Outputs, Flags, NEW i \in Indexes(len), NEW j \in Indexes(len),
         out[i] # out[j], UniteClusters(i, j)
  PROVE  Sizes' /\ Outputs' /\ Flags' /\ len' = len
<1>1. out[i] \in Indexes(count) /\ out[j] \in Indexes(count)
  BY DEF Outputs
<1>2. CASE out[i] < out[j]
  <2>1. Unite(out[i], out[j])
    BY <1>2 DEF UniteClusters
  <2>2. len' = len
    BY <2>1 DEF Unite
  <2> QED
    BY <1>1, <1>2, <2>1, <2>2, UniteNumbers, UniteFlags
<1>3. CASE out[j] < out[i]
  <2>1. Unite(out[j], out[i])
    BY <1>1, <1>3 DEF UniteClusters, Indexes, Sizes
  <2>2. len' = len
    BY <2>1 DEF Unite
  <2> QED
    BY <1>1, <1>3, <2>1, <2>2, UniteNumbers, UniteFlags
<1> QED
  BY <1>1, <1>2, <1>3 DEF Indexes, Sizes

(***************************************************************************)
(* The invariant.                                                          *)
(***************************************************************************)

LEMMA InitIInv == BookInit => IInv
<1> SUFFICES ASSUME BookInit PROVE IInv
  OBVIOUS
<1>1. Sizes /\ Progress
  BY MaxLenAssumption DEF BookInit, Sizes, Progress, Indexes
<1>2. Outputs
  <2>1. out = [x \in Indexes(len) |-> x] /\ count = len
    BY DEF BookInit
  <2>2. InOrder(out)
    BY <2>1, <1>1 DEF InOrder, Indexes, Sizes
  <2> QED
    BY <2>1, <2>2 DEF Outputs
<1>3. Flags
  BY DEF BookInit, Flags, NoStaleFlags
<1> QED
  BY <1>1, <1>2, <1>3 DEF IInv

\* Reset gives a book keeper as new.
LEMMA ResetKeeps ==
  ASSUME NEW m \in 0 .. MaxLen, Reset(m)
  PROVE  IInv'
<1>1. Sizes' /\ Progress'
  BY MaxLenAssumption DEF Reset, NoCombine, Sizes, Progress, Indexes
<1>2. Outputs'
  <2>1. out' = [x \in Indexes(m) |-> x] /\ count' = m /\ len' = m
    BY DEF Reset
  <2>2. InOrder(out')
    BY <2>1, MaxLenAssumption DEF InOrder, Indexes
  <2> QED
    BY <2>1, <2>2 DEF Outputs
<1>3. Flags'
  BY DEF Reset, Flags, NoStaleFlags
<1> QED
  BY <1>1, <1>2, <1>3 DEF IInv

LEMMA ProhibitMergeKeeps ==
  ASSUME IInv, NEW i \in Indexes(len), NEW j \in Indexes(len), ProhibitMerge(i, j)
  PROVE  IInv'
<1> DEFINE a == IF out[i] < out[j] THEN out[i] ELSE out[j]
           b == IF out[i] < out[j] THEN out[j] ELSE out[i]
<1>1. /\ a \in Indexes(count) /\ b \in Indexes(count) /\ a < b
      /\ prohibit' = [prohibit EXCEPT ![a] = @ \cup {b - a}]
  BY DEF ProhibitMerge, IInv, Outputs, Indexes, Sizes
<1>2. Sizes' /\ Outputs' /\ Progress'
  BY DEF ProhibitMerge, NoCombine, IInv, Sizes, Outputs, Progress
<1>3. Flags'
  <2> HIDE DEF a, b
  <2>1. a \in Indexes(len) /\ b - a \in Nat /\ b - a \in 1 .. count - a - 1 /\ a < count
    BY <1>1 DEF IInv, Sizes, Indexes
  <2>2. \A r \in Indexes(len) : prohibit'[r] = IF r = a THEN prohibit[a] \cup {b - a} ELSE prohibit[r]
    BY <1>1, <2>1 DEF IInv, Flags
  <2>3. prohibit' \in [Indexes(len) -> SUBSET Nat]
    BY <1>1, <2>1 DEF IInv, Flags
  <2>4. len' = len /\ count' = count
    BY DEF ProhibitMerge
  <2>5. \A r \in Indexes(len) : prohibit[r] \subseteq IF r < count THEN 1 .. count - r - 1 ELSE {}
    BY DEF IInv, Flags, NoStaleFlags
  <2>6. ASSUME NEW r \in Indexes(len)
        PROVE  prohibit'[r] \subseteq IF r < count THEN 1 .. count - r - 1 ELSE {}
    BY <2>1, <2>2, <2>5
  <2> QED
    BY <2>3, <2>4, <2>6 DEF Flags, NoStaleFlags
<1> QED
  BY <1>2, <1>3 DEF IInv

LEMMA MergeKeeps ==
  ASSUME IInv, NEW i \in Indexes(len), NEW j \in Indexes(len), Merge(i, j)
  PROVE  IInv'
<1>1. Sizes' /\ Outputs' /\ Flags'
  BY UniteClustersKeeps DEF Merge, IInv
<1>2. Progress'
  BY DEF Merge, NoCombine, Progress
<1> QED
  BY <1>1, <1>2 DEF IInv

LEMMA CombineMergeKeeps ==
  ASSUME IInv, NEW t \in Indexes(len), NEW x \in Indexes(len), CombineMerge(t, x)
  PROVE  IInv'
<1>1. len' = len /\ Sizes' /\ Outputs' /\ Flags'
  <2>1. CASE out[x] = out[t] /\ UNCHANGED <<len, out, prohibit, count>>
    BY <2>1 DEF IInv, Sizes, Outputs, Flags, NoStaleFlags
  <2>2. CASE out[x] # out[t] /\ UniteClusters(t, x)
    BY <2>2, UniteClustersKeeps DEF IInv
  <2> QED
    BY <2>1, <2>2 DEF CombineMerge
<1>2. Progress'
  BY <1>1 DEF CombineMerge, IInv, Progress
<1> QED
  BY <1>1, <1>2 DEF IInv

LEMMA NextIInv == IInv /\ [BookNext]_bookVars => IInv'
<1> SUFFICES ASSUME IInv, [BookNext]_bookVars PROVE IInv'
  OBVIOUS
<1>1. ASSUME NEW m \in 0 .. MaxLen, Reset(m) PROVE IInv'
  BY <1>1, ResetKeeps
<1>2. ASSUME NEW i \in Indexes(len), NEW j \in Indexes(len), ProhibitMerge(i, j) PROVE IInv'
  BY <1>2, ProhibitMergeKeeps
<1>3. ASSUME NEW i \in Indexes(len), NEW j \in Indexes(len), Merge(i, j) PROVE IInv'
  BY <1>3, MergeKeeps
<1>4. ASSUME NEW f, CombineBegin(f) PROVE IInv'
  BY <1>4 DEF CombineBegin, IInv, Sizes, Outputs, Flags, NoStaleFlags, Progress
<1>5. ASSUME NEW t \in Indexes(len), NEW x \in Indexes(len), CombineMerge(t, x) PROVE IInv'
  BY <1>5, CombineMergeKeeps
<1>6. ASSUME NEW t \in Indexes(len), NEW x \in Indexes(len), CombineThrow(t, x) PROVE IInv'
  BY <1>6 DEF CombineThrow, IInv, Sizes, Outputs, Flags, NoStaleFlags, Progress
<1>7. CASE UNCHANGED bookVars
  BY <1>7 DEF bookVars, IInv, Sizes, Outputs, Flags, NoStaleFlags, Progress
<1> QED
  BY <1>1, <1>2, <1>3, <1>4, <1>5, <1>6, <1>7 DEF BookNext, Call, CombineStep

\* The strengthened invariant of the whole component: sizes, numbering, triangle
\* and Combine's progress hold after any sequence of calls.
THEOREM Invariance == BookSpec => []IInv
<1>1. BookInit => IInv
  BY InitIInv
<1>2. IInv /\ [BookNext]_bookVars => IInv'
  BY NextIInv
<1> QED
  BY <1>1, <1>2, PTL DEF BookSpec

\* Every variable keeps its type, for any bound on the number of clusters.
THEOREM TypeCorrect == BookSpec => []TypeOK
<1>1. IInv => TypeOK
  <2> SUFFICES ASSUME IInv PROVE TypeOK
    OBVIOUS
  <2>1. \A r \in Indexes(len) : prohibit[r] \subseteq 0 .. MaxLen
    <3>1. SUFFICES ASSUME NEW r \in Indexes(len), NEW d \in prohibit[r] PROVE d \in 0 .. MaxLen
      OBVIOUS
    <3>2. d \in IF r < count THEN 1 .. count - r - 1 ELSE {}
      BY DEF IInv, Flags, NoStaleFlags
    <3> QED
      BY <3>2, MaxLenAssumption DEF IInv, Sizes, Indexes
  <2>2. prohibit \in [Indexes(len) -> SUBSET (0 .. MaxLen)]
    BY <2>1 DEF IInv, Flags
  <2> QED
    BY <2>2, MaxLenAssumption DEF IInv, TypeOK, Sizes, Outputs, Progress, Indexes
<1> QED
  BY <1>1, Invariance, PTL

\* The outputs stay numbered without gaps in the order of their first cluster.
THEOREM NumberedInOrderAlways == BookSpec => []NumberedInOrder
<1>1. IInv => NumberedInOrder
  BY DEF IInv, Outputs, NumberedInOrder, Numbering
<1> QED
  BY <1>1, Invariance, PTL

\* No flag survives outside the triangle of the outputs that are left.
THEOREM NoStaleFlagsAlways == BookSpec => []NoStaleFlags
<1>1. IInv => NoStaleFlags
  BY DEF IInv, Flags
<1> QED
  BY <1>1, Invariance, PTL

(***************************************************************************)
(* Separations.                                                            *)
(***************************************************************************)

\* Prohibited does not depend on the order of its arguments, and is about
\* different outputs only.
LEMMA ProhibitedSymmetric ==
  ASSUME Sizes, Flags, NEW p \in Indexes(count), NEW q \in Indexes(count)
  PROVE  /\ Prohibited(p, q) <=> Prohibited(q, p)
         /\ Prohibited(p, q) => p # q
BY DEF Prohibited, Flags, NoStaleFlags, Sizes, Indexes

\* FlagIsKept for a pair given in any order.
LEMMA SeparationIsKept ==
  ASSUME Sizes, Outputs, Flags, NEW a \in Indexes(count), NEW b \in Indexes(count), a < b,
         Unite(a, b), ~Prohibited(a, b),
         NEW p \in Indexes(count), NEW q \in Indexes(count), Prohibited(p, q)
  PROVE  /\ NewIndex(p, a, b) # NewIndex(q, a, b)
         /\ Prohibited(NewIndex(p, a, b), NewIndex(q, a, b))'
<1> DEFINE P == NewIndex(p, a, b)
           Q == NewIndex(q, a, b)
<1>1. p # q
  BY ProhibitedSymmetric
<1>2. P \in Indexes(count') /\ Q \in Indexes(count') /\ Sizes' /\ Flags'
  BY UniteNumbers, UniteFlags DEF NewIndex, Unite, Indexes, Sizes
<1>3. CASE p < q
  <2>1. q - p \in prohibit[p] /\ ~(p = a /\ q = b)
    BY <1>3 DEF Prohibited
  <2> QED
    BY <1>3, <2>1, FlagIsKept
<1>4. CASE q < p
  <2>1. p - q \in prohibit[q] /\ ~(q = a /\ p = b)
    BY <1>4 DEF Prohibited, Indexes, Sizes
  <2>2. Q # P /\ Prohibited(Q, P)'
    BY <1>4, <2>1, FlagIsKept
  <2>3. P \in Nat /\ Q \in Nat
    <3> HIDE DEF P, Q
    <3> QED
      BY <1>2 DEF Sizes, Indexes
  <2>4. Prohibited(Q, P)' <=> Prohibited(P, Q)'
    <3> HIDE DEF P, Q
    <3> QED
      BY <2>2, <2>3 DEF Prohibited
  <2> QED
    BY <2>2, <2>4
<1> QED
  BY <1>1, <1>3, <1>4 DEF Indexes, Sizes

\* A Unite of two outputs that may be merged keeps every separated pair.
LEMMA UniteKeepsApart ==
  ASSUME Sizes, Outputs, Flags, NEW a \in Indexes(count), NEW b \in Indexes(count), a < b,
         Unite(a, b), ~Prohibited(a, b)
  PROVE  Apart \subseteq Apart'
<1>1. SUFFICES ASSUME NEW x \in Indexes(len), NEW y \in Indexes(len),
                      out[x] # out[y], Prohibited(out[x], out[y])
               PROVE  out'[x] # out'[y] /\ Prohibited(out[x], out[y])'
  BY DEF Apart, Unite
<1>2. PICK p \in Indexes(count), q \in Indexes(count) : p = out[x] /\ q = out[y]
  BY DEF Outputs
<1>3. out'[x] = NewIndex(p, a, b) /\ out'[y] = NewIndex(q, a, b)
  BY <1>2 DEF Unite
<1>4. /\ NewIndex(p, a, b) # NewIndex(q, a, b)
      /\ Prohibited(NewIndex(p, a, b), NewIndex(q, a, b))'
  BY <1>1, <1>2, SeparationIsKept
<1> QED
  BY <1>3, <1>4 DEF Prohibited

LEMMA UniteClustersKeepsApart ==
  ASSUME IInv, NEW i \in Indexes(len), NEW j \in Indexes(len),
         out[i] # out[j], ~Prohibited(out[i], out[j]), UniteClusters(i, j)
  PROVE  Apart \subseteq Apart'
<1>1. out[i] \in Indexes(count) /\ out[j] \in Indexes(count)
  BY DEF IInv, Outputs
<1>2. CASE out[i] < out[j]
  BY <1>1, <1>2, UniteKeepsApart DEF UniteClusters, IInv
<1>3. CASE out[j] < out[i]
  <2>1. Unite(out[j], out[i])
    BY <1>1, <1>3 DEF UniteClusters, IInv, Indexes, Sizes
  <2>2. ~Prohibited(out[j], out[i])
    BY <1>1, ProhibitedSymmetric DEF IInv
  <2> QED
    BY <1>1, <1>3, <2>1, <2>2, UniteKeepsApart DEF IInv
<1> QED
  BY <1>1, <1>2, <1>3 DEF Indexes, IInv, Sizes

\* A new flag takes none away.
LEMMA ProhibitMergeKeepsApart ==
  ASSUME IInv, NEW i \in Indexes(len), NEW j \in Indexes(len), ProhibitMerge(i, j)
  PROVE  Apart \subseteq Apart'
<1>1. /\ len' = len /\ out' = out
      /\ \A r \in Indexes(len) : prohibit[r] \subseteq prohibit'[r]
  BY DEF ProhibitMerge, IInv, Flags
<1>2. SUFFICES ASSUME NEW x \in Indexes(len), NEW y \in Indexes(len),
                      out[x] # out[y], Prohibited(out[x], out[y])
               PROVE  out'[x] # out'[y] /\ Prohibited(out[x], out[y])'
  BY <1>1 DEF Apart
<1>3. PICK p \in Indexes(len), q \in Indexes(len) : p = out[x] /\ q = out[y]
  <2>1. out[x] \in Indexes(count) /\ out[y] \in Indexes(count)
    BY DEF IInv, Outputs
  <2>2. Indexes(count) \subseteq Indexes(len)
    BY DEF IInv, Sizes, Indexes
  <2> QED
    BY <2>1, <2>2
<1>4. Prohibited(p, q)'
  <2>1. Prohibited(p, q)
    BY <1>2, <1>3
  <2> QED
    BY <1>1, <2>1 DEF Prohibited
<1>5. out'[x] = p /\ out'[y] = q
  BY <1>1, <1>3
<1> QED
  BY <1>2, <1>3, <1>4, <1>5 DEF Prohibited

\* Two clusters once separated are never merged, and never allowed to be, until
\* Reset, whatever Merge, ProhibitMerge and Combine calls come in between.
THEOREM SeparationHolds == BookSpec => SeparationIsForever
<1>1. ASSUME IInv, BookNext
      PROVE  (\E m \in 0 .. MaxLen : Reset(m)) \/ Apart \subseteq Apart'
  <2>1. ASSUME NEW i \in Indexes(len), NEW j \in Indexes(len), ProhibitMerge(i, j)
        PROVE  Apart \subseteq Apart'
    BY <1>1, <2>1, ProhibitMergeKeepsApart
  <2>2. ASSUME NEW i \in Indexes(len), NEW j \in Indexes(len), Merge(i, j)
        PROVE  Apart \subseteq Apart'
    BY <1>1, <2>2, UniteClustersKeepsApart DEF Merge
  <2>3. ASSUME NEW t \in Indexes(len), NEW x \in Indexes(len), CombineMerge(t, x)
        PROVE  Apart \subseteq Apart'
    <3>1. CASE UNCHANGED <<len, out, prohibit, count>>
      BY <3>1 DEF Apart, Prohibited
    <3>2. CASE out[x] # out[t] /\ ~Prohibited(out[t], out[x]) /\ UniteClusters(t, x)
      BY <1>1, <3>2, UniteClustersKeepsApart
    <3> QED
      BY <2>3, <3>1, <3>2 DEF CombineMerge
  <2>4. ASSUME NEW f, CombineBegin(f)
        PROVE  Apart \subseteq Apart'
    BY <2>4 DEF CombineBegin, Apart, Prohibited
  <2>5. ASSUME NEW t \in Indexes(len), NEW x \in Indexes(len), CombineThrow(t, x)
        PROVE  Apart \subseteq Apart'
    BY <2>5 DEF CombineThrow, Apart, Prohibited
  <2> QED
    BY <1>1, <2>1, <2>2, <2>3, <2>4, <2>5 DEF BookNext, Call, CombineStep
<1>2. IInv /\ [BookNext]_bookVars
        => [(\E m \in 0 .. MaxLen : Reset(m)) \/ Apart \subseteq Apart']_bookVars
  BY <1>1
<1> QED
  BY <1>2, Invariance, PTL DEF BookSpec, SeparationIsForever

(***************************************************************************)
(* The book keeper implements the partition with separated blocks.         *)
(***************************************************************************)

\* Two clusters are together after Unite if they were, or came from a and b.
LEMMA UniteJoinsSets ==
  ASSUME Sizes, Outputs, NEW a \in Indexes(count), NEW b \in Indexes(count), a < b,
         Unite(a, b), NEW x \in Indexes(len), NEW y \in Indexes(len)
  PROVE  out'[y] = out'[x] <=> out[y] = out[x] \/ (out[x] \in {a, b} /\ out[y] \in {a, b})
<1>1. out[x] \in Indexes(count) /\ out[y] \in Indexes(count)
  BY DEF Outputs
<1>2. out'[x] = NewIndex(out[x], a, b) /\ out'[y] = NewIndex(out[y], a, b)
  BY DEF Unite
<1> QED
  BY <1>1, <1>2 DEF NewIndex, Indexes, Sizes

\* The flags after Unite separate exactly the clusters whose new outputs hold
\* a pair that was separated before.
LEMMA UniteMovesApart ==
  ASSUME Sizes, Outputs, Flags, NEW a \in Indexes(count), NEW b \in Indexes(count), a < b,
         Unite(a, b), ~Prohibited(a, b), NEW x \in Indexes(len), NEW y \in Indexes(len)
  PROVE  <<x, y>> \in Apart' <=>
           \E u, v \in Indexes(len) : /\ out'[u] = out'[x] /\ out'[v] = out'[y]
                                 /\ <<u, v>> \in Apart
<1>1. /\ len' = len /\ count' = count - 1 /\ Sizes' /\ Outputs' /\ Flags'
      /\ \A u \in Indexes(len) : out[u] \in Indexes(count) /\ out'[u] \in Indexes(count')
      /\ \A u \in Indexes(len) : out'[u] = NewIndex(out[u], a, b)
  BY UniteNumbers, UniteFlags DEF Unite, Outputs
<1>2. ASSUME NEW u \in Indexes(len), NEW v \in Indexes(len), <<u, v>> \in Apart,
             out'[u] = out'[x], out'[v] = out'[y]
      PROVE  <<x, y>> \in Apart'
  <2>1. <<u, v>> \in Apart'
    BY <1>2, UniteKeepsApart
  <2>2. out'[u] # out'[v] /\ Prohibited(out[u], out[v])'
    BY <2>1 DEF Apart
  <2>3. out'[x] # out'[y] /\ Prohibited(out[x], out[y])'
    BY <1>2, <2>2 DEF Prohibited
  <2> QED
    BY <1>1, <2>3 DEF Apart
<1>3. ASSUME <<x, y>> \in Apart'
      PROVE  \E u, v \in Indexes(len) : /\ out'[u] = out'[x] /\ out'[v] = out'[y]
                                   /\ <<u, v>> \in Apart
  <2>1. PICK P \in Indexes(count - 1), Q \in Indexes(count - 1) : P = out'[x] /\ Q = out'[y]
    BY <1>1
  <2>2. P # Q /\ Prohibited(P, Q)'
    BY <1>3, <2>1 DEF Apart, Prohibited
  <2>3. PICK p \in Indexes(count), q \in Indexes(count) :
          NewIndex(p, a, b) = P /\ NewIndex(q, a, b) = Q /\ p # q /\ Prohibited(p, q)
    <3>1. CASE P < Q
      BY <2>2, <3>1, FlagHasOrigin DEF Prohibited
    <3>2. CASE Q < P
      <4>1. P - Q \in prohibit'[Q]
        BY <2>2, <3>2 DEF Prohibited, Indexes, Sizes
      <4>2. PICK q \in Indexes(count), p \in Indexes(count) :
              NewIndex(q, a, b) = Q /\ NewIndex(p, a, b) = P /\ q # p /\ Prohibited(q, p)
        BY <3>2, <4>1, FlagHasOrigin
      <4>3. Prohibited(p, q)
        BY <4>2, ProhibitedSymmetric
      <4> QED
        BY <4>2, <4>3
    <3> QED
      BY <2>2, <3>1, <3>2 DEF Indexes, Sizes
  <2>4. PICK u \in Indexes(len), v \in Indexes(len) : out[u] = p /\ out[v] = q
    BY DEF Outputs
  <2>5. <<u, v>> \in Apart
    BY <2>3, <2>4 DEF Apart
  <2> QED
    BY <1>1, <2>1, <2>3, <2>4, <2>5
<1> QED
  BY <1>2, <1>3

\* The part of Merge after its checks is a Join of the abstract partition.
LEMMA UniteImplementsJoin ==
  ASSUME IInv, NEW i \in Indexes(len), NEW j \in Indexes(len),
         NEW a \in Indexes(count), NEW b \in Indexes(count), a < b, {a, b} = {out[i], out[j]},
         Unite(a, b), ~Prohibited(a, b)
  PROVE  Partition!Join(i, j)
<1> USE DEF IInv
<1> DEFINE both == MergedSet(i) \cup MergedSet(j)
<1>1. len' = len
  BY DEF Unite
<1>2. \A x, y \in Indexes(len) :
        out'[y] = out'[x] <=> out[y] = out[x] \/ (out[x] \in {a, b} /\ out[y] \in {a, b})
  BY UniteJoinsSets
<1>3. \A y \in Indexes(len) : y \in both <=> out[y] \in {a, b}
  BY DEF MergedSet
<1>4. \A x \in Indexes(len) : MergedSet(x)' = IF x \in both THEN both ELSE MergedSet(x)
  <2>1. SUFFICES ASSUME NEW x \in Indexes(len)
                 PROVE  MergedSet(x)' = IF x \in both THEN both ELSE MergedSet(x)
    OBVIOUS
  <2>2. MergedSet(x)' = {y \in Indexes(len) : out'[y] = out'[x]}
    BY <1>1 DEF MergedSet
  <2>3. CASE x \in both
    <3>1. \A y \in Indexes(len) : out'[y] = out'[x] <=> y \in both
      BY <1>2, <1>3, <2>3
    <3> QED
      BY <2>2, <2>3, <3>1 DEF MergedSet
  <2>4. CASE x \notin both
    <3>1. \A y \in Indexes(len) : out'[y] = out'[x] <=> out[y] = out[x]
      BY <1>2, <1>3, <2>4
    <3> QED
      BY <2>2, <2>4, <3>1 DEF MergedSet
  <2> QED
    BY <2>3, <2>4
<1>5. Apart' = {p \in Indexes(len) \X Indexes(len) :
                  \E u \in MergedSet(p[1])', v \in MergedSet(p[2])' : <<u, v>> \in Apart}
  <2>1. \A x, y \in Indexes(len) :
          <<x, y>> \in Apart' <=>
            \E u, v \in Indexes(len) : out'[u] = out'[x] /\ out'[v] = out'[y] /\ <<u, v>> \in Apart
    BY UniteMovesApart
  <2>2. \A x, u \in Indexes(len) : u \in MergedSet(x)' <=> out'[u] = out'[x]
    BY <1>1 DEF MergedSet
  <2>3. \A x \in Indexes(len) : MergedSet(x)' \subseteq Indexes(len)
    BY <1>1 DEF MergedSet
  <2>4. Apart' \subseteq Indexes(len) \X Indexes(len)
    BY <1>1 DEF Apart
  <2>5. ASSUME NEW x \in Indexes(len), NEW y \in Indexes(len)
        PROVE  <<x, y>> \in Apart' <=>
                 \E u \in MergedSet(x)', v \in MergedSet(y)' : <<u, v>> \in Apart
    BY <2>1, <2>2, <2>3
  <2> DEFINE R == {p \in Indexes(len) \X Indexes(len) :
                    \E u \in MergedSet(p[1])', v \in MergedSet(p[2])' : <<u, v>> \in Apart}
  <2>6. R \subseteq Indexes(len) \X Indexes(len)
    OBVIOUS
  <2>7. ASSUME NEW x \in Indexes(len), NEW y \in Indexes(len)
        PROVE  <<x, y>> \in Apart' <=> <<x, y>> \in R
    BY <2>5
  <2> HIDE DEF R
  <2>8. Apart' = R
    BY <2>4, <2>6, <2>7
  <2> QED
    BY <2>8 DEF R
<1>6. MergedSet(i) # MergedSet(j) /\ <<i, j>> \notin Apart
  <2>1. out[i] # out[j] /\ ~Prohibited(out[i], out[j])
    <3>1. a # b /\ ~Prohibited(b, a)
      BY ProhibitedSymmetric DEF Indexes, Sizes
    <3>2. (a = out[i] /\ b = out[j]) \/ (a = out[j] /\ b = out[i])
      BY <3>1
    <3> QED
      BY <3>1, <3>2
  <2> QED
    BY <2>1 DEF MergedSet, Apart
<1> QED
  BY <1>1, <1>4, <1>5, <1>6 DEF Partition!Join, Partition!Clusters

LEMMA UniteClustersImplementsJoin ==
  ASSUME IInv, NEW i \in Indexes(len), NEW j \in Indexes(len),
         out[i] # out[j], ~Prohibited(out[i], out[j]), UniteClusters(i, j)
  PROVE  Partition!Join(i, j)
<1>1. PICK p \in Indexes(count), q \in Indexes(count) : p = out[i] /\ q = out[j]
  BY DEF IInv, Outputs
<1>2. CASE p < q
  BY <1>1, <1>2, UniteImplementsJoin DEF UniteClusters
<1>3. CASE q < p
  <2>1. Unite(q, p) /\ {q, p} = {out[i], out[j]}
    BY <1>1, <1>3 DEF UniteClusters, IInv, Indexes, Sizes
  <2>2. ~Prohibited(q, p)
    BY <1>1, ProhibitedSymmetric DEF IInv
  <2> QED
    BY <1>3, <2>1, <2>2, UniteImplementsJoin
<1> QED
  BY <1>1, <1>2, <1>3 DEF IInv, Indexes, Sizes

LEMMA ProhibitMergeImplementsSeparate ==
  ASSUME IInv, NEW i \in Indexes(len), NEW j \in Indexes(len), ProhibitMerge(i, j)
  PROVE  Partition!Separate(i, j)
<1> USE DEF IInv
<1>1. PICK a \in Indexes(count), b \in Indexes(count) :
        /\ a < b /\ {a, b} = {out[i], out[j]}
        /\ prohibit' = [prohibit EXCEPT ![a] = @ \cup {b - a}]
  <2>1. out[i] \in Indexes(count) /\ out[j] \in Indexes(count) /\ out[i] # out[j]
    BY DEF ProhibitMerge, Outputs
  <2>2. CASE out[i] < out[j]
    BY <2>1, <2>2 DEF ProhibitMerge
  <2>3. CASE out[j] < out[i]
    BY <2>1, <2>3 DEF ProhibitMerge, Indexes, Sizes
  <2>4. out[i] < out[j] \/ out[j] < out[i]
    BY <2>1 DEF Indexes, Sizes
  <2> QED
    BY <2>2, <2>3, <2>4
<1>2. len' = len /\ out' = out /\ MergedSet(i) # MergedSet(j)
  BY DEF ProhibitMerge, MergedSet
<1>3. \A p, q \in Indexes(count) :
        p # q => (Prohibited(p, q)' <=> Prohibited(p, q) \/ {p, q} = {a, b})
  <2>1. SUFFICES ASSUME NEW p \in Indexes(count), NEW q \in Indexes(count), p # q
                 PROVE  Prohibited(p, q)' <=> Prohibited(p, q) \/ {p, q} = {a, b}
    OBVIOUS
  <2>2. \A r \in Indexes(len) : prohibit'[r] = IF r = a THEN prohibit[a] \cup {b - a} ELSE prohibit[r]
    BY <1>1 DEF Flags
  <2>3. p \in Indexes(len) /\ q \in Indexes(len)
    BY DEF Indexes, Sizes
  <2>4. CASE p < q
    <3>1. {p, q} = {a, b} <=> p = a /\ q - p = b - a
      <4>1. {p, q} = {a, b} <=> (p = a /\ q = b) \/ (p = b /\ q = a)
        OBVIOUS
      <4> QED
        BY <4>1, <1>1, <2>4 DEF Indexes, Sizes
    <3>2. Prohibited(p, q)' <=> q - p \in prohibit'[p]
      BY <2>4 DEF Prohibited
    <3> QED
      BY <2>2, <2>3, <2>4, <3>1, <3>2 DEF Prohibited
  <2>5. CASE q < p
    <3>1. {p, q} = {a, b} <=> q = a /\ p - q = b - a
      <4>1. {p, q} = {a, b} <=> (p = a /\ q = b) \/ (p = b /\ q = a)
        OBVIOUS
      <4> QED
        BY <4>1, <1>1, <2>5 DEF Indexes, Sizes
    <3>2. Prohibited(p, q)' <=> p - q \in prohibit'[q]
      BY <2>5 DEF Prohibited, Indexes, Sizes
    <3>3. Prohibited(p, q) <=> p - q \in prohibit[q]
      BY <2>5 DEF Prohibited, Indexes, Sizes
    <3> QED
      BY <2>2, <2>3, <3>1, <3>2, <3>3
  <2> QED
    BY <2>1, <2>4, <2>5 DEF Indexes, Sizes
<1>4. \A x, y \in Indexes(len) :
        <<x, y>> \in Apart' <=>
          \/ <<x, y>> \in Apart
          \/ out[x] # out[y] /\ {out[x], out[y]} = {a, b}
  <2>1. SUFFICES ASSUME NEW x \in Indexes(len), NEW y \in Indexes(len)
                 PROVE  <<x, y>> \in Apart' <=>
                          \/ <<x, y>> \in Apart
                          \/ out[x] # out[y] /\ {out[x], out[y]} = {a, b}
    OBVIOUS
  <2>2. PICK p \in Indexes(count), q \in Indexes(count) : p = out[x] /\ q = out[y]
    BY DEF Outputs
  <2>3. <<x, y>> \in Apart' <=> p # q /\ Prohibited(p, q)'
    BY <1>2, <2>2 DEF Apart, Prohibited
  <2>4. <<x, y>> \in Apart <=> p # q /\ Prohibited(p, q)
    BY <2>2 DEF Apart
  <2> QED
    BY <1>3, <2>2, <2>3, <2>4
<1>5. \A x, y \in Indexes(len) :
        out[x] # out[y] /\ {out[x], out[y]} = {a, b} <=>
          \/ x \in MergedSet(i) /\ y \in MergedSet(j)
          \/ x \in MergedSet(j) /\ y \in MergedSet(i)
  BY <1>1, <1>2 DEF MergedSet, Indexes, Sizes
<1>6. Apart' = Apart \cup (MergedSet(i) \X MergedSet(j)) \cup (MergedSet(j) \X MergedSet(i))
  <2>1. Apart \subseteq Indexes(len) \X Indexes(len) /\ Apart' \subseteq Indexes(len) \X Indexes(len)
    BY <1>2 DEF Apart
  <2>2. MergedSet(i) \subseteq Indexes(len) /\ MergedSet(j) \subseteq Indexes(len)
    BY DEF MergedSet
  <2>3. ASSUME NEW x \in Indexes(len), NEW y \in Indexes(len)
        PROVE  <<x, y>> \in Apart' <=>
                 \/ <<x, y>> \in Apart
                 \/ x \in MergedSet(i) /\ y \in MergedSet(j)
                 \/ x \in MergedSet(j) /\ y \in MergedSet(i)
    BY <1>4, <1>5
  <2> QED
    BY <2>1, <2>2, <2>3
<1>7. UNCHANGED [x \in Indexes(len) |-> MergedSet(x)]
  BY <1>2 DEF MergedSet
<1> QED
  BY <1>2, <1>6, <1>7 DEF Partition!Separate

LEMMA ResetImplementsRestart ==
  ASSUME NEW m \in 0 .. MaxLen, Reset(m)
  PROVE  Partition!Restart(m)
<1>1. len' = m /\ out' = [x \in Indexes(m) |-> x] /\ prohibit' = [r \in Indexes(m) |-> {}]
  BY DEF Reset
<1>2. \A x \in Indexes(m) : MergedSet(x)' = {x}
  BY <1>1 DEF MergedSet
<1>3. Apart' = {}
  BY <1>1 DEF Apart, Prohibited
<1> QED
  BY <1>1, <1>2, <1>3 DEF Partition!Restart, Indexes

\* A call that leaves numbering and flags alone is invisible to the partition.
LEMMA UnchangedStutters ==
  UNCHANGED <<len, out, prohibit>> => UNCHANGED Partition!pvars
BY DEF Partition!pvars, MergedSet, Apart, Prohibited

\* Every behaviour of the index-and-triangle book keeper is one of the abstract
\* partition: Merge is Join, ProhibitMerge is Separate, a Combine is a series of
\* Joins, and nothing else changes what GetMergedSet and MergeAllowed answer.
THEOREM Refinement == BookSpec => ImplementsPartition
<1>1. BookInit => Partition!Init
  <2> SUFFICES ASSUME BookInit PROVE Partition!Init
    OBVIOUS
  <2>1. \A x \in Indexes(len) : MergedSet(x) = {x}
    BY DEF BookInit, MergedSet
  <2>2. Apart = {}
    BY DEF BookInit, Apart, Prohibited
  <2> QED
    BY <2>1, <2>2 DEF BookInit, Partition!Init, Partition!Empty, Indexes
<1>2. ASSUME IInv, [BookNext]_bookVars
      PROVE  [Partition!Next]_(Partition!pvars)
  <2>0. DOMAIN [x \in Indexes(len) |-> MergedSet(x)] = Indexes(len)
    OBVIOUS
  <2>1. ASSUME NEW m \in 0 .. MaxLen, Reset(m)
        PROVE  Partition!Next
    BY <2>1, ResetImplementsRestart DEF Partition!Next
  <2>2. ASSUME NEW i \in Indexes(len), NEW j \in Indexes(len), ProhibitMerge(i, j)
        PROVE  Partition!Next
    BY <1>2, <2>2, <2>0, ProhibitMergeImplementsSeparate DEF Partition!Next, Partition!Clusters
  <2>3. ASSUME NEW i \in Indexes(len), NEW j \in Indexes(len),
               out[i] # out[j], ~Prohibited(out[i], out[j]), UniteClusters(i, j)
        PROVE  Partition!Next
    BY <1>2, <2>3, <2>0, UniteClustersImplementsJoin DEF Partition!Next, Partition!Clusters
  <2>4. CASE UNCHANGED <<len, out, prohibit>>
    BY <2>4, UnchangedStutters
  <2>5. ASSUME NEW t \in Indexes(len), NEW x \in Indexes(len), CombineMerge(t, x)
        PROVE  [Partition!Next]_(Partition!pvars)
    BY <2>3, <2>4, <2>5 DEF CombineMerge
  <2> QED
    BY <1>2, <2>1, <2>2, <2>3, <2>4, <2>5
    DEF BookNext, Call, CombineStep, bookVars, Merge, CombineBegin, CombineThrow
<1> QED
  BY <1>1, <1>2, Invariance, PTL DEF BookSpec, ImplementsPartition, Partition!Spec

-------------------------------------------------------------------------------
(***************************************************************************)
(* What Combine makes of two book keepers: the composition of their        *)
(* numberings, also where Merge renumbers the outputs under the loops that *)
(* go through them.  The loops are followed with an invariant; that the    *)
(* numbers come out right in the end is because only one numbering of      *)
(* given output clusters is in order.                                      *)
(***************************************************************************)
-------------------------------------------------------------------------------
(* Numberings in order.                                                    *)

\* Two numberings in order that put the same clusters together are the same.
LEMMA OneNumbering ==
  ASSUME NEW m \in Nat, NEW f \in [Indexes(m) -> Nat], NEW g \in [Indexes(m) -> Nat],
         InOrder(f), InOrder(g),
         \A x, y \in Indexes(m) : (f[x] = f[y]) <=> (g[x] = g[y])
  PROVE  f = g
<1>. DEFINE differs == {x \in Indexes(m) : f[x] # g[x]}
<1>1. SUFFICES ASSUME differs # {} PROVE FALSE
  OBVIOUS
<1>2. differs \in SUBSET Nat
  BY DEF Indexes
<1>3. PICK x \in differs : \A y \in differs : x <= y
  BY <1>1, <1>2, LeastNumber
<1>4. /\ x \in Indexes(m) /\ f[x] # g[x] /\ f[x] \in Nat /\ g[x] \in Nat
      /\ Indexes(x) \subseteq Indexes(m)
      /\ \A y \in Indexes(x) : f[y] = g[y]
  <2>1. x \in Indexes(m) /\ x \in Nat /\ Indexes(x) \subseteq Indexes(m)
    BY DEF Indexes
  <2>2. ASSUME NEW y \in Indexes(x), f[y] # g[y] PROVE FALSE
    <3>1. y \in differs /\ y < x /\ y \in Nat
      BY <2>1, <2>2 DEF Indexes
    <3>. QED
      BY <1>3, <2>1, <3>1
  <2>. QED
    BY <2>1, <2>2
<1>5. CASE f[x] < g[x]
  <2>1. PICK y \in Indexes(x) : g[y] = f[x]
    <3>1. f[x] \in Indexes(g[x])
      BY <1>4, <1>5 DEF Indexes
    <3>2. DOMAIN g = Indexes(m)
      OBVIOUS
    <3>. QED
      BY <1>4, <3>1, <3>2 DEF InOrder
  <2>2. f[y] = f[x] /\ y \in Indexes(m)
    BY <1>4, <2>1
  <2>3. g[y] = g[x]
    BY <1>4, <2>2
  <2>. QED
    BY <1>4, <2>1, <2>3
<1>6. CASE g[x] < f[x]
  <2>1. PICK y \in Indexes(x) : f[y] = g[x]
    <3>1. g[x] \in Indexes(f[x])
      BY <1>4, <1>6 DEF Indexes
    <3>2. DOMAIN f = Indexes(m)
      OBVIOUS
    <3>. QED
      BY <1>4, <3>1, <3>2 DEF InOrder
  <2>2. g[y] = g[x] /\ y \in Indexes(m)
    BY <1>4, <2>1
  <2>3. f[y] = f[x]
    BY <1>4, <2>2
  <2>. QED
    BY <1>4, <2>1, <2>3
<1>. QED
  BY <1>4, <1>5, <1>6

\* A numbering of a numbering's results is one of the clusters themselves.
LEMMA ComposedInOrder ==
  ASSUME NEW m \in Nat, NEW c \in Nat, NEW k \in Nat,
         NEW f \in Numbering(m, c), NEW g \in Numbering(c, k)
  PROVE  /\ [x \in Indexes(m) |-> g[f[x]]] \in [Indexes(m) -> Nat]
         /\ InOrder([x \in Indexes(m) |-> g[f[x]]])
<1>. DEFINE h == [x \in Indexes(m) |-> g[f[x]]]
<1>1. /\ f \in [Indexes(m) -> Indexes(c)] /\ InOrder(f)
      /\ g \in [Indexes(c) -> Indexes(k)] /\ InOrder(g)
  BY DEF Numbering
<1>2. \A x \in Indexes(m) : f[x] \in Indexes(c) /\ g[f[x]] \in Nat
  BY <1>1 DEF Indexes
<1>3. ASSUME NEW x \in Indexes(m), NEW j \in Indexes(h[x])
      PROVE  \E y \in Indexes(x) : h[y] = j
  <2>1. PICK i \in Indexes(f[x]) : g[i] = j
    BY <1>1, <1>2 DEF InOrder
  <2>2. PICK y \in Indexes(x) : f[y] = i
    BY <1>1, <2>1 DEF InOrder
  <2>3. y \in Indexes(m)
    BY DEF Indexes
  <2>. QED
    BY <2>1, <2>2, <2>3
<1>. QED
  BY <1>2, <1>3 DEF InOrder

-------------------------------------------------------------------------------
(* The invariant of a Combine.                                             *)

\* What it was called with.
Called ==
  \E c, k \in Nat : base \in Numbering(len, c) /\ other \in Numbering(c, k)

\* What was together stays together, and nothing else comes together than asked.
Between ==
  \A x, y \in Indexes(len) :
    /\ base[x] = base[y] => out[x] = out[y]
    /\ out[x] = out[y] => SameGroup(x, y)

\* A cluster that the loops have been through is with the target of its group; the
\* others that they do not go through are of a result that stays as it is.
Gathered(x) ==
  \/ \E t \in Indexes(len) : IsTarget(t, x) /\ out[x] = out[t]
  \/ \A y \in Indexes(len) : SameGroup(x, y) => base[x] = base[y]

CInv ==
  /\ combine # "idle" => Called /\ Between
  /\ combine \in {"running", "done"} => \A x \in Indexes(len) \ todo : Gathered(x)
  /\ combine = "done" => todo = {}

LEMMA CombineBeginStep ==
  ASSUME IInv, NEW k \in Indexes(count), NEW f \in Numbering(count, k), CombineBegin(f)
  PROVE  CInv'
<1>1. /\ len' = len /\ out' = out /\ base' = out /\ other' = f /\ combine' = "running"
      /\ todo' = {x \in Indexes(len) : \E y \in Indexes(len) : f[out[y]] = f[out[x]] /\ out[y] # out[x]}
  BY DEF CombineBegin
<1>2. Called'
  <2>1. count \in Nat /\ k \in Nat
    BY DEF IInv, Sizes, Indexes
  <2>2. out \in Numbering(len, count)
    BY DEF IInv, Outputs, Numbering
  <2>. QED
    BY <1>1, <2>1, <2>2 DEF Called
<1>3. Between'
  BY <1>1 DEF Between, SameGroup
<1>4. \A x \in Indexes(len) \ todo' : Gathered(x)'
  BY <1>1 DEF Gathered, SameGroup
<1>. QED
  BY <1>1, <1>2, <1>3, <1>4 DEF CInv

\* Only one cluster is the target of a group.
LEMMA OneTarget ==
  ASSUME Called, len \in Nat, NEW x \in Indexes(len), NEW y \in Indexes(len), SameGroup(x, y),
         NEW t \in Indexes(len), IsTarget(t, x), NEW u \in Indexes(len), IsTarget(u, y)
  PROVE  t = u
<1>1. base[t] \in Nat /\ base[u] \in Nat /\ t \in Nat /\ u \in Nat
  <2>1. PICK c \in Nat : base \in [Indexes(len) -> Indexes(c)]
    BY DEF Called, Numbering
  <2>. QED
    BY <2>1 DEF Indexes
<1>2. SameGroup(t, y) /\ SameGroup(u, x) /\ SameGroup(t, x) /\ SameGroup(u, y)
  BY DEF IsTarget, SameGroup
<1>3. base[t] < base[u] \/ (base[t] = base[u] /\ t <= u)
  BY <1>2 DEF IsTarget
<1>4. base[u] < base[t] \/ (base[u] = base[t] /\ u <= t)
  BY <1>2 DEF IsTarget
<1>. QED
  BY <1>1, <1>3, <1>4

\* One call of Merge brings one group's cluster to its target.
LEMMA CombineMergeStep ==
  ASSUME IInv, CInv, NEW t \in Indexes(len), NEW x \in Indexes(len), CombineMerge(t, x)
  PROVE  CInv'
<1>1. /\ combine = "running" /\ combine' \in {"running", "done"}
      /\ todo' = todo \ {x} /\ (combine' = "done" => todo' = {})
      /\ IsTarget(t, x) /\ SameGroup(t, x) /\ UNCHANGED <<base, other>>
  BY DEF CombineMerge, IsTarget
<1>2. Called /\ Between /\ \A y \in Indexes(len) \ todo : Gathered(y)
  BY <1>1 DEF CInv
<1>3. len' = len /\ \A y, z \in Indexes(len) :
                  out'[y] = out'[z] <=>
                    \/ out[y] = out[z]
                    \/ out[y] \in {out[t], out[x]} /\ out[z] \in {out[t], out[x]}
  <2>1. CASE out[x] = out[t] /\ UNCHANGED <<len, out>>
    BY <2>1
  <2>2. CASE out[x] # out[t] /\ UniteClusters(t, x)
    <3>1. PICK a \in Indexes(count), b \in Indexes(count) :
            a < b /\ {a, b} = {out[t], out[x]} /\ Unite(a, b)
      <4>1. out[t] \in Indexes(count) /\ out[x] \in Indexes(count)
        BY DEF IInv, Outputs
      <4>2. CASE out[t] < out[x]
        BY <2>2, <4>1, <4>2 DEF UniteClusters
      <4>3. CASE out[x] < out[t]
        BY <2>2, <4>1, <4>3 DEF UniteClusters, Indexes, IInv, Sizes
      <4>. QED
        BY <2>2, <4>1, <4>2, <4>3 DEF Indexes, IInv, Sizes
    <3>2. len' = len
      BY <3>1 DEF Unite
    <3>3. ASSUME NEW y \in Indexes(len), NEW z \in Indexes(len)
          PROVE  out'[y] = out'[z] <=>
                   \/ out[y] = out[z]
                   \/ out[y] \in {a, b} /\ out[z] \in {a, b}
      BY <3>1, <3>3, UniteJoinsSets DEF IInv
    <3>. QED
      BY <3>1, <3>2, <3>3
  <2>. QED
    BY <2>1, <2>2 DEF CombineMerge
<1>4. Called' /\ \A y, z \in Indexes(len) : SameGroup(y, z)' <=> SameGroup(y, z)
  BY <1>1, <1>2, <1>3 DEF Called, SameGroup
<1>5. Between'
  <2>1. ASSUME NEW y \in Indexes(len), NEW z \in Indexes(len), out'[y] = out'[z]
        PROVE  SameGroup(y, z)
    <3>1. ASSUME NEW v \in Indexes(len), out[v] \in {out[t], out[x]}
          PROVE  SameGroup(v, x)
      BY <1>1, <1>2, <3>1 DEF Between, SameGroup
    <3>. QED
      BY <1>2, <1>3, <2>1, <3>1 DEF Between, SameGroup
  <2>. QED
    BY <1>1, <1>2, <1>3, <1>4, <2>1 DEF Between
<1>6. \A y, u \in Indexes(len) : IsTarget(u, y)' <=> IsTarget(u, y)
  BY <1>1, <1>3 DEF IsTarget, SameGroup
<1>7. ASSUME NEW y \in Indexes(len) \ todo'
      PROVE  Gathered(y)'
  <2>1. CASE y = x
    BY <1>1, <1>3, <1>6, <2>1 DEF Gathered
  <2>2. CASE y # x
    <3>1. Gathered(y)
      BY <1>1, <1>2, <2>2
    <3>. QED
      BY <1>1, <1>3, <1>4, <1>6, <3>1 DEF Gathered
  <2>. QED
    BY <2>1, <2>2
<1>. QED
  BY <1>1, <1>3, <1>4, <1>5, <1>7 DEF CInv

LEMMA CombineStepKeeps == IInv /\ CInv /\ [BookNext]_bookVars => CInv'
<1>. SUFFICES ASSUME IInv, CInv, [BookNext]_bookVars PROVE CInv'
  OBVIOUS
<1>1. CASE Call
  BY <1>1 DEF Call, Reset, ProhibitMerge, Merge, NoCombine, CInv
<1>2. CASE \E k \in Indexes(count) : \E f \in Numbering(count, k) : CombineBegin(f)
  BY <1>2, CombineBeginStep
<1>3. CASE \E t, x \in Indexes(len) : CombineMerge(t, x)
  BY <1>3, CombineMergeStep
<1>4. CASE \E t, x \in Indexes(len) : CombineThrow(t, x)
  <2>1. /\ UNCHANGED <<len, out, base, other>> /\ combine = "running" /\ combine' = "thrown"
    BY <1>4 DEF CombineThrow
  <2>. QED
    BY <2>1 DEF CInv, Called, Between, SameGroup
<1>5. CASE UNCHANGED bookVars
  BY <1>5 DEF bookVars, CInv, Called, Between, Gathered, SameGroup, IsTarget
<1>. QED
  BY <1>1, <1>2, <1>3, <1>4, <1>5 DEF BookNext, CombineStep

-------------------------------------------------------------------------------
\* At the end of the loops each group is one output cluster.
LEMMA GroupsAreOutputs ==
  ASSUME IInv, CInv, combine = "done", NEW x \in Indexes(len), NEW y \in Indexes(len)
  PROVE  out[x] = out[y] <=> SameGroup(x, y)
<1>1. Called /\ Between /\ Gathered(x) /\ Gathered(y) /\ len \in Nat
  BY DEF CInv, IInv, Sizes
<1>2. ASSUME SameGroup(x, y) PROVE out[x] = out[y]
  <2>1. CASE base[x] = base[y]
    BY <1>1, <2>1 DEF Between
  <2>2. CASE base[x] # base[y]
    <3>1. SameGroup(y, x)
      BY <1>2 DEF SameGroup
    <3>2. PICK t \in Indexes(len) : IsTarget(t, x) /\ out[x] = out[t]
      BY <1>1, <1>2, <2>2 DEF Gathered
    <3>3. PICK u \in Indexes(len) : IsTarget(u, y) /\ out[y] = out[u]
      BY <1>1, <2>2, <3>1 DEF Gathered
    <3>. QED
      BY <1>1, <1>2, <3>2, <3>3, OneTarget
  <2>. QED
    BY <2>1, <2>2
<1>. QED
  BY <1>1, <1>2 DEF Between

\* Combine never splits a result nor merges what was not asked for, not even when
\* it throws, and one that returns has composed the two numberings.
THEOREM CombineAlwaysComposes == BookSpec => []CombineComposes
<1>1. BookInit => CInv
  BY DEF BookInit, CInv
<1>2. IInv /\ CInv => CombineComposes
  <2>. SUFFICES ASSUME IInv, CInv PROVE CombineComposes
    OBVIOUS
  <2>1. ASSUME combine = "done" PROVE \A x \in Indexes(len) : out[x] = other[base[x]]
    <3>1. PICK c \in Nat, k \in Nat : base \in Numbering(len, c) /\ other \in Numbering(c, k)
      BY <2>1 DEF CInv, Called
    <3>. DEFINE composed == [x \in Indexes(len) |-> other[base[x]]]
    <3>2. /\ len \in Nat /\ out \in [Indexes(len) -> Nat] /\ InOrder(out)
          /\ composed \in [Indexes(len) -> Nat] /\ InOrder(composed)
      <4>1. len \in Nat /\ out \in [Indexes(len) -> Nat] /\ InOrder(out)
        BY DEF IInv, Sizes, Outputs, Indexes
      <4>. QED
        BY <3>1, <4>1, ComposedInOrder
    <3>3. \A x, y \in Indexes(len) : out[x] = out[y] <=> composed[x] = composed[y]
      BY <2>1, GroupsAreOutputs DEF SameGroup
    <3>. HIDE DEF composed
    <3>4. out = composed
      BY <3>2, <3>3, OneNumbering
    <3>. QED
      BY <3>4 DEF composed
  <2>2. combine # "idle" => Between
    BY DEF CInv
  <2>. QED
    BY <2>1, <2>2 DEF CombineComposes, Between
<1>. QED
  BY <1>1, <1>2, CombineStepKeeps, Invariance, PTL DEF BookSpec

(***************************************************************************)
(*                               The manager                               *)
(***************************************************************************)

\* The parts of its invariant are about vectors of clusters, block by block, so they
\* are operators of their arguments and not of the state.

-------------------------------------------------------------------------------
(* Vectors, and the members of a set of indexes in order.                  *)

Vectors(V) == UNION {[Index(m) -> V] : m \in Nat}

LEMMA VectorSize ==
  ASSUME NEW V, NEW f \in Vectors(V)
  PROVE  /\ Size(f) \in Nat /\ DOMAIN f = Index(Size(f)) /\ IsFiniteSet(DOMAIN f)
         /\ f \in [Index(Size(f)) -> V]
<1>. PICK m \in Nat : f \in [Index(m) -> V]
  BY DEF Vectors
<1>1. IsFiniteSet(0 .. m - 1) /\ Cardinality(0 .. m - 1) = m
  BY FS_Interval
<1>. QED
  BY <1>1 DEF Size, Index

\* The indexes of S in increasing order are Nth(S, 1), Nth(S, 2), ...
LEMMA NthOf ==
  ASSUME NEW S \in SUBSET Nat, IsFiniteSet(S)
  PROVE  /\ \A k \in 1 .. Cardinality(S) : Nth(S, k) \in S
         /\ \A k, l \in 1 .. Cardinality(S) : Nth(S, k) = Nth(S, l) => k = l
         /\ \A i \in S : \E k \in 1 .. Cardinality(S) : Nth(S, k) = i
BY KthSmallestOf DEF Nth, KthSmallest

-------------------------------------------------------------------------------
(* What becomes of a group: one of its clusters alone, or all of them joined. *)

Cluster(V) == [plane : Nat, hits : Seq(V)]

Grouped(S) == IF Cardinality(S) = 1 THEN current[Min(S)] ELSE Joined(S)

LEMMA JoinedHits ==
  ASSUME NEW V, current \in Vectors(Cluster(V)),
         NEW S \in SUBSET DOMAIN current, S # {}
  PROVE  /\ Joined(S) \in Cluster(V)
         /\ Joined(S).plane = current[Min(S)].plane
         /\ \A v : v \in Parts(Joined(S)) <=> \E i \in S : v \in Parts(current[i])
         /\ \A v : \A i \in S :
              (\A l \in S \ {i} : v \notin Parts(current[l]))
                => Cardinality(HitsFrom(Joined(S), v)) = Cardinality(HitsFrom(current[i], v))
<1>. DEFINE n == Cardinality(S)
            s == [k \in 1 .. n |-> current[Nth(S, k)].hits]
<1>1. /\ Size(current) \in Nat /\ DOMAIN current = Index(Size(current))
      /\ IsFiniteSet(DOMAIN current)
      /\ \A i \in DOMAIN current : current[i] \in Cluster(V)
  BY VectorSize
<1>2. S \in SUBSET Nat /\ IsFiniteSet(S) /\ n \in Nat
  BY <1>1, FS_Subset, FS_CardinalityType DEF Index
<1>3. Min(S) \in S
  BY <1>2, MinOf
<1>4. /\ \A k \in 1 .. n : Nth(S, k) \in S
      /\ \A k, l \in 1 .. n : Nth(S, k) = Nth(S, l) => k = l
      /\ \A i \in S : \E k \in 1 .. n : Nth(S, k) = i
  BY <1>2, NthOf
<1>5. s \in [1 .. n -> Seq(V)]
  BY <1>1, <1>4 DEF Cluster
<1>6. Joined(S) = [plane |-> current[Min(S)].plane, hits |-> FlattenSeq(s)]
  BY DEF Joined
<1>7. \A k \in 1 .. n : s[k] = current[Nth(S, k)].hits
  OBVIOUS
<1>. HIDE DEF s, n
<1>8. /\ FlattenSeq(s) \in Seq(V)
      /\ \A v : v \in Range(FlattenSeq(s)) <=> \E k \in 1 .. n : v \in Range(s[k])
  BY <1>2, <1>5, FlattenRange
<1>9. Joined(S) \in Cluster(V) /\ Joined(S).plane = current[Min(S)].plane
  BY <1>1, <1>3, <1>6, <1>8 DEF Cluster
<1>10. ASSUME NEW v PROVE v \in Parts(Joined(S)) <=> \E i \in S : v \in Parts(current[i])
  BY <1>4, <1>6, <1>7, <1>8 DEF Parts
<1>11. ASSUME NEW v, NEW i \in S, \A l \in S \ {i} : v \notin Parts(current[l])
       PROVE  Cardinality(HitsFrom(Joined(S), v)) = Cardinality(HitsFrom(current[i], v))
  <2>1. PICK j \in 1 .. n : Nth(S, j) = i
    BY <1>4
  <2>2. ASSUME NEW k \in 1 .. n, k # j PROVE v \notin Range(s[k])
    <3>1. Nth(S, k) \in S \ {i}
      BY <1>4, <2>1, <2>2
    <3>2. v \notin Parts(current[Nth(S, k)])
      BY <1>11, <3>1
    <3>. QED
      BY <1>7, <3>2 DEF Parts
  <2>3. OnlyIn(s, v, j)
    BY <1>5, <2>2 DEF OnlyIn
  <2>4. Cardinality(Places(FlattenSeq(s), v)) = Cardinality(Places(s[j], v))
    BY <1>2, <1>5, <2>3, FlattenPlaces
  <2>5. HitsFrom(Joined(S), v) = Places(FlattenSeq(s), v)
    BY <1>6 DEF HitsFrom, Places
  <2>6. HitsFrom(current[i], v) = Places(s[j], v)
    BY <1>7, <2>1 DEF HitsFrom, Places
  <2>. QED
    BY <2>4, <2>5, <2>6
<1>. QED
  BY <1>9, <1>10, <1>11

LEMMA GroupedHits ==
  ASSUME NEW V, current \in Vectors(Cluster(V)),
         NEW S \in SUBSET DOMAIN current, S # {}
  PROVE  /\ Grouped(S) \in Cluster(V)
         /\ Grouped(S).plane = current[Min(S)].plane /\ Min(S) \in S
         /\ \A v : v \in Parts(Grouped(S)) <=> \E i \in S : v \in Parts(current[i])
         /\ \A v : \A i \in S :
              (\A l \in S \ {i} : v \notin Parts(current[l]))
                => Cardinality(HitsFrom(Grouped(S), v)) = Cardinality(HitsFrom(current[i], v))
         /\ Cardinality(S) = 1 => S = {Min(S)} /\ Grouped(S) = current[Min(S)]
<1>1. /\ DOMAIN current = Index(Size(current)) /\ IsFiniteSet(DOMAIN current)
      /\ Size(current) \in Nat
      /\ \A i \in DOMAIN current : current[i] \in Cluster(V)
  BY VectorSize
<1>2. S \in SUBSET Nat /\ IsFiniteSet(S)
  BY <1>1, FS_Subset DEF Index
<1>3. Min(S) \in S
  BY <1>2, MinOf
<1>4. CASE Cardinality(S) = 1
  <2>1. S = {Min(S)} /\ Grouped(S) = current[Min(S)]
    BY <1>2, <1>3, <1>4, FS_Singleton DEF Grouped
  <2>. QED
    BY <1>1, <1>3, <2>1
<1>5. CASE Cardinality(S) # 1
  <2>1. Grouped(S) = Joined(S)
    BY <1>5 DEF Grouped
  <2>. QED
    BY <1>3, <1>5, <2>1, JoinedHits
<1>. QED
  BY <1>4, <1>5

-------------------------------------------------------------------------------
(* The results of an iteration's book keeper.                              *)

\* block splits 0 .. m-1.
Splits(b, m) ==
  /\ b \in [Index(m) -> SUBSET Index(m)]
  /\ \A x \in Index(m) : x \in b[x]
  /\ \A x \in Index(m) : \A y \in b[x] : b[y] = b[x]

\* r lists the blocks, each once.
Lists(r, b, m) ==
  /\ Size(r) \in 0 .. m /\ r \in [Index(Size(r)) -> SUBSET Index(m)]
  /\ \A k \in Index(Size(r)) : \E x \in Index(m) : r[k] = b[x]
  /\ \A x \in Index(m) : \E k \in Index(Size(r)) : r[k] = b[x]
  /\ \A k, l \in Index(Size(r)) : r[k] = r[l] => k = l
  /\ Size(r) = m => \A x \in Index(m) : b[x] = {x}

LEMMA PassResultLists ==
  ASSUME NEW m \in Nat, Splits(block, m)
  PROVE  Lists(PassResult, block, m)
<1>. DEFINE blocks == {block[x] : x \in Index(m)}
            q == Cardinality(blocks)
            f == [x \in Index(m) |-> block[x]]
            L == {p \in blocks \X blocks : Before(p[1], p[2])}
            r == [k \in Index(q) |-> CHOOSE B \in blocks : Cardinality({A \in blocks : Before(A, B)}) = k]
<1>1. PassResult = r
  <2>1. DOMAIN block = Index(m)
    BY DEF Splits
  <2>. QED
    BY <2>1 DEF PassResult, BK!Clusters
<1>2. IsFiniteSet(Index(m)) /\ Cardinality(Index(m)) = m
  BY FS_Interval DEF Index
<1>3. /\ IsFiniteSet(blocks) /\ q \in Nat /\ q <= m
      /\ q = m => \A x, y \in Index(m) : block[x] = block[y] => x = y
  <2>1. f \in Surjection(Index(m), blocks)
    BY DEF Surjection
  <2>2. /\ IsFiniteSet(blocks) /\ q <= m
        /\ q = m => f \in Injection(Index(m), blocks)
    <3>. HIDE DEF f, blocks
    <3>. QED
      BY <1>2, <2>1, FS_Surjection
  <2>3. q \in Nat
    <3>. HIDE DEF blocks
    <3>. QED
      BY <2>2, FS_CardinalityType
  <2>4. f \in Injection(Index(m), blocks)
          => \A x, y \in Index(m) : block[x] = block[y] => x = y
    BY DEF Injection, IsInjective
  <2>. HIDE DEF q, f
  <2>. QED
    BY <2>2, <2>3, <2>4
<1>4. TotalOrder(blocks, L)
  <2>1. ASSUME NEW B \in blocks
        PROVE  B \in SUBSET Nat /\ Min(B) \in B /\ \A b \in B : Min(B) <= b
    <3>1. B \in SUBSET Nat /\ B # {}
      BY DEF Splits, Index
    <3>. QED
      BY <3>1, MinOf
  <2>2. ASSUME NEW A \in blocks, NEW B \in blocks
        PROVE  /\ Before(A, B) <=> Min(A) < Min(B)
               /\ A # B => Min(A) # Min(B)
    <3>1. /\ A \in SUBSET Nat /\ Min(A) \in A /\ \A b \in A : Min(A) <= b
          /\ B \in SUBSET Nat /\ Min(B) \in B /\ \A b \in B : Min(B) <= b
      BY <2>1
    <3>2. Before(A, B) => Min(A) < Min(B)
      <4>. SUFFICES ASSUME Before(A, B) PROVE Min(A) < Min(B)
        OBVIOUS
      <4>1. PICK a \in A : \A b \in B : a < b
        BY DEF Before
      <4>2. Min(A) <= a /\ a < Min(B) /\ a \in Nat /\ Min(A) \in Nat /\ Min(B) \in Nat
        BY <3>1, <4>1
      <4>. QED
        BY <4>2
    <3>3. Min(A) < Min(B) => Before(A, B)
      <4>. SUFFICES ASSUME Min(A) < Min(B) PROVE Before(A, B)
        OBVIOUS
      <4>1. ASSUME NEW b \in B PROVE Min(A) < b
        <5>1. Min(B) <= b /\ b \in Nat /\ Min(A) \in Nat /\ Min(B) \in Nat
          BY <3>1
        <5>. QED
          BY <5>1
      <4>. QED
        BY <3>1, <4>1 DEF Before
    <3>4. ASSUME Min(A) = Min(B) PROVE A = B
      BY <3>1, <3>4 DEF Splits
    <3>. QED
      BY <3>2, <3>3, <3>4
  <2>3. \A B \in blocks : Min(B) \in Nat
    BY <2>1
  <2>. HIDE DEF blocks
  <2>4. \A A, B \in blocks : <<A, B>> \in L <=> Min(A) < Min(B)
    BY <2>2
  <2>. HIDE DEF L
  <2>. QED
    BY <2>2, <2>3, <2>4 DEF TotalOrder
<1>. HIDE DEF blocks
<1>5. RankedOnce(blocks, L)
  <2>. HIDE DEF L
  <2>. QED
    BY <1>3, <1>4, Ranks
<1>6. ASSUME NEW B \in blocks
      PROVE  Cardinality({A \in blocks : Before(A, B)}) = Rank(blocks, L, B)
  <2>1. {A \in blocks : Before(A, B)} = Below(blocks, L, B)
    BY DEF Below
  <2>. QED
    BY <2>1 DEF Rank
<1>. HIDE DEF L
<1>7. ASSUME NEW k \in Index(q)
      PROVE  r[k] \in blocks /\ Rank(blocks, L, r[k]) = k
  <2>1. \E B \in blocks : Cardinality({A \in blocks : Before(A, B)}) = k
    <3>1. k \in 0 .. q - 1
      BY DEF Index
    <3>. QED
      BY <1>5, <1>6, <3>1 DEF RankedOnce
  <2>2. r[k] = CHOOSE B \in blocks : Cardinality({A \in blocks : Before(A, B)}) = k
    OBVIOUS
  <2>3. r[k] \in blocks /\ Cardinality({A \in blocks : Before(A, r[k])}) = k
    BY <2>1, <2>2
  <2>. QED
    BY <1>6, <2>3
<1>8. DOMAIN r = Index(q) /\ r = [k \in Index(q) |-> r[k]]
  <2>. HIDE DEF q
  <2>1. DOMAIN r = Index(q)
    OBVIOUS
  <2>2. r = [k \in DOMAIN r |-> r[k]]
    OBVIOUS
  <2>. QED
    BY <2>1, <2>2
<1>. HIDE DEF r
<1>9. Size(r) = q
  <2>. HIDE DEF q
  <2>1. Cardinality(0 .. q - 1) = q
    BY <1>3, FS_Interval
  <2>2. Cardinality(DOMAIN r) = q
    BY <1>8, <2>1 DEF Index
  <2>. QED
    BY <2>2 DEF Size
<1>10. ASSUME NEW B \in blocks PROVE \E k \in Index(q) : r[k] = B
  <2>. DEFINE k == Rank(blocks, L, B)
  <2>1. k \in Index(q)
    BY <1>5 DEF RankedOnce, Index
  <2>2. r[k] \in blocks /\ Rank(blocks, L, r[k]) = Rank(blocks, L, B)
    BY <1>7, <2>1
  <2>3. r[k] = B
    <3>. HIDE DEF k
    <3>. QED
      BY <1>5, <2>2 DEF RankedOnce
  <2>. QED
    BY <2>1, <2>3
<1>11. r \in [Index(q) -> SUBSET Index(m)]
  <2>1. blocks \subseteq SUBSET Index(m)
    BY DEF blocks, Splits
  <2>. QED
    BY <1>7, <1>8, <2>1
<1>12. q = m => \A x \in Index(m) : block[x] = {x}
  BY <1>3 DEF Splits
<1>13. \A k, l \in Index(q) : r[k] = r[l] => k = l
  BY <1>7
<1>. HIDE DEF q
<1>14. /\ \A k \in Index(q) : \E x \in Index(m) : r[k] = block[x]
       /\ \A x \in Index(m) : \E k \in Index(q) : r[k] = block[x]
  BY <1>7, <1>10 DEF blocks
<1>15. Lists(r, block, m)
  <2>1. q \in 0 .. m
    BY <1>3
  <2>. QED
    BY <1>9, <1>11, <1>12, <1>13, <1>14, <2>1 DEF Lists
<1>. QED
  BY <1>1, <1>15

-------------------------------------------------------------------------------
(* Clusters made of the input: every hit is in one of them, in its plane.  *)

Holds(c, in, i) ==
  /\ i \in Parts(c) /\ c.plane = in[i].plane
  /\ Cardinality(HitsFrom(c, i)) = Len(in[i].hits)

Made(clusters, in) ==
  /\ clusters \in Vectors(Cluster(DOMAIN in))
  /\ \A k, l \in DOMAIN clusters : k # l => Parts(clusters[k]) \cap Parts(clusters[l]) = {}
  /\ \A i \in DOMAIN in : \E k \in DOMAIN clusters : Holds(clusters[k], in, i)

OnePlane(b, clusters) ==
  \A x \in DOMAIN clusters : \A y \in b[x] : clusters[y].plane = clusters[x].plane

\* SetClusters() makes them, each of its own hits.
LEMMA FreshMade ==
  ASSUME NEW c \in Configs, NEW e \in Events(c)
  PROVE  LET in == Fresh(e)
         IN Made(in, in) /\ \A i \in DOMAIN in : Parts(in[i]) = {i}
<1>. DEFINE in == Fresh(e)
            m == Size(e)
            D == DOMAIN e
<1>1. /\ m \in Nat /\ D = Index(m)
      /\ \A i \in D : e[i].plane \in Nat /\ e[i].nhits \in Nat \ {0}
  BY EventsAssumption, FS_CardinalityType DEF IsEvent, Size
<1>. HIDE DEF m
<1>2. /\ DOMAIN in = D
      /\ \A i \in D : in[i] = [plane |-> e[i].plane, hits |-> [h \in 1 .. e[i].nhits |-> i]]
  BY DEF Fresh
<1>. HIDE DEF in
<1>3. ASSUME NEW i \in D
      PROVE  /\ in[i] \in Cluster(D) /\ Parts(in[i]) = {i} /\ Holds(in[i], in, i)
  <2>. DEFINE n == e[i].nhits
              q == [h \in 1 .. n |-> i]
  <2>1. n \in Nat \ {0}
    BY <1>1
  <2>2. q \in Seq(D) /\ DOMAIN q = 1 .. n /\ Len(q) = n /\ \A h \in 1 .. n : q[h] = i
    BY <2>1
  <2>3. in[i] = [plane |-> e[i].plane, hits |-> q]
    BY <1>2
  <2>. HIDE DEF q, n
  <2>4. in[i] \in Cluster(D)
    BY <1>1, <2>2, <2>3 DEF Cluster
  <2>5. Parts(in[i]) = {i}
    <3>1. 1 \in 1 .. n
      BY <2>1
    <3>. QED
      BY <2>2, <2>3, <3>1 DEF Parts, Range
  <2>6. HitsFrom(in[i], i) = 1 .. n
    BY <2>2, <2>3 DEF HitsFrom
  <2>7. Cardinality(1 .. n) = n
    BY <2>1, FS_Interval
  <2>. QED
    BY <2>2, <2>3, <2>4, <2>5, <2>6, <2>7 DEF Holds
<1>4. in \in [Index(m) -> Cluster(D)]
  <2>1. in = [i \in D |-> in[i]]
    BY <1>2 DEF in, Fresh
  <2>. QED
    BY <1>1, <1>3, <2>1
<1>5. in \in Vectors(Cluster(DOMAIN in))
  BY <1>1, <1>2, <1>4 DEF Vectors
<1>. QED
  BY <1>2, <1>3, <1>5 DEF Made, in

\* So do the groups of an iteration, if each is of one plane.
LEMMA GroupsMade ==
  ASSUME NEW r, Made(current, input), Lists(r, block, Size(current)),
         Splits(block, Size(current)), OnePlane(block, current)
  PROVE  LET new == [k \in DOMAIN r |-> Grouped(r[k])]
         IN /\ Made(new, input)
            /\ \A k \in DOMAIN r :
                 /\ Parts(new[k]) = UNION {Parts(current[i]) : i \in r[k]}
                 /\ \A i \in r[k] : new[k].plane = current[i].plane
                 /\ Cardinality(r[k]) = 1 =>
                      \E a \in DOMAIN current : r[k] = {a} /\ new[k] = current[a]
<1>. DEFINE new == [k \in DOMAIN r |-> Grouped(r[k])]
            D == DOMAIN current
            V == DOMAIN input
<1>1. /\ current \in Vectors(Cluster(V))
      /\ Size(current) \in Nat /\ D = Index(Size(current))
  BY VectorSize DEF Made
<1>2. DOMAIN r = Index(Size(r)) /\ Size(r) \in Nat
  BY <1>1 DEF Lists
<1>3. ASSUME NEW k \in DOMAIN r
      PROVE  /\ r[k] \in SUBSET D /\ r[k] # {}
             /\ \E x \in D : x \in r[k] /\ r[k] = block[x]
             /\ \A i \in r[k] : r[k] = block[i] /\ i \in D
  BY <1>1, <1>2 DEF Lists, Splits
<1>4. ASSUME NEW x \in D PROVE \E k \in DOMAIN r : x \in r[k] /\ r[k] = block[x]
  BY <1>1, <1>2 DEF Lists, Splits
<1>5. ASSUME NEW k \in DOMAIN r
      PROVE  /\ new[k] \in Cluster(V)
             /\ new[k].plane = current[Min(r[k])].plane /\ Min(r[k]) \in r[k]
             /\ \A v : v \in Parts(new[k]) <=> \E i \in r[k] : v \in Parts(current[i])
             /\ \A v : \A i \in r[k] :
                  (\A l \in r[k] \ {i} : v \notin Parts(current[l]))
                    => Cardinality(HitsFrom(new[k], v)) = Cardinality(HitsFrom(current[i], v))
             /\ Cardinality(r[k]) = 1 => r[k] = {Min(r[k])} /\ new[k] = current[Min(r[k])]
  <2>1. new[k] = Grouped(r[k])
    OBVIOUS
  <2>2. r[k] \in SUBSET DOMAIN current /\ r[k] # {}
    BY <1>3
  <2>. HIDE DEF new, V
  <2>. QED
    BY <1>1, <2>1, <2>2, GroupedHits
<1>6. DOMAIN new = DOMAIN r /\ new = [k \in DOMAIN r |-> new[k]]
  OBVIOUS
<1>. HIDE DEF new
<1>7. ASSUME NEW k \in DOMAIN r
      PROVE  /\ Parts(new[k]) = UNION {Parts(current[i]) : i \in r[k]}
             /\ \A i \in r[k] : new[k].plane = current[i].plane
             /\ Cardinality(r[k]) = 1 =>
                      \E a \in DOMAIN current : r[k] = {a} /\ new[k] = current[a]
  <2>1. \A i \in r[k] : new[k].plane = current[i].plane
    BY <1>3, <1>5 DEF OnePlane
  <2>2. Parts(new[k]) = UNION {Parts(current[i]) : i \in r[k]}
    BY <1>5
  <2>. QED
    BY <1>3, <1>5, <2>1, <2>2
<1>8. new \in Vectors(Cluster(V))
  <2>1. new \in [Index(Size(r)) -> Cluster(V)]
    BY <1>2, <1>5, <1>6
  <2>. QED
    BY <1>2, <2>1 DEF Vectors
<1>9. ASSUME NEW k \in DOMAIN r, NEW l \in DOMAIN r, k # l
      PROVE  Parts(new[k]) \cap Parts(new[l]) = {}
  <2>. SUFFICES ASSUME NEW v \in Parts(new[k]), v \in Parts(new[l]) PROVE FALSE
    OBVIOUS
  <2>1. PICK i \in r[k] : v \in Parts(current[i])
    BY <1>5
  <2>2. PICK j \in r[l] : v \in Parts(current[j])
    BY <1>5
  <2>3. i \in D /\ j \in D /\ r[k] = block[i] /\ r[l] = block[j]
    BY <1>3
  <2>4. i = j
    BY <2>1, <2>2, <2>3 DEF Made
  <2>5. r[k] = r[l]
    BY <2>3, <2>4
  <2>. QED
    BY <1>2, <1>9, <2>5 DEF Lists
<1>10. ASSUME NEW i \in DOMAIN input PROVE \E k \in DOMAIN r : Holds(new[k], input, i)
  <2>1. PICK x \in D : Holds(current[x], input, i)
    BY DEF Made
  <2>2. PICK k \in DOMAIN r : x \in r[k]
    BY <1>4
  <2>3. i \in Parts(new[k]) /\ new[k].plane = input[i].plane
    BY <1>5, <1>7, <2>1, <2>2 DEF Holds
  <2>4. \A l \in r[k] \ {x} : i \notin Parts(current[l])
    <3>1. \A l \in r[k] : l \in D
      BY <1>3
    <3>. QED
      BY <2>1, <3>1 DEF Holds, Made
  <2>5. Cardinality(HitsFrom(new[k], i)) = Cardinality(HitsFrom(current[x], i))
    BY <1>5, <2>2, <2>4
  <2>. QED
    BY <2>1, <2>3, <2>5 DEF Holds
<1>11. Made(new, input)
  BY <1>6, <1>8, <1>9, <1>10 DEF Made
<1>. QED
  BY <1>7, <1>11 DEF new

-------------------------------------------------------------------------------
(* Book keepers combined one after another.                                *)

PartsOf(clusters) == [k \in DOMAIN clusters |-> Parts(clusters[k])]

Link(mine, another, both) ==
  ~CombineRefuses(mine, another) /\ both = Combined(mine, another)

\* b combined with the results in p, in that order, says what the clusters are
\* made of, and none of these calls throws.
Linked(levels, b, p, last) ==
  /\ levels[0] = b /\ levels[Len(p)] = last
  /\ \A j \in 1 .. Len(p) : Link(levels[j - 1], p[j], levels[j])

Chain(b, p, clusters) == \E levels : Linked(levels, b, p, PartsOf(clusters))

LEMMA ChainEnds ==
  ASSUME NEW b, NEW clusters
  PROVE  Chain(b, <<>>, clusters) <=> b = PartsOf(clusters)
<1>1. Len(<<>>) = 0 /\ 1 .. 0 = {}
  OBVIOUS
<1>2. ASSUME b = PartsOf(clusters) PROVE Chain(b, <<>>, clusters)
  <2>. DEFINE levels == [j \in {0} |-> b]
  <2>1. Linked(levels, b, <<>>, PartsOf(clusters))
    BY <1>1, <1>2 DEF Linked
  <2>. QED
    BY <2>1 DEF Chain
<1>3. ASSUME Chain(b, <<>>, clusters) PROVE b = PartsOf(clusters)
  BY <1>1, <1>3 DEF Chain, Linked
<1>. QED
  BY <1>2, <1>3

LEMMA ChainGrows ==
  ASSUME NEW V, NEW p \in Seq(V), NEW r \in V, NEW b, NEW clusters, NEW new,
         Chain(b, p, clusters), Link(PartsOf(clusters), r, PartsOf(new))
  PROVE  Chain(b, Append(p, r), new)
<1>. PICK levels : Linked(levels, b, p, PartsOf(clusters))
  BY DEF Chain
<1>. DEFINE n == Len(p)
            q == Append(p, r)
            last == PartsOf(new)
            more == [j \in 0 .. n + 1 |-> IF j = n + 1 THEN last ELSE levels[j]]
<1>1. /\ n \in Nat /\ Len(q) = n + 1 /\ q[n + 1] = r
      /\ \A j \in 1 .. n : q[j] = p[j]
  OBVIOUS
<1>2. more[n + 1] = last /\ \A j \in 0 .. n : more[j] = levels[j]
  BY <1>1
<1>3. more[0] = b /\ more[n] = PartsOf(clusters)
  BY <1>1, <1>2 DEF Linked
<1>. HIDE DEF more, last
<1>4. ASSUME NEW j \in 1 .. n + 1 PROVE Link(more[j - 1], q[j], more[j])
  <2>1. CASE j = n + 1
    <3>1. j - 1 = n
      BY <1>1, <2>1
    <3>. QED
      BY <1>1, <1>2, <1>3, <2>1, <3>1 DEF last
  <2>2. CASE j # n + 1
    <3>1. j \in 1 .. n /\ j - 1 \in 0 .. n /\ j \in 0 .. n
      BY <1>1, <2>2
    <3>2. Link(levels[j - 1], p[j], levels[j])
      BY <3>1 DEF Linked
    <3>. QED
      BY <1>1, <1>2, <3>1, <3>2
  <2>. QED
    BY <2>1, <2>2
<1>. HIDE DEF q, n
<1>5. Linked(more, b, q, last)
  BY <1>1, <1>2, <1>3, <1>4 DEF Linked
<1>. QED
  BY <1>5 DEF Chain, last, q

LEMMA ChainShrinks ==
  ASSUME NEW V, NEW p \in Seq(V), p # <<>>, NEW b, NEW clusters, Chain(b, p, clusters)
  PROVE  /\ ~CombineRefuses(b, Head(p))
         /\ Chain(Combined(b, Head(p)), Tail(p), clusters)
<1>. PICK levels : Linked(levels, b, p, PartsOf(clusters))
  BY DEF Chain
<1>. DEFINE n == Len(p)
            q == Tail(p)
            less == [j \in 0 .. n - 1 |-> levels[j + 1]]
<1>1. /\ n \in Nat \ {0} /\ Len(q) = n - 1 /\ Head(p) = p[1]
      /\ \A j \in 1 .. n - 1 : q[j] = p[j + 1]
  BY HeadTailProperties
<1>2. \A j \in 0 .. n - 1 : less[j] = levels[j + 1]
  OBVIOUS
<1>. HIDE DEF less
<1>3. Link(b, Head(p), levels[1])
  <2>1. 1 \in 1 .. n
    BY <1>1
  <2>2. Link(levels[1 - 1], p[1], levels[1])
    BY <2>1 DEF Linked
  <2>. QED
    BY <1>1, <2>2 DEF Linked
<1>4. less[0] = levels[1] /\ less[n - 1] = PartsOf(clusters)
  <2>1. 0 \in 0 .. n - 1 /\ n - 1 \in 0 .. n - 1 /\ (n - 1) + 1 = n /\ 0 + 1 = 1
    BY <1>1
  <2>2. less[n - 1] = levels[(n - 1) + 1] /\ less[0] = levels[0 + 1]
    BY <1>2, <2>1
  <2>. QED
    BY <2>1, <2>2 DEF Linked
<1>5. ASSUME NEW j \in 1 .. n - 1 PROVE Link(less[j - 1], q[j], less[j])
  <2>1. j + 1 \in 1 .. n /\ j - 1 \in 0 .. n - 1 /\ j \in 0 .. n - 1
        /\ (j + 1) - 1 = j /\ (j - 1) + 1 = j
    BY <1>1
  <2>2. Link(levels[(j + 1) - 1], p[j + 1], levels[j + 1])
    BY <2>1 DEF Linked
  <2>3. less[j - 1] = levels[(j - 1) + 1] /\ less[j] = levels[j + 1]
    BY <1>2, <2>1
  <2>. QED
    BY <1>1, <2>1, <2>2, <2>3
<1>. HIDE DEF q, n
<1>6. Linked(less, levels[1], q, PartsOf(clusters))
  BY <1>1, <1>4, <1>5 DEF Linked
<1>7. Chain(levels[1], q, clusters)
  BY <1>6 DEF Chain
<1>. QED
  BY <1>3, <1>7 DEF Link, q

\* The results of an iteration that merged something fit behind the others.
LEMMA GroupsLinked ==
  ASSUME NEW r, NEW new, Made(current, input), Made(new, input),
         Lists(r, block, Size(current)), Splits(block, Size(current)),
         Size(r) # Size(current), DOMAIN new = DOMAIN r,
         \A k \in DOMAIN r : Parts(new[k]) = UNION {Parts(current[i]) : i \in r[k]}
  PROVE  Link(PartsOf(current), r, PartsOf(new))
<1>1. Size(current) \in Nat /\ DOMAIN current = Index(Size(current))
  BY VectorSize DEF Made
<1>2. DOMAIN r = Index(Size(r)) /\ Size(r) \in Nat /\ Size(r) < Size(current)
  BY <1>1 DEF Lists
<1>3. UNION Range(r) = DOMAIN current
  BY <1>1, <1>2 DEF Lists, Splits, Range
<1>4. Size(PartsOf(current)) = Size(current)
  BY DEF PartsOf, Size
<1>5. Cardinality(UNION Range(r)) = Size(PartsOf(current))
  BY <1>3, <1>4 DEF Size
<1>6. ~CombineRefuses(PartsOf(current), r)
  BY <1>1, <1>2, <1>4, <1>5 DEF CombineRefuses
<1>7. ASSUME NEW k \in DOMAIN r
      PROVE  UNION {PartsOf(current)[i] : i \in r[k]} = Parts(new[k])
  <2>1. \A i \in r[k] : i \in DOMAIN current
    BY <1>1, <1>2 DEF Lists
  <2>2. \A i \in r[k] : PartsOf(current)[i] = Parts(current[i])
    BY <2>1 DEF PartsOf
  <2>. QED
    BY <2>2
<1>8. PartsOf(new) = Combined(PartsOf(current), r)
  BY <1>7 DEF PartsOf, Combined
<1>. QED
  BY <1>6, <1>8 DEF Link

-------------------------------------------------------------------------------
(* Which pairs an algorithm has kept from merging.                         *)

\* Two clusters that a merging algorithm could be asked about.
Same(clusters, min, i, j) ==
  /\ i \in Ranked(clusters, min) /\ j \in Ranked(clusters, min)
  /\ i # j /\ clusters[i].plane = clusters[j].plane

Kept(clusters, done, i, j) == {Parts(clusters[i]), Parts(clusters[j])} \in done

\* Clusters of the last iteration that it did not merge are a pair it settled.
Unmerged(groups, i) == i \in DOMAIN groups /\ Cardinality(groups[i]) = 1

Spared(clusters, min, groups, done) ==
  \A i, j \in DOMAIN clusters :
    Same(clusters, min, i, j) /\ Unmerged(groups, i) /\ Unmerged(groups, j)
      => Kept(clusters, done, i, j)

Single(b, x) == b[x] = {x}

\* Two clusters that are apart and were not merged with others were separated.
ApartKept(away, b, clusters, done) ==
  \A p \in away :
    /\ p \in (DOMAIN clusters) \X (DOMAIN clusters)
    /\ Single(b, p[1]) /\ Single(b, p[2]) => Kept(clusters, done, p[1], p[2])

\* A pair is still to come, settled, or one of the two was merged.
Looked(clusters, min, left, b, done) ==
  \A i, j \in DOMAIN clusters :
    Same(clusters, min, i, j) =>
      \/ <<i, j>> \in left \/ <<j, i>> \in left
      \/ Kept(clusters, done, i, j)
      \/ ~Single(b, i) \/ ~Single(b, j)

NothingLeft(clusters, min, done) ==
  \A i, j \in DOMAIN clusters : Same(clusters, min, i, j) => Kept(clusters, done, i, j)

\* An iteration that merged nothing has settled all pairs.
LEMMA NothingMerged ==
  ASSUME NEW clusters, NEW min, NEW b, NEW done,
         \A x \in DOMAIN clusters : Single(b, x), Looked(clusters, min, {}, b, done)
  PROVE  NothingLeft(clusters, min, done)
BY DEF Looked, NothingLeft

\* With as many clusters as planes there are no two of one plane.
LEMMA OnePerPlane ==
  ASSUME NEW min, NEW done, NEW new, NEW V, new \in Vectors(Cluster(V)),
         current \in Vectors(Cluster(V)),
         \A i \in DOMAIN current : \E k \in DOMAIN new : new[k].plane = current[i].plane,
         Size(new) = Cardinality(PlanesOf(current, min))
  PROVE  NothingLeft(new, min, done)
<1>. DEFINE planes == PlanesOf(current, min)
            D == DOMAIN new
            f == [q \in planes |-> CHOOSE k \in D : new[k].plane = q]
<1>1. IsFiniteSet(D) /\ Cardinality(D) = Cardinality(planes)
  BY VectorSize DEF Size
<1>2. ASSUME NEW q \in planes PROVE f[q] \in D /\ new[f[q]].plane = q
  <2>1. \E k \in D : new[k].plane = q
    BY DEF PlanesOf, Ranked
  <2>. QED
    BY <2>1
<1>3. DOMAIN f = planes /\ f = [q \in planes |-> f[q]]
  OBVIOUS
<1>. HIDE DEF f
<1>4. f \in Injection(planes, D)
  BY <1>2, <1>3 DEF Injection, IsInjective
<1>5. f \in Surjection(planes, D)
  <2>. HIDE DEF planes, D
  <2>. QED
    BY <1>1, <1>4, FS_Injection
<1>6. ASSUME NEW i \in D, NEW j \in D, new[i].plane = new[j].plane PROVE i = j
  <2>1. PICK p \in planes : f[p] = i
    BY <1>5 DEF Surjection
  <2>2. PICK q \in planes : f[q] = j
    BY <1>5 DEF Surjection
  <2>. QED
    BY <1>2, <1>6, <2>1, <2>2
<1>. QED
  BY <1>6 DEF NothingLeft, Same

\* What the next iteration will spare was settled in this one or before.
LEMMA SparedNext ==
  ASSUME NEW min, NEW done, NEW r, NEW new, Made(current, input),
         Lists(r, block, Size(current)), Splits(block, Size(current)),
         DOMAIN new = DOMAIN r,
         \A k \in DOMAIN r : Cardinality(r[k]) = 1 =>
           \E a \in DOMAIN current : r[k] = {a} /\ new[k] = current[a],
         Looked(current, min, {}, block, done)
  PROVE  Spared(new, min, r, done)
<1>. SUFFICES ASSUME NEW i \in DOMAIN new, NEW j \in DOMAIN new,
                     Same(new, min, i, j), Unmerged(r, i), Unmerged(r, j)
              PROVE  Kept(new, done, i, j)
  BY DEF Spared
<1>1. Size(current) \in Nat /\ DOMAIN current = Index(Size(current))
  BY VectorSize DEF Made
<1>2. DOMAIN r = Index(Size(r)) /\ Size(r) \in Nat
  BY <1>1 DEF Lists
<1>3. PICK a \in DOMAIN current : r[i] = {a} /\ new[i] = current[a]
  BY DEF Unmerged
<1>4. PICK b \in DOMAIN current : r[j] = {b} /\ new[j] = current[b]
  BY DEF Unmerged
<1>5. a # b
  <2>1. i # j
    BY DEF Same
  <2>. QED
    BY <1>2, <1>3, <1>4, <2>1 DEF Lists
<1>6. Single(block, a) /\ Single(block, b)
  BY <1>1, <1>2, <1>3, <1>4 DEF Lists, Splits, Single
<1>7. Same(current, min, a, b)
  BY <1>3, <1>4, <1>5 DEF Same, Ranked
<1>8. Kept(current, done, a, b)
  BY <1>6, <1>7 DEF Looked
<1>. QED
  BY <1>3, <1>4, <1>8 DEF Kept

-------------------------------------------------------------------------------
(* The inductive invariant: what holds at each place of Process().         *)

Groupings == Vectors(SUBSET Nat)

Base ==
  /\ conf \in Configs
  /\ passed \in Seq(Groupings)
  /\ Made(input, input)
  /\ \A i \in DOMAIN input : Parts(input[i]) = {i}

\* The clusters that the next iteration starts from.
Next0 == IF first THEN input ELSE output

AtBegin ==
  /\ Made(Next0, input) /\ Chain(book, passed, Next0)
  /\ first => merged = None
  /\ Spared(Next0, conf.minHits, merged, settled)

InIteration ==
  /\ Made(current, input) /\ Chain(book, passed, current)
  /\ Spared(current, conf.minHits, merged, settled)
  /\ Splits(block, Size(current)) /\ OnePlane(block, current)
  /\ ApartKept(apart, block, current, settled)

AtSeparate ==
  /\ InIteration
  /\ \A x \in DOMAIN current : Single(block, x)
  /\ pairs \subseteq SeparationPairs(current)

AtMerge ==
  /\ InIteration
  /\ pairs \subseteq MergePairs(current)
  /\ Looked(current, conf.minHits, pairs, block, settled)

AtEnd ==
  /\ Made(output, input) /\ Chain(book, passed, output)
  /\ conf.converge => NothingLeft(output, conf.minHits, settled)

AtIdle ==
  /\ Made(output, input) /\ book = PartsOf(output)
  /\ conf.converge => NothingLeft(output, conf.minHits, settled)

MInv ==
  /\ Base
  /\ \/ pc = "event"
     \/ pc = "begin" /\ AtBegin
     \/ pc = "separate" /\ AtSeparate
     \/ pc = "merge" /\ AtMerge
     \/ pc = "end" /\ AtEnd
     \/ pc = "idle" /\ AtIdle

-------------------------------------------------------------------------------
(* It is enough, and holds at first.                                       *)

LEMMA NoClusters ==
  /\ \A in : in = None => Made(None, in) /\ Made(in, in)
  /\ PartsOf(None) = None
  /\ \A min, done : NothingLeft(None, min, done)
  /\ DOMAIN None = {}
<1>1. DOMAIN None = {} /\ Index(0) = {}
  BY DEF None, Index
<1>2. \A V : None \in Vectors(V)
  <2>. SUFFICES ASSUME NEW V PROVE None \in Vectors(V)
    OBVIOUS
  <2>1. None \in [Index(0) -> V]
    BY <1>1 DEF None
  <2>. QED
    BY <2>1 DEF Vectors
<1>3. PartsOf(None) = None
  <2>1. PartsOf(None) = [k \in {} |-> Parts(None[k])]
    BY <1>1 DEF PartsOf
  <2>. QED
    BY <2>1 DEF None
<1>. QED
  BY <1>1, <1>2, <1>3 DEF Made, NothingLeft

LEMMA MInit == Init => MInv
<1>. SUFFICES ASSUME Init PROVE MInv
  OBVIOUS
<1>1. /\ conf \in Configs /\ input = None /\ output = None /\ book = None
      /\ passed = <<>> /\ pc = "idle"
  BY DEF Init
<1>2. Base
  BY <1>1, NoClusters DEF Base
<1>3. AtIdle
  BY <1>1, NoClusters DEF AtIdle
<1>. QED
  BY <1>1, <1>2, <1>3 DEF MInv

LEMMA EnoughForHits == MInv => HitsConserved
<1>. SUFFICES ASSUME MInv, pc = "idle", NEW i \in DOMAIN input
              PROVE  \E k \in DOMAIN output :
                       /\ Cardinality(Alone(output, i)) = 1 /\ i \in Parts(output[k])
                       /\ Cardinality(HitsFrom(output[k], i)) = Len(input[i].hits)
                       /\ output[k].plane = input[i].plane
  BY DEF HitsConserved, Done
<1>1. Made(output, input)
  BY DEF MInv, AtIdle
<1>2. PICK k \in DOMAIN output : Holds(output[k], input, i)
  BY <1>1 DEF Made
<1>3. Alone(output, i) = {k}
  BY <1>1, <1>2 DEF Alone, Holds, Made
<1>4. Cardinality({k}) = 1
  BY FS_Singleton
<1>. QED
  BY <1>2, <1>3, <1>4 DEF Holds

LEMMA EnoughForBook == MInv => BookMatchesOutput
BY DEF MInv, AtIdle, BookMatchesOutput, Done, PartsOf

LEMMA EnoughForThrows == MInv => NeverThrown
BY DEF MInv, NeverThrown

LEMMA EnoughForRest == MInv => NothingLeftToMerge
<1>. SUFFICES ASSUME MInv, pc = "idle", conf.converge,
                     NEW i \in RankedNow(output), NEW j \in RankedNow(output),
                     i # j, output[i].plane = output[j].plane
              PROVE  {Parts(output[i]), Parts(output[j])} \in settled
  BY DEF NothingLeftToMerge, Done
<1>1. NothingLeft(output, conf.minHits, settled)
  BY DEF MInv, AtIdle
<1>. QED
  BY <1>1 DEF NothingLeft, Same, Kept, RankedNow, Ranked

-------------------------------------------------------------------------------
(* The steps of Process().                                                 *)

\* Base is about what only Analyze() and the results change.
LEMMA BaseKept ==
  ASSUME Base, UNCHANGED <<conf, input>>, passed' \in Seq(Groupings)
  PROVE  Base'
BY DEF Base

LEMMA AnalyzeStep ==
  ASSUME MInv, NEW event \in Events(conf), Analyze(event)
  PROVE  MInv'
<1>1. /\ input' = Fresh(event) /\ conf' = conf /\ passed' = <<>>
      /\ output' = None /\ book' = None
      /\ pc' = IF event = None THEN "idle" ELSE "event"
  BY DEF Analyze, ResetResults
<1>2. Base'
  <2>1. Made(Fresh(event), Fresh(event)) /\ \A i \in DOMAIN Fresh(event) : Parts(Fresh(event)[i]) = {i}
    BY FreshMade DEF MInv, Base
  <2>2. conf' \in Configs /\ passed' \in Seq(Groupings)
    BY <1>1 DEF MInv, Base
  <2>. QED
    BY <1>1, <2>1, <2>2 DEF Base
<1>3. CASE event = None
  <2>1. input' = None
    <3>1. Fresh(None) = [i \in {} |-> [plane |-> None[i].plane, hits |-> [h \in 1 .. None[i].nhits |-> i]]]
      BY NoClusters DEF Fresh
    <3>. QED
      BY <1>1, <1>3, <3>1 DEF None
  <2>2. AtIdle'
    BY <1>1, <2>1, NoClusters DEF AtIdle
  <2>. QED
    BY <1>1, <1>2, <1>3, <2>2 DEF MInv
<1>4. CASE event # None
  BY <1>1, <1>2, <1>4 DEF MInv
<1>. QED
  BY <1>3, <1>4

LEMMA EventBeginStep ==
  ASSUME MInv, EventBegin
  PROVE  MInv'
<1>1. /\ book' = [i \in DOMAIN input |-> {i}] /\ first' = TRUE /\ merged' = None
      /\ passed' = <<>> /\ pc' = "begin" /\ UNCHANGED <<conf, input>>
  BY DEF EventBegin
<1>2. Base'
  <2>1. passed' \in Seq(Groupings)
    BY <1>1
  <2>. QED
    BY <1>1, <2>1, BaseKept DEF MInv
<1>3. book' = PartsOf(input)
  BY <1>1 DEF MInv, Base, PartsOf
<1>4. Next0' = input
  BY <1>1 DEF Next0
<1>5. Chain(book', passed', Next0')
  BY <1>1, <1>3, <1>4, ChainEnds
<1>6. Spared(Next0', conf'.minHits, merged', settled')
  BY <1>1, NoClusters DEF Spared, Unmerged
<1>7. Made(Next0', input')
  BY <1>1, <1>4 DEF MInv, Base
<1>. QED
  BY <1>1, <1>2, <1>5, <1>6, <1>7 DEF MInv, AtBegin

LEMMA IterationBeginStep ==
  ASSUME MInv, IterationBegin
  PROVE  MInv'
<1>. DEFINE m == Size(Next0)
<1>1. /\ pc = "begin" /\ current' = Next0 /\ pc' = "separate"
      /\ block' = [x \in 0 .. m - 1 |-> {x}] /\ apart' = {}
      /\ pairs' = IF conf.separate THEN SeparationPairs(Next0) ELSE {}
      /\ UNCHANGED <<conf, input, book, passed, merged, settled>>
  BY DEF IterationBegin, BK!Restart, Next0
<1>2. AtBegin /\ Base
  BY <1>1 DEF MInv
<1>3. Base'
  BY <1>1, <1>2, BaseKept DEF Base
<1>4. m \in Nat /\ DOMAIN Next0 = Index(m)
  BY <1>2, VectorSize DEF AtBegin, Made
<1>. HIDE DEF m
<1>5. Splits(block', m)
  BY <1>1, <1>4 DEF Splits, Index
<1>6. OnePlane(block', Next0) /\ \A x \in DOMAIN Next0 : Single(block', x)
  BY <1>1, <1>4 DEF OnePlane, Single, Index
<1>7. ApartKept(apart', block', Next0, settled')
  BY <1>1 DEF ApartKept
<1>8. pairs' \subseteq SeparationPairs(current')
  BY <1>1 DEF SeparationPairs
<1>9. InIteration'
  BY <1>1, <1>2, <1>5, <1>6, <1>7 DEF InIteration, AtBegin, m
<1>10. AtSeparate'
  BY <1>1, <1>6, <1>8, <1>9 DEF AtSeparate
<1>. QED
  BY <1>1, <1>3, <1>10 DEF MInv

\* What an algorithm has settled, and what was merged, stays so.
LEMMA KeptStays ==
  ASSUME NEW clusters, NEW done, NEW more, done \subseteq more, NEW i, NEW j,
         Kept(clusters, done, i, j)
  PROVE  Kept(clusters, more, i, j)
BY DEF Kept

LEMMA SparedStays ==
  ASSUME NEW clusters, NEW min, NEW groups, NEW done, NEW more, done \subseteq more,
         Spared(clusters, min, groups, done)
  PROVE  Spared(clusters, min, groups, more)
BY KeptStays DEF Spared

LEMMA LookedFurther ==
  ASSUME NEW clusters, NEW min, NEW left, NEW b, NEW new, NEW done, NEW more,
         done \subseteq more, Looked(clusters, min, left, b, done),
         \A x \in DOMAIN clusters : Single(new, x) => Single(b, x),
         NEW i, NEW j,
         Kept(clusters, more, i, j) \/ ~Single(new, i) \/ ~Single(new, j)
  PROVE  Looked(clusters, min, left \ {<<i, j>>}, new, more)
<1>. SUFFICES ASSUME NEW k \in DOMAIN clusters, NEW l \in DOMAIN clusters,
                     Same(clusters, min, k, l), Single(new, k), Single(new, l),
                     <<k, l>> \notin left \ {<<i, j>>}, <<l, k>> \notin left \ {<<i, j>>}
              PROVE  Kept(clusters, more, k, l)
  BY DEF Looked
<1>1. CASE <<k, l>> = <<i, j>>
  BY <1>1
<1>2. CASE <<l, k>> = <<i, j>>
  BY <1>2 DEF Kept
<1>3. CASE <<k, l>> # <<i, j>> /\ <<l, k>> # <<i, j>>
  <2>1. Kept(clusters, done, k, l)
    BY <1>3 DEF Looked
  <2>. QED
    BY <2>1, KeptStays
<1>. QED
  BY <1>1, <1>2, <1>3

LEMMA SeparatePairStep ==
  ASSUME MInv, SeparatePair
  PROVE  MInv'
<1>1. /\ pc = "separate" /\ pc' = "separate" /\ block' = block
      /\ pairs' \subseteq pairs /\ settled \subseteq settled'
      /\ UNCHANGED <<conf, input, output, book, passed, current, merged, first>>
      /\ \/ UNCHANGED <<apart, settled>>
         \/ \E p \in pairs : BK!Separate(p[1], p[2]) /\ Settle(p[1], p[2])
  BY DEF SeparatePair, results, keeper, BK!Separate, Settle
<1>2. AtSeparate /\ Base
  BY <1>1 DEF MInv
<1>3. Base'
  BY <1>1, <1>2, BaseKept DEF Base
<1>4. ApartKept(apart', block', current', settled')
  <2>1. CASE UNCHANGED <<apart, settled>>
    BY <1>1, <1>2, <2>1 DEF AtSeparate, InIteration
  <2>2. CASE \E p \in pairs : BK!Separate(p[1], p[2]) /\ Settle(p[1], p[2])
    <3>. PICK p \in pairs : BK!Separate(p[1], p[2]) /\ Settle(p[1], p[2])
      BY <2>2
    <3>1. /\ p[1] \in DOMAIN current /\ p[2] \in DOMAIN current
          /\ block[p[1]] = {p[1]} /\ block[p[2]] = {p[2]}
      BY <1>2 DEF AtSeparate, SeparationPairs, Single
    <3>2. apart' = apart \cup {<<p[1], p[2]>>} \cup {<<p[2], p[1]>>}
      BY <3>1 DEF BK!Separate
    <3>3. Kept(current, settled', p[1], p[2]) /\ Kept(current, settled', p[2], p[1])
      BY DEF Settle, Kept
    <3>4. ASSUME NEW q \in apart, Single(block, q[1]), Single(block, q[2])
          PROVE  Kept(current, settled', q[1], q[2])
      BY <1>1, <1>2, <3>4, KeptStays DEF AtSeparate, InIteration, ApartKept
    <3>5. \A q \in apart : q \in (DOMAIN current) \X (DOMAIN current)
      BY <1>2 DEF AtSeparate, InIteration, ApartKept
    <3>. QED
      BY <1>1, <3>1, <3>2, <3>3, <3>4, <3>5 DEF ApartKept
  <2>. QED
    BY <1>1, <2>1, <2>2
<1>5. InIteration'
  BY <1>1, <1>2, <1>4, SparedStays DEF AtSeparate, InIteration
<1>6. AtSeparate'
  BY <1>1, <1>2, <1>5 DEF AtSeparate
<1>. QED
  BY <1>1, <1>3, <1>6 DEF MInv

\* RunMerge will come to each pair, in the order of priority.
LEMMA SeparateDoneStep ==
  ASSUME MInv, SeparateDone
  PROVE  MInv'
<1>1. /\ pc = "separate" /\ pc' = "merge" /\ pairs' = MergePairs(current)
      /\ UNCHANGED <<conf, input, output, book, passed, current, merged, block, apart,
                     first, settled>>
  BY DEF SeparateDone, results, keeper
<1>2. AtSeparate /\ Base
  BY <1>1 DEF MInv
<1>3. Base'
  BY <1>1, <1>2, BaseKept DEF Base
<1>4. InIteration'
  BY <1>1, <1>2 DEF AtSeparate, InIteration
<1>5. pairs' \subseteq MergePairs(current)'
  BY <1>1 DEF MergePairs, RankedNow, AheadNow
<1>6. Looked(current, conf.minHits, pairs', block, settled)
  <2>. SUFFICES ASSUME NEW i \in DOMAIN current, NEW j \in DOMAIN current,
                       Same(current, conf.minHits, i, j)
                PROVE  <<i, j>> \in MergePairs(current) \/ <<j, i>> \in MergePairs(current)
    BY <1>1 DEF Looked
  <2>. DEFINE p == Priority(current[i], conf.minHits)
              q == Priority(current[j], conf.minHits)
  <2>1. /\ current \in Vectors(Cluster(DOMAIN input))
        /\ Size(current) \in Nat /\ DOMAIN current = Index(Size(current))
        /\ \A k \in DOMAIN current : current[k] \in Cluster(DOMAIN input)
    BY <1>2, VectorSize DEF AtSeparate, InIteration, Made
  <2>2. p \in Int /\ q \in Int /\ i \in Nat /\ j \in Nat
    <3>1. Len(current[i].hits) \in Nat /\ Len(current[j].hits) \in Nat
      BY <2>1, LenProperties DEF Cluster
    <3>2. i \in Nat /\ j \in Nat
      BY <2>1 DEF Index
    <3>. QED
      BY <3>1, <3>2 DEF Priority
  <2>3. Ahead(current, conf.minHits, i, j) \/ Ahead(current, conf.minHits, j, i)
    <3>1. Ahead(current, conf.minHits, i, j) <=> p > q \/ (p = q /\ i < j)
      BY DEF Ahead
    <3>2. Ahead(current, conf.minHits, j, i) <=> q > p \/ (q = p /\ j < i)
      BY DEF Ahead
    <3>3. i # j
      BY DEF Same
    <3>. HIDE DEF p, q
    <3>. QED
      BY <2>2, <3>1, <3>2, <3>3
  <2>. QED
    BY <2>3 DEF MergePairs, Same, RankedNow, AheadNow
<1>7. AtMerge'
  BY <1>1, <1>4, <1>5, <1>6 DEF AtMerge
<1>. QED
  BY <1>1, <1>3, <1>7 DEF MInv

\* Joining two blocks leaves blocks of one plane, and single ones alone.
LEMMA JoinBlocks ==
  ASSUME InIteration, NEW i \in DOMAIN current, NEW j \in DOMAIN current,
         current[i].plane = current[j].plane, BK!Join(i, j)
  PROVE  /\ Splits(block', Size(current)) /\ OnePlane(block', current)
         /\ \A x \in DOMAIN current : Single(block', x) => Single(block, x)
         /\ ~Single(block', i)
         /\ ApartKept(apart', block', current, settled)
<1>. DEFINE m == Size(current)
            both == block[i] \cup block[j]
<1>1. DOMAIN current = Index(m)
  BY VectorSize DEF InIteration, Made
<1>2. Splits(block, m) /\ OnePlane(block, current) /\ DOMAIN block = Index(m)
  BY DEF InIteration, Splits
<1>3. /\ block' = [x \in Index(m) |-> IF x \in both THEN both ELSE block[x]]
      /\ block[i] # block[j]
      /\ apart' = {p \in Index(m) \X Index(m) :
                     \E x \in block'[p[1]], y \in block'[p[2]] : <<x, y>> \in apart}
  BY <1>2 DEF BK!Join, BK!Clusters
<1>. HIDE DEF m
<1>4. both \subseteq Index(m) /\ i \in both /\ j \in both /\ i # j
  BY <1>1, <1>2, <1>3 DEF Splits
<1>5. \A x \in Index(m) : x \in both => block[x] \subseteq both
  BY <1>1, <1>2 DEF Splits
<1>6. Splits(block', m)
  <2>1. \A x \in Index(m) : \A y \in block[x] : block[y] = block[x] /\ y \in Index(m)
    BY <1>2 DEF Splits
  <2>2. ASSUME NEW x \in Index(m), NEW y \in block'[x] PROVE block'[y] = block'[x]
    <3>1. CASE x \in both
      BY <1>3, <1>4, <2>2, <3>1
    <3>2. CASE x \notin both
      <4>1. y \in block[x] /\ block[y] = block[x] /\ y \in Index(m)
        BY <1>3, <2>1, <2>2, <3>2
      <4>2. x \in block[y]
        BY <1>2, <4>1 DEF Splits
      <4>3. y \notin both
        BY <1>5, <3>2, <4>1, <4>2
      <4>. QED
        BY <1>3, <3>2, <4>1, <4>3
    <3>. QED
      BY <3>1, <3>2
  <2>3. \A x \in Index(m) : x \in block'[x] /\ block'[x] \subseteq Index(m)
    BY <1>2, <1>3, <1>4 DEF Splits
  <2>. QED
    BY <1>3, <2>2, <2>3 DEF Splits
<1>7. OnePlane(block', current)
  <2>1. \A x \in both : current[x].plane = current[i].plane
    BY <1>1, <1>2 DEF OnePlane
  <2>2. ASSUME NEW x \in Index(m), NEW y \in block'[x]
        PROVE  current[y].plane = current[x].plane
    BY <1>1, <1>2, <1>3, <2>1, <2>2 DEF OnePlane
  <2>. QED
    BY <1>1, <2>2 DEF OnePlane
<1>8. ASSUME NEW x \in Index(m), Single(block', x) PROVE Single(block, x)
  BY <1>3, <1>4, <1>8 DEF Single
<1>9. ~Single(block', i)
  BY <1>1, <1>3, <1>4 DEF Single
<1>10. ApartKept(apart', block', current, settled)
  <2>. SUFFICES ASSUME NEW p \in apart', Single(block', p[1]), Single(block', p[2])
                PROVE  Kept(current, settled, p[1], p[2])
    BY <1>1, <1>3 DEF ApartKept
  <2>1. p[1] \in Index(m) /\ p[2] \in Index(m) /\ p = <<p[1], p[2]>>
    BY <1>3
  <2>2. p \in apart
    BY <1>3, <2>1 DEF Single
  <2>3. Single(block, p[1]) /\ Single(block, p[2])
    BY <1>8, <2>1
  <2>. QED
    BY <2>2, <2>3 DEF InIteration, ApartKept
<1>. QED
  BY <1>1, <1>6, <1>7, <1>8, <1>9, <1>10 DEF m

LEMMA MergePairStep ==
  ASSUME MInv, MergePair
  PROVE  MInv'
<1>1. PICK p \in pairs : /\ pc = "merge" /\ Decide(p[1], p[2])
                         /\ pairs' = pairs \ {p}
                         /\ UNCHANGED <<conf, input, results, passed, current, merged, first>>
  BY DEF MergePair
<1>. DEFINE i == p[1]
            j == p[2]
<1>2. AtMerge /\ Base
  BY <1>1 DEF MInv
<1>3. /\ UNCHANGED <<conf, input, output, book, passed, current, merged, first>>
      /\ pairs' = pairs \ {<<i, j>>} /\ Base'
  <2>1. p = <<i, j>>
    BY <1>2 DEF AtMerge, MergePairs
  <2>. QED
    BY <1>1, <1>2, <2>1, BaseKept DEF Base, results
<1>4. /\ i \in DOMAIN current /\ j \in DOMAIN current
      /\ current[i].plane = current[j].plane
      /\ i # j => Same(current, conf.minHits, i, j)
  BY <1>2 DEF AtMerge, MergePairs, RankedNow, Ranked, Same
<1>5. i # j
  <2>1. /\ Size(current) \in Nat /\ DOMAIN current = Index(Size(current))
        /\ \A k \in DOMAIN current : current[k] \in Cluster(DOMAIN input)
    BY <1>2, VectorSize DEF AtMerge, InIteration, Made
  <2>2. Priority(current[i], conf.minHits) \in Int /\ i \in Nat
    <3>1. Len(current[i].hits) \in Nat
      BY <1>4, <2>1, LenProperties DEF Cluster
    <3>. QED
      BY <1>4, <2>1, <3>1 DEF Priority, Index
  <2>3. Ahead(current, conf.minHits, i, j)
    BY <1>2 DEF AtMerge, MergePairs, AheadNow
  <2>. QED
    BY <2>2, <2>3 DEF Ahead
<1>6. Same(current, conf.minHits, i, j)
  BY <1>4, <1>5
<1>7. /\ Splits(block, Size(current)) /\ OnePlane(block, current)
      /\ ApartKept(apart, block, current, settled)
      /\ Spared(current, conf.minHits, merged, settled)
  BY <1>2 DEF AtMerge, InIteration
<1>. HIDE DEF i, j
\* What the step has to be shown to do.
<1>. DEFINE Pair == Kept(current, settled', i, j) \/ ~Single(block', i) \/ ~Single(block', j)
            Rest == /\ settled \subseteq settled'
                    /\ Splits(block', Size(current)) /\ OnePlane(block', current)
                    /\ ApartKept(apart', block', current, settled')
                    /\ \A x \in DOMAIN current : Single(block', x) => Single(block, x)
<1>8. pc' = pc /\ Pair /\ Rest
  <2>1. CASE ~Inspected(i, j) /\ UNCHANGED <<keeper, settled, pc>>
    <3>1. UNCHANGED <<block, apart, settled, pc>>
      BY <2>1 DEF keeper
    <3>2. CASE <<i, j>> \in apart
      <4>1. Single(block, i) /\ Single(block, j) => Kept(current, settled, i, j)
        BY <1>7, <3>2 DEF ApartKept
      <4>. QED
        BY <1>7, <3>1, <4>1
    <3>3. CASE ~(Switch(i) \/ Switch(j))
      <4>1. Unmerged(merged, i) /\ Unmerged(merged, j)
        BY <3>3 DEF Switch, Unmerged
      <4>2. Kept(current, settled, i, j)
        BY <1>4, <1>6, <1>7, <4>1 DEF Spared
      <4>. QED
        BY <1>7, <3>1, <4>2
    <3>. QED
      BY <2>1, <3>2, <3>3 DEF Inspected
  <2>2. CASE Inspected(i, j) /\ Settle(i, j) /\ UNCHANGED <<keeper, pc>>
    <3>1. UNCHANGED <<block, apart, pc>> /\ settled \subseteq settled'
          /\ Kept(current, settled', i, j)
      BY <2>2 DEF keeper, Settle, Kept
    <3>2. ApartKept(apart, block, current, settled')
      <4>1. ASSUME NEW q \in apart
            PROVE  /\ q \in (DOMAIN current) \X (DOMAIN current)
                   /\ Single(block, q[1]) /\ Single(block, q[2])
                        => Kept(current, settled', q[1], q[2])
        BY <1>7, <3>1, KeptStays DEF ApartKept
      <4>. QED
        BY <4>1 DEF ApartKept
    <3>. QED
      BY <1>7, <3>1, <3>2
  <2>3. CASE Inspected(i, j) /\ block[i] = block[j] /\ UNCHANGED <<keeper, settled, pc>>
    <3>1. UNCHANGED <<block, apart, settled, pc>> /\ ~(Single(block, i) /\ Single(block, j))
      BY <1>5, <2>3 DEF keeper, Single
    <3>. QED
      BY <1>7, <3>1
  <2>4. CASE Inspected(i, j) /\ BK!Join(i, j) /\ UNCHANGED <<settled, pc>>
    <3>1. InIteration
      BY <1>2 DEF AtMerge
    <3>2. /\ Splits(block', Size(current)) /\ OnePlane(block', current)
          /\ \A x \in DOMAIN current : Single(block', x) => Single(block, x)
          /\ ~Single(block', i)
          /\ ApartKept(apart', block', current, settled)
      BY <1>4, <2>4, <3>1, JoinBlocks
    <3>. QED
      BY <2>4, <3>2
  <2>5. ~(Inspected(i, j) /\ <<i, j>> \in apart)
    BY DEF Inspected
  <2>. QED
    BY <1>1, <2>1, <2>2, <2>3, <2>4, <2>5 DEF Decide, i, j
<1>. HIDE DEF Pair
<1>9. InIteration'
  <2>1. Spared(current, conf.minHits, merged, settled')
    BY <1>7, <1>8, SparedStays
  <2>. QED
    BY <1>2, <1>3, <1>8, <2>1 DEF AtMerge, InIteration
<1>10. Looked(current, conf.minHits, pairs', block', settled')
  <2>1. Looked(current, conf.minHits, pairs, block, settled)
    BY <1>2 DEF AtMerge
  <2>. QED
    BY <1>3, <1>8, <2>1, LookedFurther DEF Pair
<1>11. AtMerge'
  <2>1. pairs' \subseteq MergePairs(current)'
    BY <1>2, <1>3 DEF AtMerge, MergePairs, RankedNow, AheadNow
  <2>. QED
    BY <1>3, <1>9, <1>10, <2>1 DEF AtMerge
<1>. QED
  BY <1>1, <1>3, <1>8, <1>11 DEF MInv

LEMMA IterationEndStep ==
  ASSUME MInv, IterationEnd
  PROVE  MInv'
<1>. DEFINE r == PassResult
            m == Size(current)
            new == [k \in DOMAIN r |-> Grouped(r[k])]
<1>1. /\ pc = "merge" /\ pairs = {} /\ merged' = r
      /\ output' = IF Size(r) = m THEN current ELSE new
      /\ passed' = IF Size(r) = m THEN passed ELSE Append(passed, r)
      /\ first' = FALSE
      /\ pc' = IF Stops(output') \/ ~conf.converge THEN "end" ELSE "begin"
      /\ UNCHANGED <<conf, input, book, current, block, apart, pairs, settled>>
  BY DEF IterationEnd, Saved, Grouped, keeper
<1>2. AtMerge /\ InIteration /\ Base
  BY <1>1 DEF MInv, AtMerge
<1>3. /\ m \in Nat /\ DOMAIN current = Index(m) /\ Made(current, input)
      /\ Splits(block, m) /\ OnePlane(block, current)
      /\ Looked(current, conf.minHits, {}, block, settled)
      /\ Chain(book, passed, current)
  BY <1>1, <1>2, VectorSize DEF InIteration, AtMerge, Made
<1>. HIDE DEF r
<1>4. Lists(r, block, m)
  BY <1>3, PassResultLists DEF r
<1>5. Stops(output') <=> Size(output') = m \/ Size(output') = Cardinality(PlanesOf(current, conf.minHits))
  BY DEF Stops
<1>6. Next0' = output'
  BY <1>1 DEF Next0
<1>7. CASE Size(r) = m
  <2>1. output' = current /\ passed' = passed /\ pc' = "end"
    BY <1>1, <1>5, <1>7
  <2>2. Base'
    BY <1>1, <1>2, <2>1, BaseKept DEF Base
  <2>3. \A x \in DOMAIN current : Single(block, x)
    BY <1>3, <1>4, <1>7 DEF Lists, Single
  <2>4. NothingLeft(current, conf.minHits, settled)
    BY <1>3, <2>3, NothingMerged
  <2>5. AtEnd'
    BY <1>1, <1>3, <2>1, <2>4 DEF AtEnd
  <2>. QED
    BY <2>1, <2>2, <2>5 DEF MInv
<1>8. CASE Size(r) # m
  <2>1. output' = new /\ passed' = Append(passed, r)
    BY <1>1, <1>8
  <2>2. /\ Made(new, input) /\ DOMAIN new = DOMAIN r
        /\ \A k \in DOMAIN r :
             /\ Parts(new[k]) = UNION {Parts(current[i]) : i \in r[k]}
             /\ \A i \in r[k] : new[k].plane = current[i].plane
             /\ Cardinality(r[k]) = 1 =>
                  \E a \in DOMAIN current : r[k] = {a} /\ new[k] = current[a]
    BY <1>3, <1>4, GroupsMade
  <2>. HIDE DEF new
  <2>3. r \in Groupings
    <3>1. Size(r) \in Nat /\ r \in [Index(Size(r)) -> SUBSET Index(m)]
      BY <1>3, <1>4 DEF Lists
    <3>2. r \in [Index(Size(r)) -> SUBSET Nat]
      BY <1>3, <3>1 DEF Index
    <3>. QED
      BY <3>1, <3>2 DEF Groupings, Vectors
  <2>4. Link(PartsOf(current), r, PartsOf(new))
    BY <1>3, <1>4, <1>8, <2>2, GroupsLinked
  <2>5. Chain(book, passed', new)
    BY <1>2, <1>3, <2>1, <2>3, <2>4, ChainGrows DEF Base
  <2>6. Base'
    BY <1>1, <1>2, <2>1, <2>3, BaseKept DEF Base
  <2>7. CASE pc' = "end"
    <3>1. conf.converge => NothingLeft(new, conf.minHits, settled)
      <4>. SUFFICES ASSUME conf.converge PROVE NothingLeft(new, conf.minHits, settled)
        OBVIOUS
      <4>1. Size(new) = Size(r)
        BY <2>2 DEF Size
      <4>2. Size(new) = Cardinality(PlanesOf(current, conf.minHits))
        BY <1>1, <1>5, <1>8, <2>1, <2>7, <4>1
      <4>3. ASSUME NEW i \in DOMAIN current
            PROVE  \E k \in DOMAIN new : new[k].plane = current[i].plane
        <5>1. PICK k \in DOMAIN r : r[k] = block[i]
          BY <1>3, <1>4 DEF Lists
        <5>2. i \in r[k]
          BY <1>3, <5>1 DEF Splits
        <5>. QED
          BY <2>2, <5>2
      <4>4. new \in Vectors(Cluster(DOMAIN input)) /\ current \in Vectors(Cluster(DOMAIN input))
        BY <1>3, <2>2 DEF Made
      <4>. QED
        BY <4>2, <4>3, <4>4, OnePerPlane
    <3>2. AtEnd'
      BY <1>1, <2>1, <2>2, <2>5, <3>1 DEF AtEnd
    <3>. QED
      BY <2>6, <2>7, <3>2 DEF MInv
  <2>8. CASE pc' = "begin"
    <3>1. Spared(new, conf.minHits, r, settled)
      BY <1>3, <1>4, <2>2, SparedNext
    <3>2. AtBegin'
      BY <1>1, <1>6, <2>1, <2>2, <2>5, <3>1 DEF AtBegin
    <3>. QED
      BY <2>6, <2>8, <3>2 DEF MInv
  <2>. QED
    BY <1>1, <2>7, <2>8
<1>. QED
  BY <1>7, <1>8

LEMMA CombineNextStep ==
  ASSUME MInv, CombineNext
  PROVE  MInv'
<1>1. /\ pc = "end" /\ passed # <<>> /\ passed' = Tail(passed)
      /\ IF CombineRefuses(book, Head(passed))
         THEN pc' = "thrown" /\ UNCHANGED book
         ELSE book' = Combined(book, Head(passed)) /\ UNCHANGED pc
      /\ UNCHANGED <<conf, input, output, settled>>
  BY DEF CombineNext
<1>2. AtEnd /\ Base
  BY <1>1 DEF MInv
<1>3. /\ ~CombineRefuses(book, Head(passed))
      /\ Chain(Combined(book, Head(passed)), Tail(passed), output)
  BY <1>1, <1>2, ChainShrinks DEF AtEnd, Base
<1>4. pc' = "end" /\ Chain(book', passed', output')
  BY <1>1, <1>3
<1>5. Base'
  <2>1. passed' \in Seq(Groupings)
    <3>1. passed \in Seq(Groupings)
      BY <1>2 DEF Base
    <3>. QED
      BY <1>1, <3>1, HeadTailProperties
  <2>. QED
    BY <1>1, <1>2, <2>1, BaseKept
<1>6. AtEnd'
  BY <1>1, <1>2, <1>4 DEF AtEnd
<1>. QED
  BY <1>4, <1>5, <1>6 DEF MInv

LEMMA EventEndStep ==
  ASSUME MInv, EventEnd
  PROVE  MInv'
<1>1. /\ pc = "end" /\ passed = <<>> /\ pc' = "idle"
      /\ UNCHANGED <<conf, input, output, book, passed, settled>>
  BY DEF EventEnd, results
<1>2. AtEnd /\ Base
  BY <1>1 DEF MInv
<1>3. book = PartsOf(output)
  BY <1>1, <1>2, ChainEnds DEF AtEnd
<1>4. Base'
  BY <1>1, <1>2, BaseKept DEF Base
<1>5. AtIdle'
  BY <1>1, <1>2, <1>3 DEF AtEnd, AtIdle
<1>. QED
  BY <1>1, <1>4, <1>5 DEF MInv

LEMMA MStep == MInv /\ [Next]_vars => MInv'
<1>. SUFFICES ASSUME MInv, [Next]_vars PROVE MInv'
  OBVIOUS
<1>1. ASSUME NEW event \in Events(conf), Analyze(event) PROVE MInv'
  BY <1>1, AnalyzeStep
<1>2. CASE EventBegin
  BY <1>2, EventBeginStep
<1>3. CASE IterationBegin
  BY <1>3, IterationBeginStep
<1>4. CASE SeparatePair
  BY <1>4, SeparatePairStep
<1>5. CASE SeparateDone
  BY <1>5, SeparateDoneStep
<1>6. CASE MergePair
  BY <1>6, MergePairStep
<1>7. CASE IterationEnd
  BY <1>7, IterationEndStep
<1>8. CASE CombineNext
  BY <1>8, CombineNextStep
<1>9. CASE EventEnd
  BY <1>9, EventEndStep
<1>10. CASE UNCHANGED vars
  BY <1>10 DEF vars, keeper, MInv, Base, AtBegin, Next0, AtSeparate, AtMerge, InIteration,
     AtEnd, AtIdle, SeparationPairs, MergePairs, RankedNow, AheadNow
<1>. QED
  BY <1>1, <1>2, <1>3, <1>4, <1>5, <1>6, <1>7, <1>8, <1>9, <1>10 DEF Next, Process

LEMMA MAlways == Spec => []MInv
<1>. QED
  BY MInit, MStep, PTL DEF Spec

-------------------------------------------------------------------------------
(* The theorems.                                                           *)

\* However many iterations analyze() makes and whatever the algorithms answer,
\* each hit of the input is in the output once, in the plane it came from.
THEOREM HitsConservedAlways == Spec => []HitsConserved
<1>. QED
  BY MAlways, EnoughForHits, PTL

\* The book keepers of the iterations, combined by EventEnd(), say for each output
\* cluster which inputs it is made of.
THEOREM BookMatchesOutputAlways == Spec => []BookMatchesOutput
<1>. QED
  BY MAlways, EnoughForBook, PTL

\* Neither Merge, in RunMerge, nor Combine, in EventEnd(), throws.
THEOREM NeverThrownAlways == Spec => []NeverThrown
<1>. QED
  BY MAlways, EnoughForThrows, PTL

\* When Process() stops converging, an algorithm has settled each pair of ranked
\* clusters of a plane that are still two: the pairs that the merge switch spares
\* and the early stop with a cluster per plane leave none out.
THEOREM NothingLeftToMergeAlways == Spec => []NothingLeftToMerge
<1>. QED
  BY MAlways, EnoughForRest, PTL

-------------------------------------------------------------------------------
(***************************************************************************)
(* The algorithm that the manager asks about a pair is often an array of   *)
(* them, for any number of algorithms, any mix of AND and OR, and whatever *)
(* the constructor left in _last_and_algo_index.  Of the manager nothing   *)
(* is used here, as its model lets the algorithm answer anything.          *)
(***************************************************************************)

\* What the loop relies on: the state is well typed, and the recorded index is
\* not before any AND algorithm.
AndsRecorded == \A k \in 1 .. Len(askAnd) : askAnd[k] => k - 1 <= lastAnd

ArrayInv == ArrayTypeOK /\ AndsRecorded

LEMMA ArrayInvInit == ArrayInit => ArrayInv
  BY MaxAlgosAssumption DEF ArrayInit, ArrayInv, ArrayTypeOK, AndsRecorded

LEMMA ArrayInvNext == ArrayInv /\ [ArrayNext]_arrayVars => ArrayInv'
<1> SUFFICES ASSUME ArrayInv, [ArrayNext]_arrayVars PROVE ArrayInv'
  OBVIOUS
<1> USE MaxAlgosAssumption DEF ArrayInv, ArrayTypeOK, AndsRecorded
<1>1. ASSUME NEW ask \in BOOLEAN, AddAlgo(ask) PROVE ArrayInv'
  <2>1. /\ askAnd' = Append(askAnd, ask)
        /\ lastAnd' = IF ask THEN Len(askAnd) ELSE lastAnd
        /\ Len(askAnd) < MaxAlgos /\ Len(askAnd) \in Nat
    BY <1>1 DEF AddAlgo, IndexOfNew
  <2>2. askAnd' \in Seq(BOOLEAN) /\ Len(askAnd') = Len(askAnd) + 1
    BY <2>1
  <2>3. lastAnd' \in 0 .. MaxAlgos
    BY <2>1
  <2>4. AndsRecorded'
    <3> SUFFICES ASSUME NEW k \in 1 .. Len(askAnd'), askAnd'[k] PROVE k - 1 <= lastAnd'
      OBVIOUS
    <3>1. CASE k = Len(askAnd) + 1
      BY <2>1, <3>1
    <3>2. CASE k \in 1 .. Len(askAnd)
      <4>1. askAnd[k]
        BY <2>1, <3>2
      <4>2. k - 1 <= lastAnd
        BY <4>1, <3>2
      <4> QED BY <4>2, <2>1, <3>2
    <3> QED BY <2>2, <3>1, <3>2
  <2>5. place' \in 0 .. Len(askAnd') /\ status' \in BOOLEAN /\ doing' = "idle"
    BY <1>1, <2>2 DEF AddAlgo
  <2> QED BY <2>1, <2>2, <2>3, <2>4, <2>5
<1>2. ASSUME NEW says \in [1 .. Len(askAnd) -> BOOLEAN], Bool(says) PROVE ArrayInv'
  BY <1>2 DEF Bool
<1>3. CASE Round
  <2>1. place \in 0 .. Len(askAnd) - 1 /\ place' = place + 1 /\ answers[place + 1] \in BOOLEAN
    BY <1>3 DEF Round
  <2>2. status' \in BOOLEAN
    <3>1. status' \in {answers[place + 1], status /\ answers[place + 1], status \/ answers[place + 1]}
      BY <1>3, <2>1 DEF Round
    <3> QED BY <3>1, <2>1
  <2> QED BY <1>3, <2>1, <2>2 DEF Round
<1>4. CASE Leave
  BY <1>4 DEF Leave
<1>5. CASE UNCHANGED arrayVars
  BY <1>5 DEF arrayVars
<1> QED BY <1>1, <1>2, <1>3, <1>4, <1>5 DEF ArrayNext

\* The recorded index never decides an answer, even when no AND algorithm was
\* added and the index was never written: a round that case 3 of Bool() ends is
\* one that case 1 or 2 ends.
THEOREM IndexNeverDecidesAlways == ArraySpec => []IndexNeverDecides
<1>1. ArrayInv => IndexNeverDecides
  BY DEF ArrayInv, ArrayTypeOK, AndsRecorded, IndexNeverDecides, OnlyOrsLeft, Settled
<1> QED BY ArrayInvInit, ArrayInvNext, <1>1, PTL DEF ArraySpec

-------------------------------------------------------------------------------
(* The answers joined one by one, and the loop that follows them.          *)

\* f[k] is what the first k answers make.
Joins(f, asks, says) ==
  f = [k \in 0 .. Len(asks) |->
         IF k = 0 THEN TRUE
         ELSE IF k = 1 THEN says[1]
         ELSE IF asks[k] THEN f[k - 1] /\ says[k] ELSE f[k - 1] \/ says[k]]

JoinedTo(asks, says) == CHOOSE f : Joins(f, asks, says)

LEMMA JoinedStepwise ==
  ASSUME NEW asks \in Seq(BOOLEAN), NEW says \in [1 .. Len(asks) -> BOOLEAN]
  PROVE  LET f == JoinedTo(asks, says)
         IN /\ f \in [0 .. Len(asks) -> BOOLEAN]
            /\ f[0] = TRUE
            /\ \A k \in 1 .. Len(asks) :
                 f[k] = IF k = 1 THEN says[1]
                        ELSE IF asks[k] THEN f[k - 1] /\ says[k] ELSE f[k - 1] \/ says[k]
<1>. DEFINE n == Len(asks)
            J == JoinedTo(asks, says)
            H(k, b) == IF k = 1 THEN says[1]
                       ELSE IF asks[k] THEN b /\ says[k] ELSE b \/ says[k]
            G == [p \in (1 .. n) \X BOOLEAN |-> H(p[1], p[2])]
<1>1. n \in Nat /\ \A k \in 1 .. n : asks[k] \in BOOLEAN /\ says[k] \in BOOLEAN
  OBVIOUS
<1>2. ASSUME NEW k \in 1 .. n, NEW b \in BOOLEAN PROVE H(k, b) \in BOOLEAN
  <2>1. H(k, b) \in {says[1], b /\ says[k], b \/ says[k]}
    OBVIOUS
  <2>2. says[1] \in BOOLEAN
    BY <1>1
  <2>. QED
    BY <2>1, <2>2
<1>3. ASSUME NEW g
      PROVE  Joins(g, asks, says) <=> g = [k \in 0 .. n |-> IF k = 0 THEN TRUE ELSE H(k, g[k - 1])]
  BY DEF Joins
<1>. HIDE DEF H, n
<1>4. G \in [(1 .. n) \X BOOLEAN -> BOOLEAN]
  BY <1>2
<1>5. PICK f \in [0 .. n -> BOOLEAN] : Recursion(f, TRUE, G, n)
  <2>. HIDE DEF G
  <2>. QED
    BY <1>1, <1>4, FiniteRecursion
<1>6. f[0] = TRUE /\ \A k \in 1 .. n : f[k] = H(k, f[k - 1])
  <2>1. ASSUME NEW k \in 1 .. n PROVE f[k] = H(k, f[k - 1])
    <3>1. f[k - 1] \in BOOLEAN /\ <<k, f[k - 1]>> \in (1 .. n) \X BOOLEAN
      BY <1>1
    <3>2. f[k] = G[<<k, f[k - 1]>>]
      BY <1>5 DEF Recursion
    <3>. QED
      BY <3>1, <3>2
  <2>. QED
    BY <1>5, <2>1 DEF Recursion
<1>. HIDE DEF G
<1>7. Joins(f, asks, says)
  <2>1. ASSUME NEW k \in 0 .. n PROVE f[k] = IF k = 0 THEN TRUE ELSE H(k, f[k - 1])
    <3>1. CASE k = 0
      BY <1>6, <3>1
    <3>2. CASE k # 0
      <4>1. k \in 1 .. n
        BY <1>1, <3>2
      <4>. QED
        BY <1>6, <3>2, <4>1
    <3>. QED
      BY <3>1, <3>2
  <2>2. f = [k \in 0 .. n |-> f[k]]
    OBVIOUS
  <2>3. f = [k \in 0 .. n |-> IF k = 0 THEN TRUE ELSE H(k, f[k - 1])]
    BY <2>1, <2>2
  <2>. QED
    BY <1>3, <2>3
<1>8. J = [k \in 0 .. n |-> IF k = 0 THEN TRUE ELSE H(k, J[k - 1])]
  <2>1. Joins(J, asks, says)
    BY <1>7 DEF JoinedTo
  <2>. QED
    BY <1>3, <2>1
<1>. HIDE DEF J
<1>9. J[0] = TRUE /\ \A k \in 1 .. n : J[k] = H(k, J[k - 1])
  <2>1. 0 \in 0 .. n /\ \A k \in 1 .. n : k \in 0 .. n /\ k # 0
    BY <1>1
  <2>. QED
    BY <1>8, <2>1
<1>10. J = f
  <2>. DEFINE S == {k \in 0 .. n : J[k] = f[k]}
  <2>1. 0 \in S
    <3>1. 0 \in 0 .. n
      BY <1>1
    <3>. QED
      BY <1>6, <1>9, <3>1
  <2>2. ASSUME NEW k \in 1 .. n, k - 1 \in S PROVE k \in S
    <3>1. J[k] = H(k, J[k - 1]) /\ f[k] = H(k, f[k - 1])
      BY <1>6, <1>9
    <3>2. J[k - 1] = f[k - 1]
      BY <2>2
    <3>3. J[k] = f[k]
      BY <3>1, <3>2
    <3>4. k \in 0 .. n
      BY <1>1
    <3>. QED
      BY <3>3, <3>4
  <2>3. ASSUME NEW m \in 0 .. n PROVE J[m] = f[m]
    <3>. HIDE DEF S
    <3>1. m \in Nat /\ \A k \in 1 .. m : k \in 1 .. n
      BY <1>1
    <3>2. m \in S
      BY <2>1, <2>2, <3>1, SetInduction DEF Inductive
    <3>. QED
      BY <3>2 DEF S
  <2>4. f = [k \in 0 .. n |-> f[k]] /\ J = [k \in 0 .. n |-> J[k]]
    BY <1>8
  <2>. QED
    BY <2>3, <2>4
<1>11. J \in [0 .. n -> BOOLEAN]
  BY <1>10
<1>. QED
  BY <1>9, <1>11 DEF H, n, J

\* Bool()'s status is what the answers so far make, and it leaves the loop at the
\* end or where the next algorithm could not change it.
SoFar ==
  doing # "idle" =>
    /\ status = JoinedTo(askAnd, answers)[place]
    /\ doing = "done" => place = Len(askAnd) \/ (place \in 1 .. Len(askAnd) - 1 /\ Settled)

LEMMA NextSoFar == ArrayInv /\ SoFar /\ [ArrayNext]_arrayVars => SoFar'
<1> SUFFICES ASSUME ArrayInv, SoFar, [ArrayNext]_arrayVars PROVE SoFar'
  OBVIOUS
<1>0. ArrayTypeOK /\ ArrayTypeOK' /\ IndexNeverDecides
  BY ArrayInvNext DEF ArrayInv, ArrayTypeOK, AndsRecorded, IndexNeverDecides, OnlyOrsLeft, Settled
<1>1. ASSUME NEW ask \in BOOLEAN, AddAlgo(ask) PROVE SoFar'
  BY <1>1 DEF AddAlgo, SoFar
<1>2. ASSUME NEW says \in [1 .. Len(askAnd) -> BOOLEAN], Bool(says) PROVE SoFar'
  <2>1. doing' = "loop" /\ place' = 0 /\ status' = TRUE /\ askAnd' = askAnd /\ answers' = says
    BY <1>2 DEF Bool
  <2>2. JoinedTo(askAnd, says)[0] = TRUE
    BY <1>0, JoinedStepwise DEF ArrayTypeOK
  <2>. QED
    BY <2>1, <2>2 DEF SoFar
<1>3. CASE Round
  <2>. DEFINE J == JoinedTo(askAnd, answers)
  <2>1. /\ doing = "loop" /\ doing' = "loop" /\ place \in 0 .. Len(askAnd) - 1 /\ place' = place + 1
        /\ askAnd' = askAnd /\ answers' = answers
        /\ status' = IF place = 0 THEN answers[1]
                     ELSE IF askAnd[place + 1] THEN status /\ answers[place + 1]
                     ELSE status \/ answers[place + 1]
    BY <1>0, <1>3 DEF Round, ArrayTypeOK
  <2>2. place + 1 \in 1 .. Len(askAnd) /\ (place + 1) - 1 = place /\ (place + 1 = 1 <=> place = 0)
    BY <1>0, <2>1 DEF ArrayTypeOK
  <2>3. \A k \in 1 .. Len(askAnd) :
           J[k] = IF k = 1 THEN answers[1]
                  ELSE IF askAnd[k] THEN J[k - 1] /\ answers[k] ELSE J[k - 1] \/ answers[k]
    <3>1. askAnd \in Seq(BOOLEAN) /\ answers \in [1 .. Len(askAnd) -> BOOLEAN]
      BY <1>0, <2>1 DEF ArrayTypeOK
    <3>. QED
      BY <3>1, JoinedStepwise
  <2>4. status = J[place]
    BY <2>1 DEF SoFar
  <2>. HIDE DEF J
  <2>5. J[place + 1] = IF place = 0 THEN answers[1]
                   ELSE IF askAnd[place + 1] THEN J[place] /\ answers[place + 1] ELSE J[place] \/ answers[place + 1]
    BY <2>2, <2>3
  <2>6. status' = J[place']
    BY <2>1, <2>4, <2>5
  <2>. QED
    BY <2>1, <2>6 DEF SoFar, J
<1>4. CASE Leave
  <2>1. /\ doing = "loop" /\ UNCHANGED <<askAnd, answers, place, status>>
        /\ place = Len(askAnd) \/ (place \in 1 .. Len(askAnd) - 1 /\ (Settled \/ OnlyOrsLeft))
    BY <1>4 DEF Leave, Breaks
  <2>2. place = Len(askAnd) \/ (place \in 1 .. Len(askAnd) - 1 /\ Settled)
    BY <1>0, <2>1 DEF IndexNeverDecides, ArrayTypeOK
  <2>. QED
    BY <2>1, <2>2 DEF SoFar, Settled
<1>5. CASE UNCHANGED arrayVars
  BY <1>5 DEF arrayVars, SoFar, Settled
<1> QED BY <1>1, <1>2, <1>3, <1>4, <1>5 DEF ArrayNext

\* From where the loop is left, further answers joined in the same way repeat the
\* decision.
LEMMA OneKindEnough == ArrayInv /\ SoFar => OneKindAsDocumented
<1> SUFFICES ASSUME ArrayInv, SoFar, doing = "done",
                    \A j, k \in 2 .. Len(askAnd) : askAnd[j] = askAnd[k]
             PROVE  status = Documented
  BY DEF OneKindAsDocumented
<1>. DEFINE n == Len(askAnd)
            J == JoinedTo(askAnd, answers)
<1>1. /\ n \in Nat /\ place \in 0 .. n /\ status = J[place] /\ askAnd \in Seq(BOOLEAN)
      /\ answers \in [1 .. n -> BOOLEAN]
      /\ place = n \/ (place \in 1 .. n - 1 /\ Settled)
  BY DEF ArrayInv, ArrayTypeOK, SoFar
<1>2. Documented = J[n]
  BY DEF Documented, JoinedTo, Joins
<1>3. /\ J \in [0 .. n -> BOOLEAN]
      /\ \A k \in 1 .. n :
           J[k] = IF k = 1 THEN answers[1]
                  ELSE IF askAnd[k] THEN J[k - 1] /\ answers[k] ELSE J[k - 1] \/ answers[k]
  BY <1>1, JoinedStepwise
<1>. HIDE DEF n, J
<1>4. CASE place \in 1 .. n - 1 /\ Settled
  <2>. DEFINE S == {k \in 0 .. n - place : J[k + place] = J[place]}
  <2>1. 0 \in S
    BY <1>1, <1>4
  <2>2. ASSUME NEW k \in 1 .. n - place, k - 1 \in S PROVE k \in S
    <3>1. /\ k + place \in 2 .. n /\ place + 1 \in 2 .. n /\ (k + place) - 1 = (k - 1) + place
          /\ k \in 0 .. n - place /\ k + place \in 1 .. n /\ k + place # 1
      BY <1>1, <1>4
    <3>2. J[(k + place) - 1] = J[place]
      BY <2>2, <3>1
    <3>3. askAnd[k + place] = askAnd[place + 1]
      BY <3>1 DEF n
    <3>4. IF askAnd[place + 1] THEN ~J[place] ELSE J[place]
      BY <1>1, <1>4 DEF Settled
    <3>5. J[k + place] = IF askAnd[k + place] THEN J[(k + place) - 1] /\ answers[k + place]
                     ELSE J[(k + place) - 1] \/ answers[k + place]
      BY <1>3, <3>1
    <3>6. J[place] \in BOOLEAN /\ J[k + place] \in BOOLEAN
      BY <1>1, <1>3, <3>1
    <3>7. J[k + place] = J[place]
      BY <3>2, <3>3, <3>4, <3>5, <3>6
    <3>. QED
      BY <3>1, <3>7
  <2>3. n - place \in Nat /\ (n - place) + place = n
    BY <1>1
  <2>4. n - place \in S
    <3>1. Inductive(S, n - place)
      <4>. HIDE DEF S
      <4>. QED
        BY <2>1, <2>2 DEF Inductive
    <3>. HIDE DEF S
    <3>. QED
      BY <2>3, <3>1, SetInduction
  <2>. QED
    BY <1>1, <1>2, <2>3, <2>4
<1>. QED
  BY <1>1, <1>2, <1>4

\* With algorithms joined all by AND, or all by OR, leaving the loop early never
\* changes what Bool() returns: it is what the header documents, for any number
\* of algorithms and any answers.
THEOREM OneKindAsDocumentedAlways == ArraySpec => []OneKindAsDocumented
<1>1. ArrayInit => SoFar
  BY DEF ArrayInit, SoFar
<1> QED BY ArrayInvInit, ArrayInvNext, NextSoFar, <1>1, OneKindEnough, PTL DEF ArraySpec

=============================================================================
