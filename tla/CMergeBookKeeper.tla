--------------------------- MODULE CMergeBookKeeper ---------------------------
(***************************************************************************)
(* cmtool::CMergeBookKeeper (UserDev/CMTool/CMToolBase/CMergeBookKeeper.cc) *)
(* keeps, for each input cluster, the index of the output cluster it is    *)
(* merged into, and a triangle of flags that says which pairs of output    *)
(* clusters may not be merged.  Merging two outputs closes the gap in the  *)
(* numbering, so every flag moves.                                         *)
(*                                                                         *)
(* A call that throws before it changes anything, and a Merge of a pair    *)
(* that is merged already, leave the state alone: they are the stuttering  *)
(* steps.  Combine can throw half way through, and is modelled one Merge   *)
(* call at a time; no other call can come between them.                    *)
(***************************************************************************)
EXTENDS Integers

CONSTANT MaxLen  \* bound on Reset's argument, an unsigned short

ASSUME MaxLenAssumption == MaxLen \in Nat /\ MaxLen < 65536

VARIABLES
  len,       \* number of input clusters, the length of the vector itself
  out,       \* out[x]: output index of input cluster x
  prohibit,  \* prohibit[r]: offsets d such that (r, r+d) may not be merged
  count,     \* _out_cluster_count
  combine,   \* "idle", or how far the last call, a Combine, has come
  base,      \* out when that Combine started (my_result)
  other,     \* the numbering of the argument of that Combine (another)
  todo       \* the input clusters that Combine has still to merge

bookVars == <<len, out, prohibit, count, combine, base, other, todo>>

Indexes(m) == 0 .. m - 1

\* The flag of the pair of outputs a, b, looked up from the smaller one.
Prohibited(a, b) ==
  IF a < b THEN b - a \in prohibit[a] ELSE a - b \in prohibit[b]

-------------------------------------------------------------------------------
(* What Merge does to the numbering and the flags when outputs a < b join. *)

\* Faulty variants, for the mutation runs: the gap at b left open; the larger
\* index kept for the merged output.
NewIndexGap(k, a, b) == IF k \in {a, b} THEN a ELSE k
NewIndexLarger(k, a, b) == IF k \in {a, b} THEN b ELSE IF k > b THEN k - 1 ELSE k

\* The index that output k has afterwards.
NewIndex(k, a, b) ==
  IF k \in {a, b} THEN a ELSE IF k > b THEN k - 1 ELSE k

\* Faulty: the last live entry is shifted down but not cleared.
ShiftedRowUncleared(r, b) ==
  {d \in Indexes(len - r) :
     \/ d < b - r /\ d \in prohibit[r]
     \/ b - r <= d /\ d < count - r - 1 /\ d + 1 \in prohibit[r]
     \/ d >= count - r - 1 /\ d \in prohibit[r]}

\* Row r without the column of b: what the loops of parts (1), (2) and (3) share.
ShiftedRow(r, b) ==
  {d \in Indexes(len - r) :
     \/ d < b - r /\ d \in prohibit[r]
     \/ b - r <= d /\ d < count - r - 1 /\ d + 1 \in prohibit[r]
     \/ d > count - r - 1 /\ d \in prohibit[r]}

\* Faulty: row b is read one entry too early.
InheritedRowEarly(a, b) ==
  {d \in 1 .. b - a - 1 : b - (a + d) \in prohibit[a + d]}
    \cup {d \in b - a .. count - a - 2 : d + a - b \in prohibit[b]}

\* Row a takes over b's separations: from the rows between a and b and from row b.
InheritedRow(a, b) ==
  {d \in 1 .. b - a - 1 : b - (a + d) \in prohibit[a + d]}
    \cup {d \in b - a .. count - a - 2 : d + 1 + a - b \in prohibit[b]}

\* Faulty: the rows before a drop b's column without folding it into a's.
NewRowDropped(r, a, b) ==
  IF r = a THEN ShiftedRow(a, b) \cup InheritedRow(a, b)
  ELSE IF r < b THEN ShiftedRow(r, b)
  ELSE IF r < count - 1 THEN prohibit[r + 1]
  ELSE prohibit[r]

NewRow(r, a, b) ==
  IF r < a THEN ShiftedRow(r, b) \cup {d \in {a - r} : b - r \in prohibit[r]}
  ELSE IF r = a THEN ShiftedRow(a, b) \cup InheritedRow(a, b)
  ELSE IF r < b THEN ShiftedRow(r, b)
  ELSE IF r < count - 1 THEN prohibit[r + 1]
  ELSE prohibit[r]

Unite(a, b) ==
  /\ out' = [x \in Indexes(len) |-> NewIndex(out[x], a, b)]
  /\ prohibit' = [r \in Indexes(len) |-> NewRow(r, a, b)]
  /\ count' = count - 1
  /\ UNCHANGED len

\* The part of Merge after its checks, for input clusters i and j.
UniteClusters(i, j) ==
  IF out[i] < out[j] THEN Unite(out[i], out[j]) ELSE Unite(out[j], out[i])

-------------------------------------------------------------------------------
(* The calls.                                                              *)

BookInit ==
  /\ len \in 0 .. MaxLen
  /\ out = [x \in Indexes(len) |-> x]
  /\ prohibit = [r \in Indexes(len) |-> {}]
  /\ count = len
  /\ combine = "idle" /\ base = <<>> /\ other = <<>> /\ todo = {}

NoCombine ==
  /\ combine # "running"
  /\ combine' = "idle" /\ base' = <<>> /\ other' = <<>> /\ todo' = {}

Reset(m) ==
  /\ len' = m
  /\ out' = [x \in Indexes(m) |-> x]
  /\ prohibit' = [r \in Indexes(m) |-> {}]
  /\ count' = m
  /\ NoCombine

ProhibitMerge(i, j) ==
  LET a == IF out[i] < out[j] THEN out[i] ELSE out[j]
      b == IF out[i] < out[j] THEN out[j] ELSE out[i]
  IN /\ out[i] # out[j]
     /\ prohibit' = [prohibit EXCEPT ![a] = @ \cup {b - a}]
     /\ NoCombine
     /\ UNCHANGED <<len, out, count>>

Merge(i, j) ==
  /\ out[i] # out[j]
  /\ ~Prohibited(out[i], out[j])
  /\ UniteClusters(i, j)
  /\ NoCombine

-------------------------------------------------------------------------------
(* Combine.  another is a book keeper of this one's outputs, so it is      *)
(* given by a numbering that Reset and Merge can produce.                  *)

\* Outputs are numbered in the order of their first cluster, without gaps.
InOrder(f) ==
  \A x \in DOMAIN f : \A k \in Indexes(f[x]) : \E y \in Indexes(x) : f[y] = k

Numbering(m, k) ==
  {f \in [Indexes(m) -> Indexes(k)] : InOrder(f) /\ \A j \in Indexes(k) : \E x \in Indexes(m) : f[x] = j}

\* Clusters x and y that the running Combine puts in one output.
SameGroup(x, y) == other[base[x]] = other[base[y]]

\* t is the cluster that x's group is merged onto: the first one of the first
\* of my results in the group.
IsTarget(t, x) ==
  /\ SameGroup(t, x)
  /\ \A y \in Indexes(len) :
       SameGroup(y, x) => base[t] < base[y] \/ (base[t] = base[y] /\ t <= y)

\* x comes before y in the nested loops of Combine.
ComesBefore(x, y) ==
  \/ other[base[x]] < other[base[y]]
  \/ SameGroup(x, y) /\ base[x] < base[y]
  \/ SameGroup(x, y) /\ base[x] = base[y] /\ x <= y

\* Faulty: only the first two results of a group are merged.
CombineBeginPairs(f) ==
  /\ combine # "running"
  /\ combine' = "running"
  /\ base' = out
  /\ other' = f
  /\ todo' = {x \in Indexes(len) :
                /\ \E y \in Indexes(len) : f[out[y]] = f[out[x]] /\ out[y] # out[x]
                /\ ~ \E y, z \in Indexes(len) : /\ f[out[y]] = f[out[x]] /\ f[out[z]] = f[out[x]]
                                           /\ out[y] < out[z] /\ out[z] < out[x]}
  /\ UNCHANGED <<len, out, prohibit, count>>

CombineBegin(f) ==
  /\ combine # "running"
  /\ combine' = "running"
  /\ base' = out
  /\ other' = f
  /\ todo' = {x \in Indexes(len) : \E y \in Indexes(len) : f[out[y]] = f[out[x]] /\ out[y] # out[x]}
  /\ UNCHANGED <<len, out, prohibit, count>>

\* One call of Merge(target, x) from Combine's loops.
CombineMerge(t, x) ==
  /\ combine = "running"
  /\ x \in todo /\ \A y \in todo : ComesBefore(x, y)
  /\ IsTarget(t, x)
  /\ \/ /\ out[x] = out[t]
        /\ UNCHANGED <<len, out, prohibit, count>>
     \/ /\ out[x] # out[t]
        /\ ~Prohibited(out[t], out[x])
        /\ UniteClusters(t, x)
  /\ todo' = todo \ {x}
  /\ combine' = IF todo' = {} THEN "done" ELSE "running"
  /\ UNCHANGED <<base, other>>

\* That call throws: what was merged so far stays merged.
CombineThrow(t, x) ==
  /\ combine = "running"
  /\ x \in todo /\ \A y \in todo : ComesBefore(x, y)
  /\ IsTarget(t, x)
  /\ out[x] # out[t]
  /\ Prohibited(out[t], out[x])
  /\ todo' = {}
  /\ combine' = "thrown"
  /\ UNCHANGED <<len, out, prohibit, count, base, other>>

Call ==
  \/ \E m \in 0 .. MaxLen : Reset(m)
  \/ \E i, j \in Indexes(len) : i # j /\ (ProhibitMerge(i, j) \/ Merge(i, j))

CombineStep ==
  \/ \E k \in Indexes(count) : \E f \in Numbering(count, k) : CombineBegin(f)
  \/ \E t, x \in Indexes(len) : CombineMerge(t, x) \/ CombineThrow(t, x)

BookNext == Call \/ CombineStep

BookSpec == BookInit /\ [][BookNext]_bookVars

-------------------------------------------------------------------------------
(* Properties.                                                             *)

TypeOK ==
  /\ len \in 0 .. MaxLen
  /\ count \in 0 .. len
  /\ out \in [Indexes(len) -> Indexes(count)]
  /\ prohibit \in [Indexes(len) -> SUBSET (0 .. MaxLen)]
  /\ combine \in {"idle", "running", "done", "thrown"}
  /\ todo \subseteq 0 .. MaxLen

\* The outputs are always 0 .. count-1, every one in use, in the order of their
\* first cluster: PassResult fills exactly count non-empty sets, and an index
\* saved from one iteration addresses the right cluster of the next.
NumberedInOrder == out \in Numbering(len, count)

\* Compacting leaves no flag behind outside the triangle of the outputs that are
\* left, nor on its diagonal: a stale flag would separate a later pair that
\* nobody separated.
NoStaleFlags ==
  \A r \in Indexes(len) :
    prohibit[r] \subseteq IF r < count THEN 1 .. count - r - 1 ELSE {}

\* While Combine runs, and when it throws, the result is between the old result
\* and the requested one: nothing is split, nothing merged that was not asked.
\* One that returns has composed the two numberings, indices included.
CombineComposes ==
  /\ combine # "idle" =>
       \A x, y \in Indexes(len) :
         /\ base[x] = base[y] => out[x] = out[y]
         /\ out[x] = out[y] => SameGroup(x, y)
  /\ combine = "done" => \A x \in Indexes(len) : out[x] = other[base[x]]

\* What the book keeper says of input clusters: GetMergedSet, and the pairs
\* MergeAllowed refuses.
MergedSet(x) == {y \in Indexes(len) : out[y] = out[x]}

Apart ==
  {p \in Indexes(len) \X Indexes(len) :
     out[p[1]] # out[p[2]] /\ Prohibited(out[p[1]], out[p[2]])}

\* Until Reset, two clusters once separated stay separated: no later Merge or
\* Combine puts them in one output, and MergeAllowed never forgets them.
SeparationIsForever == [][(\E m \in 0 .. MaxLen : Reset(m)) \/ Apart \subseteq Apart']_bookVars

\* The book keeper implements the partition with separated blocks.
Partition == INSTANCE ClusterPartition
               WITH MaxClusters <- MaxLen,
                    block <- [x \in Indexes(len) |-> MergedSet(x)], apart <- Apart
ImplementsPartition == Partition!Spec

===============================================================================
