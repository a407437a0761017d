----------------------------- MODULE CMManagerBase -----------------------------
(***************************************************************************)
(* What cmtool::CMergeManager and CMatchManager share (UserDev/CMTool/     *)
(* CMToolBase/CMManagerBase.cc): the input clusters, and the priority that *)
(* decides which of them are considered and in which order.                *)
(*                                                                         *)
(* A cluster is [plane, hits]; a hit is the number of the input cluster    *)
(* that it came in with.  A vector of clusters is a function on 0 .. m-1.  *)
(* min is the cut of CPAlgoNHits, 0 when there is no priority algorithm.   *)
(***************************************************************************)
EXTENDS Integers, SequencesExt, FiniteSetsExt

Index(m) == 0 .. m - 1
Size(f) == Cardinality(DOMAIN f)
None == <<>>   \* the empty vector

\* What a client may pass: at least a hit in each cluster, or SetHits throws.
IsEvent(e) ==
  /\ IsFiniteSet(DOMAIN e) /\ DOMAIN e = Index(Size(e))
  /\ \A i \in DOMAIN e : e[i].plane \in Nat /\ e[i].nhits \in Nat \ {0}

\* SetClusters
Fresh(event) ==
  [i \in DOMAIN event |->
     [plane |-> event[i].plane, hits |-> [h \in 1 .. event[i].nhits |-> i]]]

Parts(c) == Range(c.hits)

\* The places in a cluster of the hits that input cluster i came in with.
HitsFrom(c, i) == {h \in DOMAIN c.hits : c.hits[h] = i}

\* CPAlgoNHits, or the number of hits when there is no algorithm.
Priority(c, min) == IF Len(c.hits) < min THEN -1 ELSE Len(c.hits)

\* ComputePriority: the clusters in _priority, and the planes in _planes.
Ranked(clusters, min) == {i \in DOMAIN clusters : Priority(clusters[i], min) > 0}

PlanesOf(clusters, min) == {clusters[i].plane : i \in Ranked(clusters, min)}

\* i comes before j in _priority read backwards: of equals the lower index,
\* which ComputePriority inserts last.
Ahead(clusters, min, i, j) ==
  LET p == Priority(clusters[i], min)
      q == Priority(clusters[j], min)
  IN p > q \/ (p = q /\ i < j)

\* The k-th smallest member of a set of numbers.
Nth(S, k) == CHOOSE i \in S : Cardinality({j \in S : j <= i}) = k

===============================================================================
