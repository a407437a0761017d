----------------------------- MODULE CMergeManager -----------------------------
(***************************************************************************)
(* cmtool::CMergeManager merges the clusters of an event (UserDev/CMTool/  *)
(* CMToolBase/CMergeManager.cc, CMManagerBase.cc).  Process() iterates:    *)
(* a separation algorithm is asked of every pair of clusters of a plane,   *)
(* then a merging algorithm in the order of priority, then the groups      *)
(* become the clusters of the next iteration.  Each iteration has a book   *)
(* keeper of its own; EventEnd() combines them into one over the input.    *)
(*                                                                         *)
(* An iteration's book keeper is the partition of ClusterPartition, which  *)
(* CMergeBookKeeper is shown to implement, with its results numbered in    *)
(* the order of their first member (NumberedInOrder there).  What the      *)
(* algorithms answer is any choice.  Vectors of clusters and of index sets *)
(* are functions on 0 .. m-1.                                              *)
(***************************************************************************)
EXTENDS CMManagerBase

CONSTANTS
  Configs,      \* the set-ups: [converge, separate, minHits], see conf
  Events(_),    \* a set-up's inputs: functions on 0 .. m-1 to [plane, nhits]
  MaxClusters   \* the longest input

ASSUME EventsAssumption ==
  \A c \in Configs : \A e \in Events(c) : IsEvent(e) /\ Size(e) <= MaxClusters

VARIABLES
  conf,      \* converge: _merge_till_converge; separate: is there a
             \* _separate_algo; minHits: the cut of CPAlgoNHits, 0 for none
  input,     \* _in_clusters, each [plane, hits]; a hit is the number of the
             \* input cluster that it came in with
  output,    \* _out_clusters
  book,      \* what _book_keeper.PassResult() gives
  passed,    \* what PassResult() gives of each of _book_keeper_v
  current,   \* _tmp_merged_clusters
  merged,    \* _tmp_merged_indexes
  block, apart,  \* the book keeper bk of the iteration
  first,     \* _iter_ctr = 0
  pc,        \* what the manager does next, "idle" outside analyze()
  pairs,     \* the pairs of clusters that the loop has still to look at
  settled    \* history: the pairs of clusters that an algorithm kept from
             \* merging in this event

vars == <<conf, input, output, book, passed, current, merged, block, apart,
          first, pc, pairs, settled>>
keeper == <<block, apart>>
results == <<output, book>>

BK == INSTANCE ClusterPartition

-------------------------------------------------------------------------------
(* Which pairs are looked at, and in which order.                          *)

RankedNow(clusters) == Ranked(clusters, conf.minHits)
AheadNow(clusters, i, j) == Ahead(clusters, conf.minHits, i, j)

\* The pairs that RunSeparate and RunMerge go through, and which of two comes
\* first: the loops are nested, so the first members decide.
SeparationPairs(clusters) ==
  {p \in (DOMAIN clusters) \X (DOMAIN clusters) :
     p[1] < p[2] /\ clusters[p[1]].plane = clusters[p[2]].plane}

MergePairs(clusters) ==
  {p \in RankedNow(clusters) \X RankedNow(clusters) :
     AheadNow(clusters, p[1], p[2]) /\ clusters[p[1]].plane = clusters[p[2]].plane}

IsNextToSeparate(p) ==
  \A q \in pairs \ {p} : p[1] < q[1] \/ (p[1] = q[1] /\ p[2] < q[2])

IsNextToMerge(p) ==
  \A q \in pairs \ {p} :
    AheadNow(current, p[1], q[1]) \/ (p[1] = q[1] /\ AheadNow(current, p[2], q[2]))

\* merge_switch: the last iteration merged something into cluster i.
Switch(i) == i \in DOMAIN merged => Cardinality(merged[i]) # 1

-------------------------------------------------------------------------------
(* Results of a book keeper: the blocks in the order of their first member. *)

Before(A, B) == \E a \in A : \A b \in B : a < b

PassResult ==
  LET blocks == {block[x] : x \in BK!Clusters}
  IN [k \in Index(Cardinality(blocks)) |->
        CHOOSE B \in blocks : Cardinality({A \in blocks : Before(A, B)}) = k]

\* Faulty: the second book keeper's indexes are taken for input indexes.
CombinedUnmapped(mine, another) == another

Combined(mine, another) ==
  [k \in DOMAIN another |-> UNION {mine[i] : i \in another[k]}]

\* Combine throws unless another is a book keeper of my results, with fewer.
CombineRefuses(mine, another) ==
  Cardinality(UNION Range(another)) # Size(mine) \/ Size(another) >= Size(mine)

\* Faulty: only the first cluster's hits make it into the output.
JoinedFirst(indexes) == current[Min(indexes)]

Joined(indexes) ==
  [plane |-> current[Min(indexes)].plane,
   hits |-> FlattenSeq([k \in 1 .. Cardinality(indexes) |->
                          current[Nth(indexes, k)].hits])]

-------------------------------------------------------------------------------
(* ClusterMerger::analyze(): Reset, SetClusters, Process.                  *)

Init ==
  /\ conf \in Configs
  /\ input = None /\ output = None /\ book = None /\ passed = <<>>
  /\ current = None /\ merged = None
  /\ BK!Empty(0)
  /\ first = TRUE /\ pc = "idle" /\ pairs = {}
  /\ settled = {}

ResetResults == book' = None /\ output' = None

Analyze(event) ==
  /\ pc = "idle"
  /\ ResetResults
  /\ input' = Fresh(event)
  /\ passed' = <<>> /\ current' = None /\ merged' = None /\ first' = TRUE
  /\ pc' = IF event = None THEN "idle" ELSE "event"
  /\ pairs' = {}
  /\ UNCHANGED <<conf, keeper, settled>>

EventBegin ==
  /\ pc = "event"
  /\ book' = [i \in DOMAIN input |-> {i}]
  /\ first' = TRUE
  /\ current' = None /\ merged' = None /\ passed' = <<>>
  /\ settled' = {}
  /\ pc' = "begin"
  /\ UNCHANGED <<conf, input, output, keeper, pairs>>

\* IterationBegin() and IterationProcess() up to the first loop.
IterationBegin ==
  LET clusters == IF first THEN input ELSE output
  IN /\ pc = "begin"
     /\ current' = clusters
     /\ output' = None
     /\ BK!Restart(Size(clusters))
     /\ pairs' = IF conf.separate THEN SeparationPairs(clusters) ELSE {}
     /\ pc' = "separate"
     /\ UNCHANGED <<conf, input, book, passed, merged, first, settled>>

Settle(i, j) == settled' = settled \cup {{Parts(current[i]), Parts(current[j])}}

\* One round of RunSeparate's loops.
SeparatePair ==
  /\ pc = "separate"
  /\ \E p \in pairs :
       /\ IsNextToSeparate(p)
       /\ \/ UNCHANGED <<keeper, settled>>
          \/ BK!Separate(p[1], p[2]) /\ Settle(p[1], p[2])
       /\ pairs' = pairs \ {p}
  /\ UNCHANGED <<conf, input, results, passed, current, merged, first, pc>>

SeparateDone ==
  /\ pc = "separate" /\ pairs = {}
  /\ pairs' = MergePairs(current)
  /\ pc' = "merge"
  /\ UNCHANGED <<conf, input, results, passed, current, merged, keeper, first, settled>>

\* Faulty: the separations of the iteration are not consulted.
InspectedAnyway(i, j) == Switch(i) \/ Switch(j)

\* The merging algorithm is asked; MergeAllowed lets merged pairs through.
Inspected(i, j) == (Switch(i) \/ Switch(j)) /\ <<i, j>> \notin apart

\* What becomes of a pair in RunMerge: skipped, refused, merged already, merged,
\* or an exception from Merge.
Decide(i, j) ==
  \/ ~Inspected(i, j) /\ UNCHANGED <<keeper, settled, pc>>
  \/ Inspected(i, j) /\ Settle(i, j) /\ UNCHANGED <<keeper, pc>>
  \/ Inspected(i, j) /\ block[i] = block[j] /\ UNCHANGED <<keeper, settled, pc>>
  \/ Inspected(i, j) /\ BK!Join(i, j) /\ UNCHANGED <<settled, pc>>
  \/ Inspected(i, j) /\ <<i, j>> \in apart /\ pc' = "thrown" /\ UNCHANGED <<keeper, settled>>

\* One round of RunMerge's loops.
MergePair ==
  /\ pc = "merge"
  /\ \E p \in pairs :
       /\ IsNextToMerge(p)
       /\ Decide(p[1], p[2])
       /\ pairs' = pairs \ {p}
  /\ UNCHANGED <<conf, input, results, passed, current, merged, first>>

\* Faulty: one plane more than there is.
StopsEarly(clusters) ==
  \/ Size(clusters) = Size(current)
  \/ Size(clusters) <= Cardinality(PlanesOf(current, conf.minHits)) + 1

\* Faulty: an iteration that merged nothing is followed by another.
StopsNever(clusters) == Size(clusters) = Cardinality(PlanesOf(current, conf.minHits))

\* IterationProcess() returns false.
Stops(clusters) ==
  \/ Size(clusters) = Size(current)
  \/ Size(clusters) = Cardinality(PlanesOf(current, conf.minHits))

Saved == IF Size(PassResult) = Size(current) THEN passed ELSE Append(passed, PassResult)

\* The end of IterationProcess(), IterationEnd() and the loop of Process().
IterationEnd ==
  /\ pc = "merge" /\ pairs = {}
  /\ merged' = PassResult
  /\ output' = IF Size(merged') = Size(current) THEN current
               ELSE [k \in DOMAIN merged' |->
                       IF Cardinality(merged'[k]) = 1 THEN current[Min(merged'[k])]
                       ELSE Joined(merged'[k])]
  /\ passed' = Saved
  /\ first' = FALSE
  /\ pc' = IF Stops(output') \/ ~conf.converge THEN "end" ELSE "begin"
  /\ UNCHANGED <<conf, input, book, current, keeper, pairs, settled>>

\* One call of Combine from EventEnd(); passed is what the loop has left.
CombineNext ==
  /\ pc = "end" /\ passed # <<>>
  /\ IF CombineRefuses(book, Head(passed))
     THEN pc' = "thrown" /\ UNCHANGED book
     ELSE book' = Combined(book, Head(passed)) /\ UNCHANGED pc
  /\ passed' = Tail(passed)
  /\ UNCHANGED <<conf, input, output, current, merged, keeper, first, pairs, settled>>

EventEnd ==
  /\ pc = "end" /\ passed = <<>>
  /\ current' = None /\ merged' = None
  /\ pc' = "idle"
  /\ UNCHANGED <<conf, input, results, passed, keeper, first, pairs, settled>>

Process ==
  \/ EventBegin \/ IterationBegin \/ SeparatePair \/ SeparateDone
  \/ MergePair \/ IterationEnd \/ CombineNext \/ EventEnd

Next == Process \/ \E event \in Events(conf) : Analyze(event)

\* Process() is one call of a single thread: once begun, it goes on.
Spec == Init /\ [][Next]_vars /\ WF_vars(Process)

-------------------------------------------------------------------------------
(* Properties.                                                             *)

Done == pc = "idle"
Alone(clusters, i) == {k \in DOMAIN clusters : i \in Parts(clusters[k])}

\* Whatever was merged, over however many iterations: every hit of the input is
\* in the output once, and no output mixes two planes.
HitsConserved ==
  Done =>
    /\ \A i \in DOMAIN input :
         \E k \in DOMAIN output :
           /\ Cardinality(Alone(output, i)) = 1 /\ i \in Parts(output[k])
           /\ Cardinality(HitsFrom(output[k], i)) = Len(input[i].hits)
           /\ output[k].plane = input[i].plane

\* The composed book keeper, which ClusterMerger writes its output from, says
\* for each output cluster exactly which inputs it is made of, in the same order.
BookMatchesOutput ==
  Done => /\ DOMAIN book = DOMAIN output
          /\ \A k \in DOMAIN book : book[k] = Parts(output[k])

\* Neither Merge nor Combine ever throws, so Process() is never left half way.
NeverThrown == pc # "thrown"

\* A converged result leaves nothing to do: an algorithm has refused, or
\* separated, each pair of ranked clusters of a plane that are still two.  The
\* pairs the switch spared were settled in an earlier iteration, and stopping
\* with a cluster per plane misses none.
NothingLeftToMerge ==
  Done /\ conf.converge =>
    \A i, j \in RankedNow(output) :
      i # j /\ output[i].plane = output[j].plane
        => {Parts(output[i]), Parts(output[j])} \in settled

\* Merging cannot go on for ever: analyze() returns.
Returns == pc # "idle" ~> pc = "idle"

===============================================================================
