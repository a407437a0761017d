----------------------------- MODULE CMatchManager -----------------------------
(***************************************************************************)
(* cmtool::CMatchManager matches clusters of different planes (UserDev/    *)
(* CMTool/CMToolBase/CMatchManager.cc, CMManagerBase.cc).  It enumerates   *)
(* every choice of one cluster from each of two or more planes, asks the   *)
(* matching algorithm for a score, and registers what scores above zero.   *)
(* A call of the algorithm is a step: its score is any of Scores.          *)
(***************************************************************************)
EXTENDS CMManagerBase

CONSTANTS
  NPlanes,   \* _nplanes
  MinHits,   \* settings of CPAlgoNHits, 0 for none
  Events,    \* the inputs: functions on 0 .. m-1 to [plane, nhits]
  Scores(_)  \* what the matching algorithm may answer of an input

ASSUME EventsAssumption == NPlanes \in Nat /\ \A e \in Events : IsEvent(e)
ASSUME ScoresAssumption == \A e \in Events : Scores(Fresh(e)) \subseteq Int

VARIABLES
  minHits,   \* the cut of the priority algorithm
  input,     \* _in_clusters
  register,  \* _book_keeper
  columns,   \* cluster_array: per plane in use, its clusters by priority
  planes,    \* plane_comb as a vector of flags, the v of SimpleCombination
  counter,   \* cluster_comb, the ctr of ClusterCombinations
  pc,        \* what the manager does next, "idle" outside analyze()
  asked      \* history: the combinations that the algorithm was asked about

vars == <<minHits, input, register, columns, planes, counter, pc, asked>>
loop == <<columns, planes, counter>>

BK == INSTANCE CMatchBookKeeper

-------------------------------------------------------------------------------
(* Enumeration: the planes taken are the largest number first, then in the *)
(* order of std::next_permutation on the flags; of the chosen planes the   *)
(* counters run like an odometer.  Both are vectors indexed from 0.        *)

Taken(flags) == {p \in DOMAIN flags : flags[p]}

\* flags come before others among vectors with the same number of TRUE.
Precedes(flags, others) ==
  \E p \in DOMAIN flags :
    /\ others[p] /\ ~flags[p]
    /\ \A q \in DOMAIN flags : q < p => flags[q] = others[q]

Flags(n, r) == {f \in [Index(n) -> BOOLEAN] : Cardinality(Taken(f)) = r}
FirstFlags(n, r) == [p \in Index(n) |-> p >= n - r]

\* The flags that next_permutation turns these into, none after the last.
NextFlags(flags) ==
  {f \in Flags(Size(flags), Cardinality(Taken(flags))) :
     /\ Precedes(flags, f)
     /\ \A g \in Flags(Size(flags), Cardinality(Taken(flags))) :
          Precedes(flags, g) => g = f \/ Precedes(f, g)}

Zeros(flags) == [k \in Index(Cardinality(Taken(flags))) |-> 0]

\* The plane of the k-th counter and how many clusters it has.
PlaneAt(k) == Nth(Taken(planes), k + 1)
Clusters(k) == Size(columns[PlaneAt(k)])

\* Faulty: a digit that overflows is not carried.
NextCounterStuck ==
  LET last == Size(counter) - 1
  IN [counter EXCEPT ![last] = (@ + 1) % Clusters(last)]

\* The last counter that has not come to its end is raised, those after it
\* restart; after the last combination all are zero again.
NextCounter ==
  LET full == {k \in DOMAIN counter : \A j \in DOMAIN counter :
                 j >= k => counter[j] + 1 = Clusters(j)}
      k == Size(counter) - Cardinality(full) - 1
  IN [j \in DOMAIN counter |->
        IF j > k THEN 0 ELSE IF j = k THEN counter[j] + 1 ELSE counter[j]]

\* tmp_index_v: the input clusters of the combination.
Combination ==
  {columns[PlaneAt(k)][counter[k]] : k \in DOMAIN counter}

\* cluster_array
Columns ==
  LET used == PlanesOf(input, minHits)
      on(p) == {i \in Ranked(input, minHits) : input[i].plane = p}
  IN [c \in Index(Cardinality(used)) |->
        [k \in Index(Cardinality(on(Nth(used, c + 1)))) |->
           CHOOSE i \in on(Nth(used, c + 1)) :
             Cardinality({j \in on(Nth(used, c + 1)) : Ahead(input, minHits, j, i)}) = k]]

-------------------------------------------------------------------------------
(* ClusterMatcher::analyze(): Reset, SetClusters, Process.                 *)

Init ==
  /\ minHits \in MinHits
  /\ input = None /\ register = <<>>
  /\ columns = None /\ planes = None /\ counter = None
  /\ pc = "idle" /\ asked = {}

\* Faulty: the candidates of the last event stay.
ResetRegisterKept == UNCHANGED register

ResetRegister == register' = <<>>

Analyze(event) ==
  /\ pc = "idle"
  /\ ResetRegister
  /\ input' = Fresh(event)
  /\ asked' = {}
  /\ pc' = IF event = None THEN "idle" ELSE "begin"
  /\ UNCHANGED <<minHits, loop>>

\* EventBegin() and IterationBegin(), which both call the algorithm's IterationBegin().
Begin ==
  /\ pc = "begin"
  /\ pc' = "process"
  /\ UNCHANGED <<minHits, input, register, loop, asked>>

\* IterationProcess() up to its loop: too few planes, a plane that the
\* detector does not have, or the first combination.
IterationProcess ==
  LET used == PlanesOf(input, minHits)
  IN /\ pc = "process"
     /\ \/ Cardinality(used) < 2 /\ pc' = "end" /\ UNCHANGED loop
        \/ /\ Cardinality(used) >= 2 /\ \E p \in used : p >= NPlanes
           /\ pc' = "thrown" /\ UNCHANGED loop
        \/ /\ Cardinality(used) >= 2 /\ \A p \in used : p < NPlanes
           /\ columns' = Columns
           /\ planes' = FirstFlags(Cardinality(used), Cardinality(used))
           /\ counter' = Zeros(planes')
           /\ pc' = "ask"
     /\ UNCHANGED <<minHits, input, register, asked>>

\* What the loops do after a combination.
Advance ==
  LET n == Size(planes)
      r == Cardinality(Taken(planes))
  IN \/ /\ NextCounter # Zeros(planes)
        /\ counter' = NextCounter /\ UNCHANGED <<columns, planes, pc>>
     \/ /\ NextCounter = Zeros(planes) /\ NextFlags(planes) # {}
        /\ planes' \in NextFlags(planes)
        /\ counter' = Zeros(planes') /\ UNCHANGED <<columns, pc>>
     \/ /\ NextCounter = Zeros(planes) /\ NextFlags(planes) = {} /\ r > 2
        /\ planes' = FirstFlags(n, r - 1)
        /\ counter' = Zeros(planes') /\ UNCHANGED <<columns, pc>>
     \/ /\ NextCounter = Zeros(planes) /\ NextFlags(planes) = {} /\ r = 2
        /\ columns' = None /\ planes' = None /\ counter' = None
        /\ pc' = "end"

Registered(score) == score > 0

Ask(score) ==
  /\ pc = "ask"
  /\ register' = IF Registered(score) THEN BK!Match(register, Combination, score) ELSE register
  /\ asked' = asked \cup {Combination}
  /\ Advance
  /\ UNCHANGED <<minHits, input>>

\* IterationEnd() and EventEnd().
End ==
  /\ pc = "end"
  /\ pc' = "idle"
  /\ UNCHANGED <<minHits, input, register, loop, asked>>

\* The exception leaves analyze(); a caller that catches it may go on.
Catch == pc = "thrown" /\ pc' = "idle" /\ UNCHANGED <<minHits, input, register, loop, asked>>

Process == Begin \/ IterationProcess \/ End \/ Catch \/ \E s \in Scores(input) : Ask(s)

Next == Process \/ \E event \in Events : Analyze(event)

Spec == Init /\ [][Next]_vars

-------------------------------------------------------------------------------
(* Properties.                                                             *)

\* No combination is asked about twice, so that the enumeration ends; and when
\* it has, the algorithm has been asked of every choice of one ranked cluster from
\* each of two or more planes, and of nothing else.
EveryCombination ==
  /\ pc = "ask" => Combination \notin asked
  /\ pc = "end" /\ Cardinality(PlanesOf(input, minHits)) >= 2 =>
       asked = {S \in SUBSET Ranked(input, minHits) :
                  /\ Cardinality(S) >= 2
                  /\ \A i, j \in S : i # j => input[i].plane # input[j].plane}

\* The result never uses a cluster for two matches, and has clusters of the
\* event at hand only.
MatchedOnce ==
  pc = "idle" =>
    LET result == BK!PassResult(register)
    IN /\ UNION Range(result) \subseteq DOMAIN input
       /\ \A k, l \in DOMAIN result : k # l => result[k] \intersect result[l] = {}

\* What the algorithm found and the result leaves out lost to a match with a
\* better score, or with the same score and registered later, which is one of
\* no more planes: nothing that could be added is missing.
LosersLost ==
  pc = "idle" =>
    LET result == Range(BK!PassResult(register))
    IN \A k \in DOMAIN register :
         \/ register[k].members \in result
         \/ \E l \in k + 1 .. Len(register) :
              /\ register[l].members \in result
              /\ register[l].members \intersect register[k].members # {}
              /\ \/ register[l].score > register[k].score
                 \/ /\ register[l].score = register[k].score
                    /\ Cardinality(register[l].members) <= Cardinality(register[k].members)

===============================================================================
