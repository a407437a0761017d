--------------------------- MODULE ClusterPartition ---------------------------
(***************************************************************************)
(* What a merge book keeper promises, without any numbering: the input     *)
(* clusters are split in blocks, pairs of clusters can be declared apart,  *)
(* and two blocks can be joined unless they are apart.  Being apart is a   *)
(* relation between whole blocks, and joining two blocks keeps every       *)
(* separation either of them was in.  CMergeBookKeeper implements this     *)
(* with an index per cluster and a triangle of flags that it compacts.     *)
(***************************************************************************)
EXTENDS Integers

CONSTANT MaxClusters  \* bound on the number of input clusters

VARIABLES
  block,  \* block[x]: the clusters merged with x, x included
  apart   \* the ordered pairs of clusters that may never share a block

pvars == <<block, apart>>

Clusters == DOMAIN block

Empty(m) ==
  /\ block = [x \in 0 .. m - 1 |-> {x}]
  /\ apart = {}

Init == \E m \in 0 .. MaxClusters : Empty(m)

\* A new event: m clusters, each a block of its own, nothing apart.
Restart(m) ==
  /\ block' = [x \in 0 .. m - 1 |-> {x}]
  /\ apart' = {}

\* Declare the blocks of i and j apart.
Separate(i, j) ==
  /\ block[i] # block[j]
  /\ apart' = apart \cup (block[i] \X block[j]) \cup (block[j] \X block[i])
  /\ UNCHANGED block

\* Join the blocks of i and j, which must not be apart.  The new block is
\* apart from whatever one of its parts was apart from.
Join(i, j) ==
  LET both == block[i] \cup block[j] IN
  /\ block[i] # block[j]
  /\ <<i, j>> \notin apart
  /\ block' = [x \in Clusters |-> IF x \in both THEN both ELSE block[x]]
  /\ apart' = {p \in Clusters \X Clusters :
                 \E x \in block'[p[1]], y \in block'[p[2]] : <<x, y>> \in apart}

Next ==
  \/ \E m \in 0 .. MaxClusters : Restart(m)
  \/ \E i, j \in Clusters : Separate(i, j) \/ Join(i, j)

Spec == Init /\ [][Next]_pvars

===============================================================================
