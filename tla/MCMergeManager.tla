---------------------------- MODULE MCMergeManager ----------------------------
(* Inputs for TLC: clusters of one plane and of two, of equal and different  *)
(* sizes, and an event without clusters, in the manager's set-ups.           *)
EXTENDS CMergeManager

Event(planes, nhits) ==
  [i \in Index(Len(planes)) |-> [plane |-> planes[i + 1], nhits |-> nhits[i + 1]]]

AnyEvents ==
  {None, Event(<<0>>, <<1>>), Event(<<0, 0, 0, 0>>, <<1, 2, 1, 3>>),
   Event(<<0, 1, 0, 1>>, <<2, 1, 1, 1>>), Event(<<0, 0, 1, 0>>, <<2, 1, 3, 1>>)}
FivePlusOne == {Event(<<0, 0, 0, 1, 0, 0>>, <<1, 2, 2, 1, 3, 1>>)}

Config(c, s, m) == [converge |-> c, separate |-> s, minHits |-> m]
AllConfigs == {Config(c, s, m) : c, s \in BOOLEAN, m \in {0, 2}}
MergeOnly == {Config(TRUE, FALSE, m) : m \in {0, 2}}

\* Six clusters only where there is nothing to separate.
SomeEvents(c) == AnyEvents \cup (IF c \in MergeOnly THEN FivePlusOne ELSE {})
===============================================================================
