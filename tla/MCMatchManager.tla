---------------------------- MODULE MCMatchManager ----------------------------
(* Inputs for TLC: up to seven combinations on three planes, with a plane    *)
(* missing, below the cut or beyond the detector's; and one of twelve.       *)
EXTENDS CMatchManager

Event(planesOf, nhits) ==
  [i \in Index(Len(planesOf)) |-> [plane |-> planesOf[i + 1], nhits |-> nhits[i + 1]]]

FewEvents ==
  {None, Event(<<1, 1>>, <<1, 1>>), Event(<<0, 2, 0, 2>>, <<1, 2, 2, 2>>),
   Event(<<2, 0, 0, 1>>, <<2, 2, 2, 3>>), Event(<<0, 1, 1, 2>>, <<1, 1, 2, 1>>),
   Event(<<0, 3, 1>>, <<1, 1, 1>>)}
Twelve == Event(<<0, 1, 0, 1, 2>>, <<1, 2, 2, 2, 1>>)
SomeEvents == FewEvents \cup {Twelve}

\* In the long enumeration all scores are nothing or equal.
ScoresOf(clusters) == IF Size(clusters) = 5 THEN {0, 1} ELSE {-1, 1, 2}
Cuts == {0, 2}
===============================================================================
