------------------------------- MODULE MCStorage -------------------------------
(* Input files for TLC: "run1" has one event and no Event tree, "run2" repeats *)
(* its event number, has a shorter tree and two trees that disagree on their *)
(* second event, "gone" does not exist.                                      *)
EXTENDS StorageClient

Types == {0, 1, 2}
Ids == [e \in 0 .. 9 |-> CASE e = 0 -> 99 [] e = 4 -> 1 [] OTHER -> e]
Files ==
  [f \in {"run1", "run2"} |->
     CASE f = "run1" -> [t \in Types |-> IF t = 0 THEN <<>> ELSE <<1>>]
       [] f = "run2" -> [t \in Types |-> CASE t = 0 -> <<4>> [] t = 1 -> <<4, 3>> [] t = 2 -> <<4, 1>>]]

\* The first session has any input, the second reads back what was written, or
\* goes on with the files of the first.
FirstLists ==
  {<<>>, <<"run1">>, <<"run1", "run2">>, <<"run1", "gone">>, <<"out">>}
Lists(done) == IF done = 0 THEN FirstLists ELSE {<<>>, <<"out">>}
Selections(done) == IF done = 0 THEN {Types, {1, 2}, {0}} ELSE {Types}
=============================================================================
