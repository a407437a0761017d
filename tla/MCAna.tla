--------------------------------- MODULE MCAna ---------------------------------
(* Set-ups for TLC: an aligned input, one whose trees disagree on the second  *)
(* event, an empty one and a missing one, in the modes that scripts use.      *)
EXTENDS AnaProcessor

Types == {1, 2, 3}
Ids == [e \in 0 .. 3 |-> IF e = 0 THEN 99 ELSE e]
Files ==
  [f \in {"good", "bad", "empty"} |->
     [t \in Types |-> CASE t = 3 \/ f = "empty" -> <<>>
                        [] t = 2 /\ f = "bad" -> <<1, 3>>
                        [] OTHER -> <<1, 2>>]]
Job(m, files, style) == [mode |-> m, files |-> files, style |-> style]
Styles == {"any", "run", "loop"}
AllJobs ==
  {Job(m, <<f>>, c) : m \in {"READ", "BOTH"}, f \in {"good", "bad"}, c \in Styles}
    \union {Job("BOTH", <<"empty">>, c) : c \in Styles}
    \union {Job("READ", <<"gone">>, c) : c \in Styles}
    \union {Job("UNDEFINED", <<>>, c) : c \in Styles}
LoopJobs == {Job("BOTH", <<"good">>, "loop"), Job("READ", <<"good">>, "loop")}
AskedTypes == {1, 3}
=============================================================================
