--------------------------- MODULE CMatchBookKeeper ---------------------------
(***************************************************************************)
(* cmtool::CMatchBookKeeper (UserDev/CMTool/CMToolBase/CMatchBookKeeper.cc) *)
(* collects candidate matches, sets of clusters of different planes, with  *)
(* a score each, and picks from them greedily from the best score down.    *)
(* The register is the std::multimap<float, vector> in its own order: by   *)
(* score, equal scores in the order of insertion.                          *)
(***************************************************************************)
EXTENDS Integers, SequencesExt, FiniteSetsExt

\* Match(): behind all of no better score.
Match(register, members, score) ==
  LET last == Max({0} \cup {k \in DOMAIN register : register[k].score <= score})
  IN InsertAt(register, last + 1, [score |-> score, members |-> members])

\* One round of PassResult's loop: used_index is the union of what is picked.
Picked(result, members) ==
  IF (UNION Range(result)) \intersect members = {} THEN Append(result, members) ELSE result

\* Faulty: the register is read forwards.
PassResultForwards(register) ==
  FoldLeft(LAMBDA result, e : Picked(result, e.members), <<>>, register)

\* PassResult(), GetResult()
PassResult(register) ==
  FoldLeft(LAMBDA result, e : Picked(result, e.members), <<>>, Reverse(register))

===============================================================================
