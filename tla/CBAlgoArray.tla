------------------------------ MODULE CBAlgoArray ------------------------------
(***************************************************************************)
(* cmtool::CBAlgoArray (UserDev/CMTool/CMTAlgMerge/CBAlgoArray.cc) asks a  *)
(* list of merging algorithms about a pair of clusters and joins their     *)
(* answers with AND or OR.  Bool() leaves its loop early where it can; a   *)
(* round of the loop is a step here, and what the algorithms would answer  *)
(* is chosen when Bool() is called.                                        *)
(*                                                                         *)
(* The array is an algorithm of CMergeManager; no name here is one of that *)
(* module's, so that a module can extend both.                             *)
(***************************************************************************)
EXTENDS Integers, SequencesExt

CONSTANT MaxAlgos  \* bound on the number of AddAlgo() calls

ASSUME MaxAlgosAssumption == MaxAlgos \in Nat

VARIABLES
  askAnd,   \* _ask_and, in the order of _algo_array, from 1
  lastAnd,  \* _last_and_algo_index, counted from 0 as in the code
  answers,  \* what the algorithms say of the pair that Bool() is asked about
  place,    \* the loop's position, from 0
  status,   \* the result so far
  doing     \* "idle", "loop", or "done" when Bool() has returned

arrayVars == <<askAnd, lastAnd, answers, place, status, doing>>

\* The constructor leaves _last_and_algo_index as the memory was.
ArrayInit ==
  /\ askAnd = <<>> /\ lastAnd \in 0 .. MaxAlgos
  /\ answers = <<>> /\ place = 0 /\ status = TRUE /\ doing = "idle"

\* Faulty: the index of the first algorithm.
IndexOfNewFirst == 0

IndexOfNew == Len(askAnd)

AddAlgo(ask) ==
  /\ doing # "loop" /\ Len(askAnd) < MaxAlgos
  /\ lastAnd' = IF ask THEN IndexOfNew ELSE lastAnd
  /\ askAnd' = Append(askAnd, ask)
  /\ doing' = "idle" /\ answers' = <<>> /\ place' = 0 /\ status' = TRUE

Bool(says) ==
  /\ doing # "loop"
  /\ answers' = says /\ place' = 0 /\ status' = TRUE /\ doing' = "loop"
  /\ UNCHANGED <<askAnd, lastAnd>>

\* Cases 1 and 2 of the code: the next algorithm's answer cannot change status.
Settled == IF askAnd[place + 1] THEN ~status ELSE status

\* Case 3: no AND is left, by the recorded index.
OnlyOrsLeft == place > lastAnd /\ status

\* Faulty: the cases apply to the first algorithm too.
BreaksAtFirst == place \in 0 .. Len(askAnd) - 1 /\ (Settled \/ OnlyOrsLeft)

Breaks == place \in 1 .. Len(askAnd) - 1 /\ (Settled \/ OnlyOrsLeft)

Round ==
  /\ doing = "loop" /\ place < Len(askAnd) /\ ~Breaks
  /\ status' = IF place = 0 THEN answers[1]
               ELSE IF askAnd[place + 1] THEN status /\ answers[place + 1]
               ELSE status \/ answers[place + 1]
  /\ place' = place + 1
  /\ UNCHANGED <<askAnd, lastAnd, answers, doing>>

Leave ==
  /\ doing = "loop" /\ (place = Len(askAnd) \/ Breaks)
  /\ doing' = "done"
  /\ UNCHANGED <<askAnd, lastAnd, answers, place, status>>

ArrayNext ==
  \/ \E ask \in BOOLEAN : AddAlgo(ask)
  \/ \E says \in [1 .. Len(askAnd) -> BOOLEAN] : Bool(says)
  \/ Round \/ Leave

ArraySpec == ArrayInit /\ [][ArrayNext]_arrayVars

-------------------------------------------------------------------------------
(* Properties.                                                             *)

ArrayTypeOK ==
  /\ askAnd \in Seq(BOOLEAN) /\ Len(askAnd) <= MaxAlgos
  /\ lastAnd \in 0 .. MaxAlgos
  /\ place \in 0 .. Len(askAnd) /\ status \in BOOLEAN
  /\ doing \in {"idle", "loop", "done"}
  /\ doing # "idle" => answers \in [1 .. Len(askAnd) -> BOOLEAN]

\* "the Merge() function return bool is taken as either AND or OR condition with
\* the result of previous algorithm (or simply with "true" for the 1st algo)"
\* (CBAlgoArray.hh:90): all answers, from left to right.
Documented ==
  LET joined[k \in 0 .. Len(askAnd)] ==
        IF k = 0 THEN TRUE
        ELSE IF k = 1 THEN answers[1]
        ELSE IF askAnd[k] THEN joined[k - 1] /\ answers[k] ELSE joined[k - 1] \/ answers[k]
  IN joined[Len(askAnd)]

\* With algorithms of one kind only, joined all by AND or all by OR, it does not
\* change: what an early exit leaves out could only repeat the decision.
OneKindAsDocumented ==
  doing = "done" /\ (\A j, k \in 2 .. Len(askAnd) : askAnd[j] = askAnd[k])
    => status = Documented

\* The recorded index never decides: whatever the constructor left in it, a
\* round that case 3 ends is one that case 1 or 2 ends.
IndexNeverDecides ==
  doing = "loop" /\ 0 < place /\ place < Len(askAnd) => (OnlyOrsLeft => Settled)

===============================================================================
