---------------------------- MODULE FemProcessWord ----------------------------
(***************************************************************************)
(* algo_fem_decoder_base::process_word().  The virtual functions it calls  *)
(* are parameters, which each decoder gives by instantiating the module.   *)
(***************************************************************************)
CONSTANTS
  KindOf(_),                 \* get_word_class() of a half
  ClearEvent(_),             \* clear_event()
  ProcessEventHeader(_),     \* process_event_header()
  ProcessEventLastWord(_),   \* process_event_last_word()
  ProcessFemLastWord(_),     \* process_fem_last_word()
  ProcessChWord(_, _),       \* process_ch_word()
  ProcessFemHeader(_, _),    \* process_fem_header()
  Fails(_)                   \* what any of them does when it returns false

\* The class of a 32-bit word is that of its lower half.
ClassOf(word) == IF word[1] = "P" THEN KindOf(word[2]) ELSE word[1]

\* The two halves in turn; the second is not looked at if the first fails.
SecondHalf(d, half) ==
  CASE d.status # "ok" -> d
    [] d.status = "ok" /\ KindOf(half) \in {"FF", "CH", "W", "CL"} -> ProcessChWord(d, half)
    [] d.status = "ok" /\ KindOf(half) = "FL" -> ProcessFemLastWord(d)
    [] OTHER -> Fails(d)
ProcessPair(d, word) == SecondHalf(ProcessChWord(d, word[2]), word[3])

\* Zero is tolerated as padding, where it is of no class.
IsPadding(d, word) == word[3] = <<"N">> /\ d.last \in {"EL", "FL"} /\ word[2] = <<"N">>

\* Words are skipped up to a module header.
StillSearching(d, word) == d.search /\ ~(ClassOf(word) = "F" /\ d.last # "F")

Dispatch(d, word) ==
  CASE ClassOf(word) = "EH" -> ProcessEventHeader(d)
    [] ClassOf(word) = "EL" -> ProcessEventLastWord(d)
    [] ClassOf(word) = "F" -> ProcessFemHeader(d, word)
    [] ClassOf(word) = "U" -> IF IsPadding(d, word) THEN d ELSE Fails(d)
    [] OTHER -> ProcessPair(d, word)

\* Faulty: a failed event is kept while searching for the next.
RecoverKeeping(d) == [d EXCEPT !.search = TRUE]

\* What debug mode does after a failure.
Recover(d) == ClearEvent([d EXCEPT !.search = TRUE])

\* A throw leaves before the recovery of debug mode.
Recovered(d, debug) == IF d.status = "fail" /\ debug THEN Recover(d) ELSE d
ProcessWord(before, word, debug) ==
  LET d == [before EXCEPT !.status = "ok", !.search = StillSearching(before, word)]
  IN IF d.search THEN [d EXCEPT !.last = "EH"] ELSE Recovered(Dispatch(d, word), debug)

===============================================================================
